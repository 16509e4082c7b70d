------------------------- MODULE BillingRemoteProofs -------------------------
(***************************************************************************)
(* The tool clients inside BillingRemote are McpClient: whatever the       *)
(* handlers, their sessions and the server do, the variables of the calls  *)
(* change only as McpClient changes them.  So what is proved of McpClient  *)
(* is true of the clients of the billing agent.                            *)
(*                                                                         *)
(* For any number of calls, local and remote: what is sent to the server   *)
(* is authorised and guarded by the idempotency key (Placed, Payments),    *)
(* one call at most about a request is answered that it is paid, a second  *)
(* one pays only where a call has failed (SendersAccounted), answers are   *)
(* on record, and the counters of BillingMetrics agree with the records    *)
(* (CountedInTime, CountedForAReason).                                     *)
(***************************************************************************)
EXTENDS BillingMetrics, TLAPS

\* The handlers' steps at a tool are steps of the client.
LEMMA StepAtATool ==
    ASSUME NEW h \in Handlers,
           CallTool(h) \/ GoOn(h) \/ CallReturns(h) \/ CallFails(h)
    PROVE  Client!Next
  <1>1. Client!Call(h) \/ Client!CallStep(h)
    BY DEF CallTool, GoOn, CallReturns, CallFails, Client!CallStep
  <1> QED
    BY <1>1 DEF Client!Next

\* A step of BillingRemote is a step of the clients, or none.
LEMMA StepOfTheClients == [RemoteNext]_remoteVars => [Client!Next]_(Client!vars)
  <1> SUFFICES ASSUME [RemoteNext]_remoteVars
               PROVE  Client!Next \/ UNCHANGED Client!vars
    OBVIOUS
  <1> USE DEF callVars, serverVars, Client!vars, Client!breaker, Client!server
  <1>1. ASSUME NEW h \in Handlers, HandlerStep(h)
        PROVE  Client!Next \/ UNCHANGED Client!vars
    BY <1>1, StepAtATool DEF HandlerStep, SessionStep
  <1>2. ASSUME NEW h \in Handlers, Arrive(h)
        PROVE  UNCHANGED Client!vars
    BY <1>2 DEF Arrive
  <1>3. ASSUME NEW h \in Handlers, RemoteAbort(h)
        PROVE  Client!Next \/ UNCHANGED Client!vars
    BY <1>3 DEF RemoteAbort, Client!Next
  <1>4. ASSUME NEW m \in arriving, ServerStep(m)
        PROVE  Client!Next
    BY <1>4 DEF ServerStep, Client!Next
  <1>5. ASSUME NEW c \in Chats, RemoteLapse(c)
        PROVE  UNCHANGED Client!vars
    BY <1>5 DEF RemoteLapse
  <1>6. CASE RemoteQuiescent \/ UNCHANGED remoteVars
    BY <1>6 DEF RemoteQuiescent, remoteVars
  <1> QED
    BY <1>1, <1>2, <1>3, <1>4, <1>5, <1>6 DEF RemoteNext

\* The calls of the billing agent's handlers are behaviours of McpClient, with a
\* client for each handler and a clock that stands still.
THEOREM HandlersUseTheClient ==
    RemoteSpec => Client!Init /\ [][Client!Next]_(Client!vars)
  <1>1. RemoteInit => Client!Init
    BY DEF RemoteInit
  <1> QED
    BY <1>1, StepOfTheClients, PTL DEF RemoteSpec

-----------------------------------------------------------------------------
(***************************************************************************)
(* Where each handler is tells what may be paid on its word.               *)
(***************************************************************************)
PayingChat     == {"check_key", "insert_key", "insert_credit", "complete", "commit_credit"}
AskingChat     == {"request_approval", "record_waiting", "commit_waiting"}
ReviewingChat  == {"review", "commit_review"}
PayingDecision == {"check_key", "insert_key", "insert_credit", "grant", "commit_approved"}

\* A chat may pay what it found, once its run is recorded; an approving decision
\* pays what is in the approval request it has found.
DueTo(h) ==
    /\ pc[h] \notin {"idle", "evaluate", "load"}
    /\ \/ /\ h \in Chats
          /\ Decision(bill[h].amount) = "AUTO_CREDIT"
          /\ workflows[h].status # "ABSENT"
       \/ /\ h \in Decisions
          /\ decisionCall[h].approval \in Chats
          /\ approvals[decisionCall[h].approval] # "ABSENT"
          /\ decisionCall[h].verdict = "approve"

ChatPlaced(c) ==
    /\ pc[c] \in ChatPlaces \cup {"record_waiting"}
    /\ pc[c] \in PayingChat => DueTo(c)
    /\ pc[c] \in AskingChat =>
         Decision(bill[c].amount) = "HUMAN_APPROVAL" /\ workflows[c].status # "ABSENT"
    /\ approvals[c] # "ABSENT" =>
         /\ pc[c] = "done"
         /\ ~ Remote(c)
         /\ Decision(bill[c].amount) = "HUMAN_APPROVAL"
         /\ workflows[c].status # "ABSENT"

DecisionPlaced(d) ==
    /\ pc[d] \in DecisionPlaces
    /\ pc[d] # "idle" => decisionCall[d].approval \in Chats
    /\ pc[d] \notin {"idle", "load", "done"} => approvals[decisionCall[d].approval] # "ABSENT"
    /\ pc[d] \in PayingDecision => DueTo(d)

Domains ==
    /\ pc = [h \in Handlers |-> pc[h]] /\ DOMAIN mode = Handlers
    /\ DOMAIN callPc = Handlers /\ DOMAIN tool = Handlers
    /\ DOMAIN bill = Chats /\ DOMAIN workflows = Chats /\ DOMAIN approvals = Chats
    /\ DOMAIN decisionCall = Decisions

\* A call under way is one the handler's place needs.
CallPlaced(h) == Client!InCall(h) => Remote(h) /\ Awaits(h, tool[h])

Placed ==
    /\ Domains
    /\ \A c \in Chats : ChatPlaced(c)
    /\ \A d \in Decisions : DecisionPlaced(d)
    /\ \A h \in Handlers : CallPlaced(h)
    /\ \A m \in Sent : m.request \in Handlers /\ DueTo(m.request)
    /\ \A k \in credits : k.by \in Handlers /\ DueTo(k.by)

-----------------------------------------------------------------------------
(***************************************************************************)
(* What the step of a handler can do to the variables that Placed is about *)
(* (but the calls).                                                        *)
(***************************************************************************)
MayGo(h, p) ==
    \/ pc[h] # "idle" /\ p = "done"
    \/ pc[h] = "idle" /\ p = (IF h \in Chats THEN "evaluate" ELSE "load")
    \/ /\ h \in Chats
       /\ \/ p = pc[h]
          \/ pc[h] = "evaluate" /\ p = "commit_evaluated"
          \/ /\ pc[h] = "commit_evaluated" /\ p = NextPlace(Decision(bill[h].amount))
             /\ workflows'[h].status # "ABSENT"
          \/ pc[h] \in PayingChat /\ p \in PayingChat
          \/ pc[h] \in AskingChat /\ p \in AskingChat
          \/ pc[h] \in ReviewingChat /\ p \in ReviewingChat
    \/ /\ h \in Decisions
       /\ \/ p = pc[h]
          \/ /\ pc[h] = "load" /\ p \in {"expire", "decide"}
             /\ approvals[decisionCall[h].approval] # "ABSENT"
          \/ /\ pc[h] \notin {"idle", "load", "done"}
             /\ p \in DecisionPlaces \ (PayingDecision \cup {"idle", "load"})
          \/ pc[h] = "decide" /\ decisionCall[h].verdict = "approve" /\ p \in PayingDecision
          \/ pc[h] \in PayingDecision /\ p \in PayingDecision

Effect(h) ==
    /\ \E p : pc' = [pc EXCEPT ![h] = p] /\ MayGo(h, p)
    /\ \/ bill' = bill
       \/ h \in Chats /\ pc[h] = "evaluate" /\ \E b : bill' = [bill EXCEPT ![h] = b]
    /\ \/ mode' = mode
       \/ pc[h] = "idle" /\ \E m : mode' = [mode EXCEPT ![h] = m]
    /\ \/ decisionCall' = decisionCall /\ (pc[h] # "idle" \/ h \in Chats)
       \/ /\ h \in Decisions /\ pc[h] = "idle"
          /\ \E a \in Chats, v \in Verdicts :
               decisionCall' = [decisionCall EXCEPT ![h] = [approval |-> a, verdict |-> v]]
    /\ DOMAIN workflows' = Chats /\ DOMAIN approvals' = Chats
    /\ \A c \in Chats : workflows[c].status # "ABSENT" => workflows'[c].status # "ABSENT"
    /\ \A c \in Chats :
         /\ approvals[c] # "ABSENT" => approvals'[c] # "ABSENT"
         /\ approvals[c] = "ABSENT" /\ approvals'[c] # "ABSENT" =>
              c = h /\ ~ Remote(h) /\ pc[h] = "commit_waiting" /\ pc'[h] = "done"
    /\ \A k \in credits' \ credits :
         /\ k.by = h
         /\ \/ h \in Chats /\ pc[h] = "commit_credit"
            \/ h \in Decisions /\ pc[h] = "commit_approved"

LEMMA QuietEffect ==
    ASSUME Domains, NEW h \in Handlers, NEW p, pc' = [pc EXCEPT ![h] = p], MayGo(h, p),
           pc[h] # "idle", UNCHANGED <<inputs, bill, tables, mode>>
    PROVE  Effect(h)
  <1>1. \E q : pc' = [pc EXCEPT ![h] = q] /\ MayGo(h, q)
    OBVIOUS
  <1>2. /\ bill' = bill /\ mode' = mode /\ decisionCall' = decisionCall
        /\ workflows' = workflows /\ approvals' = approvals /\ credits' = credits
    BY DEF inputs, tables
  <1> QED
    BY <1>1, <1>2 DEF Effect, Domains

LEMMA ChatEffect ==
    ASSUME Placed, NEW c \in Chats, ChatStep(c), UNCHANGED mode,
           Remote(c) => pc[c] \notin Replaced
    PROVE  Effect(c)
  <1> USE DEF Effect, MayGo, Goto, Answer, inputs, tables, PayingChat, AskingChat, ReviewingChat
  <1>0. c \in Handlers /\ Domains
    BY DEF Handlers, Placed
  <1>1. CASE RefuseAnalysis(c) \/ RefuseDuplicate(c)
    BY <1>0, <1>1 DEF RefuseAnalysis, RefuseDuplicate, Domains
  <1>2. CASE Evaluate(c)
    BY <1>0, <1>2 DEF Evaluate, Domains
  <1>3. CASE CommitEvaluated(c)
    <2>1. \A b \in Chats : workflows'[b] = IF b = c THEN Row("EVALUATED", "none") ELSE workflows[b]
      BY <1>0, <1>3 DEF CommitEvaluated, Domains
    <2>2. DOMAIN workflows' = Chats
      BY <1>0, <1>3 DEF CommitEvaluated, Domains
    <2> QED
      BY <1>0, <1>3, <2>1, <2>2 DEF CommitEvaluated, Domains, Row
  <1>4. CASE CheckKey(c) \/ InsertKey(c) \/ InsertCredit(c)
    <2>1. PICK p \in PayingChat \cup {"done"} :
            pc[c] \in PayingChat /\ pc' = [pc EXCEPT ![c] = p]
      BY <1>4 DEF CheckKey, InsertKey, InsertCredit
    <2>2. UNCHANGED <<inputs, bill, tables>>
      BY <1>4 DEF CheckKey, InsertKey, InsertCredit
    <2>3. MayGo(c, p)
      BY <2>1
    <2> HIDE DEF Effect, MayGo
    <2> QED
      BY <1>0, <2>1, <2>2, <2>3, QuietEffect
  <1>5. CASE CompleteCredit(c)
    BY <1>0, <1>5 DEF CompleteCredit, Domains
  <1>6. CASE CommitCredit(c)
    <2>1. \A b \in Chats :
            workflows'[b] = IF b = c THEN Row("COMPLETED", "credited") ELSE workflows[b]
      BY <1>0, <1>6 DEF CommitCredit, Domains
    <2>2. DOMAIN workflows' = Chats
      BY <1>0, <1>6 DEF CommitCredit, Domains
    <2>3. pc[c] = "commit_credit" /\ \A k \in credits' \ credits : k.by = c
      BY <1>6 DEF CommitCredit, CreditOf
    <2>4. pc' = [pc EXCEPT ![c] = "done"] /\ UNCHANGED <<inputs, bill, approvals>>
      BY <1>6 DEF CommitCredit
    <2> QED
      BY <1>0, <2>1, <2>2, <2>3, <2>4 DEF Domains, Row
  <1>7. CASE RequestApproval(c)
    BY <1>0, <1>7 DEF RequestApproval, Domains
  <1>8. CASE CommitWaiting(c)
    <2>1. ~ Remote(c)
      BY <1>8 DEF CommitWaiting, Replaced
    <2>2. \A b \in Chats : approvals'[b] = IF b = c THEN "PENDING" ELSE approvals[b]
      BY <1>0, <1>8 DEF CommitWaiting, Domains
    <2>3. \A b \in Chats :
            workflows'[b] = IF b = c THEN Row("WAITING_APPROVAL", "none") ELSE workflows[b]
      BY <1>0, <1>8 DEF CommitWaiting, Domains
    <2>4. DOMAIN workflows' = Chats /\ DOMAIN approvals' = Chats /\ pc'[c] = "done"
      BY <1>0, <1>8 DEF CommitWaiting, Domains
    <2> QED
      BY <1>0, <1>8, <2>1, <2>2, <2>3, <2>4 DEF CommitWaiting, Row
  <1>9. CASE Review(c)
    BY <1>0, <1>9 DEF Review, Domains
  <1>10. CASE CommitReview(c)
    BY <1>0, <1>10 DEF CommitReview, Domains, Row
  <1> QED
    BY <1>1, <1>2, <1>3, <1>4, <1>5, <1>6, <1>7, <1>8, <1>9, <1>10 DEF ChatStep

LEMMA DecisionEffect ==
    ASSUME Placed, NEW d \in Decisions, DecisionStep(d), UNCHANGED mode
    PROVE  Effect(d)
  <1> DEFINE w == decisionCall[d].approval
  <1> USE DEF Effect, MayGo, Goto, Answer, inputs, tables, PayingDecision, DecisionPlaces
  <1>0. /\ d \in Handlers /\ d \notin Chats /\ Domains
        /\ pc[d] # "idle" => w \in Chats
        /\ pc[d] \notin {"idle", "load", "done"} => approvals[w] # "ABSENT"
        /\ WorkflowOf(d) = w
    BY HandlersDiffer DEF Handlers, Placed, DecisionPlaced, WorkflowOf
  <1>1. CASE LoadApproval(d)
    <2>1. \/ Goto(d, "done")
          \/ approvals[w] = "PENDING" /\ (Goto(d, "expire") \/ Goto(d, "decide"))
      BY <1>0, <1>1 DEF LoadApproval
    <2>2. pc[d] = "load" /\ UNCHANGED <<inputs, bill, tables>>
      BY <1>1 DEF LoadApproval
    <2> QED
      BY <1>0, <2>1, <2>2 DEF Domains
  <1>2. CASE ExpireFlush(d) \/ RaiseExpired(d) \/ Grant(d) \/ Reject(d) \/ Notify(d)
    BY <1>0, <1>2 DEF ExpireFlush, RaiseExpired, Grant, Reject, Notify, Domains
  <1>3. CASE Decide(d)
    <2>1. PICK p \in {"check_key", "reject"} :
            /\ pc' = [pc EXCEPT ![d] = p]
            /\ p = "check_key" => decisionCall[d].verdict = "approve"
      BY <1>3 DEF Decide
    <2>2. pc[d] = "decide" /\ UNCHANGED <<inputs, bill, tables>>
      BY <1>3 DEF Decide
    <2> QED
      BY <1>0, <2>1, <2>2 DEF Domains
  <1>4. CASE CheckKey(d) \/ InsertKey(d) \/ InsertCredit(d)
    <2>1. PICK p \in PayingDecision \cup {"done"} :
            pc[d] \in PayingDecision /\ pc' = [pc EXCEPT ![d] = p]
      BY <1>0, <1>4 DEF CheckKey, InsertKey, InsertCredit
    <2>2. UNCHANGED <<inputs, bill, tables>>
      BY <1>4 DEF CheckKey, InsertKey, InsertCredit
    <2>3. MayGo(d, p)
      BY <1>0, <2>1
    <2> HIDE DEF Effect, MayGo
    <2> QED
      BY <1>0, <2>1, <2>2, <2>3, QuietEffect
  <1>5. CASE CommitApproved(d) \/ CommitRejected(d)
    <2>1. PICK s \in {"APPROVED", "REJECTED"} : approvals' = [approvals EXCEPT ![w] = s]
      BY <1>0, <1>5 DEF CommitApproved, CommitRejected
    <2>2. PICK r : workflows' = [workflows EXCEPT ![w] = Row("COMPLETED", r)]
      BY <1>0, <1>5 DEF CommitApproved, CommitRejected
    <2>3. /\ pc[d] \in {"commit_approved", "commit_rejected"}
          /\ pc' = [pc EXCEPT ![d] = "notify"] /\ UNCHANGED <<bill, decisionCall>>
      BY <1>5 DEF CommitApproved, CommitRejected
    <2>4. \A k \in credits' \ credits : k.by = d /\ pc[d] = "commit_approved"
      BY <1>5 DEF CommitApproved, CommitRejected, CreditOf
    <2>5. \A b \in Chats : approvals'[b] = IF b = w THEN s ELSE approvals[b]
      BY <1>0, <2>1 DEF Domains
    <2>6. \A b \in Chats : workflows'[b] = IF b = w THEN Row("COMPLETED", r) ELSE workflows[b]
      BY <1>0, <2>2 DEF Domains
    <2>7. DOMAIN workflows' = Chats /\ DOMAIN approvals' = Chats
      BY <1>0, <2>1, <2>2 DEF Domains
    <2>8. MayGo(d, "notify")
      BY <1>0, <2>3
    <2>9. \A b \in Chats :
            /\ workflows[b].status # "ABSENT" => workflows'[b].status # "ABSENT"
            /\ approvals[b] # "ABSENT" => approvals'[b] # "ABSENT"
            /\ approvals[b] = "ABSENT" => approvals'[b] = "ABSENT"
      BY <1>0, <2>3, <2>5, <2>6 DEF Row
    <2> HIDE DEF MayGo
    <2> QED
      BY <1>0, <2>3, <2>4, <2>7, <2>8, <2>9
  <1> QED
    BY <1>1, <1>2, <1>3, <1>4, <1>5 DEF DecisionStep

LEMMA SessionEffect ==
    ASSUME Placed, NEW h \in Handlers, SessionStep(h)
    PROVE  Effect(h)
  <1>0. UNCHANGED mode
    BY DEF SessionStep
  <1>1. CASE ChatStep(h) /\ h \in Chats /\ (Remote(h) => pc[h] \notin Replaced)
    BY <1>0, <1>1, ChatEffect
  <1>2. CASE DecisionStep(h) /\ h \notin Chats
    BY <1>0, <1>2, DecisionEffect DEF Handlers
  <1> USE DEF Effect, MayGo, Goto, Answer, inputs, tables
  <1>3. /\ Domains
        /\ h \in Chats => pc[h] \in ChatPlaces \cup {"record_waiting"}
        /\ h \notin Chats => h \in Decisions /\ pc[h] \in DecisionPlaces
    BY DEF Placed, ChatPlaced, DecisionPlaced, Handlers
  <1>4. CASE CommitRemoteCredit(h)
    <2>1. h \in Chats
      BY <1>3, <1>4 DEF CommitRemoteCredit, DecisionPlaces
    <2> QED
      BY <1>0, <1>3, <1>4, <2>1 DEF CommitRemoteCredit, Domains, Row
  <1>5. CASE CommitRemoteApproved(h)
    <2> DEFINE w == decisionCall[h].approval
    <2>1. h \in Decisions /\ h \notin Chats /\ pc[h] = "commit_approved"
      BY <1>3, <1>5 DEF CommitRemoteApproved, ChatPlaces
    <2>2. w \in Chats /\ approvals[w] # "ABSENT" /\ WorkflowOf(h) = w
      BY <2>1 DEF Placed, DecisionPlaced, WorkflowOf
    <2>3. /\ pc' = [pc EXCEPT ![h] = "notify"]
          /\ approvals' = [approvals EXCEPT ![w] = "APPROVED"]
          /\ workflows' = [workflows EXCEPT ![w] = Row("COMPLETED", "approved")]
          /\ UNCHANGED <<bill, decisionCall, credits>>
      BY <1>5, <2>2 DEF CommitRemoteApproved
    <2>4. \A b \in Chats : approvals'[b] = IF b = w THEN "APPROVED" ELSE approvals[b]
      BY <1>3, <2>3 DEF Domains
    <2>5. \A b \in Chats :
            workflows'[b] = IF b = w THEN Row("COMPLETED", "approved") ELSE workflows[b]
      BY <1>3, <2>3 DEF Domains
    <2>6. DOMAIN workflows' = Chats /\ DOMAIN approvals' = Chats
      BY <1>3, <2>3 DEF Domains
    <2>7. MayGo(h, "notify")
      BY <2>1 DEF DecisionPlaces, PayingDecision
    <2>8. \A b \in Chats :
            /\ workflows[b].status # "ABSENT" => workflows'[b].status # "ABSENT"
            /\ approvals[b] # "ABSENT" => approvals'[b] # "ABSENT"
            /\ approvals[b] = "ABSENT" => approvals'[b] = "ABSENT"
      BY <2>2, <2>4, <2>5 DEF Row
    <2> HIDE DEF MayGo
    <2> QED
      BY <1>0, <2>1, <2>3, <2>6, <2>7, <2>8
  <1>6. CASE RecordWaiting(h)
    <2>1. h \in Chats
      BY <1>3, <1>6 DEF RecordWaiting, DecisionPlaces
    <2> QED
      BY <1>0, <1>3, <1>6, <2>1 DEF RecordWaiting, Domains, AskingChat
  <1>7. CASE CommitRemoteWaiting(h)
    <2>1. h \in Chats
      BY <1>3, <1>7 DEF CommitRemoteWaiting, DecisionPlaces
    <2> QED
      BY <1>0, <1>3, <1>7, <2>1 DEF CommitRemoteWaiting, Domains, Row
  <1> QED
    BY <1>1, <1>2, <1>3, <1>4, <1>5, <1>6, <1>7 DEF SessionStep

LEMMA ToolEffect ==
    ASSUME Placed, NEW h \in Handlers,
           CallTool(h) \/ GoOn(h) \/ CallReturns(h) \/ CallFails(h)
    PROVE  Effect(h)
  <1> USE DEF Effect, MayGo, Goto, Answer, inputs, tables
  <1>0. /\ Domains
        /\ CallPlaced(h)
        /\ h \in Chats => pc[h] \in ChatPlaces \cup {"record_waiting"}
        /\ h \notin Chats => h \in Decisions /\ pc[h] \in DecisionPlaces
    BY DEF Placed, ChatPlaced, DecisionPlaced, Handlers
  <1>1. CASE CallTool(h) \/ GoOn(h)
    <2>1. UNCHANGED <<vars, mode>>
      BY <1>1 DEF CallTool, GoOn
    <2>2. pc' = [pc EXCEPT ![h] = pc[h]]
      BY <1>0, <2>1 DEF vars, Domains
    <2>3. MayGo(h, pc[h])
      BY DEF Handlers
    <2>4. UNCHANGED <<inputs, bill, tables, mode>>
      BY <2>1 DEF vars
    <2>5. pc[h] # "idle"
      BY <1>0, <1>1 DEF CallTool, GoOn, CallPlaced, Awaits, Client!InCall,
                        Client!Enter, Client!Post, Client!BackOff, Client!Retry, Client!FailsFor
    <2> HIDE DEF Effect, MayGo
    <2> QED
      BY <1>0, <2>2, <2>3, <2>4, <2>5, QuietEffect
  <1>2. CASE CallReturns(h)
    <2>1. Client!InCall(h) /\ UNCHANGED <<inputs, bill, tables, mode>>
      BY <1>2 DEF CallReturns, Client!Succeed, Client!InCall
    <2>2. Awaits(h, tool[h]) /\ pc[h] # "idle"
      BY <1>0, <2>1 DEF CallPlaced, Awaits
    <2>3. CASE tool[h] = "create_credit"
      <3>1. pc[h] = "insert_credit"
        BY <2>2, <2>3 DEF Awaits, Client!Reads
      <3>2. pc' = [pc EXCEPT ![h] = IF h \in Chats THEN "complete" ELSE "grant"]
        BY <1>2, <2>3 DEF CallReturns
      <3> DEFINE p == IF h \in Chats THEN "complete" ELSE "grant"
      <3>3. MayGo(h, p)
        BY <1>0, <3>1 DEF PayingChat, PayingDecision
      <3> HIDE DEF p, Effect, MayGo
      <3> QED
        BY <1>0, <2>1, <2>2, <3>2, <3>3, QuietEffect DEF p
    <2>4. CASE tool[h] = "request_approval"
      <3>1. pc[h] = "request_approval"
        BY <2>2, <2>4 DEF Awaits, Client!Reads
      <3>2. pc' = [pc EXCEPT ![h] = "record_waiting"]
        BY <1>2, <2>4 DEF CallReturns
      <3>3. h \in Chats
        BY <1>0, <3>1 DEF DecisionPlaces
      <3> QED
        BY <1>0, <2>1, <3>1, <3>2, <3>3 DEF Domains, AskingChat
    <2>5. CASE tool[h] \notin {"create_credit", "request_approval"}
      <3>1. pc' = pc
        BY <1>2, <2>5 DEF CallReturns
      <3>2. pc' = [pc EXCEPT ![h] = pc[h]]
        BY <1>0, <3>1 DEF Domains
      <3> QED
        BY <1>0, <2>1, <2>2, <3>2 DEF Domains, Handlers
    <2> QED
      BY <2>3, <2>4, <2>5
  <1>3. CASE CallFails(h)
    <2>1. Client!InCall(h)
      BY <1>3 DEF CallFails, Client!GiveUp, Client!FailsFor, Client!Malformed,
                  Client!InvalidResult, Client!InCall
    <2>2. pc[h] # "idle"
      BY <1>0, <2>1 DEF CallPlaced, Awaits
    <2> QED
      BY <1>0, <1>3, <2>2 DEF CallFails, Domains
  <1> QED
    BY <1>1, <1>2, <1>3

LEMMA OtherEffect ==
    ASSUME Placed, NEW h \in Handlers, Arrive(h) \/ RemoteAbort(h)
    PROVE  Effect(h)
  <1> USE DEF Effect, MayGo, Goto, Answer, inputs, tables
  <1>0. Domains /\ (h \notin Chats => h \in Decisions)
    BY DEF Placed, Handlers
  <1>1. CASE Arrive(h) /\ h \in Chats
    BY <1>0, <1>1 DEF Arrive, ReceiveChat, Domains
  <1>2. CASE Arrive(h) /\ h \notin Chats
    BY <1>0, <1>2 DEF Arrive, ReceiveDecision, Domains
  <1>3. CASE RemoteAbort(h)
    BY <1>0, <1>3 DEF RemoteAbort, Abort, Domains
  <1> QED
    BY <1>1, <1>2, <1>3

-----------------------------------------------------------------------------
(***************************************************************************)
(* Such a step keeps Placed, whoever takes it.                             *)
(***************************************************************************)

\* What is due to a handler stays due to it: the bill of a chat is fixed when
\* its run is recorded, and no run and no approval request goes away.
LEMMA DueStaysDue ==
    ASSUME Placed, NEW h \in Handlers, Effect(h), NEW g \in Handlers, DueTo(g)
    PROVE  DueTo(g)'
  <1>1. Domains
    BY DEF Placed
  <1>2. pc'[g] \notin {"idle", "evaluate", "load"}
    BY <1>1 DEF Effect, MayGo, Domains, DueTo, NextPlace, DecisionPlaces, PayingChat,
                AskingChat, ReviewingChat, PayingDecision
  <1>3. CASE g \in Chats
    <2>1. bill'[g] = bill[g]
      BY <1>1, <1>3 DEF Effect, Domains, DueTo
    <2>2. g \notin Decisions
      BY <1>3, HandlersDiffer
    <2> QED
      BY <1>2, <1>3, <2>1, <2>2 DEF Effect, DueTo
  <1>4. CASE g \notin Chats
    <2>1. decisionCall'[g] = decisionCall[g]
      BY <1>1, <1>4 DEF Effect, Domains, DueTo
    <2> QED
      BY <1>2, <1>4, <2>1 DEF Effect, DueTo
  <1> QED
    BY <1>3, <1>4

LEMMA ChatsStayPlaced ==
    ASSUME Placed, NEW h \in Handlers, Effect(h), NEW c \in Chats
    PROVE  ChatPlaced(c)'
  <1>0. Domains /\ ChatPlaced(c) /\ c \in Handlers
    BY DEF Placed, Handlers
  <1>1. CASE c # h
    <2>1. /\ pc'[c] = pc[c] /\ bill'[c] = bill[c] /\ mode'[c] = mode[c]
          /\ workflows[c].status # "ABSENT" => workflows'[c].status # "ABSENT"
          /\ approvals'[c] # "ABSENT" => approvals[c] # "ABSENT"
      BY <1>0, <1>1 DEF Effect, Domains
    <2>2. pc[c] \in PayingChat => DueTo(c)'
      BY <1>0, DueStaysDue DEF ChatPlaced
    <2> QED
      BY <1>0, <2>1, <2>2 DEF ChatPlaced, Remote
  <1>2. CASE c = h
    <2>1. PICK p : pc' = [pc EXCEPT ![c] = p] /\ MayGo(c, p)
      BY <1>2 DEF Effect
    <2>2. pc'[c] = p /\ c \notin Decisions
      BY <1>0, <2>1, HandlersDiffer DEF Domains
    <2>3. /\ workflows[c].status # "ABSENT" => workflows'[c].status # "ABSENT"
          /\ pc[c] # "evaluate" => bill'[c] = bill[c]
          /\ pc[c] # "idle" => mode'[c] = mode[c]
      BY <1>0, <1>2 DEF Effect
    <2>4. p \in ChatPlaces \cup {"record_waiting"}
      BY <1>0, <2>1, <2>2 DEF MayGo, ChatPlaced, ChatPlaces, NextPlace, PayingChat,
                              AskingChat, ReviewingChat
    <2>5. p \in PayingChat => DueTo(c)'
      <3>1. CASE pc[c] \in PayingChat
        BY <1>0, <3>1, DueStaysDue DEF ChatPlaced
      <3>2. CASE pc[c] \notin PayingChat /\ p \in PayingChat
        <4>1. /\ pc[c] = "commit_evaluated" /\ p = NextPlace(Decision(bill[c].amount))
              /\ workflows'[c].status # "ABSENT"
          BY <2>1, <2>2, <3>2, <1>2 DEF MayGo, PayingChat, AskingChat, ReviewingChat
        <4>2. Decision(bill[c].amount) = "AUTO_CREDIT"
          BY <3>2, <4>1 DEF NextPlace, PayingChat
        <4>3. bill'[c] = bill[c] /\ pc'[c] \notin {"idle", "evaluate", "load"}
          BY <2>2, <2>3, <3>2, <4>1 DEF PayingChat
        <4> QED
          BY <4>1, <4>2, <4>3 DEF DueTo
      <3> QED
        BY <3>1, <3>2
    <2>6. p \in AskingChat =>
            Decision(bill'[c].amount) = "HUMAN_APPROVAL" /\ workflows'[c].status # "ABSENT"
      <3>1. CASE pc[c] \in AskingChat
        BY <1>0, <2>3, <3>1 DEF ChatPlaced, AskingChat
      <3>2. CASE pc[c] \notin AskingChat /\ p \in AskingChat
        <4>1. /\ pc[c] = "commit_evaluated" /\ p = NextPlace(Decision(bill[c].amount))
              /\ workflows'[c].status # "ABSENT"
          BY <2>1, <2>2, <3>2 DEF MayGo, PayingChat, AskingChat, ReviewingChat
        <4>2. Decision(bill[c].amount) = "HUMAN_APPROVAL"
          BY <3>2, <4>1 DEF NextPlace, AskingChat
        <4> QED
          BY <2>3, <4>1, <4>2
      <3> QED
        BY <3>1, <3>2
    <2>7. approvals'[c] # "ABSENT" =>
            p = "done" /\ ~ Remote(c)' /\ Decision(bill'[c].amount) = "HUMAN_APPROVAL"
              /\ workflows'[c].status # "ABSENT"
      <3>1. CASE approvals[c] # "ABSENT"
        <4>1. pc[c] = "done" /\ p = "done"
          BY <1>0, <2>1, <2>2, <3>1 DEF ChatPlaced, MayGo, PayingChat, AskingChat, ReviewingChat
        <4> QED
          BY <1>0, <2>3, <3>1, <4>1 DEF ChatPlaced, Remote
      <3>2. CASE approvals[c] = "ABSENT" /\ approvals'[c] # "ABSENT"
        <4>1. ~ Remote(c) /\ pc[c] = "commit_waiting" /\ pc'[c] = "done"
          BY <1>2, <3>2 DEF Effect
        <4> QED
          BY <1>0, <2>2, <2>3, <4>1 DEF ChatPlaced, Remote, AskingChat
      <3> QED
        BY <3>1, <3>2
    <2> QED
      BY <2>2, <2>4, <2>5, <2>6, <2>7 DEF ChatPlaced
  <1> QED
    BY <1>1, <1>2

LEMMA DecisionsStayPlaced ==
    ASSUME Placed, NEW h \in Handlers, Effect(h), NEW d \in Decisions
    PROVE  DecisionPlaced(d)'
  <1>0. Domains /\ DecisionPlaced(d) /\ d \in Handlers /\ d \notin Chats
    BY HandlersDiffer DEF Placed, Handlers
  <1>1. \A c \in Chats : approvals[c] # "ABSENT" => approvals'[c] # "ABSENT"
    BY DEF Effect
  <1>2. pc[d] \in PayingDecision => DueTo(d)'
    BY <1>0, DueStaysDue DEF DecisionPlaced
  <1>3. CASE d # h
    <2>1. pc'[d] = pc[d] /\ decisionCall'[d] = decisionCall[d]
      BY <1>0, <1>3 DEF Effect, Domains
    <2> QED
      BY <1>0, <1>1, <1>2, <2>1 DEF DecisionPlaced
  <1>4. CASE d = h
    <2>1. PICK p : pc' = [pc EXCEPT ![d] = p] /\ MayGo(d, p)
      BY <1>4 DEF Effect
    <2>2. pc'[d] = p
      BY <1>0, <2>1 DEF Domains
    <2>3. CASE pc[d] = "idle"
      <3>1. p \in {"idle", "load"}
        BY <1>0, <2>1, <2>3 DEF MayGo, PayingDecision
      <3>2. decisionCall'[d].approval \in Chats
        BY <1>0, <1>4, <2>3 DEF Effect, Domains
      <3> QED
        BY <2>2, <3>1, <3>2 DEF DecisionPlaced, DecisionPlaces, PayingDecision
    <2>4. CASE pc[d] # "idle"
      <3>1. decisionCall'[d] = decisionCall[d] /\ decisionCall[d].approval \in Chats
        BY <1>0, <1>4, <2>4 DEF Effect, DecisionPlaced
      <3>2. p \in DecisionPlaces
        BY <1>0, <2>1 DEF MayGo, DecisionPlaced, DecisionPlaces, PayingDecision
      <3>3. p \notin {"idle", "load", "done"} => approvals[decisionCall[d].approval] # "ABSENT"
        BY <1>0, <2>1, <2>4 DEF MayGo, DecisionPlaced, PayingDecision
      <3>4. p \in PayingDecision =>
              pc[d] \in PayingDecision \/ (pc[d] = "decide" /\ decisionCall[d].verdict = "approve")
        <4> SUFFICES ASSUME p \in PayingDecision, pc[d] \notin PayingDecision
                     PROVE  pc[d] = "decide" /\ decisionCall[d].verdict = "approve"
          OBVIOUS
        <4>1. p \notin {"done", "expire", "decide"}
          BY DEF PayingDecision
        <4> QED
          BY <1>0, <2>1, <2>4, <4>1 DEF MayGo
      <3>5. p \in PayingDecision => DueTo(d)'
        BY <1>0, <1>1, <1>2, <2>2, <3>1, <3>3, <3>4 DEF DueTo, PayingDecision
      <3> QED
        BY <1>1, <2>2, <3>1, <3>2, <3>3, <3>5 DEF DecisionPlaced
    <2> QED
      BY <2>3, <2>4
  <1> QED
    BY <1>3, <1>4

\* All of Placed but the calls and what is sent.
LEMMA EffectIsPlaced ==
    ASSUME Placed, NEW h \in Handlers, Effect(h)
    PROVE  /\ pc' = [g \in Handlers |-> pc'[g]] /\ DOMAIN mode' = Handlers
           /\ DOMAIN bill' = Chats /\ DOMAIN workflows' = Chats /\ DOMAIN approvals' = Chats
           /\ DOMAIN decisionCall' = Decisions
           /\ \A c \in Chats : ChatPlaced(c)'
           /\ \A d \in Decisions : DecisionPlaced(d)'
           /\ \A g \in Handlers : DueTo(g) => DueTo(g)'
           /\ \A k \in credits' : k.by \in Handlers /\ DueTo(k.by)'
  <1>0. Domains
    BY DEF Placed
  <1>1. pc' = [g \in Handlers |-> pc'[g]]
    BY <1>0 DEF Effect, Domains
  <1>2. /\ DOMAIN mode' = Handlers /\ DOMAIN bill' = Chats
        /\ DOMAIN workflows' = Chats /\ DOMAIN approvals' = Chats
        /\ DOMAIN decisionCall' = Decisions
    BY <1>0 DEF Effect, Domains
  <1>3. \A c \in Chats : ChatPlaced(c)'
    BY ChatsStayPlaced
  <1>4. \A d \in Decisions : DecisionPlaced(d)'
    BY DecisionsStayPlaced
  <1>5. \A g \in Handlers : DueTo(g) => DueTo(g)'
    BY DueStaysDue
  <1>6. ASSUME NEW k \in credits'
        PROVE  k.by \in Handlers /\ DueTo(k.by)'
    <2>1. CASE k \in credits
      BY <1>5, <2>1 DEF Placed
    <2>2. CASE k \notin credits
      <3>1. /\ k.by = h
            /\ \/ h \in Chats /\ pc[h] = "commit_credit"
               \/ h \in Decisions /\ pc[h] = "commit_approved"
        BY <2>2 DEF Effect
      <3>2. DueTo(h)
        BY <3>1 DEF Placed, ChatPlaced, DecisionPlaced, PayingChat, PayingDecision
      <3> QED
        BY <1>5, <3>1, <3>2
    <2> QED
      BY <2>1, <2>2
  <1> QED
    BY <1>1, <1>2, <1>3, <1>4, <1>5, <1>6

-----------------------------------------------------------------------------
(***************************************************************************)
(* The calls, what they send, and the whole invariant.                     *)
(***************************************************************************)

\* What a step must do to the calls, besides its effect.
CallsFollow(h) ==
    /\ DOMAIN callPc' = Handlers /\ DOMAIN tool' = Handlers
    /\ \A g \in Handlers : CallPlaced(g)'
    /\ \A m \in Sent' \ Sent : m.request = h /\ DueTo(h)

LEMMA FollowedIsPlaced ==
    ASSUME Placed, NEW h \in Handlers, Effect(h), CallsFollow(h)
    PROVE  Placed'
  <1>1. Domains'
    BY EffectIsPlaced DEF CallsFollow, Domains
  <1>2. \A m \in Sent' : m.request \in Handlers /\ DueTo(m.request)'
    BY EffectIsPlaced DEF CallsFollow, Placed
  <1> QED
    BY <1>1, <1>2, EffectIsPlaced DEF CallsFollow, Placed

\* In the middle of a call a handler has no step in its session.
LEMMA CallingIsNoSession ==
    ASSUME Placed, NEW h \in Handlers, SessionStep(h)
    PROVE  ~ Client!InCall(h)
  <1> SUFFICES ASSUME Client!InCall(h)
               PROVE  FALSE
    OBVIOUS
  <1>1. Remote(h) /\ Awaits(h, tool[h]) /\ callPc[h] # "ready"
    BY DEF Placed, CallPlaced, Client!InCall
  <1>2. pc[h] \in {"evaluate", "insert_credit", "request_approval"}
    BY <1>1 DEF Awaits
  <1> QED
    BY <1>1, <1>2 DEF SessionStep, Replaced, CommitRemoteCredit, CommitRemoteApproved,
                      RecordWaiting, CommitRemoteWaiting

LEMMA SessionKeepsPlaced ==
    ASSUME Placed, NEW h \in Handlers, SessionStep(h)
    PROVE  Placed'
  <1>1. Effect(h)
    BY SessionEffect
  <1>2. UNCHANGED <<mode, callPc, tool, arriving, written>>
    BY DEF SessionStep, callVars, serverVars
  <1>3. ASSUME NEW g \in Handlers, Client!InCall(g)'
        PROVE  Remote(g)' /\ Awaits(g, tool[g])'
    <2>1. Client!InCall(g)
      BY <1>2, <1>3 DEF Client!InCall
    <2>2. g # h
      BY <2>1, CallingIsNoSession
    <2>3. pc'[g] = pc[g]
      BY <1>1, <2>2 DEF Effect, Placed, Domains
    <2> QED
      BY <1>2, <2>1, <2>3 DEF Placed, CallPlaced, Remote, Awaits, Client!Reads
  <1>4. CallsFollow(h)
    BY <1>2, <1>3 DEF CallsFollow, CallPlaced, Sent, Placed, Domains
  <1> QED
    BY <1>1, <1>4, FollowedIsPlaced

\* A call begins where the handler needs its tool, and sends a credit only
\* where the handler may insert one.
LEMMA CallKeepsPlaced ==
    ASSUME Placed, NEW h \in Handlers, CallTool(h) \/ GoOn(h)
    PROVE  Placed'
  <1>0. Domains /\ CallPlaced(h)
    BY DEF Placed
  <1>1. Effect(h)
    BY ToolEffect
  <1>2. pc' = pc /\ mode' = mode
    BY DEF CallTool, GoOn, vars
  <1>3. /\ DOMAIN callPc' = Handlers /\ DOMAIN tool' = Handlers
        /\ \A g \in Handlers \ {h} : callPc'[g] = callPc[g] /\ tool'[g] = tool[g]
    BY <1>0 DEF CallTool, GoOn, Client!Call, Client!Enter, Client!Post, Client!BackOff,
                Client!Retry, Client!Goto, Domains
  <1>4. Remote(h) /\ Awaits(h, tool'[h])
    <2>1. CASE CallTool(h)
      BY <2>1 DEF CallTool
    <2>2. CASE GoOn(h)
      <3>1. Client!InCall(h) /\ tool' = tool
        BY <2>2 DEF GoOn, Client!Enter, Client!Post, Client!BackOff, Client!Retry,
                    Client!FailsFor, Client!InCall
      <3> QED
        BY <1>0, <3>1 DEF CallPlaced
    <2> QED
      BY <2>1, <2>2
  <1>5. ASSUME NEW g \in Handlers, Client!InCall(g)'
        PROVE  Remote(g)' /\ Awaits(g, tool[g])'
    <2>1. CASE g = h
      BY <1>2, <1>4, <2>1 DEF Remote, Awaits
    <2>2. CASE g # h
      BY <1>2, <1>3, <1>5, <2>2 DEF Placed, CallPlaced, Remote, Awaits, Client!InCall
    <2> QED
      BY <2>1, <2>2
  <1>6. ASSUME NEW m \in Sent' \ Sent
        PROVE  m.request = h /\ DueTo(h)
    <2>1. Client!Post(h) /\ m = Client!Message(h) /\ m.tool = "create_credit"
      BY <1>6 DEF CallTool, GoOn, Client!Call, Client!Enter, Client!Post, Client!BackOff,
                  Client!Retry, Client!server, Sent
    <2>2. m.request = h /\ tool[h] = "create_credit"
      BY <2>1 DEF Client!Message
    <2>3. Client!InCall(h)
      BY <2>1 DEF Client!Post, Client!InCall
    <2>4. pc[h] = "insert_credit"
      BY <1>0, <2>2, <2>3 DEF CallPlaced, Awaits, Client!Reads
    <2> QED
      BY <2>2, <2>4 DEF Placed, ChatPlaced, DecisionPlaced, PayingChat, PayingDecision, Handlers
  <1> QED
    BY <1>1, <1>3, <1>5, <1>6, FollowedIsPlaced DEF CallsFollow, CallPlaced

\* A call that is over asks for no place.
LEMMA EndKeepsPlaced ==
    ASSUME Placed, NEW h \in Handlers,
           CallReturns(h) \/ CallFails(h) \/ Arrive(h) \/ RemoteAbort(h)
    PROVE  Placed'
  <1>0. Domains /\ CallPlaced(h)
    BY DEF Placed
  <1>1. Effect(h)
    BY ToolEffect, OtherEffect
  <1>2. /\ tool' = tool /\ arriving' = arriving /\ written' = written
        /\ DOMAIN callPc' = Handlers
        /\ \A g \in Handlers \ {h} : callPc'[g] = callPc[g]
    BY <1>0 DEF CallReturns, CallFails, Arrive, RemoteAbort, callVars, serverVars,
                Client!Succeed, Client!GiveUp, Client!Malformed, Client!InvalidResult,
                Client!Cancel, Client!Finish, Client!Goto, Client!server, Domains
  <1>3. ~ Client!InCall(h)'
    <2>1. CASE CallReturns(h)
      BY <1>0, <2>1 DEF CallReturns, Client!Succeed, Client!Goto, Client!InCall, Domains
    <2>2. CASE CallFails(h)
      BY <1>0, <2>2 DEF CallFails, Client!GiveUp, Client!Malformed, Client!InvalidResult,
                        Client!Finish, Client!Goto, Client!InCall, Domains
    <2>3. CASE Arrive(h)
      <3>1. pc[h] = "idle" /\ callPc' = callPc
        BY <2>3 DEF Arrive, ReceiveChat, ReceiveDecision, callVars
      <3> QED
        BY <1>0, <3>1 DEF CallPlaced, Awaits, Client!InCall
    <2>4. CASE RemoteAbort(h)
      BY <1>0, <2>4 DEF RemoteAbort, Client!Cancel, Client!Finish, Client!Goto, Client!InCall,
                        callVars, Domains
    <2> QED
      BY <2>1, <2>2, <2>3, <2>4
  <1>4. ASSUME NEW g \in Handlers, Client!InCall(g)'
        PROVE  Remote(g)' /\ Awaits(g, tool[g])'
    <2>1. g # h
      BY <1>3, <1>4
    <2>2. pc'[g] = pc[g] /\ mode'[g] = mode[g]
      BY <1>0, <1>1, <2>1 DEF Effect, Domains
    <2>3. Client!InCall(g)
      BY <1>2, <1>4, <2>1 DEF Client!InCall
    <2> QED
      BY <1>2, <2>2, <2>3 DEF Placed, CallPlaced, Remote, Awaits, Client!Reads
  <1>5. Sent' = Sent
    BY <1>2 DEF Sent
  <1> QED
    BY <1>0, <1>1, <1>2, <1>4, <1>5, FollowedIsPlaced DEF CallsFollow, CallPlaced, Domains

\* The server moves what was sent, and the rest moves nothing of Placed.
LEMMA OthersKeepPlaced ==
    ASSUME Placed,
           \/ \E m \in arriving : ServerStep(m)
           \/ \E c \in Chats : RemoteLapse(c)
           \/ RemoteQuiescent
           \/ UNCHANGED remoteVars
    PROVE  Placed'
  <1>1. UNCHANGED <<pc, decisionCall, bill, workflows, approvals, credits, mode, callPc, tool>>
    BY DEF ServerStep, RemoteLapse, Lapse, RemoteQuiescent, Quiescent, remoteVars, callVars,
           vars, inputs, tables, Client!Execute, Client!FailOnServer
  <1>2. Sent' \subseteq Sent
    BY DEF ServerStep, RemoteLapse, RemoteQuiescent, remoteVars, serverVars, Sent,
           Client!Execute, Client!FailOnServer
  <1>3. Domains'
    BY <1>1 DEF Placed, Domains
  <1>4. \A h \in Handlers : DueTo(h) <=> DueTo(h)'
    BY <1>1 DEF DueTo
  <1>5. \A c \in Chats : ChatPlaced(c)'
    BY <1>1, <1>4 DEF Placed, ChatPlaced, Remote, Handlers
  <1>6. \A d \in Decisions : DecisionPlaced(d)'
    BY <1>1, <1>4 DEF Placed, DecisionPlaced, Handlers
  <1>7. \A h \in Handlers : CallPlaced(h)'
    BY <1>1 DEF Placed, CallPlaced, Remote, Awaits, Client!InCall, Client!Reads
  <1> QED
    BY <1>1, <1>2, <1>3, <1>4, <1>5, <1>6, <1>7 DEF Placed

LEMMA PlacedAtFirst == RemoteInit => Placed
  <1> SUFFICES ASSUME RemoteInit
               PROVE  Placed
    OBVIOUS
  <1>1. Domains /\ \A h \in Handlers : pc[h] = "idle" /\ callPc[h] = "ready"
    BY DEF RemoteInit, Init, Client!Init, Domains
  <1>2. \A c \in Chats : approvals[c] = "ABSENT"
    BY DEF RemoteInit, Init
  <1>3. Sent = {} /\ credits = {}
    BY DEF RemoteInit, Init, Client!Init, Sent
  <1> QED
    BY <1>1, <1>2, <1>3 DEF Placed, ChatPlaced, DecisionPlaced, CallPlaced, Client!InCall,
       Handlers, ChatPlaces, DecisionPlaces, PayingChat, AskingChat, PayingDecision

\* Placed is inductive.
LEMMA PlacedAlways == RemoteSpec => []Placed
  <1>1. Placed /\ [RemoteNext]_remoteVars => Placed'
    BY SessionKeepsPlaced, CallKeepsPlaced, EndKeepsPlaced, OthersKeepPlaced
    DEF RemoteNext, HandlerStep
  <1> QED
    BY PlacedAtFirst, <1>1, PTL DEF RemoteSpec

\* Whatever is sent to the server to be credited, by any number of calls in
\* processes of either mode, was due: AutoCreditLimit for a chat, an approving
\* decision on the recorded request of a local run for the rest.
THEOREM WhatIsSentIsAuthorised == RemoteSpec => []RemoteCreditsAuthorised
  <1>1. Placed => RemoteCreditsAuthorised
    <2> SUFFICES ASSUME Placed, NEW m \in Sent
                 PROVE  LET w == WorkflowOf(m.request)
                        IN  /\ workflows[w].status # "ABSENT"
                            /\ IF m.request \in Chats
                                 THEN Decision(bill[w].amount) = "AUTO_CREDIT"
                                 ELSE /\ Decision(bill[w].amount) = "HUMAN_APPROVAL"
                                      /\ decisionCall[m.request].verdict = "approve"
                                      /\ approvals[w] # "ABSENT" /\ ~ Remote(w)
      BY DEF RemoteCreditsAuthorised
    <2>1. DueTo(m.request) /\ m.request \in Handlers
      BY DEF Placed
    <2>2. CASE m.request \in Chats
      BY <2>1, <2>2, HandlersDiffer DEF DueTo, WorkflowOf
    <2>3. CASE m.request \notin Chats
      <3>1. LET w == decisionCall[m.request].approval
            IN  /\ w \in Chats /\ approvals[w] # "ABSENT"
                /\ decisionCall[m.request].verdict = "approve"
        BY <2>1, <2>3 DEF DueTo
      <3> QED
        BY <2>3, <3>1 DEF Placed, ChatPlaced, WorkflowOf
    <2> QED
      BY <2>2, <2>3
  <1> QED
    BY <1>1, PlacedAlways, PTL

-----------------------------------------------------------------------------
(***************************************************************************)
(* What is proved of McpClient, for the clients of the billing agent.      *)
(***************************************************************************)
Tools == INSTANCE McpClientProofs WITH
    Requests <- Handlers, Clients <- Handlers, ClientOf <- [h \in Handlers |-> h],
    Cooldown <- 1, MaxClock <- 0, clock <- 0, pc <- callPc

LEMMA ToolsHaveClients == Tools!ClientsAreGiven
  BY DEF Tools!ClientsAreGiven

LEMMA ToolsHaveSettings == Tools!SettingsAreNumbers
  BY ToolSettingsAreNumbers DEF Tools!SettingsAreNumbers

\* Tools and Client are the same module twice.
LEMMA ToolsBegin == Client!Init => Tools!Init
  BY DEF Client!Init, Tools!Init, Client!Closed, Tools!Closed

LEMMA ToolsGoOn == [Client!Next]_(Client!vars) => [Tools!Next]_(Tools!vars)
  <1>1. (Client!vars)' = (Tools!vars)' /\ Client!vars = Tools!vars
    BY DEF Client!vars, Tools!vars, Client!breaker, Tools!breaker, Client!server, Tools!server
  <1>2. Client!Next => Tools!Next
    BY DEF Client!Next, Tools!Next, Client!Call, Tools!Call,
           Client!CallStep, Tools!CallStep, Client!Enter, Tools!Enter,
           Client!RefuseEntry, Tools!RefuseEntry, Client!Post, Tools!Post,
           Client!Succeed, Tools!Succeed, Client!Malformed, Tools!Malformed,
           Client!InvalidResult, Tools!InvalidResult, Client!BackOff, Tools!BackOff,
           Client!Retry, Tools!Retry, Client!GiveUp, Tools!GiveUp,
           Client!Cancel, Tools!Cancel, Client!Execute, Tools!Execute,
           Client!FailOnServer, Tools!FailOnServer, Client!Tick, Tools!Tick,
           Client!Quiescent, Tools!Quiescent, Client!NextTools, Tools!NextTools,
           Client!Reads, Tools!Reads, Client!Writes, Tools!Writes,
           Client!Closed, Tools!Closed, Client!MaxAttempts, Tools!MaxAttempts,
           Client!Causes, Tools!Causes, Client!Retryable, Tools!Retryable,
           Client!InCall, Tools!InCall, Client!Goto, Tools!Goto,
           Client!Finish, Tools!Finish, Client!RecordSuccess, Tools!RecordSuccess,
           Client!RecordFailure, Tools!RecordFailure, Client!Message, Tools!Message,
           Client!FailsFor, Tools!FailsFor, Client!MayRetry, Tools!MayRetry,
           Client!breaker, Tools!breaker, Client!server, Tools!server,
           Client!vars, Tools!vars
  <1> QED
    BY <1>1, <1>2

LEMMA ToolsTyped == Tools!TypeOK => Client!TypeOK
  BY DEF Tools!TypeOK, Client!TypeOK, Tools!Messages, Client!Messages,
         Tools!MaxAttempts, Client!MaxAttempts, Tools!Reads, Client!Reads,
         Tools!Writes, Client!Writes, Tools!Closed, Client!Closed

LEMMA ToolsStay == RemoteSpec => []Client!TypeOK
  <1>1. Tools!Init => Tools!TypeOK /\ Tools!AttemptsAreCounted
    BY ToolsHaveClients, ToolsHaveSettings, Tools!CountsHoldAtFirst
  <1>2. /\ Tools!TypeOK /\ Tools!AttemptsAreCounted
        /\ [Tools!Next]_(Tools!vars)
        => Tools!TypeOK' /\ Tools!AttemptsAreCounted'
    BY ToolsHaveClients, ToolsHaveSettings, Tools!CountsAreKept
  <1>3. RemoteSpec => [](Tools!TypeOK /\ Tools!AttemptsAreCounted)
    BY <1>1, <1>2, ToolsBegin, ToolsGoOn, HandlersUseTheClient, PTL
  <1> QED
    BY <1>3, ToolsTyped, PTL

-----------------------------------------------------------------------------
(***************************************************************************)
(* Payments.                                                               *)
(***************************************************************************)
RunsAreNew ==
    \A c \in Chats :
        /\ pc[c] \in Unrecorded => workflows[c].status = "ABSENT"
        /\ pc[c] \in ReviewingChat => workflows[c].status # "ABSENT"

\* A handler whose answer is, or will be, that it has paid.
HasPaid(h) ==
    \/ reply[h] \in {"credited", "approved"}
    \/ pc[h] = "notify" /\ decisionCall[h].verdict = "approve"

RejectionsReject ==
    \A d \in Decisions : pc[d] \in {"reject", "commit_rejected"} => decisionCall[d].verdict # "approve"

PaymentsKeyed == \A h \in Handlers : HasPaid(h) => DueTo(h) /\ KeyOf(h) \in keys

PaidOnce ==
    \A g, h \in Handlers : HasPaid(g) /\ HasPaid(h) => g = h \/ RidOf(g) # RidOf(h)

Inserted(h, t) == \E m \in written : m.request = h /\ m.tool = t

\* The places after the insert of a credit, and of an approval request.
AfterCredit  == {"complete", "commit_credit", "grant", "commit_approved"}
AfterRequest == {"record_waiting", "commit_waiting"}

InsertsArrived ==
    \A h \in Handlers : Remote(h) =>
        /\ pc[h] \in AfterCredit \/ HasPaid(h) => Inserted(h, "create_credit")
        /\ pc[h] \in AfterRequest \/ reply[h] = "waiting" => Inserted(h, "request_approval")

AnswersAreLast == \A h \in Handlers : pc[h] # "done" => reply[h] = "none"

Payments ==
    /\ RunsAreNew
    /\ LocksExclusive
    /\ LocksHeld
    /\ OneRunPerRequest
    /\ KeysAreFresh
    /\ PaymentsKeyed
    /\ PaidOnce
    /\ RejectionsReject
    /\ InsertsArrived
    /\ AnswersAreLast

Failed(h) == pc[h] = "done" /\ reply[h] = "failure"

CountedInTime ==
    /\ \A h \in Handlers : pc[h] \in AfterCredit => h \in creditsCreated
    /\ \A c \in Chats : pc[c] \in AfterRequest => c \in approvalsCreated
    /\ \A d \in Decisions : pc[d] \in {"commit_approved", "commit_rejected"} =>
         d \in approvalsCompleted
    /\ \A k \in credits : k.by \in creditsCreated
    /\ \A c \in Chats : reply[c] = "credited" => c \in creditsCreated
    /\ \A a \in audits :
         /\ a.event = "CREDIT_CREATED" => a.by \in creditsCreated
         /\ a.event \in {"APPROVAL_GRANTED", "APPROVAL_REJECTED"} => a.by \in approvalsCompleted
    /\ \A c \in Chats :
         workflows[c].status = "WAITING_APPROVAL" \/ approvals[c] # "ABSENT" =>
           c \in approvalsCreated

CountedForAReason ==
    /\ \A h \in creditsCreated :
         /\ h \in Handlers /\ pc[h] # "idle"
         /\ pc[h] \in AfterCredit \/ h \in Credited \/ Failed(h)
    /\ \A c \in approvalsCreated :
         /\ c \in Chats
         /\ \/ pc[c] \in AfterRequest
            \/ workflows[c].status \in {"WAITING_APPROVAL", "COMPLETED"}
            \/ Failed(c)
    /\ \A d \in approvalsCompleted :
         /\ d \in Decisions /\ pc[d] # "idle"
         /\ pc[d] \in {"commit_approved", "commit_rejected"} \/ d \in Decided \/ Failed(d)

-----------------------------------------------------------------------------
(***************************************************************************)
(* What a handler can do, in a process of either mode.                     *)
(***************************************************************************)

\* A call arrives.
Begins(h) ==
    /\ pc[h] = "idle"
    /\ Goto(h, IF h \in Chats THEN "evaluate" ELSE "load")
    /\ \E m \in {"local", "http"} : mode' = [mode EXCEPT ![h] = m]
    /\ IF h \in Chats
         THEN /\ \E rid \in ClientIds \cup {h}, customer \in Customers :
                   chatCall' = [chatCall EXCEPT ![h] = [rid |-> rid, customer |-> customer]]
              /\ UNCHANGED decisionCall
         ELSE /\ \E a \in Chats, v \in Verdicts :
                   decisionCall' = [decisionCall EXCEPT ![h] = [approval |-> a, verdict |-> v]]
              /\ UNCHANGED chatCall
    /\ UNCHANGED <<bill, tables, lapsed, held, reply, mail, written>>

\* A call is answered, and nothing is committed.  Only a call that fails can end
\* between an insert and its commit, or where a remote call sends a credit.
Ends(h) ==
    /\ pc[h] \notin {"idle", "done"}
    /\ \E r \in {"unavailable", "invalid", "conflict", "integrity_error", "not_found", "failure"} :
         /\ Answer(h, r)
         /\ pc[h] \in AfterCredit \cup AfterRequest \cup {"commit_rejected", "notify"} => r = "failure"
         /\ pc[h] = "insert_credit" /\ Remote(h) => r \in {"failure", "unavailable"}
    /\ UNCHANGED <<inputs, bill, tables, lapsed, mail, mode, written>>

\* The places a call goes through without a commit, and what is true when it does.
Proceeds(h, p) ==
    \/ p = pc[h] /\ UNCHANGED bill
    \/ /\ h \in Chats /\ pc[h] = "evaluate" /\ p = "commit_evaluated"
       /\ ~ RequestTaken(RidOf(h))
       /\ RequestEntry(h) \in held'[h]
       /\ \E b \in [invoice : InvoiceIds \cup {"none"}, amount : Int] :
            bill' = [bill EXCEPT ![h] = b]
    \/ /\ pc[h] = "check_key" /\ p = "insert_key" /\ KeyOf(h) \notin keys
       /\ UNCHANGED bill
    \/ /\ pc[h] = "insert_key" /\ p = "insert_credit"
       /\ UNCHANGED bill
    \/ /\ pc[h] = "insert_credit" /\ p = (IF h \in Chats THEN "complete" ELSE "grant")
       /\ Remote(h) => Inserted(h, "create_credit")
       /\ UNCHANGED bill
    \/ /\ pc[h] = "complete" /\ p = "commit_credit"
       /\ UNCHANGED bill
    \/ /\ h \in Chats /\ pc[h] = "request_approval" /\ p \in AfterRequest
       /\ Remote(h) => Inserted(h, "request_approval")
       /\ UNCHANGED bill
    \/ /\ h \in Chats /\ pc[h] = "record_waiting" /\ p = "commit_waiting"
       /\ UNCHANGED bill
    \/ /\ pc[h] = "review" /\ p = "commit_review"
       /\ UNCHANGED bill
    \/ /\ pc[h] = "load" /\ p \in {"expire", "decide"}
       /\ UNCHANGED bill
    \/ /\ pc[h] = "expire" /\ p = "raise_expired"
       /\ UNCHANGED bill
    \/ /\ h \in Decisions /\ pc[h] = "decide"
       /\ p = (IF decisionCall[h].verdict = "approve" THEN "check_key" ELSE "reject")
       /\ ApprovalRow(h) \in held'[h]
       /\ UNCHANGED bill
    \/ /\ h \in Decisions /\ pc[h] = "grant" /\ p = "commit_approved"
       /\ UNCHANGED bill
    \/ /\ h \in Decisions /\ pc[h] = "reject" /\ p = "commit_rejected"
       /\ UNCHANGED bill

Works(h) ==
    /\ pc[h] \notin {"idle", "done"}
    /\ \E p : Goto(h, p) /\ Proceeds(h, p)
    /\ held' = held \/ \E rows \in SUBSET Rows : Write(h, rows)
    /\ mail' = mail \/ \E m \in [kind : {"credited"}, workflow : Chats, by : Handlers] :
                          mail' = mail \cup {m}
    /\ UNCHANGED <<inputs, tables, lapsed, reply, mode, written>>

\* The commits.  A remote session holds neither the credit nor the request.
Credits(c) ==
    /\ pc[c] = "commit_credit"
    /\ keys' = keys \cup {KeyOf(c)}
    /\ credits' = credits \/ credits' = credits \cup {CreditOf(c)}
    /\ workflows' = [workflows EXCEPT ![c] = Row("COMPLETED", "credited")]
    /\ Answer(c, "credited")
    /\ UNCHANGED <<inputs, bill, approvals, audits, lapsed, mail, mode, written>>

Waits(c) ==
    /\ pc[c] = "commit_waiting"
    /\ approvals' = approvals \/ approvals' = [approvals EXCEPT ![c] = "PENDING"]
    /\ workflows' = [workflows EXCEPT ![c] = Row("WAITING_APPROVAL", "none")]
    /\ Answer(c, "waiting")
    /\ UNCHANGED <<inputs, bill, keys, credits, audits, lapsed, mail, mode, written>>

Approves(d) ==
    LET w == WorkflowOf(d)
    IN  /\ pc[d] = "commit_approved"
        /\ approvals' = [approvals EXCEPT ![w] = "APPROVED"]
        /\ keys' = keys \cup {KeyOf(d)}
        /\ credits' = credits \/ credits' = credits \cup {CreditOf(d)}
        /\ audits' = audits \cup {Audit("APPROVAL_GRANTED", w, d), Audit("CREDIT_CREATED", w, d)}
        /\ workflows' = [workflows EXCEPT ![w] = Row("COMPLETED", "approved")]
        /\ EndTransaction(d)
        /\ Goto(d, "notify")
        /\ UNCHANGED <<inputs, bill, lapsed, reply, mail, mode, written>>

Commits(h) ==
    \/ /\ h \in Chats
       /\ \/ Credits(h) \/ Waits(h)
          \/ (CommitEvaluated(h) \/ CommitReview(h)) /\ UNCHANGED <<mode, written>>
    \/ /\ h \in Decisions
       /\ Approves(h) \/ ((CommitRejected(h) \/ Notify(h)) /\ UNCHANGED <<mode, written>>)

Does(h) == Begins(h) \/ Ends(h) \/ Works(h) \/ Commits(h)

\* What goes on without the handlers: the server inserts, requests lapse.
Elsewhere ==
    /\ UNCHANGED <<pc, inputs, bill, tables, held, reply, mail, mode>>
    /\ lapsed' \subseteq lapsed \cup Chats
    /\ written \subseteq written'

\* The rows a handler writes are rows of the tables.
LEMMA RowsOfHandlers ==
    ASSUME Placed, InputsTyped, NEW h \in Handlers, pc[h] # "idle"
    PROVE  /\ WorkflowOf(h) \in Chats
           /\ KeyOf(h) \in Keys
           /\ CreditOf(h) \in CreditRows
           /\ {RequestEntry(h), WorkflowRow(h), ApprovalRow(h), KeyRow(h), CreditEntry(h)}
                \subseteq Rows
  <1>1. WorkflowOf(h) \in Chats
    BY DEF Placed, DecisionPlaced, WorkflowOf, Handlers
  <1>2. /\ chatCall[WorkflowOf(h)] \in [rid : RequestIds, customer : Customers \cup {"nobody"}]
        /\ bill[WorkflowOf(h)] \in [invoice : InvoiceIds \cup {"none"}, amount : Int]
    BY <1>1 DEF InputsTyped
  <1>3. RidOf(h) \in RequestIds
    BY <1>2 DEF RidOf
  <1>4. KeyOf(h) \in Keys /\ CreditOf(h) \in CreditRows
    BY <1>2, <1>3 DEF KeyOf, CreditOf, Keys, CreditRows, BillOfHandler
  <1> QED
    BY <1>1, <1>3, <1>4 DEF RequestEntry, WorkflowRow, ApprovalRow, KeyRow, CreditEntry, Rows

LEMMA BillsAreTyped ==
    ASSUME NEW customer, NEW m \in Comparisons(Invoices, Contracts, customer)
    PROVE  BillOf(m) \in [invoice : InvoiceIds \cup {"none"}, amount : Int]
  <1>1. m.invoice \in Invoices /\ m.contract \in Contracts
    BY DEF Comparisons, LatestFinalized
  <1>2. m.invoice.amount \in Int /\ m.contract.price \in Int /\ m.invoice.id \in InvoiceIds
    BY <1>1, TablesAreTyped DEF InvoiceIds
  <1> QED
    BY <1>2 DEF BillOf

\* A write keeps the rows it takes.
LEMMA WrittenIsHeld ==
    ASSUME held \in [Handlers -> SUBSET Rows], NEW h \in Handlers, NEW rows, Write(h, rows)
    PROVE  rows \subseteq held'[h]
  BY DEF Write

LEMMA CreditingDoes ==
    ASSUME Placed, RemoteTypeOK, NEW h \in Handlers, CheckKey(h) \/ InsertKey(h) \/ InsertCredit(h),
           Remote(h) => pc[h] \notin Replaced, UNCHANGED <<mode, written>>
    PROVE  Does(h)
  <1> USE DEF Does, inputs, tables
  <1>1. CASE CheckKey(h)
    <2>1. CASE Answer(h, "conflict")
      BY <1>1, <2>1 DEF CheckKey, Ends, AfterCredit, AfterRequest
    <2>2. CASE Goto(h, "insert_key") /\ KeyOf(h) \notin keys /\ UNCHANGED <<held, reply>>
      BY <1>1, <2>2 DEF CheckKey, Works, Proceeds
    <2> QED
      BY <1>1, <2>1, <2>2 DEF CheckKey
  <1>2. CASE InsertKey(h)
    <2>1. CASE Answer(h, "integrity_error")
      BY <1>2, <2>1 DEF InsertKey, Ends, AfterCredit, AfterRequest
    <2>2. CASE Write(h, {KeyRow(h)}) /\ Goto(h, "insert_credit") /\ UNCHANGED reply
      <3>1. {KeyRow(h)} \in SUBSET Rows
        BY <1>2, RowsOfHandlers DEF InsertKey, RemoteTypeOK
      <3>2. Proceeds(h, "insert_credit")
        BY <1>2 DEF InsertKey, Proceeds
      <3> QED
        BY <1>2, <2>2, <3>1, <3>2 DEF InsertKey, Works
    <2> QED
      BY <1>2, <2>1, <2>2 DEF InsertKey
  <1>3. CASE InsertCredit(h)
    <2>1. CASE Answer(h, "integrity_error")
      BY <1>3, <2>1 DEF InsertCredit, Ends, AfterCredit, AfterRequest, Replaced
    <2>2. CASE /\ Write(h, {CreditEntry(h)}) /\ UNCHANGED reply
               /\ Goto(h, IF h \in Chats THEN "complete" ELSE "grant")
      <3>1. {CreditEntry(h)} \in SUBSET Rows
        BY <1>3, RowsOfHandlers DEF InsertCredit, RemoteTypeOK
      <3>2. Proceeds(h, IF h \in Chats THEN "complete" ELSE "grant")
        BY <1>3 DEF InsertCredit, Proceeds, Replaced
      <3> QED
        BY <1>3, <2>2, <3>1, <3>2 DEF InsertCredit, Works
    <2> QED
      BY <1>3, <2>1, <2>2 DEF InsertCredit
  <1> QED
    BY <1>1, <1>2, <1>3

LEMMA ChatDoes ==
    ASSUME Placed, RemoteTypeOK, NEW c \in Chats, ChatStep(c),
           Remote(c) => pc[c] \notin Replaced, UNCHANGED <<mode, written>>
    PROVE  Does(c)
  <1> USE DEF Does, inputs, tables
  <1>0. c \in Handlers /\ InputsTyped /\ WorkflowOf(c) = c /\ held \in [Handlers -> SUBSET Rows]
    BY DEF Handlers, RemoteTypeOK, WorkflowOf
  <1>1. CASE RefuseAnalysis(c) \/ RefuseDuplicate(c)
    BY <1>1 DEF RefuseAnalysis, RefuseDuplicate, DuplicateReply, Ends, AfterCredit, AfterRequest
  <1>2. CASE Evaluate(c)
    <2>1. PICK m \in Comparisons(Invoices, Contracts, chatCall[c].customer) :
            bill' = [bill EXCEPT ![c] = BillOf(m)]
      BY <1>2 DEF Evaluate
    <2>2. Write(c, {RequestEntry(c), WorkflowRow(c)}) /\ pc[c] = "evaluate"
      BY <1>2 DEF Evaluate
    <2>3. {RequestEntry(c), WorkflowRow(c)} \in SUBSET Rows /\ RequestEntry(c) \in held'[c]
      BY <1>0, <2>2, RowsOfHandlers, WrittenIsHeld
    <2>4. Proceeds(c, "commit_evaluated")
      BY <1>2, <2>1, <2>2, <2>3, BillsAreTyped DEF Proceeds, Evaluate
    <2> QED
      BY <1>2, <2>2, <2>3, <2>4 DEF Works, Evaluate
  <1>3. CASE CommitEvaluated(c) \/ CommitReview(c)
    BY <1>3 DEF Commits
  <1>4. CASE CommitCredit(c)
    BY <1>4 DEF CommitCredit, Commits, Credits
  <1>5. CASE CommitWaiting(c)
    BY <1>5 DEF CommitWaiting, Commits, Waits
  <1>6. CASE CompleteCredit(c)
    <2>1. WorkflowRow(c) \in Rows
      BY <1>0, <1>6, RowsOfHandlers DEF CompleteCredit
    <2>2. Proceeds(c, "commit_credit")
      BY <1>6 DEF CompleteCredit, Proceeds
    <2>3. \E rows \in SUBSET Rows : Write(c, rows)
      BY <1>6, <2>1 DEF CompleteCredit
    <2> QED
      BY <1>0, <1>6, <2>2, <2>3 DEF CompleteCredit, Works
  <1>7. CASE RequestApproval(c)
    <2>1. {ApprovalRow(c), WorkflowRow(c)} \in SUBSET Rows
      BY <1>0, <1>7, RowsOfHandlers DEF RequestApproval
    <2>2. Proceeds(c, "commit_waiting")
      BY <1>7 DEF RequestApproval, Proceeds, Replaced, AfterRequest
    <2> QED
      BY <1>7, <2>1, <2>2 DEF RequestApproval, Works
  <1>8. CASE Review(c)
    <2>1. {WorkflowRow(c)} \in SUBSET Rows
      BY <1>0, <1>8, RowsOfHandlers DEF Review
    <2>2. Proceeds(c, "commit_review")
      BY <1>8 DEF Review, Proceeds
    <2> QED
      BY <1>8, <2>1, <2>2 DEF Review, Works
  <1>9. CASE CheckKey(c) \/ InsertKey(c) \/ InsertCredit(c)
    BY <1>0, <1>9, CreditingDoes
  <1> QED
    BY <1>1, <1>2, <1>3, <1>4, <1>5, <1>6, <1>7, <1>8, <1>9 DEF ChatStep

LEMMA DecisionDoes ==
    ASSUME Placed, RemoteTypeOK, NEW d \in Decisions, DecisionStep(d),
           Remote(d) => pc[d] \notin Replaced, UNCHANGED <<mode, written>>
    PROVE  Does(d)
  <1> USE DEF Does, inputs, tables
  <1>0. /\ d \in Handlers /\ d \notin Chats
        /\ InputsTyped /\ held \in [Handlers -> SUBSET Rows]
    BY HandlersDiffer DEF Handlers, RemoteTypeOK
  <1>1. CASE LoadApproval(d)
    <2>1. CASE \E r \in {"not_found", "conflict"} : Answer(d, r)
      BY <1>1, <2>1 DEF LoadApproval, Ends, AfterCredit, AfterRequest
    <2>2. CASE \E p \in {"expire", "decide"} : Goto(d, p) /\ UNCHANGED <<held, reply>>
      BY <1>1, <2>2 DEF LoadApproval, Works, Proceeds
    <2> QED
      BY <1>1, <2>1, <2>2 DEF LoadApproval
  <1>2. CASE ExpireFlush(d)
    <2>1. {ApprovalRow(d), WorkflowRow(d)} \in SUBSET Rows
      BY <1>0, <1>2, RowsOfHandlers DEF ExpireFlush
    <2>2. Proceeds(d, "raise_expired")
      BY <1>2 DEF ExpireFlush, Proceeds
    <2> QED
      BY <1>2, <2>1, <2>2 DEF ExpireFlush, Works
  <1>3. CASE RaiseExpired(d)
    BY <1>3 DEF RaiseExpired, Ends, AfterCredit, AfterRequest
  <1>4. CASE Decide(d)
    <2>1. {ApprovalRow(d)} \in SUBSET Rows /\ ApprovalRow(d) \in held'[d]
      BY <1>0, <1>4, RowsOfHandlers, WrittenIsHeld DEF Decide
    <2>2. Proceeds(d, IF decisionCall[d].verdict = "approve" THEN "check_key" ELSE "reject")
      BY <1>0, <1>4, <2>1 DEF Decide, Proceeds
    <2> QED
      BY <1>4, <2>1, <2>2 DEF Decide, Works
  <1>5. CASE CheckKey(d) \/ InsertKey(d) \/ InsertCredit(d)
    BY <1>0, <1>5, CreditingDoes
  <1>6. CASE Grant(d) \/ Reject(d)
    <2>1. {WorkflowRow(d)} \in SUBSET Rows
      BY <1>0, <1>6, RowsOfHandlers DEF Grant, Reject
    <2>2. PICK p \in {"commit_approved", "commit_rejected"} : Goto(d, p) /\ Proceeds(d, p)
      BY <1>6 DEF Grant, Reject, Proceeds
    <2> QED
      BY <1>6, <2>1, <2>2 DEF Grant, Reject, Works
  <1>7. CASE CommitApproved(d)
    BY <1>7 DEF CommitApproved, Commits, Approves
  <1>8. CASE CommitRejected(d) \/ Notify(d)
    BY <1>8 DEF Commits
  <1> QED
    BY <1>1, <1>2, <1>3, <1>4, <1>5, <1>6, <1>7, <1>8 DEF DecisionStep

LEMMA HandlerDoes ==
    ASSUME Placed, RemoteTypeOK, NEW h \in Handlers, Arrive(h) \/ HandlerStep(h) \/ RemoteAbort(h)
    PROVE  Does(h)
  <1> USE DEF Does, inputs, tables
  <1>0. /\ InputsTyped /\ CallPlaced(h)
        /\ h \in Chats => pc[h] \in ChatPlaces \cup {"record_waiting"}
        /\ h \notin Chats => h \in Decisions /\ pc[h] \in DecisionPlaces
    BY DEF RemoteTypeOK, Placed, ChatPlaced, DecisionPlaced, Handlers
  <1>1. CASE Arrive(h)
    BY <1>1 DEF Arrive, ReceiveChat, ReceiveDecision, Begins, serverVars
  <1>2. CASE CallTool(h) \/ GoOn(h)
    <2>1. /\ UNCHANGED <<vars, mode, written>>
          /\ pc[h] \notin {"idle", "done"}
      <3>1. CASE CallTool(h)
        BY <3>1 DEF CallTool, Client!Call, Client!server, Awaits
      <3>2. CASE GoOn(h)
        BY <1>0, <3>2 DEF GoOn, Client!Enter, Client!Post, Client!BackOff, Client!Retry, Client!server,
                          Client!FailsFor, Client!InCall, CallPlaced, Awaits
      <3> QED
        BY <1>2, <3>1, <3>2
    <2>2. Goto(h, pc[h]) /\ Proceeds(h, pc[h])
      BY <2>1 DEF Goto, Proceeds, vars, Placed, Domains
    <2> QED
      BY <2>1, <2>2 DEF Works, vars
  <1>3. CASE CallReturns(h)
    <2>1. /\ Client!InCall(h)
          /\ UNCHANGED <<inputs, bill, tables, lapsed, held, reply, mail, mode, written>>
          /\ tool[h] \in Client!Writes => Client!Message(h) \in written
      BY <1>3 DEF CallReturns, Client!Succeed, Client!InCall, Client!server
    <2>2. Awaits(h, tool[h]) /\ pc[h] \notin {"idle", "done"}
      BY <1>0, <2>1 DEF CallPlaced, Awaits
    <2>3. CASE tool[h] = "create_credit"
      <3>1. pc[h] = "insert_credit" /\ Inserted(h, "create_credit")
        BY <2>1, <2>2, <2>3 DEF Awaits, Client!Reads, Client!Writes, Client!Message, Inserted
      <3>2. pc' = [pc EXCEPT ![h] = IF h \in Chats THEN "complete" ELSE "grant"]
        BY <1>3, <2>3 DEF CallReturns
      <3>3. Proceeds(h, IF h \in Chats THEN "complete" ELSE "grant")
        BY <2>1, <3>1 DEF Proceeds
      <3> QED
        BY <2>1, <2>2, <3>2, <3>3 DEF Works, Goto
    <2>4. CASE tool[h] = "request_approval"
      <3>1. pc[h] = "request_approval" /\ Inserted(h, "request_approval") /\ h \in Chats
        BY <1>0, <2>1, <2>2, <2>4
           DEF Awaits, Client!Reads, Client!Writes, Client!Message, Inserted, DecisionPlaces
      <3>2. Goto(h, "record_waiting")
        BY <1>3, <2>4 DEF CallReturns, Goto
      <3>3. Proceeds(h, "record_waiting")
        BY <2>1, <3>1 DEF Proceeds, AfterRequest
      <3> QED
        BY <2>1, <2>2, <3>2, <3>3 DEF Works
    <2>5. CASE tool[h] \notin {"create_credit", "request_approval"}
      <3>1. Goto(h, pc[h])
        BY <1>3, <2>5 DEF CallReturns, Goto, Placed, Domains
      <3>2. Proceeds(h, pc[h])
        BY <2>1 DEF Proceeds
      <3> QED
        BY <2>1, <2>2, <3>1, <3>2 DEF Works
    <2> QED
      BY <2>3, <2>4, <2>5
  <1>4. CASE CallFails(h)
    <2>1. Client!InCall(h) /\ UNCHANGED <<written, inputs, bill, tables, lapsed, mail, mode>>
      BY <1>4 DEF CallFails, Client!GiveUp, Client!FailsFor, Client!Malformed, Client!server,
                  Client!InvalidResult, Client!InCall
    <2>2. pc[h] \in {"evaluate", "insert_credit", "request_approval"}
      BY <1>0, <2>1 DEF CallPlaced, Awaits
    <2>3. \E r \in {"unavailable", "failure"} : Answer(h, r)
      BY <1>4 DEF CallFails
    <2> QED
      BY <2>1, <2>2, <2>3 DEF Ends, AfterCredit, AfterRequest
  <1>5. CASE RemoteAbort(h)
    BY <1>5 DEF RemoteAbort, Abort, Ends, Client!Cancel, Client!server, serverVars
  <1>6. CASE SessionStep(h)
    <2>1. UNCHANGED <<mode, written>>
      BY <1>6 DEF SessionStep, serverVars
    <2>2. CASE ChatStep(h) /\ h \in Chats /\ (Remote(h) => pc[h] \notin Replaced)
      BY <2>1, <2>2, ChatDoes
    <2>3. CASE DecisionStep(h) /\ h \notin Chats /\ (Remote(h) => pc[h] \notin Replaced)
      BY <1>0, <2>1, <2>3, DecisionDoes
    <2>4. CASE CommitRemoteCredit(h)
      BY <1>0, <2>1, <2>4 DEF CommitRemoteCredit, Commits, Credits, DecisionPlaces
    <2>5. CASE CommitRemoteApproved(h)
      BY <1>0, <2>1, <2>5 DEF CommitRemoteApproved, Commits, Approves, ChatPlaces
    <2>6. CASE RecordWaiting(h)
      <3>1. h \in Chats /\ {WorkflowRow(h)} \in SUBSET Rows
        BY <1>0, <2>6, RowsOfHandlers DEF RecordWaiting, DecisionPlaces
      <3>2. Proceeds(h, "commit_waiting")
        BY <2>6, <3>1 DEF RecordWaiting, Proceeds
      <3> QED
        BY <2>1, <2>6, <3>1, <3>2 DEF RecordWaiting, Works
    <2>7. CASE CommitRemoteWaiting(h)
      BY <1>0, <2>1, <2>7 DEF CommitRemoteWaiting, Commits, Waits, DecisionPlaces
    <2> QED
      BY <1>6, <2>2, <2>3, <2>4, <2>5, <2>6, <2>7 DEF SessionStep
  <1> QED
    BY <1>1, <1>2, <1>3, <1>4, <1>5, <1>6 DEF HandlerStep

\* Every step is a deed of one handler, or goes on elsewhere.
LEMMA EveryStep ==
    ASSUME Placed, RemoteTypeOK, [RemoteNext]_remoteVars
    PROVE  (\E h \in Handlers : Does(h)) \/ Elsewhere
  <1> USE DEF inputs, tables, vars, serverVars, Elsewhere
  <1>1. ASSUME NEW m \in arriving, ServerStep(m)
        PROVE  Elsewhere
    BY <1>1 DEF ServerStep, Client!Execute, Client!FailOnServer
  <1>2. ASSUME NEW c \in Chats, RemoteLapse(c)
        PROVE  Elsewhere
    BY <1>2 DEF RemoteLapse, Lapse
  <1>3. CASE RemoteQuiescent \/ UNCHANGED remoteVars
    BY <1>3 DEF RemoteQuiescent, Quiescent, remoteVars
  <1> QED
    BY <1>1, <1>2, <1>3, HandlerDoes DEF RemoteNext

-----------------------------------------------------------------------------
(***************************************************************************)
(* Types.                                                                  *)
(***************************************************************************)
SessionsTyped ==
    /\ held \in [Handlers -> SUBSET Rows]
    /\ reply \in [Handlers -> Replies]
    /\ mode \in [Handlers -> {"local", "http"}]
    /\ InputsTyped
    /\ TablesTyped

LEMMA PlacedIsTyped ==
    Placed => pc \in [Handlers -> ChatPlaces \cup DecisionPlaces \cup {"record_waiting"}]
  <1> SUFFICES ASSUME Placed
               PROVE  pc \in [Handlers -> ChatPlaces \cup DecisionPlaces \cup {"record_waiting"}]
    OBVIOUS
  <1>1. ASSUME NEW h \in Handlers
        PROVE  pc[h] \in ChatPlaces \cup DecisionPlaces \cup {"record_waiting"}
    BY DEF Placed, ChatPlaced, DecisionPlaced, Handlers
  <1>2. pc = [h \in Handlers |-> pc[h]]
    BY DEF Placed, Domains
  <1> QED
    BY <1>1, <1>2

LEMMA CommitsAreTyped ==
    ASSUME Placed, RemoteTypeOK, NEW h \in Handlers, Commits(h)
    PROVE  SessionsTyped'
  <1> USE DEF inputs, tables, SessionsTyped, Answer, EndTransaction, Row, Audit
  <1>0. SessionsTyped
    BY DEF RemoteTypeOK
  <1>1. CASE h \in Chats /\ Credits(h)
    <2>1. KeyOf(h) \in Keys /\ CreditOf(h) \in CreditRows
      BY <1>1, RowsOfHandlers DEF Credits, RemoteTypeOK
    <2> QED
      BY <1>0, <1>1, <2>1 DEF Credits, Replies, InputsTyped, TablesTyped, WorkflowRows
  <1>2. CASE h \in Chats /\ Waits(h)
    BY <1>0, <1>2 DEF Waits, Replies, InputsTyped, TablesTyped, WorkflowRows, ApprovalStatus
  <1>3. CASE h \in Chats /\ CommitEvaluated(h) /\ UNCHANGED <<mode, written>>
    BY <1>0, <1>3 DEF CommitEvaluated, InputsTyped, TablesTyped, WorkflowRows, Events
  <1>4. CASE h \in Chats /\ CommitReview(h) /\ UNCHANGED <<mode, written>>
    BY <1>0, <1>4 DEF CommitReview, Replies, InputsTyped, TablesTyped, WorkflowRows
  <1>5. CASE h \in Decisions /\ Approves(h)
    <2>1. WorkflowOf(h) \in Chats /\ KeyOf(h) \in Keys /\ CreditOf(h) \in CreditRows
      BY <1>5, RowsOfHandlers DEF Approves, RemoteTypeOK
    <2> QED
      BY <1>0, <1>5, <2>1
         DEF Approves, InputsTyped, TablesTyped, WorkflowRows, ApprovalStatus, Events
  <1>6. CASE h \in Decisions /\ CommitRejected(h) /\ UNCHANGED <<mode, written>>
    <2>1. WorkflowOf(h) \in Chats
      BY <1>6, RowsOfHandlers DEF CommitRejected, RemoteTypeOK
    <2> QED
      BY <1>0, <1>6, <2>1
         DEF CommitRejected, InputsTyped, TablesTyped, WorkflowRows, ApprovalStatus, Events
  <1>7. CASE h \in Decisions /\ Notify(h) /\ UNCHANGED <<mode, written>>
    <2>1. WorkflowOf(h) \in Chats
      BY <1>7, RowsOfHandlers DEF Notify, RemoteTypeOK
    <2> QED
      BY <1>0, <1>7, <2>1 DEF Notify, Outcome, Replies, InputsTyped, TablesTyped
  <1> QED
    BY <1>1, <1>2, <1>3, <1>4, <1>5, <1>6, <1>7 DEF Commits

LEMMA DeedsAreTyped ==
    ASSUME Placed, RemoteTypeOK, NEW h \in Handlers, Does(h)
    PROVE  SessionsTyped'
  <1> USE DEF inputs, tables, SessionsTyped
  <1>0. SessionsTyped
    BY DEF RemoteTypeOK
  <1>1. CASE Begins(h)
    <2>1. chatCall' \in [Chats -> [rid : RequestIds, customer : Customers \cup {"nobody"}]]
      BY <1>0, <1>1 DEF Begins, InputsTyped, RequestIds
    <2>2. decisionCall' \in [Decisions -> [approval : Chats \cup {"none"},
                                          verdict : Verdicts \cup {"none"}]]
      BY <1>0, <1>1 DEF Begins, InputsTyped, Handlers
    <2>3. mode' \in [Handlers -> {"local", "http"}]
      BY <1>0, <1>1 DEF Begins
    <2> QED
      BY <1>0, <1>1, <2>1, <2>2, <2>3 DEF Begins, InputsTyped, TablesTyped
  <1>2. CASE Ends(h)
    BY <1>0, <1>2 DEF Ends, Answer, EndTransaction, Replies, InputsTyped, TablesTyped
  <1>3. CASE Works(h)
    <2>1. held' \in [Handlers -> SUBSET Rows]
      BY <1>0, <1>3 DEF Works, Write
    <2>2. bill' \in [Chats -> [invoice : InvoiceIds \cup {"none"}, amount : Int]]
      <3>1. \/ bill' = bill
            \/ \E b \in [invoice : InvoiceIds \cup {"none"}, amount : Int] :
                 bill' = [bill EXCEPT ![h] = b]
        BY <1>3 DEF Works, Proceeds
      <3> QED
        BY <1>0, <3>1 DEF InputsTyped
    <2>3. mail' \subseteq [kind : {"credited", "approved", "rejected"}, workflow : Chats, by : Handlers]
      BY <1>0, <1>3 DEF Works, TablesTyped
    <2> QED
      BY <1>0, <1>3, <2>1, <2>2, <2>3 DEF Works, InputsTyped, TablesTyped
  <1>4. CASE Commits(h)
    BY <1>4, CommitsAreTyped
  <1> QED
    BY <1>1, <1>2, <1>3, <1>4 DEF Does

LEMMA StepsAreTyped ==
    Placed /\ RemoteTypeOK /\ [RemoteNext]_remoteVars => SessionsTyped'
  <1> SUFFICES ASSUME Placed, RemoteTypeOK, [RemoteNext]_remoteVars
               PROVE  SessionsTyped'
    OBVIOUS
  <1>1. CASE Elsewhere
    BY <1>1 DEF Elsewhere, RemoteTypeOK, SessionsTyped, inputs, tables, InputsTyped, TablesTyped
  <1> QED
    BY <1>1, EveryStep, DeedsAreTyped

LEMMA TypedAtFirst == RemoteInit => SessionsTyped
  BY DEF RemoteInit, Init, SessionsTyped, InputsTyped, TablesTyped, Replies, RequestIds, Row,
         WorkflowRows, ApprovalStatus

\* Every variable keeps its type: of the sessions, of the calls of the tools and
\* of the server.
THEOREM RemoteTyping == RemoteSpec => []RemoteTypeOK
  <1>1. Placed /\ SessionsTyped /\ Client!TypeOK <=> Placed /\ RemoteTypeOK
    BY PlacedIsTyped DEF SessionsTyped, RemoteTypeOK
  <1>2. RemoteSpec => [](Placed /\ SessionsTyped /\ Client!TypeOK)
    BY <1>1, StepsAreTyped, TypedAtFirst, PlacedAlways, ToolsStay, PTL DEF RemoteSpec
  <1> QED
    BY <1>1, <1>2, PTL

-----------------------------------------------------------------------------
(***************************************************************************)
(* What every deed keeps.                                                  *)
(***************************************************************************)

\* A run that is recorded, and an approval request, stay.
LEMMA TablesStay ==
    ASSUME Placed, RemoteTypeOK, NEW g \in Handlers, Does(g)
    PROVE  /\ keys \subseteq keys'
           /\ \A c \in Chats :
                /\ workflows[c].status # "ABSENT" => workflows'[c].status # "ABSENT"
                /\ approvals[c] # "ABSENT" => approvals'[c] # "ABSENT"
                /\ workflows'[c] # workflows[c] =>
                     c = g \/ (g \in Decisions /\ approvals[c] # "ABSENT")
  <1> USE DEF tables, RemoteTypeOK, TablesTyped, Row
  <1>1. CASE UNCHANGED tables
    BY <1>1
  <1>2. CASE g \in Chats /\ Credits(g)
    BY <1>2 DEF Credits
  <1>3. CASE g \in Chats /\ Waits(g)
    BY <1>3 DEF Waits
  <1>4. CASE g \in Chats /\ (CommitEvaluated(g) \/ CommitReview(g))
    BY <1>4 DEF CommitEvaluated, CommitReview
  <1>5. CASE g \in Decisions /\ (Approves(g) \/ CommitRejected(g))
    <2>1. pc[g] \in {"commit_approved", "commit_rejected"}
      BY <1>5 DEF Approves, CommitRejected
    <2>2. WorkflowOf(g) \in Chats /\ approvals[WorkflowOf(g)] # "ABSENT"
      BY <1>5, <2>1, HandlersDiffer DEF Placed, DecisionPlaced, WorkflowOf
    <2> QED
      BY <1>5, <2>2 DEF Approves, CommitRejected
  <1> QED
    BY <1>1, <1>2, <1>3, <1>4, <1>5 DEF Does, Begins, Ends, Works, Commits, Notify

\* The inputs of a call do not change once it has them, nor the bill of a chat once
\* it is found.
LEMMA InputsRemain ==
    ASSUME Placed, RemoteTypeOK, NEW g \in Handlers, Does(g)
    PROVE  /\ \A c \in Chats : pc[c] # "idle" => chatCall'[c] = chatCall[c]
           /\ \A c \in Chats : pc[c] \notin {"idle", "evaluate"} => bill'[c] = bill[c]
           /\ \A d \in Decisions : pc[d] # "idle" => decisionCall'[d] = decisionCall[d]
           /\ \A h \in Handlers : pc[h] # "idle" => mode'[h] = mode[h]
  <1> USE DEF inputs, RemoteTypeOK, InputsTyped
  <1>1. CASE Begins(g)
    BY <1>1 DEF Begins
  <1>2. CASE Works(g)
    <2>1. \/ bill' = bill
          \/ g \in Chats /\ pc[g] = "evaluate" /\ \E b : bill' = [bill EXCEPT ![g] = b]
      BY <1>2 DEF Works, Proceeds
    <2> QED
      BY <1>2, <2>1 DEF Works
  <1>3. CASE Ends(g) \/ Commits(g)
    BY <1>3 DEF Ends, Commits, Credits, Waits, CommitEvaluated, CommitReview, Approves,
                CommitRejected, Notify
  <1> QED
    BY <1>1, <1>2, <1>3 DEF Does

\* A deed is one handler's.
LEMMA OthersStay ==
    ASSUME RemoteTypeOK, NEW g \in Handlers, Does(g), NEW h \in Handlers \ {g}
    PROVE  pc'[h] = pc[h] /\ reply'[h] = reply[h] /\ held'[h] = held[h] /\ mode'[h] = mode[h]
  <1> USE DEF RemoteTypeOK, Goto, Answer, EndTransaction
  <1>1. CASE Begins(g) \/ Ends(g)
    BY <1>1 DEF Begins, Ends
  <1>2. CASE Works(g)
    BY <1>2 DEF Works, Write
  <1>3. CASE Commits(g)
    BY <1>3 DEF Commits, Credits, Waits, CommitEvaluated, CommitReview, Approves,
                CommitRejected, Notify
  <1> QED
    BY <1>1, <1>2, <1>3 DEF Does

LEMMA ServerRemembers ==
    ASSUME NEW g \in Handlers, Does(g) \/ Elsewhere
    PROVE  written \subseteq written'
  BY DEF Does, Begins, Ends, Works, Commits, Credits, Waits, Approves, Elsewhere

-----------------------------------------------------------------------------
(***************************************************************************)
(* What is due to a handler: its run is recorded, its key is fixed.        *)
(***************************************************************************)
LEMMA DueIsRecorded ==
    ASSUME Placed, NEW h \in Handlers, DueTo(h)
    PROVE  /\ WorkflowOf(h) \in Chats
           /\ workflows[WorkflowOf(h)].status # "ABSENT"
           /\ pc[WorkflowOf(h)] \notin {"idle", "evaluate"}
           /\ pc[h] # "idle"
  <1>1. CASE h \in Chats
    BY <1>1, HandlersDiffer DEF DueTo, WorkflowOf
  <1>2. CASE h \notin Chats
    BY <1>2 DEF DueTo, WorkflowOf, Placed, ChatPlaced
  <1> QED
    BY <1>1, <1>2

LEMMA DueRemains ==
    ASSUME Placed, RemoteTypeOK, NEW g \in Handlers, Does(g), NEW h \in Handlers, DueTo(h)
    PROVE  DueTo(h)' /\ KeyOf(h)' = KeyOf(h) /\ RidOf(h)' = RidOf(h)
  <1> DEFINE w == WorkflowOf(h)
  <1>1. w \in Chats /\ pc[w] \notin {"idle", "evaluate"} /\ pc[h] # "idle"
    BY DueIsRecorded
  <1>2. WorkflowOf(h)' = w
    BY <1>1, InputsRemain DEF WorkflowOf, Handlers
  <1>3. KeyOf(h)' = KeyOf(h) /\ RidOf(h)' = RidOf(h)
    BY <1>1, <1>2, InputsRemain DEF KeyOf, RidOf, BillOfHandler
  <1>4. pc'[h] \notin {"idle", "evaluate", "load"}
    <2>1. CASE h # g
      BY <2>1, OthersStay DEF DueTo
    <2>2. CASE h = g
      <3>1. pc[g] \notin {"idle", "evaluate", "load"}
        BY <2>2 DEF DueTo
      <3>2. \E p : Goto(g, p) /\ p \notin {"idle", "evaluate", "load"}
        <4>1. CASE Ends(g)
          BY <4>1 DEF Ends, Answer
        <4>2. CASE Commits(g)
          BY <4>2 DEF Commits, Credits, Waits, CommitEvaluated, CommitReview, Approves,
                      CommitRejected, Notify, NextPlace, Answer
        <4>3. CASE Works(g)
          <5>1. PICK p : Goto(g, p) /\ Proceeds(g, p)
            BY <4>3 DEF Works
          <5>2. p \notin {"idle", "evaluate", "load"}
            BY <3>1, <5>1 DEF Proceeds, AfterRequest
          <5> QED
            BY <5>1, <5>2
        <4> QED
          BY <3>1, <4>1, <4>2, <4>3 DEF Does, Begins
      <3> QED
        BY <2>2, <3>2 DEF Goto, RemoteTypeOK
    <2> QED
      BY <2>1, <2>2
  <1>5. CASE h \in Chats
    <2>1. h \notin Decisions /\ pc[h] \notin {"idle", "evaluate"}
      BY <1>1, <1>5, HandlersDiffer DEF WorkflowOf
    <2>2. bill'[h] = bill[h]
      BY <1>5, <2>1, InputsRemain
    <2>3. workflows[h].status # "ABSENT" => workflows'[h].status # "ABSENT"
      BY <1>5, TablesStay
    <2> QED
      BY <1>3, <1>4, <1>5, <2>1, <2>2, <2>3 DEF DueTo
  <1>6. CASE h \notin Chats
    <2>1. h \in Decisions /\ decisionCall'[h] = decisionCall[h]
      BY <1>1, <1>6, InputsRemain DEF Handlers
    <2>2. \A c \in Chats : approvals[c] # "ABSENT" => approvals'[c] # "ABSENT"
      BY TablesStay
    <2> QED
      BY <1>3, <1>4, <1>6, <2>1, <2>2 DEF DueTo
  <1> QED
    BY <1>5, <1>6

LEMMA CreditingIsDue ==
    ASSUME Placed, NEW h \in Handlers, pc[h] \in Crediting \cup {"check_key"}
    PROVE  DueTo(h)
  <1>1. CASE h \in Chats
    BY <1>1 DEF Placed, ChatPlaced, ChatPlaces, Crediting, PayingChat
  <1>2. CASE h \in Decisions
    BY <1>2 DEF Placed, DecisionPlaced, DecisionPlaces, Crediting, PayingDecision
  <1> QED
    BY <1>1, <1>2 DEF Handlers

\* One request has one run, so one key.
LEMMA SameRequestSameKey ==
    ASSUME Placed, OneRunPerRequest, NEW g \in Handlers, NEW h \in Handlers,
           DueTo(g), DueTo(h), RidOf(g) = RidOf(h)
    PROVE  WorkflowOf(g) = WorkflowOf(h) /\ KeyOf(g) = KeyOf(h)
  <1>1. WorkflowOf(g) = WorkflowOf(h)
    BY DueIsRecorded DEF OneRunPerRequest, RidOf
  <1> QED
    BY <1>1 DEF KeyOf, BillOfHandler, RidOf

\* Two handlers on the way to a credit are about different keys: a chat pays at
\* once and has no approval request, and of the decisions on one request one has its
\* row.
LEMMA RivalsDiffer ==
    ASSUME Placed, Payments, NEW g \in Handlers, NEW h \in Handlers, g # h,
           pc[g] \in Crediting, pc[h] \in Crediting
    PROVE  KeyOf(g) # KeyOf(h)
  <1> SUFFICES ASSUME KeyOf(g) = KeyOf(h)
               PROVE  FALSE
    OBVIOUS
  <1>1. DueTo(g) /\ DueTo(h) /\ RidOf(g) = RidOf(h)
    BY CreditingIsDue DEF KeyOf
  <1>2. WorkflowOf(g) = WorkflowOf(h)
    BY <1>1, SameRequestSameKey DEF Payments
  <1>3. \A d \in Decisions : d \in {g, h} =>
          /\ WorkflowOf(d) \in Chats /\ pc[WorkflowOf(d)] = "done"
          /\ ApprovalRow(d) \in held[d]
    <2> SUFFICES ASSUME NEW d \in Decisions, d \in {g, h}
                 PROVE  /\ WorkflowOf(d) \in Chats /\ pc[WorkflowOf(d)] = "done"
                        /\ ApprovalRow(d) \in held[d]
      OBVIOUS
    <2>1. approvals[WorkflowOf(d)] # "ABSENT" /\ WorkflowOf(d) \in Chats
      BY <1>1, HandlersDiffer DEF DueTo, WorkflowOf
    <2>2. pc[d] \in Overlapping \ {"decide"}
      BY DEF Placed, DecisionPlaced, DecisionPlaces, Crediting, Overlapping
    <2> QED
      BY <2>1, <2>2 DEF Placed, ChatPlaced, Payments, LocksHeld
  <1>4. CASE g \in Decisions /\ h \in Decisions
    BY <1>2, <1>3, <1>4 DEF ApprovalRow, Payments, LocksExclusive, Handlers
  <1>5. CASE g \in Chats
    <2>1. WorkflowOf(g) = g /\ pc[g] # "done"
      BY <1>5 DEF WorkflowOf, Crediting
    <2> QED
      BY <1>2, <1>3, <2>1, <1>5 DEF Handlers, WorkflowOf
  <1>6. CASE h \in Chats
    <2>1. WorkflowOf(h) = h /\ pc[h] # "done"
      BY <1>6 DEF WorkflowOf, Crediting
    <2> QED
      BY <1>2, <1>3, <2>1, <1>6 DEF Handlers, WorkflowOf
  <1> QED
    BY <1>4, <1>5, <1>6 DEF Handlers

-----------------------------------------------------------------------------
(***************************************************************************)
(* Every deed keeps Payments, part by part.                                *)
(***************************************************************************)
LEMMA RunsStayNew ==
    ASSUME Placed, RemoteTypeOK, RunsAreNew, NEW g \in Handlers, Does(g), NEW c \in Chats,
           pc'[c] \in Unrecorded
    PROVE  workflows'[c].status = "ABSENT"
  <1> USE DEF Unrecorded
  <1>1. c \in Handlers /\ (approvals[c] # "ABSENT" => pc[c] = "done")
    BY DEF Handlers, Placed, ChatPlaced
  <1>2. CASE c # g
    BY <1>1, <1>2, OthersStay, TablesStay DEF RunsAreNew
  <1>3. CASE c = g
    <2>1. /\ c \notin Decisions
          /\ pc \in [Handlers -> ChatPlaces \cup DecisionPlaces \cup {"record_waiting"}]
      BY HandlersDiffer DEF RemoteTypeOK
    <2>2. CASE Begins(c)
      BY <2>2 DEF Begins, RunsAreNew, tables
    <2>3. CASE Works(c)
      <3>1. PICK p : Goto(c, p) /\ Proceeds(c, p)
        BY <2>3 DEF Works
      <3>2. pc[c] \in Unrecorded
        BY <1>1, <2>1, <3>1 DEF Goto, Proceeds, AfterRequest
      <3> QED
        BY <2>3, <3>2 DEF Works, RunsAreNew, tables
    <2>4. CASE Ends(c) \/ Commits(c)
      <3>1. \E p : Goto(c, p) /\ p \notin Unrecorded
        BY <2>1, <2>4 DEF Ends, Commits, Credits, Waits, CommitEvaluated, CommitReview, Answer, NextPlace
      <3> QED
        BY <1>1, <2>1, <3>1 DEF Goto
    <2> QED
      BY <1>3, <2>2, <2>3, <2>4 DEF Does
  <1> QED
    BY <1>2, <1>3

LEMMA ReviewsHaveRuns ==
    ASSUME Placed, RemoteTypeOK, RunsAreNew, NEW g \in Handlers, Does(g), NEW c \in Chats,
           pc'[c] \in ReviewingChat
    PROVE  workflows'[c].status # "ABSENT"
  <1>1. c \in Handlers /\ c \notin Decisions
        /\ pc \in [Handlers -> ChatPlaces \cup DecisionPlaces \cup {"record_waiting"}]
    BY HandlersDiffer DEF Handlers, RemoteTypeOK
  <1>2. CASE pc[c] \in ReviewingChat
    BY <1>2, TablesStay DEF RunsAreNew
  <1>3. CASE pc[c] \notin ReviewingChat
    <2>1. c = g
      BY <1>1, <1>3, OthersStay
    <2>2. CASE Works(c)
      <3>1. PICK p : Goto(c, p) /\ Proceeds(c, p)
        BY <2>2 DEF Works
      <3>2. p \in ReviewingChat
        BY <1>1, <3>1 DEF Goto
      <3> QED
        BY <1>1, <1>3, <3>1, <3>2 DEF Proceeds, ReviewingChat, AfterRequest
    <2>3. CASE CommitEvaluated(c)
      BY <2>3 DEF CommitEvaluated, Row, RemoteTypeOK, TablesTyped
    <2>4. CASE Begins(c) \/ Ends(c) \/ (Commits(c) /\ ~ CommitEvaluated(c))
      <3>1. \E p : Goto(c, p) /\ p \notin ReviewingChat
        BY <1>1, <2>4 DEF Begins, Ends, Commits, Credits, Waits, CommitReview, Answer, ReviewingChat
      <3> QED
        BY <1>1, <3>1 DEF Goto
    <2> QED
      BY <2>1, <2>2, <2>3, <2>4 DEF Does
  <1> QED
    BY <1>2, <1>3

LEMMA RowsStayExclusive ==
    ASSUME RemoteTypeOK, LocksExclusive, NEW g \in Handlers, Does(g)
    PROVE  LocksExclusive'
  <1>1. held \in [Handlers -> SUBSET Rows]
    BY DEF RemoteTypeOK
  <1>2. CASE UNCHANGED held
    BY <1>2 DEF LocksExclusive
  <1>3. CASE EndTransaction(g)
    BY <1>1, <1>3 DEF EndTransaction, LocksExclusive
  <1>4. CASE \E rows \in SUBSET Rows : Write(g, rows)
    <2>1. PICK rows \in SUBSET Rows : Write(g, rows)
      BY <1>4
    <2>2. \A h \in Handlers \ {g} : held[h] \cap rows = {}
      BY <2>1 DEF Write, Blocks
    <2>3. held'[g] = held[g] \cup rows /\ \A h \in Handlers \ {g} : held'[h] = held[h]
      BY <1>1, <2>1 DEF Write
    <2> QED
      BY <2>2, <2>3 DEF LocksExclusive
  <1> QED
    BY <1>2, <1>3, <1>4 DEF Does, Begins, Ends, Works, Commits, Credits, Waits, Approves, Answer,
       CommitEvaluated, CommitReview, CommitRejected, Notify

\* A handler that goes on keeps its rows, and has those that its place needs.
LEMMA RowsAreHeld ==
    ASSUME Placed, RemoteTypeOK, LocksHeld, NEW g \in Handlers, Does(g)
    PROVE  LocksHeld'
  <1>0. /\ held \in [Handlers -> SUBSET Rows]
        /\ pc \in [Handlers -> ChatPlaces \cup DecisionPlaces \cup {"record_waiting"}]
    BY DEF RemoteTypeOK
  <1>1. Works(g) => held[g] \subseteq held'[g]
    BY <1>0 DEF Works, Write
  <1>2. ASSUME NEW c \in Chats, pc'[c] = "commit_evaluated"
        PROVE  RequestEntry(c)' \in held'[c]
    <2>0. c \in Handlers /\ c \notin Decisions
      BY HandlersDiffer DEF Handlers
    <2>1. CASE c # g
      <3>1. pc[c] = "commit_evaluated" /\ held'[c] = held[c]
        BY <1>2, <2>0, <2>1, OthersStay
      <3> QED
        BY <2>0, <3>1, InputsRemain DEF LocksHeld, RequestEntry, RidOf, WorkflowOf
    <2>2. CASE c = g
      <3>1. Works(c)
        BY <1>0, <1>2, <2>0, <2>2
           DEF Does, Begins, Ends, Commits, Credits, Waits, CommitEvaluated, CommitReview,
               Answer, Goto, NextPlace
      <3>2. PICK p : Goto(c, p) /\ Proceeds(c, p)
        BY <3>1 DEF Works
      <3>3. p = "commit_evaluated"
        BY <1>0, <1>2, <2>0, <3>2 DEF Goto
      <3>4. RequestEntry(c) \in held'[c]
        <4>1. CASE pc[c] = "commit_evaluated"
          BY <1>1, <2>2, <3>1, <4>1 DEF LocksHeld
        <4>2. CASE pc[c] # "commit_evaluated"
          BY <3>2, <3>3, <4>2 DEF Proceeds, AfterRequest
        <4> QED
          BY <4>1, <4>2
      <3>5. RequestEntry(c)' = RequestEntry(c)
        BY <3>1 DEF Works, inputs, RequestEntry, RidOf, WorkflowOf
      <3> QED
        BY <3>4, <3>5
    <2> QED
      BY <2>1, <2>2
  <1>3. ASSUME NEW d \in Decisions, pc'[d] \in Overlapping \ {"decide"}
        PROVE  ApprovalRow(d)' \in held'[d]
    <2>0. d \in Handlers /\ d \notin Chats
      BY HandlersDiffer DEF Handlers
    <2>1. CASE d # g
      <3>1. pc[d] \in Overlapping \ {"decide"} /\ held'[d] = held[d]
        BY <1>3, <2>0, <2>1, OthersStay
      <3>2. pc[d] # "idle"
        BY <3>1 DEF Overlapping
      <3> QED
        BY <2>0, <3>1, <3>2, InputsRemain DEF LocksHeld, ApprovalRow, WorkflowOf
    <2>2. CASE d = g
      <3>1. Works(d)
        BY <1>0, <1>3, <2>0, <2>2
           DEF Does, Begins, Ends, Commits, Approves, CommitRejected, Notify, Answer, Goto, Overlapping
      <3>2. PICK p : Goto(d, p) /\ Proceeds(d, p)
        BY <3>1 DEF Works
      <3>3. p \in Overlapping \ {"decide"}
        BY <1>0, <1>3, <2>0, <3>2 DEF Goto
      <3>4. ApprovalRow(d) \in held'[d]
        <4>1. CASE pc[d] \in Overlapping \ {"decide"}
          BY <1>1, <2>2, <3>1, <4>1 DEF LocksHeld
        <4>2. CASE pc[d] \notin Overlapping \ {"decide"}
          BY <2>0, <3>2, <3>3, <4>2 DEF Proceeds, Overlapping
        <4> QED
          BY <4>1, <4>2
      <3>5. ApprovalRow(d)' = ApprovalRow(d)
        BY <3>1 DEF Works, inputs, ApprovalRow, WorkflowOf
      <3> QED
        BY <3>4, <3>5
    <2> QED
      BY <2>1, <2>2
  <1> QED
    BY <1>2, <1>3 DEF LocksHeld

\* The unique entry of a request id lets one handler record a run.
LEMMA RequestsStaySingle ==
    ASSUME Placed, RemoteTypeOK, RunsAreNew, LocksExclusive, LocksHeld, OneRunPerRequest,
           NEW g \in Handlers, Does(g)
    PROVE  OneRunPerRequest'
  <1>0. pc \in [Handlers -> ChatPlaces \cup DecisionPlaces \cup {"record_waiting"}]
    BY DEF RemoteTypeOK
  <1>1. \A c \in Chats : workflows[c].status # "ABSENT" => chatCall'[c] = chatCall[c]
    BY InputsRemain DEF RunsAreNew, Unrecorded
  <1>2. ASSUME NEW c \in Chats, workflows[c].status = "ABSENT", workflows'[c].status # "ABSENT"
        PROVE  /\ c = g /\ pc[c] = "commit_evaluated" /\ pc'[c] # "commit_evaluated"
               /\ ~ RequestTaken(RidOf(c)) /\ RequestEntry(c) \in held[c]
               /\ chatCall'[c] = chatCall[c] /\ \A b \in Chats \ {c} : workflows'[b] = workflows[b]
    <2>1. c = g
      BY <1>2, TablesStay DEF Placed, ChatPlaced
    <2>2. c \notin Decisions /\ c \in Handlers
      BY HandlersDiffer DEF Handlers
    <2>3. CommitEvaluated(c)
      <3>1. CASE Commits(c)
        <4>1. pc[c] \in {"commit_credit", "commit_waiting", "commit_review"} =>
                workflows[c].status # "ABSENT"
          BY <2>2 DEF Placed, ChatPlaced, PayingChat, AskingChat, ReviewingChat, DueTo, RunsAreNew
        <4> QED
          BY <1>2, <2>1, <2>2, <3>1, <4>1 DEF Commits, Credits, Waits, CommitReview
      <3> QED
        BY <1>2, <2>1, <3>1 DEF Does, Begins, Ends, Works, tables
    <2>4. pc[c] = "commit_evaluated" /\ pc'[c] # "commit_evaluated"
      BY <1>0, <2>2, <2>3 DEF CommitEvaluated, Goto, NextPlace
    <2>5. \A b \in Chats \ {c} : workflows'[b] = workflows[b]
      BY <2>3 DEF CommitEvaluated, RemoteTypeOK, TablesTyped
    <2> QED
      BY <2>1, <2>3, <2>4, <2>5 DEF CommitEvaluated, inputs, OneRunPerRequest, LocksHeld
  <1>3. ASSUME NEW v \in Chats, NEW w \in Chats, v # w,
               workflows'[v].status # "ABSENT", workflows'[w].status # "ABSENT"
        PROVE  chatCall'[v].rid # chatCall'[w].rid
    <2>1. CASE workflows[v].status # "ABSENT" /\ workflows[w].status # "ABSENT"
      BY <1>1, <1>3, <2>1 DEF OneRunPerRequest
    <2>2. CASE workflows[v].status = "ABSENT"
      BY <1>1, <1>2, <1>3, <2>2 DEF RequestTaken, RidOf, WorkflowOf
    <2>3. CASE workflows[w].status = "ABSENT"
      BY <1>1, <1>2, <1>3, <2>3 DEF RequestTaken, RidOf, WorkflowOf
    <2> QED
      BY <2>1, <2>2, <2>3
  <1>4. ASSUME NEW c \in Chats, pc'[c] = "commit_evaluated"
        PROVE  ~ RequestTaken(RidOf(c))'
    <2>0. c \in Handlers /\ c \notin Decisions /\ WorkflowOf(c) = c /\ WorkflowOf(c)' = c
      BY HandlersDiffer DEF Handlers, WorkflowOf
    <2>1. ~ RequestTaken(RidOf(c)) /\ chatCall'[c] = chatCall[c]
      <3>1. CASE c # g
        <4>1. pc[c] = "commit_evaluated"
          BY <1>4, <2>0, <3>1, OthersStay
        <4> QED
          BY <4>1, InputsRemain DEF OneRunPerRequest
      <3>2. CASE c = g
        <4>1. Works(c)
          BY <1>0, <1>4, <2>0, <3>2
             DEF Does, Begins, Ends, Commits, Credits, Waits, CommitEvaluated, CommitReview,
                 Answer, Goto, NextPlace
        <4>2. PICK p : Goto(c, p) /\ Proceeds(c, p)
          BY <4>1 DEF Works
        <4>3. p = "commit_evaluated"
          BY <1>0, <1>4, <2>0, <4>2 DEF Goto
        <4>4. ~ RequestTaken(RidOf(c))
          BY <4>2, <4>3 DEF Proceeds, AfterRequest, OneRunPerRequest
        <4> QED
          BY <4>1, <4>4 DEF Works, inputs
      <3> QED
        BY <3>1, <3>2
    <2>2. ASSUME NEW w \in Chats, workflows'[w].status # "ABSENT", chatCall'[w].rid = chatCall'[c].rid
          PROVE  FALSE
      <3>1. CASE workflows[w].status # "ABSENT"
        BY <1>1, <2>0, <2>1, <2>2, <3>1 DEF RequestTaken, RidOf
      <3>2. CASE workflows[w].status = "ABSENT"
        <4>1. /\ w = g /\ pc[w] = "commit_evaluated" /\ pc'[w] # "commit_evaluated"
              /\ RequestEntry(w) \in held[w] /\ chatCall'[w] = chatCall[w]
          BY <1>2, <2>2, <3>2
        <4>2. c # w /\ pc[c] = "commit_evaluated"
          BY <1>4, <2>0, <4>1, OthersStay
        <4>3. RequestEntry(c) \in held[c]
          BY <4>2 DEF LocksHeld
        <4>4. RequestEntry(c) = RequestEntry(w)
          BY <2>0, <2>1, <2>2, <4>1 DEF RequestEntry, RidOf, WorkflowOf
        <4> QED
          BY <2>0, <4>1, <4>2, <4>3, <4>4 DEF LocksExclusive
      <3> QED
        BY <3>1, <3>2
    <2> QED
      BY <2>0, <2>2 DEF RequestTaken, RidOf
  <1> QED
    BY <1>3, <1>4 DEF OneRunPerRequest

\* Who commits a key is on the way to a credit.
LEMMA KeysOfPayers ==
    ASSUME NEW g \in Handlers, Does(g)
    PROVE  \/ keys' = keys
           \/ keys' = keys \cup {KeyOf(g)} /\ pc[g] \in Crediting
  BY DEF Does, Begins, Ends, Works, Commits, Credits, Waits, Approves, CommitEvaluated,
         CommitReview, CommitRejected, Notify, tables, Crediting

LEMMA KeysStayFresh ==
    ASSUME Placed, RemoteTypeOK, Payments, NEW g \in Handlers, Does(g), NEW h \in Handlers,
           pc'[h] \in Crediting
    PROVE  KeyOf(h)' \notin keys'
  <1>0. pc \in [Handlers -> ChatPlaces \cup DecisionPlaces \cup {"record_waiting"}]
    BY DEF RemoteTypeOK
  <1>1. CASE h # g
    <2>1. pc[h] \in Crediting
      BY <1>1, OthersStay
    <2>2. KeyOf(h)' = KeyOf(h) /\ KeyOf(h) \notin keys
      BY <2>1, CreditingIsDue, DueRemains DEF Payments, KeysAreFresh
    <2> QED
      BY <1>1, <2>1, <2>2, KeysOfPayers, RivalsDiffer
  <1>2. CASE h = g
    <2>1. Works(g)
      <3>1. CASE Begins(g) \/ Ends(g) \/ Commits(g)
        <4>1. \E p : Goto(g, p) /\ p \notin Crediting
          BY <3>1 DEF Begins, Ends, Commits, Credits, Waits, Approves, CommitEvaluated,
                      CommitReview, CommitRejected, Notify, Answer, NextPlace, Crediting
        <4> QED
          BY <1>0, <1>2, <4>1 DEF Goto
      <3> QED
        BY <3>1 DEF Does
    <2>2. PICK p : Goto(g, p) /\ Proceeds(g, p)
      BY <2>1 DEF Works
    <2>3. p \in Crediting
      BY <1>0, <1>2, <2>2 DEF Goto
    <2>4. /\ pc[g] \in Crediting \cup {"check_key"}
          /\ pc[g] = "check_key" => KeyOf(g) \notin keys
      BY <2>2, <2>3 DEF Proceeds, Crediting, AfterRequest
    <2>5. KeyOf(g)' = KeyOf(g) /\ KeyOf(g) \notin keys
      BY <2>4, CreditingIsDue, DueRemains DEF Payments, KeysAreFresh
    <2> QED
      BY <1>2, <2>1, <2>5 DEF Works, tables
  <1> QED
    BY <1>1, <1>2

LEMMA RejectionsStay ==
    ASSUME RemoteTypeOK, Placed, RejectionsReject, NEW g \in Handlers, Does(g), NEW d \in Decisions,
           pc'[d] \in {"reject", "commit_rejected"}
    PROVE  decisionCall'[d].verdict # "approve"
  <1>0. /\ d \in Handlers /\ d \notin Chats
        /\ pc \in [Handlers -> ChatPlaces \cup DecisionPlaces \cup {"record_waiting"}]
    BY HandlersDiffer DEF RemoteTypeOK, Handlers
  <1>1. CASE d # g
    <2>1. pc[d] \in {"reject", "commit_rejected"}
      BY <1>0, <1>1, OthersStay
    <2> QED
      BY <2>1, InputsRemain DEF RejectionsReject
  <1>2. CASE d = g
    <2>1. CASE Works(d)
      <3>1. PICK p : Goto(d, p) /\ Proceeds(d, p)
        BY <2>1 DEF Works
      <3>2. p \in {"reject", "commit_rejected"}
        BY <1>0, <3>1 DEF Goto
      <3>3. decisionCall[d].verdict # "approve"
        BY <1>0, <3>1, <3>2 DEF Proceeds, AfterRequest, RejectionsReject
      <3> QED
        BY <2>1, <3>3 DEF Works, inputs
    <2>2. CASE Begins(d) \/ Ends(d) \/ Commits(d)
      <3>1. \E p : Goto(d, p) /\ p \notin {"reject", "commit_rejected"}
        BY <1>0, <2>2 DEF Begins, Ends, Commits, Approves, CommitRejected, Notify, Answer
      <3> QED
        BY <1>0, <3>1 DEF Goto
    <2> QED
      BY <1>2, <2>1, <2>2 DEF Does
  <1> QED
    BY <1>1, <1>2

\* Who has paid had done so before, or does so now, out of the places that pay.
LEMMA WhoPays ==
    ASSUME RemoteTypeOK, Placed, Payments, NEW g \in Handlers, Does(g), NEW h \in Handlers,
           HasPaid(h)'
    PROVE  \/ HasPaid(h)
           \/ /\ h = g /\ pc[g] \in {"commit_credit", "commit_approved"}
              /\ keys' = keys \cup {KeyOf(g)}
  <1>0. /\ pc \in [Handlers -> ChatPlaces \cup DecisionPlaces \cup {"record_waiting"}]
        /\ reply \in [Handlers -> Replies]
    BY DEF RemoteTypeOK
  <1>1. CASE h # g
    <2>1. pc'[h] = pc[h] /\ reply'[h] = reply[h]
      BY <1>1, OthersStay
    <2>2. pc[h] = "notify" => decisionCall'[h] = decisionCall[h]
      BY InputsRemain DEF Placed, ChatPlaced, ChatPlaces, Handlers
    <2> QED
      BY <2>1, <2>2 DEF HasPaid
  <1>2. CASE h = g
    <2> USE DEF HasPaid, Answer, Goto
    <2>1. CASE Begins(g)
      BY <1>0, <1>2, <2>1 DEF Begins
    <2>2. CASE Ends(g)
      BY <1>0, <1>2, <2>2 DEF Ends
    <2>3. CASE Works(g)
      <3>1. PICK p : Goto(g, p) /\ Proceeds(g, p)
        BY <2>3 DEF Works
      <3>2. p = "notify" => pc[g] = "notify"
        BY <3>1 DEF Proceeds, AfterRequest
      <3> QED
        BY <1>0, <1>2, <2>3, <3>1, <3>2 DEF Works, inputs
    <2>4. CASE g \in Chats /\ Commits(g)
      BY <1>0, <1>2, <2>4, HandlersDiffer
         DEF Commits, Credits, Waits, CommitEvaluated, CommitReview, NextPlace
    <2>5. CASE g \in Decisions /\ Approves(g)
      BY <1>2, <2>5 DEF Approves
    <2>6. CASE g \in Decisions /\ CommitRejected(g)
      BY <1>0, <1>2, <2>6 DEF CommitRejected, inputs, Payments, RejectionsReject
    <2>7. CASE g \in Decisions /\ Notify(g)
      BY <1>0, <1>2, <2>7 DEF Notify, Outcome
    <2> QED
      BY <2>1, <2>2, <2>3, <2>4, <2>5, <2>6, <2>7, HandlersDiffer DEF Does, Commits
  <1> QED
    BY <1>1, <1>2

LEMMA PaymentsStayKeyed ==
    ASSUME RemoteTypeOK, Placed, Payments, NEW g \in Handlers, Does(g), NEW h \in Handlers,
           HasPaid(h)'
    PROVE  /\ DueTo(h) /\ DueTo(h)' /\ KeyOf(h)' \in keys'
           /\ HasPaid(h) \/ KeyOf(h) \notin keys
  <1>1. CASE HasPaid(h)
    BY <1>1, DueRemains, TablesStay DEF Payments, PaymentsKeyed
  <1>2. CASE /\ h = g /\ pc[g] \in {"commit_credit", "commit_approved"}
             /\ keys' = keys \cup {KeyOf(g)}
    <2>1. pc[g] \in Crediting
      BY <1>2 DEF Crediting
    <2>2. DueTo(g) /\ KeyOf(g) \notin keys
      BY <2>1, CreditingIsDue DEF Payments, KeysAreFresh
    <2> QED
      BY <1>2, <2>2, DueRemains
  <1> QED
    BY <1>1, <1>2, WhoPays

LEMMA PaidStaysOnce ==
    ASSUME RemoteTypeOK, Placed, Payments, NEW f \in Handlers, Does(f),
           NEW g \in Handlers, NEW h \in Handlers, HasPaid(g)', HasPaid(h)', g # h
    PROVE  RidOf(g)' # RidOf(h)'
  <1>1. DueTo(g) /\ DueTo(h) /\ RidOf(g)' = RidOf(g) /\ RidOf(h)' = RidOf(h)
    BY PaymentsStayKeyed, DueRemains
  <1>2. CASE HasPaid(g) /\ HasPaid(h)
    BY <1>1, <1>2 DEF Payments, PaidOnce
  <1>3. CASE ~ HasPaid(g) /\ HasPaid(h)
    <2>1. KeyOf(g) \notin keys /\ KeyOf(h) \in keys
      BY <1>3, PaymentsStayKeyed DEF Payments, PaymentsKeyed
    <2> QED
      BY <1>1, <2>1, SameRequestSameKey DEF Payments
  <1>4. CASE HasPaid(g) /\ ~ HasPaid(h)
    <2>1. KeyOf(h) \notin keys /\ KeyOf(g) \in keys
      BY <1>4, PaymentsStayKeyed DEF Payments, PaymentsKeyed
    <2> QED
      BY <1>1, <2>1, SameRequestSameKey DEF Payments
  <1>5. CASE ~ HasPaid(g) /\ ~ HasPaid(h)
    BY <1>5, WhoPays
  <1> QED
    BY <1>2, <1>3, <1>4, <1>5

LEMMA AnswersStayLast ==
    ASSUME RemoteTypeOK, AnswersAreLast, NEW g \in Handlers, Does(g), NEW h \in Handlers,
           pc'[h] # "done"
    PROVE  reply'[h] = "none"
  <1>0. /\ pc \in [Handlers -> ChatPlaces \cup DecisionPlaces \cup {"record_waiting"}]
        /\ reply \in [Handlers -> Replies]
    BY DEF RemoteTypeOK
  <1>1. CASE h # g
    BY <1>1, OthersStay DEF AnswersAreLast
  <1>2. CASE h = g
    BY <1>0, <1>2
       DEF Does, Begins, Ends, Works, Commits, Credits, Waits, Approves, CommitEvaluated,
           CommitReview, CommitRejected, Notify, Answer, Goto, AnswersAreLast
  <1> QED
    BY <1>1, <1>2

LEMMA InsertsStay ==
    ASSUME RemoteTypeOK, Placed, Payments, NEW g \in Handlers, Does(g), NEW h \in Handlers,
           Remote(h)'
    PROVE  /\ pc'[h] \in AfterCredit \/ HasPaid(h)' => Inserted(h, "create_credit")
           /\ pc'[h] \in AfterRequest \/ reply'[h] = "waiting" => Inserted(h, "request_approval")
  <1>0. /\ pc \in [Handlers -> ChatPlaces \cup DecisionPlaces \cup {"record_waiting"}]
        /\ reply \in [Handlers -> Replies]
    BY DEF RemoteTypeOK
  <1>1. CASE h # g
    <2>1. Remote(h) /\ pc'[h] = pc[h] /\ reply'[h] = reply[h]
      BY <1>1, OthersStay DEF Remote
    <2>2. HasPaid(h)' => HasPaid(h)
      BY <1>1, WhoPays
    <2> QED
      BY <2>1, <2>2 DEF Payments, InsertsArrived
  <1>2. CASE h = g /\ Begins(g)
    <2>1. reply'[g] = "none" /\ pc'[g] \in {"evaluate", "load"}
      BY <1>0, <1>2 DEF Begins, Goto, Payments, AnswersAreLast
    <2> QED
      BY <1>2, <2>1 DEF HasPaid, AfterCredit, AfterRequest
  <1>3. CASE h = g /\ ~ Begins(g)
    <2>0. Remote(g)
      <3>1. pc[g] # "idle"
        BY <1>3 DEF Does, Ends, Works, Commits, Credits, Waits, Approves, CommitEvaluated,
                    CommitReview, CommitRejected, Notify
      <3> QED
        BY <1>3, <3>1, InputsRemain DEF Remote
    <2>1. HasPaid(g)' => Inserted(g, "create_credit")
      <3>1. HasPaid(g)' => HasPaid(g) \/ pc[g] \in AfterCredit
        BY WhoPays DEF AfterCredit
      <3> QED
        BY <2>0, <3>1 DEF Payments, InsertsArrived
    <2>2. CASE Works(g)
      <3>1. PICK p : Goto(g, p) /\ Proceeds(g, p)
        BY <2>2 DEF Works
      <3>2. p \in AfterCredit => pc[g] \in AfterCredit \/ Inserted(g, "create_credit")
        BY <2>0, <3>1 DEF Proceeds, AfterCredit, AfterRequest
      <3>3. p \in AfterRequest => pc[g] \in AfterRequest \/ Inserted(g, "request_approval")
        BY <2>0, <3>1 DEF Proceeds, AfterRequest
      <3>4. reply'[g] = reply[g] /\ pc'[g] = p
        BY <1>0, <2>2, <3>1 DEF Works, Goto
      <3> QED
        BY <1>3, <2>0, <2>1, <3>2, <3>3, <3>4 DEF Payments, InsertsArrived
    <2>3. CASE Ends(g) \/ Commits(g)
      <3>1. pc'[g] \notin AfterCredit \cup AfterRequest
        <4>1. \E p : Goto(g, p) /\ p \notin AfterCredit \cup AfterRequest
          BY <2>3 DEF Ends, Commits, Credits, Waits, Approves, CommitEvaluated, CommitReview,
                      CommitRejected, Notify, Answer, NextPlace, AfterCredit, AfterRequest
        <4> QED
          BY <1>0, <4>1 DEF Goto
      <3>2. reply'[g] = "waiting" => reply[g] = "waiting" \/ pc[g] \in AfterRequest
        BY <1>0, <2>3
           DEF Ends, Commits, Credits, Waits, Approves, CommitEvaluated, CommitReview,
               CommitRejected, Notify, Outcome, Answer, AfterRequest
      <3> QED
        BY <1>3, <2>0, <2>1, <3>1, <3>2 DEF Payments, InsertsArrived
    <2> QED
      BY <1>3, <2>2, <2>3 DEF Does
  <1> QED
    BY <1>1, <1>2, <1>3

LEMMA DeedsKeepPayments ==
    ASSUME RemoteTypeOK, Placed, Payments, NEW g \in Handlers, Does(g)
    PROVE  Payments'
  <1>1. RunsAreNew'
    BY RunsStayNew, ReviewsHaveRuns DEF RunsAreNew, Payments
  <1>2. LocksExclusive' /\ LocksHeld' /\ OneRunPerRequest'
    BY RowsStayExclusive, RowsAreHeld, RequestsStaySingle DEF Payments
  <1>3. KeysAreFresh'
    BY KeysStayFresh DEF KeysAreFresh
  <1>4. RejectionsReject'
    BY RejectionsStay DEF RejectionsReject, Payments
  <1>5. PaymentsKeyed'
    BY PaymentsStayKeyed DEF PaymentsKeyed
  <1>6. PaidOnce'
    BY PaidStaysOnce DEF PaidOnce
  <1>7. AnswersAreLast'
    BY AnswersStayLast DEF AnswersAreLast, Payments
  <1>8. InsertsArrived'
    <2>1. \A h \in Handlers : \A t : Inserted(h, t) => Inserted(h, t)'
      BY ServerRemembers DEF Inserted
    <2> QED
      BY <2>1, InsertsStay DEF InsertsArrived
  <1> QED
    BY <1>1, <1>2, <1>3, <1>4, <1>5, <1>6, <1>7, <1>8 DEF Payments

LEMMA ElsewhereKeepsPayments ==
    ASSUME Payments, Elsewhere
    PROVE  Payments'
  <1> USE DEF Elsewhere, inputs, tables
  <1>1. /\ UNCHANGED <<pc, chatCall, decisionCall, bill, workflows, approvals, keys, held, reply, mode>>
        /\ written \subseteq written'
    OBVIOUS
  <1> HIDE DEF Elsewhere, inputs, tables
  <1>2. RunsAreNew' /\ LocksExclusive' /\ RejectionsReject' /\ AnswersAreLast'
    BY <1>1 DEF Payments, RunsAreNew, LocksExclusive, RejectionsReject, AnswersAreLast
  <1>3. \A h : /\ KeyOf(h)' = KeyOf(h) /\ RidOf(h)' = RidOf(h)
               /\ RequestEntry(h)' = RequestEntry(h) /\ ApprovalRow(h)' = ApprovalRow(h)
               /\ HasPaid(h)' = HasPaid(h) /\ (DueTo(h) => DueTo(h)')
    BY <1>1 DEF KeyOf, RidOf, WorkflowOf, BillOfHandler, RequestEntry, ApprovalRow, HasPaid, DueTo
  <1>4. LocksHeld'
    BY <1>1, <1>3 DEF Payments, LocksHeld
  <1>5. OneRunPerRequest'
    BY <1>1, <1>3 DEF Payments, OneRunPerRequest, RequestTaken
  <1>6. KeysAreFresh' /\ PaymentsKeyed' /\ PaidOnce'
    BY <1>1, <1>3 DEF Payments, KeysAreFresh, PaymentsKeyed, PaidOnce
  <1>7. InsertsArrived'
    BY <1>1, <1>3 DEF Payments, InsertsArrived, Inserted, Remote
  <1> QED
    BY <1>2, <1>4, <1>5, <1>6, <1>7 DEF Payments

LEMMA PaymentsAtFirst == RemoteInit => Payments
  <1> SUFFICES ASSUME RemoteInit
               PROVE  Payments
    OBVIOUS
  <1>1. /\ \A h \in Handlers : pc[h] = "idle" /\ reply[h] = "none" /\ held[h] = {}
        /\ \A c \in Chats : workflows[c].status = "ABSENT"
    BY DEF RemoteInit, Init, Row
  <1>2. Chats \subseteq Handlers /\ Decisions \subseteq Handlers
    BY DEF Handlers
  <1> QED
    BY <1>1, <1>2
       DEF Payments, RunsAreNew, ReviewingChat, LocksExclusive, LocksHeld, Overlapping,
           OneRunPerRequest, KeysAreFresh, Crediting, PaymentsKeyed, PaidOnce, HasPaid,
           RejectionsReject, InsertsArrived, AfterCredit, AfterRequest, AnswersAreLast

\* Payments is inductive beside the types and the places.
LEMMA PaymentsAlways == RemoteSpec => []Payments
  <1>1. Payments /\ Placed /\ RemoteTypeOK /\ [RemoteNext]_remoteVars => Payments'
    BY EveryStep, DeedsKeepPayments, ElsewhereKeepsPayments
  <1> QED
    BY <1>1, PaymentsAtFirst, PlacedAlways, RemoteTyping, PTL DEF RemoteSpec

-----------------------------------------------------------------------------
(***************************************************************************)
(* What follows for the answers and for what is sent.                      *)
(***************************************************************************)

\* Of all calls about one request, in processes of either mode, one at most is
\* answered that it is paid: the others lose the race for the request id, for the
\* approval row or for the idempotency key.
THEOREM OnePaidAnswer == RemoteSpec => []OneAnswerPays
  <1>1. Payments => OneAnswerPays
    BY DEF Payments, PaidOnce, HasPaid, OneAnswerPays
  <1> QED
    BY <1>1, PaymentsAlways, PTL

\* What a remote call answers is on record, in the agent's database and on the
\* server, whatever was retried, lost or late on the way.
THEOREM RemoteAnswersStand == RemoteSpec => []RemoteAnswersHold
  <1>1. Payments => RemoteAnswersHold
    BY DEF Payments, PaymentsKeyed, InsertsArrived, HasPaid, Inserted, RemoteAnswersHold
  <1> QED
    BY <1>1, PaymentsAlways, PTL

\* A message that asks for a credit is sent by its handler in a call, which goes on.
LEMMA SendersPay ==
    ASSUME Placed, [RemoteNext]_remoteVars, NEW m \in Sent' \ Sent
    PROVE  /\ m.request \in Handlers /\ pc[m.request] = "insert_credit" /\ Remote(m.request)
           /\ UNCHANGED <<pc, reply, mode>>
  <1>1. PICK h \in Handlers :
          Client!Post(h) /\ m = Client!Message(h) /\ UNCHANGED <<pc, reply, mode>>
    <2> USE DEF Sent, Client!server
    <2>1. ASSUME NEW h \in Handlers, CallTool(h) \/ GoOn(h)
          PROVE  Client!Post(h) /\ m = Client!Message(h) /\ UNCHANGED <<pc, reply, mode>>
      BY <2>1 DEF CallTool, GoOn, Client!Call, Client!Enter, Client!Post, Client!BackOff,
                  Client!Retry, vars
    <2>2. ASSUME NEW h \in Handlers,
                 CallReturns(h) \/ CallFails(h) \/ SessionStep(h) \/ Arrive(h) \/ RemoteAbort(h)
          PROVE  FALSE
      BY <2>2 DEF CallReturns, CallFails, SessionStep, Arrive, RemoteAbort, serverVars,
                  Client!Succeed, Client!GiveUp, Client!Malformed, Client!InvalidResult, Client!Cancel
    <2>3. ASSUME NEW n \in arriving, ServerStep(n)
          PROVE  FALSE
      BY <2>3 DEF ServerStep, Client!Execute, Client!FailOnServer
    <2>4. CASE (\E c \in Chats : RemoteLapse(c)) \/ RemoteQuiescent \/ UNCHANGED remoteVars
      BY <2>4 DEF RemoteLapse, RemoteQuiescent, remoteVars, serverVars
    <2> QED
      BY <2>1, <2>2, <2>3, <2>4 DEF RemoteNext, HandlerStep
  <1>2. m.request = h /\ tool[h] = "create_credit"
    BY <1>1 DEF Client!Message, Sent
  <1>3. Client!InCall(h)
    BY <1>1 DEF Client!Post, Client!InCall
  <1> QED
    BY <1>1, <1>2, <1>3 DEF Placed, CallPlaced, Awaits, Client!Reads

\* A credit is sent only under a key that is not recorded, and that no other
\* handler is paying under, although the key is committed after the server has
\* inserted the credit.
THEOREM KeysGuardPosts == RemoteSpec => KeyGuardsPosts
  <1>1. Placed /\ Payments /\ [RemoteNext]_remoteVars =>
          [\A m \in Sent' \ Sent :
              /\ KeyOf(m.request) \notin keys
              /\ \A g \in Handlers \ {m.request} :
                   Paying(g) => KeyOf(g) # KeyOf(m.request)]_remoteVars
    <2> SUFFICES ASSUME Placed, Payments, [RemoteNext]_remoteVars, NEW m \in Sent' \ Sent
                 PROVE  /\ KeyOf(m.request) \notin keys
                        /\ \A g \in Handlers \ {m.request} :
                             Paying(g) => KeyOf(g) # KeyOf(m.request)
      OBVIOUS
    <2>1. m.request \in Handlers /\ pc[m.request] \in Crediting
      BY SendersPay DEF Crediting
    <2>2. \A g \in Handlers : Paying(g) => pc[g] \in Crediting
      BY DEF Paying, Crediting
    <2> QED
      BY <2>1, <2>2, RivalsDiffer DEF Payments, KeysAreFresh
  <1> QED
    BY <1>1, PlacedAlways, PaymentsAlways, PTL DEF RemoteSpec, KeyGuardsPosts

-----------------------------------------------------------------------------
(***************************************************************************)
(* What becomes of the calls that have sent a credit.                      *)
(***************************************************************************)
Broken(h) == reply[h] \in {"failure", "unavailable"}

Accountable(h) ==
    /\ Remote(h)
    /\ pc[h] \in AfterCredit \cup {"insert_credit"} \/ HasPaid(h) \/ Broken(h)

\* A call that has sent a credit is still paying, has paid or has failed.
SendersAccounted == \A m \in Sent : Accountable(m.request)

LEMMA AccountStays ==
    ASSUME RemoteTypeOK, Placed, Payments, NEW g \in Handlers, Does(g), NEW h \in Handlers,
           Accountable(h)
    PROVE  Accountable(h)'
  <1> USE DEF HasPaid, Broken, Answer, Goto
  <1>0. /\ pc \in [Handlers -> ChatPlaces \cup DecisionPlaces \cup {"record_waiting"}]
        /\ reply \in [Handlers -> Replies]
    BY DEF RemoteTypeOK
  <1>1. pc[h] # "done" => reply[h] = "none"
    BY DEF Payments, AnswersAreLast
  <1>2. /\ pc[h] # "idle" /\ Remote(h) /\ Remote(h)'
        /\ pc[h] = "notify" => h \in Decisions /\ decisionCall'[h] = decisionCall[h]
    <2>1. pc[h] # "idle"
      BY <1>1 DEF Accountable, AfterCredit
    <2>2. pc[h] = "notify" => h \in Decisions
      BY DEF Placed, ChatPlaced, ChatPlaces, Handlers
    <2> QED
      BY <2>1, <2>2, InputsRemain DEF Accountable, Remote
  <1>3. CASE h # g
    BY <1>2, <1>3, OthersStay DEF Accountable
  <1>4. ASSUME h = g
        PROVE  pc[g] # "done" /\ pc[g] \in AfterCredit \cup {"insert_credit", "notify"}
    <2>1. pc[g] # "done"
      BY DEF Does, Begins, Ends, Works, Commits, Credits, Waits, Approves, CommitEvaluated,
             CommitReview, CommitRejected, Notify
    <2> QED
      BY <1>1, <1>4, <2>1 DEF Accountable
  <1>5. CASE h = g /\ Ends(g)
    <2>1. PICK r : Answer(g, r) /\ r \in {"failure", "unavailable"}
      BY <1>2, <1>4, <1>5 DEF Ends
    <2> QED
      BY <1>0, <1>2, <1>5, <2>1 DEF Accountable
  <1>6. CASE h = g /\ Works(g)
    <2>1. PICK p : Goto(g, p) /\ Proceeds(g, p)
      BY <1>6 DEF Works
    <2>2. \/ p \in AfterCredit \cup {"insert_credit"}
          \/ p = "notify" /\ pc[g] = "notify"
      BY <1>4, <1>6, <2>1 DEF Proceeds, AfterCredit, AfterRequest
    <2>3. pc'[g] = p
      BY <1>0, <2>1
    <2>4. p = "notify" => decisionCall[g].verdict = "approve"
      BY <1>1, <1>4, <1>6, <2>2 DEF Accountable, AfterCredit
    <2> QED
      BY <1>2, <1>6, <2>2, <2>3, <2>4 DEF Accountable
  <1>7. CASE h = g /\ g \in Chats /\ Commits(g)
    <2>1. g \notin Decisions /\ pc[g] \in AfterCredit \cup {"insert_credit"}
      BY <1>2, <1>4, <1>7, HandlersDiffer
    <2>2. Credits(g)
      BY <1>7, <2>1 DEF Commits, Waits, CommitEvaluated, CommitReview, AfterCredit
    <2> QED
      BY <1>0, <1>2, <1>7, <2>2 DEF Accountable, Credits
  <1>8. CASE h = g /\ g \in Decisions /\ Commits(g)
    <2>1. g \notin Chats
      BY <1>8, HandlersDiffer
    <2>2. CASE Approves(g)
      <3>1. DueTo(g)
        BY <2>2, CreditingIsDue DEF Approves, Crediting
      <3> QED
        BY <1>0, <1>2, <1>8, <2>1, <2>2, <3>1 DEF Accountable, Approves, inputs, DueTo
    <2>3. CASE Notify(g)
      <3>1. decisionCall[g].verdict = "approve"
        BY <1>1, <1>4, <1>8, <2>3 DEF Accountable, Notify, AfterCredit
      <3> QED
        BY <1>0, <1>2, <1>8, <2>3, <3>1 DEF Accountable, Notify, Outcome
    <2> QED
      BY <1>4, <1>8, <2>1, <2>2, <2>3 DEF Commits, CommitRejected, AfterCredit
  <1> QED
    BY <1>2, <1>3, <1>5, <1>6, <1>7, <1>8 DEF Does, Begins, Commits

LEMMA SendersStayAccounted ==
    ASSUME RemoteTypeOK, Placed, Payments, SendersAccounted, [RemoteNext]_remoteVars
    PROVE  SendersAccounted'
  <1> SUFFICES ASSUME NEW m \in Sent'
               PROVE  Accountable(m.request)'
    BY DEF SendersAccounted
  <1>1. CASE m \notin Sent
    BY <1>1, SendersPay DEF Accountable, Remote
  <1>2. CASE m \in Sent
    <2>1. m.request \in Handlers /\ Accountable(m.request)
      BY <1>2 DEF SendersAccounted, Placed
    <2>2. CASE Elsewhere
      BY <2>1, <2>2 DEF Elsewhere, inputs, Accountable, Remote, HasPaid, Broken
    <2> QED
      BY <2>1, <2>2, AccountStays, EveryStep
  <1> QED
    BY <1>1, <1>2

\* Of the calls that ever send the server a credit for one request, all but one
\* have failed, in whatever order they were sent, lost or executed: a second
\* payment takes a call that ends in a failure after it has sent the first.
THEOREM SecondPaymentsFollowFailures == RemoteSpec => []SecondPaymentNeedsFailure
  <1>1. RemoteInit => SendersAccounted
    BY DEF RemoteInit, Client!Init, SendersAccounted, Sent
  <1>2. Placed /\ Payments /\ SendersAccounted => SecondPaymentNeedsFailure
    <2> SUFFICES ASSUME Placed, Payments, SendersAccounted, NEW m \in Sent, NEW n \in Sent,
                        m.request # n.request, RidOf(m.request) = RidOf(n.request),
                        ~ Broken(m.request), ~ Broken(n.request)
                 PROVE  FALSE
      BY DEF SecondPaymentNeedsFailure, Broken
    <2>1. /\ m.request \in Handlers /\ DueTo(m.request)
          /\ n.request \in Handlers /\ DueTo(n.request)
      BY DEF Placed
    <2>2. KeyOf(m.request) = KeyOf(n.request)
      BY <2>1, SameRequestSameKey DEF Payments
    <2>3. \A h \in {m.request, n.request} : pc[h] \in Crediting \/ HasPaid(h)
      BY DEF SendersAccounted, Accountable, AfterCredit, Crediting
    <2>4. \A h \in {m.request, n.request} :
            /\ pc[h] \in Crediting => KeyOf(h) \notin keys
            /\ HasPaid(h) => KeyOf(h) \in keys
      BY <2>1 DEF Payments, KeysAreFresh, PaymentsKeyed
    <2>5. CASE pc[m.request] \in Crediting /\ pc[n.request] \in Crediting
      BY <2>1, <2>2, <2>5, RivalsDiffer
    <2>6. CASE HasPaid(m.request) /\ HasPaid(n.request)
      BY <2>1, <2>6 DEF Payments, PaidOnce
    <2> QED
      BY <2>2, <2>3, <2>4, <2>5, <2>6
  <1> QED
    BY <1>1, <1>2, SendersStayAccounted, RemoteTyping, PlacedAlways, PaymentsAlways, PTL
    DEF RemoteSpec

-----------------------------------------------------------------------------
(***************************************************************************)
(* The counters of BillingMetrics.                                         *)
(***************************************************************************)

\* The counters watch the billing agent and change nothing in it.
LEMMA MetricsOnlyWatch == MetricsSpec => RemoteSpec
  <1>1. MetricsInit => RemoteInit
    BY DEF MetricsInit
  <1>2. [MetricsNext]_metricsVars => [RemoteNext]_remoteVars
    BY DEF MetricsNext, metricsVars
  <1> QED
    BY <1>1, <1>2, PTL DEF MetricsSpec, RemoteSpec

\* Who counts in a step.
LEMMA WhoCounts ==
    ASSUME Record
    PROVE  /\ creditsCreated \subseteq creditsCreated'
           /\ approvalsCreated \subseteq approvalsCreated'
           /\ approvalsCompleted \subseteq approvalsCompleted'
           /\ \A h \in Handlers :
                /\ pc[h] = "insert_credit" /\ pc'[h] \in {"complete", "grant"} =>
                     h \in creditsCreated'
                /\ pc[h] = "request_approval" /\ pc'[h] \in AfterRequest => h \in approvalsCreated'
                /\ pc[h] \in {"grant", "reject"} /\ pc'[h] \in {"commit_approved", "commit_rejected"} =>
                     h \in approvalsCompleted'
           /\ \A h \in creditsCreated' \ creditsCreated :
                h \in Handlers /\ pc[h] = "insert_credit" /\ pc'[h] \in {"complete", "grant"}
           /\ \A h \in approvalsCreated' \ approvalsCreated :
                h \in Handlers /\ pc[h] = "request_approval" /\ pc'[h] \in AfterRequest
           /\ \A h \in approvalsCompleted' \ approvalsCompleted :
                /\ h \in Handlers /\ pc[h] \in {"grant", "reject"}
                /\ pc'[h] \in {"commit_approved", "commit_rejected"}
  BY DEF Record, RecordsCreditCreated, RecordsApprovalCreated, RecordsApprovalCompleted,
         Moves, AfterRequest

\* The ways into the places that are counted.
LEMMA PlacesAreCounted ==
    ASSUME RemoteTypeOK, NEW g \in Handlers, Does(g), NEW h \in Handlers
    PROVE  /\ pc'[h] \in AfterCredit =>
                \/ pc[h] \in AfterCredit
                \/ pc[h] = "insert_credit" /\ pc'[h] \in {"complete", "grant"}
           /\ pc'[h] \in AfterRequest => pc[h] \in AfterRequest \cup {"request_approval"}
           /\ pc'[h] \in {"commit_approved", "commit_rejected"} =>
                pc[h] \in {"grant", "reject", "commit_approved", "commit_rejected"}
           /\ pc[h] # "idle" => pc'[h] # "idle"
           /\ pc[h] = "done" => h # g
  <1>0. pc \in [Handlers -> ChatPlaces \cup DecisionPlaces \cup {"record_waiting"}]
    BY DEF RemoteTypeOK
  <1>1. CASE h # g
    BY <1>1, OthersStay
  <1>2. CASE h = g /\ Works(g)
    <2>1. PICK p : Goto(g, p) /\ Proceeds(g, p)
      BY <1>2 DEF Works
    <2>2. pc'[h] = p
      BY <1>0, <1>2, <2>1 DEF Goto
    <2> QED
      BY <1>2, <2>1, <2>2 DEF Works, Proceeds, AfterCredit, AfterRequest
  <1>3. CASE h = g /\ (Begins(g) \/ Ends(g) \/ Commits(g))
    <2>1. /\ pc[g] # "done"
          /\ \E p : /\ Goto(g, p)
                    /\ p \notin AfterCredit \cup AfterRequest \cup {"commit_rejected", "idle"}
      BY <1>3 DEF Begins, Ends, Commits, Credits, Waits, Approves, CommitEvaluated, CommitReview,
                  CommitRejected, Notify, Answer, NextPlace, AfterCredit, AfterRequest
    <2> QED
      BY <1>0, <1>3, <2>1 DEF Goto, AfterCredit
  <1> QED
    BY <1>1, <1>2, <1>3 DEF Does

\* What lasts and how it came about.
LEMMA WhatLastsIsNew ==
    ASSUME RemoteTypeOK, Placed, NEW g \in Handlers, Does(g)
    PROVE  /\ credits \subseteq credits' /\ audits \subseteq audits'
           /\ \A k \in credits' \ credits : k.by = g /\ pc[g] \in AfterCredit
           /\ \A a \in audits' \ audits :
                /\ a.event = "CREDIT_CREATED" => a.by = g /\ pc[g] \in AfterCredit
                /\ a.event \in {"APPROVAL_GRANTED", "APPROVAL_REJECTED"} =>
                     a.by = g /\ pc[g] \in {"commit_approved", "commit_rejected"}
           /\ reply'[g] = "credited" =>
                reply[g] = "credited" \/ pc[g] \in AfterCredit
           /\ \A c \in Chats :
                /\ workflows'[c].status = "WAITING_APPROVAL" =>
                     workflows[c].status = "WAITING_APPROVAL" \/ (c = g /\ pc[g] \in AfterRequest)
                /\ approvals'[c] # "ABSENT" =>
                     approvals[c] # "ABSENT" \/ (c = g /\ pc[g] \in AfterRequest)
                /\ workflows[c].status \in {"WAITING_APPROVAL", "COMPLETED"} =>
                     \/ workflows'[c].status \in {"WAITING_APPROVAL", "COMPLETED"}
                     \/ c = g /\ pc[g] = "commit_evaluated"
  <1> USE DEF RemoteTypeOK, TablesTyped, Row, Audit, Answer, AfterCredit, AfterRequest
  <1>0. reply'[g] = "credited" => reply[g] = "credited" \/ pc[g] \in AfterCredit
    <2>1. CASE Begins(g) \/ Works(g)
      BY <2>1 DEF Begins, Works
    <2>2. CASE Ends(g)
      BY <2>2 DEF Ends
    <2>3. CASE Commits(g)
      BY <2>3 DEF Commits, Credits, Waits, Approves, CommitEvaluated, CommitReview,
                  CommitRejected, Notify, Outcome
    <2> QED
      BY <2>1, <2>2, <2>3 DEF Does
  <1>1. CASE UNCHANGED tables
    BY <1>0, <1>1 DEF tables
  <1>2. CASE g \in Chats /\ Credits(g)
    BY <1>0, <1>2 DEF Credits, CreditOf
  <1>3. CASE g \in Chats /\ Waits(g)
    BY <1>0, <1>3 DEF Waits
  <1>4. CASE g \in Chats /\ (CommitEvaluated(g) \/ CommitReview(g))
    BY <1>0, <1>4 DEF CommitEvaluated, CommitReview
  <1>5. CASE g \in Decisions /\ (Approves(g) \/ CommitRejected(g))
    <2>1. pc[g] \in {"commit_approved", "commit_rejected"}
      BY <1>5 DEF Approves, CommitRejected
    <2>2. WorkflowOf(g) \in Chats /\ approvals[WorkflowOf(g)] # "ABSENT"
      BY <1>5, <2>1, HandlersDiffer DEF Placed, DecisionPlaced, WorkflowOf
    <2> QED
      BY <1>0, <1>5, <2>1, <2>2 DEF Approves, CommitRejected, CreditOf
  <1> QED
    BY <1>1, <1>2, <1>3, <1>4, <1>5 DEF Does, Begins, Ends, Works, Commits, Notify, tables

\* What lasts of a handler that has begun stays its own.
LEMMA LastingStays ==
    ASSUME RemoteTypeOK, Placed, Payments, NEW g \in Handlers, Does(g), NEW h \in Handlers,
           pc[h] # "idle"
    PROVE  /\ h \in Credited => h \in Credited'
           /\ h \in Decided => h \in Decided'
           /\ Failed(h) => Failed(h)'
  <1>1. credits \subseteq credits' /\ audits \subseteq audits'
    BY WhatLastsIsNew
  <1>2. h \in Decisions => WorkflowOf(h)' = WorkflowOf(h)
    BY InputsRemain, HandlersDiffer DEF WorkflowOf
  <1>3. pc[h] = "done" => h # g
    BY PlacesAreCounted
  <1>4. reply[h] # "none" => pc'[h] = pc[h] /\ reply'[h] = reply[h]
    BY <1>3, OthersStay DEF Payments, AnswersAreLast
  <1>5. h \in Credited => h \in Credited'
    <2>1. CASE \E k \in credits : h = k.by
      BY <1>1, <2>1 DEF Credited
    <2>2. CASE h \in Chats /\ reply[h] = "credited"
      BY <1>4, <2>2 DEF Credited
    <2>3. CASE h \in Decisions /\ Audit("CREDIT_CREATED", WorkflowOf(h), h) \in audits
      BY <1>1, <1>2, <2>3 DEF Credited, Audit
    <2> QED
      BY <2>1, <2>2, <2>3 DEF Credited
  <1>6. h \in Decided => h \in Decided'
    BY <1>1, <1>2 DEF Decided, Audit
  <1>7. Failed(h) => Failed(h)'
    BY <1>4 DEF Failed
  <1> QED
    BY <1>5, <1>6, <1>7

\* How a handler leaves the places it counts before: what it counted lasts, or its
\* call has failed.
LEMMA CountedLeave ==
    ASSUME RemoteTypeOK, Placed, NEW g \in Handlers, Does(g)
    PROVE  /\ pc[g] \in AfterCredit => pc'[g] \in AfterCredit \/ g \in Credited' \/ Failed(g)'
           /\ pc[g] \in AfterRequest =>
                \/ pc'[g] \in AfterRequest
                \/ workflows'[g].status = "WAITING_APPROVAL"
                \/ Failed(g)'
           /\ pc[g] \in {"commit_approved", "commit_rejected"} =>
                \/ pc'[g] \in {"commit_approved", "commit_rejected"}
                \/ g \in Decided'
                \/ Failed(g)'
  <1> DEFINE Places == AfterCredit \cup AfterRequest \cup {"commit_rejected"}
  <1> SUFFICES ASSUME pc[g] \in Places
               PROVE  /\ pc[g] \in AfterCredit =>
                           pc'[g] \in AfterCredit \/ g \in Credited' \/ Failed(g)'
                      /\ pc[g] \in AfterRequest =>
                           \/ pc'[g] \in AfterRequest
                           \/ workflows'[g].status = "WAITING_APPROVAL"
                           \/ Failed(g)'
                      /\ pc[g] \in {"commit_approved", "commit_rejected"} =>
                           \/ pc'[g] \in {"commit_approved", "commit_rejected"}
                           \/ g \in Decided'
                           \/ Failed(g)'
    BY DEF AfterCredit
  <1>0. /\ pc \in [Handlers -> ChatPlaces \cup DecisionPlaces \cup {"record_waiting"}]
        /\ reply \in [Handlers -> Replies]
    BY DEF RemoteTypeOK
  <1>1. CASE Ends(g)
    <2>1. Answer(g, "failure")
      BY <1>1 DEF Ends
    <2> QED
      BY <1>0, <2>1 DEF Answer, Goto, Failed
  <1>2. CASE Works(g)
    <2>1. PICK p : Goto(g, p) /\ Proceeds(g, p)
      BY <1>2 DEF Works
    <2>2. pc'[g] = p
      BY <1>0, <2>1 DEF Goto
    <2>3. /\ pc[g] \in AfterCredit => p \in AfterCredit
          /\ pc[g] \in AfterRequest => p \in AfterRequest
          /\ pc[g] \in {"commit_approved", "commit_rejected"} => p = pc[g]
      BY <2>1 DEF Proceeds, AfterCredit, AfterRequest
    <2> QED
      BY <2>2, <2>3
  <1>3. CASE g \in Chats /\ Credits(g)
    <2>1. reply'[g] = "credited"
      BY <1>0, <1>3 DEF Credits, Answer
    <2> QED
      BY <1>3, <2>1 DEF Credits, Credited, AfterCredit, AfterRequest
  <1>4. CASE g \in Chats /\ Waits(g)
    <2>1. workflows'[g].status = "WAITING_APPROVAL"
      BY <1>4 DEF Waits, Row, RemoteTypeOK, TablesTyped
    <2> QED
      BY <1>4, <2>1 DEF Waits, AfterCredit, AfterRequest
  <1>5. CASE g \in Decisions /\ Approves(g)
    <2>1. WorkflowOf(g)' = WorkflowOf(g)
      BY <1>5 DEF Approves, inputs, WorkflowOf
    <2>2. /\ Audit("APPROVAL_GRANTED", WorkflowOf(g), g) \in audits'
          /\ Audit("CREDIT_CREATED", WorkflowOf(g), g) \in audits'
      BY <1>5 DEF Approves
    <2> QED
      BY <1>5, <2>1, <2>2 DEF Approves, Credited, Decided, Audit, AfterCredit, AfterRequest
  <1>6. CASE g \in Decisions /\ CommitRejected(g)
    <2>1. WorkflowOf(g)' = WorkflowOf(g)
      BY <1>6 DEF CommitRejected, inputs, WorkflowOf
    <2>2. Audit("APPROVAL_REJECTED", WorkflowOf(g), g) \in audits'
      BY <1>6 DEF CommitRejected
    <2> QED
      BY <1>6, <2>1, <2>2 DEF CommitRejected, Decided, Audit, AfterCredit, AfterRequest
  <1>7. CASE Begins(g) \/ (g \in Chats /\ (CommitEvaluated(g) \/ CommitReview(g)))
               \/ (g \in Decisions /\ Notify(g))
    BY <1>7 DEF Begins, CommitEvaluated, CommitReview, Notify, AfterCredit, AfterRequest
  <1> QED
    BY <1>1, <1>2, <1>3, <1>4, <1>5, <1>6, <1>7 DEF Does, Commits

\* Only chats ask for approvals, only decisions decide.
LEMMA CountersArePlaced ==
    ASSUME Placed, NEW h \in Handlers
    PROVE  /\ pc[h] = "request_approval" => h \in Chats
           /\ pc[h] \in {"grant", "reject"} => h \in Decisions
  BY DEF Placed, ChatPlaced, DecisionPlaced, ChatPlaces, DecisionPlaces, Handlers

LEMMA DeedsCountInTime ==
    ASSUME RemoteTypeOK, Placed, CountedInTime, NEW g \in Handlers, Does(g), Record
    PROVE  CountedInTime'
  <1>0. Chats \subseteq Handlers /\ Decisions \subseteq Handlers
    BY DEF Handlers
  <1>1. /\ creditsCreated \subseteq creditsCreated'
        /\ approvalsCreated \subseteq approvalsCreated'
        /\ approvalsCompleted \subseteq approvalsCompleted'
    BY WhoCounts
  <1>2. \A h \in Handlers : pc'[h] \in AfterCredit => h \in creditsCreated'
    BY <1>1, WhoCounts, PlacesAreCounted DEF CountedInTime
  <1>3. \A c \in Chats : pc'[c] \in AfterRequest => c \in approvalsCreated'
    BY <1>0, <1>1, WhoCounts, PlacesAreCounted DEF CountedInTime
  <1>4. \A d \in Decisions :
          pc'[d] \in {"commit_approved", "commit_rejected"} => d \in approvalsCompleted'
    <2> SUFFICES ASSUME NEW d \in Decisions, pc'[d] \in {"commit_approved", "commit_rejected"}
                 PROVE  d \in approvalsCompleted'
      OBVIOUS
    <2>1. pc[d] \in {"grant", "reject"} \/ pc[d] \in {"commit_approved", "commit_rejected"}
      BY <1>0, PlacesAreCounted
    <2> QED
      BY <1>0, <1>1, <2>1, WhoCounts DEF CountedInTime
  <1>5. /\ pc[g] \in AfterCredit => g \in creditsCreated'
        /\ g \in Chats /\ pc[g] \in AfterRequest => g \in approvalsCreated'
        /\ g \in Decisions /\ pc[g] \in {"commit_approved", "commit_rejected"} =>
             g \in approvalsCompleted'
    BY <1>1 DEF CountedInTime
  <1>6. \A k \in credits' : k.by \in creditsCreated'
    BY <1>1, <1>5, WhatLastsIsNew DEF CountedInTime
  <1>7. \A c \in Chats : reply'[c] = "credited" => c \in creditsCreated'
    <2> SUFFICES ASSUME NEW c \in Chats, reply'[c] = "credited"
                 PROVE  c \in creditsCreated'
      OBVIOUS
    <2>1. CASE c = g
      BY <1>1, <1>5, <2>1, WhatLastsIsNew DEF CountedInTime
    <2>2. CASE c # g
      BY <1>0, <1>1, <2>2, OthersStay DEF CountedInTime
    <2> QED
      BY <2>1, <2>2
  <1>8. \A a \in audits' :
          /\ a.event = "CREDIT_CREATED" => a.by \in creditsCreated'
          /\ a.event \in {"APPROVAL_GRANTED", "APPROVAL_REJECTED"} => a.by \in approvalsCompleted'
    <2> SUFFICES ASSUME NEW a \in audits'
                 PROVE  /\ a.event = "CREDIT_CREATED" => a.by \in creditsCreated'
                        /\ a.event \in {"APPROVAL_GRANTED", "APPROVAL_REJECTED"} =>
                             a.by \in approvalsCompleted'
      OBVIOUS
    <2>1. CASE a \in audits
      BY <1>1, <2>1 DEF CountedInTime
    <2>2. CASE a \notin audits
      <3>1. pc[g] \in {"commit_approved", "commit_rejected"} => g \in Decisions
        BY DEF Placed, ChatPlaced, ChatPlaces, Handlers
      <3> QED
        BY <1>5, <2>2, <3>1, WhatLastsIsNew
    <2> QED
      BY <2>1, <2>2
  <1>9. \A c \in Chats :
          workflows'[c].status = "WAITING_APPROVAL" \/ approvals'[c] # "ABSENT" =>
            c \in approvalsCreated'
    BY <1>1, <1>5, WhatLastsIsNew DEF CountedInTime
  <1> QED
    BY <1>2, <1>3, <1>4, <1>6, <1>7, <1>8, <1>9 DEF CountedInTime

LEMMA DeedsCountForAReason ==
    ASSUME RemoteTypeOK, Placed, Payments, CountedForAReason, NEW g \in Handlers, Does(g), Record
    PROVE  CountedForAReason'
  <1>0. Chats \subseteq Handlers /\ Decisions \subseteq Handlers
    BY DEF Handlers
  <1>1. ASSUME NEW h \in creditsCreated'
        PROVE  /\ h \in Handlers /\ pc'[h] # "idle"
               /\ pc'[h] \in AfterCredit \/ h \in Credited' \/ Failed(h)'
    <2>1. CASE h \notin creditsCreated
      BY <2>1, WhoCounts DEF AfterCredit
    <2>2. CASE h \in creditsCreated
      <3>1. /\ h \in Handlers /\ pc[h] # "idle"
            /\ pc[h] \in AfterCredit \/ h \in Credited \/ Failed(h)
        BY <2>2 DEF CountedForAReason
      <3>2. pc'[h] # "idle"
        BY <3>1, PlacesAreCounted
      <3>3. CASE h \in Credited \/ Failed(h)
        BY <3>1, <3>2, <3>3, LastingStays
      <3>4. CASE pc[h] \in AfterCredit /\ h = g
        BY <3>1, <3>2, <3>4, CountedLeave
      <3>5. CASE pc[h] \in AfterCredit /\ h # g
        BY <3>1, <3>2, <3>5, OthersStay
      <3> QED
        BY <3>1, <3>3, <3>4, <3>5
    <2> QED
      BY <2>1, <2>2
  <1>2. ASSUME NEW c \in approvalsCreated'
        PROVE  /\ c \in Chats
               /\ \/ pc'[c] \in AfterRequest
                  \/ workflows'[c].status \in {"WAITING_APPROVAL", "COMPLETED"}
                  \/ Failed(c)'
    <2>1. CASE c \notin approvalsCreated
      BY <2>1, WhoCounts, CountersArePlaced
    <2>2. CASE c \in approvalsCreated
      <3>1. /\ c \in Chats
            /\ \/ pc[c] \in AfterRequest
               \/ workflows[c].status \in {"WAITING_APPROVAL", "COMPLETED"}
               \/ Failed(c)
        BY <2>2 DEF CountedForAReason
      <3>2. CASE Failed(c)
        <4>1. pc[c] # "idle"
          BY <3>2 DEF Failed
        <4> QED
          BY <1>0, <3>1, <3>2, <4>1, LastingStays
      <3>3. CASE workflows[c].status \in {"WAITING_APPROVAL", "COMPLETED"}
        <4>1. pc[c] # "commit_evaluated"
          BY <3>1, <3>3 DEF Payments, RunsAreNew, Unrecorded
        <4> QED
          BY <3>1, <3>3, <4>1, WhatLastsIsNew
      <3>4. CASE pc[c] \in AfterRequest /\ c = g
        BY <3>1, <3>4, CountedLeave
      <3>5. CASE pc[c] \in AfterRequest /\ c # g
        BY <1>0, <3>1, <3>5, OthersStay
      <3> QED
        BY <3>1, <3>2, <3>3, <3>4, <3>5
    <2> QED
      BY <2>1, <2>2
  <1>3. ASSUME NEW d \in approvalsCompleted'
        PROVE  /\ d \in Decisions /\ pc'[d] # "idle"
               /\ \/ pc'[d] \in {"commit_approved", "commit_rejected"}
                  \/ d \in Decided' \/ Failed(d)'
    <2>1. CASE d \notin approvalsCompleted
      BY <2>1, WhoCounts, CountersArePlaced
    <2>2. CASE d \in approvalsCompleted
      <3>1. /\ d \in Decisions /\ pc[d] # "idle"
            /\ pc[d] \in {"commit_approved", "commit_rejected"} \/ d \in Decided \/ Failed(d)
        BY <2>2 DEF CountedForAReason
      <3>2. pc'[d] # "idle"
        BY <1>0, <3>1, PlacesAreCounted
      <3>3. CASE d \in Decided \/ Failed(d)
        BY <1>0, <3>1, <3>2, <3>3, LastingStays
      <3>4. CASE pc[d] \in {"commit_approved", "commit_rejected"} /\ d = g
        BY <3>1, <3>2, <3>4, CountedLeave
      <3>5. CASE pc[d] \in {"commit_approved", "commit_rejected"} /\ d # g
        BY <1>0, <3>1, <3>2, <3>5, OthersStay
      <3> QED
        BY <3>1, <3>3, <3>4, <3>5
    <2> QED
      BY <2>1, <2>2
  <1> QED
    BY <1>1, <1>2, <1>3 DEF CountedForAReason

\* The rest of the system counts nothing and undoes nothing.
LEMMA ElsewhereKeepsCounts ==
    ASSUME CountedInTime, CountedForAReason, UNCHANGED <<pc, inputs, tables, reply>>,
           UNCHANGED counters
    PROVE  CountedInTime' /\ CountedForAReason'
  <1>1. /\ UNCHANGED <<pc, decisionCall, workflows, approvals, credits, audits, reply>>
        /\ UNCHANGED <<creditsCreated, approvalsCreated, approvalsCompleted>>
    BY DEF inputs, tables, counters
  <1>2. Credited' = Credited /\ Decided' = Decided /\ \A h : Failed(h)' = Failed(h)
    BY <1>1 DEF Credited, Decided, Failed, WorkflowOf
  <1> QED
    BY <1>1, <1>2 DEF CountedInTime, CountedForAReason

\* CountedInTime and CountedForAReason are inductive beside the types, the places
\* and the payments.
LEMMA CountsAlways == MetricsSpec => [](CountedInTime /\ CountedForAReason)
  <1>1. MetricsInit => CountedInTime /\ CountedForAReason
    <2> SUFFICES ASSUME MetricsInit
                 PROVE  CountedInTime /\ CountedForAReason
      OBVIOUS
    <2>1. /\ \A h \in Handlers : pc[h] = "idle" /\ reply[h] = "none"
          /\ credits = {} /\ audits = {}
          /\ \A c \in Chats : workflows[c].status = "ABSENT" /\ approvals[c] = "ABSENT"
      BY DEF MetricsInit, RemoteInit, Init, Row
    <2>2. creditsCreated = {} /\ approvalsCreated = {} /\ approvalsCompleted = {}
      BY DEF MetricsInit
    <2> QED
      BY <2>1, <2>2 DEF CountedInTime, CountedForAReason, AfterCredit, AfterRequest, Handlers
  <1>2. /\ CountedInTime /\ CountedForAReason /\ Payments /\ Placed /\ RemoteTypeOK
        /\ [MetricsNext]_metricsVars
        => CountedInTime' /\ CountedForAReason'
    <2> SUFFICES ASSUME CountedInTime, CountedForAReason, Payments, Placed, RemoteTypeOK,
                        [MetricsNext]_metricsVars
                 PROVE  CountedInTime' /\ CountedForAReason'
      OBVIOUS
    <2>1. CASE UNCHANGED metricsVars
      BY <2>1, ElsewhereKeepsCounts DEF metricsVars, remoteVars, vars, inputs, tables
    <2>2. CASE MetricsNext
      <3>1. [RemoteNext]_remoteVars /\ Record
        BY <2>2 DEF MetricsNext
      <3>2. ASSUME NEW g \in Handlers, Does(g)
            PROVE  CountedInTime' /\ CountedForAReason'
        BY <3>1, <3>2, DeedsCountInTime, DeedsCountForAReason
      <3>3. CASE Elsewhere
        <4>1. UNCHANGED counters
          BY <3>1, <3>3 DEF Elsewhere, Record, RecordsCreditCreated, RecordsApprovalCreated,
                            RecordsApprovalCompleted, Moves, counters
        <4> QED
          BY <3>3, <4>1, ElsewhereKeepsCounts DEF Elsewhere
      <3> QED
        BY <3>1, <3>2, <3>3, EveryStep
    <2> QED
      BY <2>1, <2>2
  <1> QED
    BY <1>1, <1>2, MetricsOnlyWatch, PaymentsAlways, PlacedAlways, RemoteTyping, PTL
       DEF MetricsSpec

\* Every credit, approval request and decision that lasts has been counted, although
\* the step that counts and the commit that makes it last are apart.
THEOREM TheCommittedIsCounted == MetricsSpec => []CommittedIsCounted
  <1>1. CountedInTime => CommittedIsCounted
    BY DEF CountedInTime, CommittedIsCounted, Credited, Decided, Audit
  <1> QED
    BY <1>1, CountsAlways, PTL

\* A counter never runs ahead of what lasts but for a call that is still open or has
\* failed: what is refused is not counted.
THEOREM TheCountedIsCommittedOrFailed == MetricsSpec => []CountedIsCommittedOrFailed
  <1>1. CountedForAReason => CountedIsCommittedOrFailed
    BY DEF CountedForAReason, CountedIsCommittedOrFailed, Uncertain, Open, Failed,
           AfterCredit, AfterRequest
  <1> QED
    BY <1>1, CountsAlways, PTL
=============================================================================
