---------------------------- MODULE BillingRemote ----------------------------
(***************************************************************************)
(* The billing agent when some of the processes that serve its calls have  *)
(* MCP_CLIENT_MODE=http: BillingWorkflow composed with McpClient.  Such a  *)
(* process reads what it compares, and inserts credits and approval        *)
(* requests, through the MCP server, which commits in transactions of its  *)
(* own; the idempotency key, the run and the audit trail stay in the       *)
(* session of the call.  Each call has a client of its own, so a breaker   *)
(* lives as long as its call.                                              *)
(*                                                                         *)
(* The rows the server inserts are the messages in `written`: their        *)
(* request ids and workflow ids are fresh, so no unique index, and no      *)
(* decision, ever meets them.                                              *)
(***************************************************************************)
EXTENDS BillingWorkflow

CONSTANTS
    Attempts,       \* settings.mcp_retry_attempts
    Threshold       \* settings.mcp_circuit_breaker_threshold

ASSUME ToolSettingsAreNumbers == Attempts \in Int /\ Threshold \in Int

VARIABLES
    mode,           \* MCP_CLIENT_MODE of the process that serves each call
    callPc,         \* where each handler is in its call of a tool
    tool,           \* the tool it calls
    attempt,        \* the number of the attempt
    outcome,        \* how the calls of the handler ended
    failures,       \* _consecutive_failures of the handler's client
    openUntil,      \* _circuit_open_until of the handler's client
    arriving,       \* POSTs of a writing tool the server has not dealt with
    written         \* the rows the server has committed

callVars   == <<callPc, tool, attempt, outcome, failures, openUntil>>
serverVars == <<arriving, written>>
remoteVars == <<vars, mode, callVars, serverVars>>

Client == INSTANCE McpClient WITH
    Requests <- Handlers, Clients <- Handlers, ClientOf <- [h \in Handlers |-> h],
    Cooldown <- 1, MaxClock <- 0, clock <- 0, pc <- callPc

Remote(h) == mode[h] = "http"

-----------------------------------------------------------------------------
RemoteInit ==
    /\ Init
    /\ mode = [h \in Handlers |-> "local"]
    /\ Client!Init

\* A call arrives at a process of either mode.
Arrive(h) ==
    /\ IF h \in Chats THEN ReceiveChat(h) ELSE ReceiveDecision(h)
    /\ \E choice \in {"local", "http"} : mode' = [mode EXCEPT ![h] = choice]
    /\ UNCHANGED <<callVars, serverVars>>

\* The tool the handler needs where it is; the analysis needs three, in order.
Awaits(h, t) ==
    CASE pc[h] = "evaluate"         -> t \in Client!Reads
      [] pc[h] = "insert_credit"    -> t = "create_credit"
      [] pc[h] = "request_approval" -> t = "request_approval"
      [] OTHER                      -> FALSE

CallTool(h) ==
    /\ Remote(h)
    /\ Client!Call(h)
    /\ Awaits(h, tool'[h])
    /\ UNCHANGED <<vars, mode>>

\* The steps of a call that do not end it.
GoOn(h) ==
    /\ Client!Enter(h) \/ Client!Post(h) \/ Client!BackOff(h) \/ Client!Retry(h)
    /\ UNCHANGED <<vars, mode>>

\* What the server must find for a reading tool to have an answer.
Readable(h) ==
    CASE tool[h] = "get_invoice"  -> LatestFinalized(Invoices, chatCall[h].customer) # {}
      [] tool[h] = "get_contract" ->
            Comparisons(Invoices, Contracts, chatCall[h].customer) # {}
      [] OTHER -> TRUE

\* A good answer.  The handler goes on as after an insert of its own, but its
\* session holds no row of the credit or of the approval request.
CallReturns(h) ==
    /\ Client!Succeed(h)
    /\ Readable(h)
    /\ pc' = CASE tool[h] = "create_credit" ->
                    [pc EXCEPT ![h] = IF h \in Chats THEN "complete" ELSE "grant"]
               [] tool[h] = "request_approval" -> [pc EXCEPT ![h] = "record_waiting"]
               [] OTHER -> pc
    /\ UNCHANGED <<inputs, bill, tables, lapsed, held, reply, mail, mode>>

\* The call fails for good: the handler answers 503, or 500 to an answer that
\* is no JSON or lacks fields.
CallFails(h) ==
    /\ \/ Client!GiveUp(h) /\ Answer(h, "unavailable")
       \/ Client!Malformed(h) /\ (Answer(h, "unavailable") \/ Answer(h, "failure"))
       \/ Client!InvalidResult(h) /\ Answer(h, "failure")
    /\ UNCHANGED <<inputs, bill, tables, lapsed, mail, mode>>

-----------------------------------------------------------------------------
(***************************************************************************)
(* What the session of a remote call commits itself.                       *)
(***************************************************************************)
CommitRemoteCredit(c) ==
    /\ Remote(c) /\ pc[c] = "commit_credit"
    /\ keys' = keys \cup {KeyOf(c)}
    /\ workflows' = [workflows EXCEPT ![c] = Row("COMPLETED", "credited")]
    /\ Answer(c, "credited")
    /\ UNCHANGED <<inputs, bill, approvals, credits, audits, lapsed, mail>>

\* Mutant: the commit forgets the idempotency key.
CommitRemoteApprovedUnkeyed(d) ==
    LET w == WorkflowOf(d)
    IN  /\ Remote(d) /\ pc[d] = "commit_approved"
        /\ approvals' = [approvals EXCEPT ![w] = "APPROVED"]
        /\ audits' = audits \cup {Audit("APPROVAL_GRANTED", w, d), Audit("CREDIT_CREATED", w, d)}
        /\ workflows' = [workflows EXCEPT ![w] = Row("COMPLETED", "approved")]
        /\ EndTransaction(d)
        /\ Goto(d, "notify")
        /\ UNCHANGED <<inputs, bill, keys, credits, lapsed, reply, mail>>

CommitRemoteApproved(d) ==
    LET w == WorkflowOf(d)
    IN  /\ Remote(d) /\ pc[d] = "commit_approved"
        /\ approvals' = [approvals EXCEPT ![w] = "APPROVED"]
        /\ keys' = keys \cup {KeyOf(d)}
        /\ audits' = audits \cup {Audit("APPROVAL_GRANTED", w, d), Audit("CREDIT_CREATED", w, d)}
        /\ workflows' = [workflows EXCEPT ![w] = Row("COMPLETED", "approved")]
        /\ EndTransaction(d)
        /\ Goto(d, "notify")
        /\ UNCHANGED <<inputs, bill, credits, lapsed, reply, mail>>

\* The run waits for an approval request whose row names another workflow.
RecordWaiting(c) ==
    /\ Remote(c) /\ pc[c] = "record_waiting"
    /\ Write(c, {WorkflowRow(c)})
    /\ Goto(c, "commit_waiting")
    /\ UNCHANGED <<inputs, bill, tables, lapsed, reply, mail>>

CommitRemoteWaiting(c) ==
    /\ Remote(c) /\ pc[c] = "commit_waiting"
    /\ workflows' = [workflows EXCEPT ![c] = Row("WAITING_APPROVAL", "none")]
    /\ Answer(c, "waiting")
    /\ UNCHANGED <<inputs, bill, approvals, keys, credits, audits, lapsed, mail>>

\* The places where a remote handler does not do what a local one does.
Replaced == {"insert_credit", "request_approval", "commit_credit", "commit_waiting",
             "commit_approved"}

\* The steps of a handler in its own session.
SessionStep(h) ==
    /\ \/ /\ Remote(h) =>
               /\ pc[h] \notin Replaced
               /\ pc[h] = "evaluate" => tool[h] = "get_contract" /\ callPc[h] = "ready"
          /\ IF h \in Chats THEN ChatStep(h) ELSE DecisionStep(h)
       \/ CommitRemoteCredit(h) \/ CommitRemoteApproved(h)
       \/ RecordWaiting(h) \/ CommitRemoteWaiting(h)
    /\ UNCHANGED <<mode, callVars, serverVars>>

HandlerStep(h) ==
    CallTool(h) \/ GoOn(h) \/ CallReturns(h) \/ CallFails(h) \/ SessionStep(h)

-----------------------------------------------------------------------------
\* The server runs a POST whenever it arrives, for a caller that waits or not.
\* On SQLite its INSERT waits for the handler that has the database, which is
\* as a rule the very one that calls.
ServerStep(m) ==
    /\ \/ Client!Execute(m) /\ \A g \in Handlers : ~ Blocks(g, {})
       \/ Client!FailOnServer(m)
    /\ UNCHANGED <<vars, mode>>

\* The call fails or is cancelled; a POST under way stays under way.
RemoteAbort(h) ==
    /\ Abort(h)
    /\ IF Client!InCall(h) THEN Client!Cancel(h) ELSE UNCHANGED <<callVars, serverVars>>
    /\ UNCHANGED mode

RemoteLapse(a) == Lapse(a) /\ UNCHANGED <<mode, callVars, serverVars>>

RemoteQuiescent == Quiescent /\ UNCHANGED <<mode, callVars, serverVars>>

RemoteNext ==
    \/ \E h \in Handlers : Arrive(h) \/ HandlerStep(h) \/ RemoteAbort(h)
    \/ \E m \in arriving : ServerStep(m)
    \/ \E c \in Chats : RemoteLapse(c)
    \/ RemoteQuiescent

\* As in BillingWorkflow and McpClient: the event loop and the database serve
\* every handler that can go on, and no call waits longer than its timeout.  The
\* server owes nothing.
RemoteFairness == \A h \in Handlers : WF_remoteVars(HandlerStep(h))

RemoteSpec == RemoteInit /\ [][RemoteNext]_remoteVars /\ RemoteFairness

-----------------------------------------------------------------------------
(***************************************************************************)
(* Properties.                                                             *)
(***************************************************************************)
RemoteTypeOK ==
    /\ pc \in [Handlers -> ChatPlaces \cup DecisionPlaces \cup {"record_waiting"}]
    /\ held \in [Handlers -> SUBSET Rows]
    /\ reply \in [Handlers -> Replies]
    /\ mode \in [Handlers -> {"local", "http"}]
    /\ InputsTyped
    /\ TablesTyped
    /\ Client!TypeOK

\* The credits sent to the server, whatever has become of them.
Sent == {m \in arriving \cup written : m.tool = "create_credit"}

\* The server checks nothing, so all that is ever sent to it must be due: the
\* amount was within the automatic limit and its run had been recorded, or it
\* was within the maximum and a decision approves the request of a local run.
RemoteCreditsAuthorised ==
    \A m \in Sent :
        LET w == WorkflowOf(m.request)
        IN  /\ workflows[w].status # "ABSENT"
            /\ IF m.request \in Chats
                 THEN Decision(bill[w].amount) = "AUTO_CREDIT"
                 ELSE /\ Decision(bill[w].amount) = "HUMAN_APPROVAL"
                      /\ decisionCall[m.request].verdict = "approve"
                      /\ approvals[w] # "ABSENT" /\ ~ Remote(w)

\* Sending is guarded by the idempotency key, although the key is committed only
\* after the server has: nothing is sent for a key that is recorded, nor while
\* another handler is paying under the same key.
Paying(h) == pc[h] = "insert_credit" /\ Client!InCall(h)

KeyGuardsPosts ==
    [][\A m \in Sent' \ Sent :
        /\ KeyOf(m.request) \notin keys
        /\ \A g \in Handlers \ {m.request} : Paying(g) => KeyOf(g) # KeyOf(m.request)]_remoteVars

\* However the processes that serve one request differ, and whatever was sent
\* before and lost, one call at most is answered that it is paid.
OneAnswerPays ==
    \A g, h \in Handlers :
        reply[g] \in {"credited", "approved"} /\ reply[h] \in {"credited", "approved"}
            => g = h \/ RidOf(g) # RidOf(h)

\* What a remote call answers is on record: a payment has its key in the
\* database of the agent and its row on the server, a run that waits has an
\* approval request on the server.
RemoteAnswersHold ==
    \A h \in Handlers : Remote(h) =>
        /\ reply[h] \in {"credited", "approved"} =>
             /\ KeyOf(h) \in keys
             /\ \E m \in written : m.request = h /\ m.tool = "create_credit"
        /\ reply[h] = "waiting" =>
             \E m \in written : m.request = h /\ m.tool = "request_approval"

\* Two calls pay one request on the server only when one of them has failed: a
\* call that did its work to the end stops every other, before and after it.
SecondPaymentNeedsFailure ==
    \A m, n \in Sent :
        m.request # n.request /\ RidOf(m.request) = RidOf(n.request)
            => \E h \in {m.request, n.request} : reply[h] \in {"failure", "unavailable"}

-----------------------------------------------------------------------------
(***************************************************************************)
(* What the documentation says and the code does not keep.                 *)
(***************************************************************************)

\* However often a call is retried, by the client or by who made it, the server
\* credits one request once.
OnePaymentPerRequest ==
    \A m, n \in Sent \cap written : RidOf(m.request) = RidOf(n.request) => m = n

\* A decision on a run that waits for one is not answered that there is none.
DecisionsFindWaitingRuns ==
    [][\A d \in Decisions :
        pc[d] = "load" /\ workflows[WorkflowOf(d)].status = "WAITING_APPROVAL"
            => reply'[d] # "not_found"]_remoteVars
=============================================================================
