------------------------------ MODULE McpClient ------------------------------
(***************************************************************************)
(* The client of the MCP tools with MCP_CLIENT_MODE=http, as the requests  *)
(* of the billing agent use it: each request calls its tools one after the *)
(* other, a call is retried when its failure may pass, and the failures of *)
(* a client's calls open its circuit breaker.                              *)
(*                                                                         *)
(* The server runs a POST when it arrives, which may be after the client   *)
(* has stopped waiting, and commits what a writing tool inserts.  The      *)
(* clock counts in the unit of the cooldown; a call's awaits take any      *)
(* number of ticks.                                                        *)
(***************************************************************************)
EXTENDS Integers, FiniteSets

CONSTANTS
    Requests,       \* requests of the agent that call the tools
    Clients,        \* instances of BillingMCPClient
    ClientOf,       \* the instance each request uses
    Attempts,       \* settings.mcp_retry_attempts
    Threshold,      \* settings.mcp_circuit_breaker_threshold
    Cooldown,       \* settings.mcp_circuit_breaker_cooldown_seconds
    MaxClock        \* bound on the clock, for model checking

ASSUME ClientsAreGiven == ClientOf \in [Requests -> Clients]
ASSUME SettingsAreNumbers ==
    Attempts \in Int /\ Threshold \in Int /\ Cooldown \in Nat /\ MaxClock \in Nat

VARIABLES
    pc,             \* where each request is in its current call
    tool,           \* the tool it is calling
    attempt,        \* the number of the attempt
    outcome,        \* what became of the request
    failures,       \* _consecutive_failures of each client
    openUntil,      \* _circuit_open_until of each client
    arriving,       \* POSTs of a writing tool the server has not dealt with
    written,        \* POSTs of a writing tool whose row is committed
    clock

breaker == <<failures, openUntil>>
server  == <<arriving, written>>
vars    == <<pc, tool, attempt, outcome, breaker, server, clock>>

-----------------------------------------------------------------------------
Reads  == {"get_customer", "get_invoice", "get_contract"}
Writes == {"create_credit", "request_approval"}

Closed == -1        \* _circuit_open_until is None

MaxAttempts == IF Attempts > 1 THEN Attempts ELSE 1

\* Why an attempt fails.  The server answers a customer it does not know with
\* 500; "transient" is any other 5xx, 429, a timeout or a broken connection;
\* "rejected" any other 4xx.
Causes == {"not_found", "transient", "rejected"}
Retryable == {"not_found", "transient"}

\* What a request may call after a tool.  A chat begins with the customer, an
\* approving decision with the credit.
NextTools(t) ==
    CASE t = "none"         -> {"get_customer", "create_credit"}
      [] t = "get_customer" -> {"get_invoice"}
      [] t = "get_invoice"  -> {"get_contract"}
      [] t = "get_contract" -> Writes
      [] OTHER              -> {}

InCall(r) == pc[r] \notin {"ready", "done"}

Goto(r, place) == pc' = [pc EXCEPT ![r] = place]

Finish(r, result) ==
    /\ Goto(r, "done")
    /\ outcome' = [outcome EXCEPT ![r] = result]

\* Mutant: the breaker is left open by a success.
RecordSuccessKeepsOpen(c) ==
    failures' = [failures EXCEPT ![c] = 0] /\ UNCHANGED openUntil

RecordSuccess(c) ==
    /\ failures' = [failures EXCEPT ![c] = 0]
    /\ openUntil' = [openUntil EXCEPT ![c] = Closed]

\* Mutant: a failure while the breaker is open adds another cooldown.
RecordFailureProlongs(c) ==
    /\ failures' = [failures EXCEPT ![c] = @ + 1]
    /\ openUntil' = IF failures[c] + 1 < Threshold THEN openUntil
                    ELSE [openUntil EXCEPT ![c] =
                            (IF @ > clock THEN @ ELSE clock) + Cooldown]

\* Mutant: the breaker opens one failure late.
RecordFailureLate(c) ==
    /\ failures' = [failures EXCEPT ![c] = @ + 1]
    /\ openUntil' = IF failures[c] + 1 <= Threshold THEN openUntil
                    ELSE [openUntil EXCEPT ![c] = clock + Cooldown]

RecordFailure(c) ==
    /\ failures' = [failures EXCEPT ![c] = @ + 1]
    /\ openUntil' = IF failures[c] + 1 < Threshold THEN openUntil
                    ELSE [openUntil EXCEPT ![c] = clock + Cooldown]

-----------------------------------------------------------------------------
Init ==
    /\ pc = [r \in Requests |-> "ready"]
    /\ tool = [r \in Requests |-> "none"]
    /\ attempt = [r \in Requests |-> 0]
    /\ outcome = [r \in Requests |-> "none"]
    /\ failures = [c \in Clients |-> 0]
    /\ openUntil = [c \in Clients |-> Closed]
    /\ arriving = {}
    /\ written = {}
    /\ clock = 0

\* A request that waits for no tool calls its next one.
Call(r) ==
    /\ pc[r] = "ready"
    /\ \E t \in NextTools(tool[r]) : tool' = [tool EXCEPT ![r] = t]
    /\ Goto(r, "enter")
    /\ UNCHANGED <<attempt, outcome, breaker, server, clock>>

\* The breaker is looked at once, before the first attempt.  When its time is
\* over it is closed, for as many calls as come.
Enter(r) ==
    LET c == ClientOf[r]
    IN  /\ pc[r] = "enter"
        /\ openUntil[c] = Closed \/ clock >= openUntil[c]
        /\ openUntil' = [openUntil EXCEPT ![c] = Closed]
        /\ failures' = [failures EXCEPT ![c] = IF openUntil[c] = Closed THEN @ ELSE 0]
        /\ attempt' = [attempt EXCEPT ![r] = 1]
        /\ Goto(r, "post")
        /\ UNCHANGED <<tool, outcome, server, clock>>

RefuseEntry(r) ==
    /\ pc[r] = "enter"
    /\ openUntil[ClientOf[r]] # Closed
    /\ clock < openUntil[ClientOf[r]]
    /\ Finish(r, "refused")
    /\ UNCHANGED <<tool, attempt, breaker, server, clock>>

Message(r) == [request |-> r, tool |-> tool[r], attempt |-> attempt[r]]

Post(r) ==
    /\ pc[r] = "post"
    /\ arriving' = IF tool[r] \in Writes THEN arriving \cup {Message(r)} ELSE arriving
    /\ Goto(r, "waiting")
    /\ UNCHANGED <<tool, attempt, outcome, breaker, written, clock>>

\* The server, whenever the POST arrives: the tool inserts its row under a new
\* id and commits, or fails before that.
Execute(m) ==
    /\ m \in arriving
    /\ arriving' = arriving \ {m}
    /\ written' = written \cup {m}
    /\ UNCHANGED <<pc, tool, attempt, outcome, breaker, clock>>

FailOnServer(m) ==
    /\ m \in arriving
    /\ arriving' = arriving \ {m}
    /\ UNCHANGED <<pc, tool, attempt, outcome, breaker, written, clock>>

\* Mutant: a connection that breaks is taken for an answer.
SucceedUnanswered(r) ==
    /\ pc[r] = "waiting"
    /\ RecordSuccess(ClientOf[r])
    /\ Goto(r, "ready")
    /\ UNCHANGED <<tool, attempt, outcome, server, clock>>

\* A good answer: the request may go on.
Succeed(r) ==
    /\ pc[r] = "waiting"
    /\ tool[r] \in Writes => Message(r) \in written
    /\ RecordSuccess(ClientOf[r])
    /\ Goto(r, "ready")
    /\ UNCHANGED <<tool, attempt, outcome, server, clock>>

\* An answer that is no JSON object leaves the breaker as it is.
Malformed(r) ==
    /\ pc[r] = "waiting"
    /\ tool[r] \in Writes => Message(r) \in written
    /\ Finish(r, "malformed")
    /\ UNCHANGED <<tool, attempt, breaker, server, clock>>

\* An object without the fields of the tool's answer: the breaker has counted
\* a success by the time the fields are looked for.
InvalidResult(r) ==
    /\ pc[r] = "waiting"
    /\ tool[r] \in Writes => Message(r) \in written
    /\ RecordSuccess(ClientOf[r])
    /\ Finish(r, "malformed")
    /\ UNCHANGED <<tool, attempt, server, clock>>

FailsFor(r, why) ==
    /\ pc[r] = "waiting"
    /\ why = "not_found" => tool[r] \in Reads

\* Mutant: one attempt too many.
MayRetryOnceMore(r, why) == why \in Retryable /\ attempt[r] <= MaxAttempts

MayRetry(r, why) == why \in Retryable /\ attempt[r] < MaxAttempts

BackOff(r) ==
    /\ \E why \in Causes : FailsFor(r, why) /\ MayRetry(r, why)
    /\ Goto(r, "backoff")
    /\ UNCHANGED <<tool, attempt, outcome, breaker, server, clock>>

\* Mutant: the attempts are not counted.
RetryUncounted(r) ==
    /\ pc[r] = "backoff"
    /\ Goto(r, "post")
    /\ UNCHANGED <<tool, attempt, outcome, breaker, server, clock>>

\* After the pause the next attempt is made, whatever the breaker says by now.
Retry(r) ==
    /\ pc[r] = "backoff"
    /\ attempt' = [attempt EXCEPT ![r] = @ + 1]
    /\ Goto(r, "post")
    /\ UNCHANGED <<tool, outcome, breaker, server, clock>>

GiveUp(r) ==
    /\ \E why \in Causes : FailsFor(r, why) /\ ~ MayRetry(r, why)
    /\ RecordFailure(ClientOf[r])
    /\ Finish(r, "failed")
    /\ UNCHANGED <<tool, attempt, server, clock>>

\* The request is cancelled, or its process ends, in the middle of a call: the
\* breaker is not told, and what was sent is under way.
Cancel(r) ==
    /\ InCall(r)
    /\ Finish(r, "cancelled")
    /\ UNCHANGED <<tool, attempt, breaker, server, clock>>

Tick ==
    /\ clock < MaxClock
    /\ clock' = clock + 1
    /\ UNCHANGED <<pc, tool, attempt, outcome, breaker, server>>

\* No request of the instance waits for a tool, nor will.
Quiescent ==
    /\ \A r \in Requests : ~ InCall(r)
    /\ UNCHANGED vars

CallStep(r) ==
    \/ Enter(r) \/ RefuseEntry(r) \/ Post(r) \/ Succeed(r) \/ Malformed(r)
    \/ InvalidResult(r) \/ BackOff(r) \/ Retry(r) \/ GiveUp(r)

Next ==
    \/ \E r \in Requests : Call(r) \/ CallStep(r) \/ Cancel(r)
    \/ \E m \in arriving : Execute(m) \/ FailOnServer(m)
    \/ Tick
    \/ Quiescent

\* The event loop resumes every call, and the client stops waiting for the
\* server after its timeout.  The server and the clock owe nothing, and nothing
\* makes a request call.
Fairness == \A r \in Requests : WF_vars(CallStep(r))

Spec == Init /\ [][Next]_vars /\ Fairness

-----------------------------------------------------------------------------
(***************************************************************************)
(* Properties.                                                             *)
(***************************************************************************)
Messages == [request : Requests, tool : Writes, attempt : 1 .. MaxAttempts]

TypeOK ==
    /\ pc \in [Requests -> {"ready", "enter", "post", "waiting", "backoff", "done"}]
    /\ tool \in [Requests -> Reads \cup Writes \cup {"none"}]
    /\ attempt \in [Requests -> 0 .. MaxAttempts]
    /\ outcome \in [Requests -> {"none", "failed", "malformed", "refused", "cancelled"}]
    /\ failures \in [Clients -> Nat]
    /\ openUntil \in [Clients -> Nat \cup {Closed}]
    /\ arriving \subseteq Messages
    /\ written \subseteq Messages
    /\ clock \in Nat

\* A breaker is open only on the failures that opened it: whoever forgets them,
\* a success among calls in flight or a call after the cooldown, closes it.
OpenOnFailures ==
    \A c \in Clients : openUntil[c] # Closed => failures[c] >= Threshold

\* However many calls in flight fail after it has opened, a breaker refuses no
\* longer than one cooldown from now.
OpenIsBounded == \A c \in Clients : openUntil[c] <= clock + Cooldown

\* What a request leaves on the server is bounded by its attempts, and one whose
\* writing call has succeeded has its row there.
RowsOf(r) == {m \in written : m.request = r}

AttemptsBoundRows ==
    \A r \in Requests :
        /\ Cardinality(RowsOf(r)) <= MaxAttempts
        /\ pc[r] = "ready" /\ tool[r] \in Writes => RowsOf(r) # {}

\* When as many requests as the threshold, and at least one, have failed and none
\* has had an answer, a request that arrives before a cooldown can be over sends
\* nothing.
FailedSoFar == {r \in Requests : outcome[r] = "failed"}

Unanswered(r) ==
    \/ tool[r] = "none"
    \/ tool[r] = "get_customer" /\ pc[r] # "ready" /\ outcome[r] # "malformed"

ShouldBeOpen ==
    /\ FailedSoFar # {} /\ Cardinality(FailedSoFar) >= Threshold
    /\ \A r \in Requests : Unanswered(r)
    /\ clock < Cooldown

OpenAfterRepeatedFailures ==
    [][ShouldBeOpen => \A r \in Requests : pc[r] = "enter" => pc'[r] # "post"]_vars

-----------------------------------------------------------------------------
(***************************************************************************)
(* The inductive invariant behind TypeOK and AttemptsBoundRows: a request  *)
(* in a call has made between one and MaxAttempts attempts, pauses only    *)
(* when one is left, and has sent for no writing tool but its present one. *)
(***************************************************************************)
AttemptsAreCounted ==
    /\ \A r \in Requests :
         /\ pc[r] \in {"post", "waiting", "backoff"} => attempt[r] >= 1
         /\ pc[r] = "backoff" => attempt[r] < MaxAttempts
         /\ pc[r] = "ready" /\ tool[r] \in Writes => RowsOf(r) # {}
    /\ \A m \in arriving \cup written : m.tool = tool[m.request]

(***************************************************************************)
(* The inductive invariant behind OpenAfterRepeatedFailures: as long as    *)
(* none of its requests has had an answer and no cooldown is over, a       *)
(* client's counter is the number of its failed requests, and its breaker  *)
(* is open from the threshold on.                                          *)
(***************************************************************************)
FailedOf(c) == {r \in Requests : ClientOf[r] = c /\ outcome[r] = "failed"}

NoneAnswered(c) ==
    clock < Cooldown /\ \A r \in Requests : ClientOf[r] = c => Unanswered(r)

FailuresAreCounted ==
    /\ \A r \in Requests :
         /\ pc[r] # "done" => outcome[r] = "none"
         /\ tool[r] = "none" => pc[r] = "ready"
    /\ \A c \in Clients :
         /\ openUntil[c] # Closed => openUntil[c] >= Cooldown
         /\ IsFiniteSet(FailedOf(c))
         /\ NoneAnswered(c) =>
              /\ failures[c] = Cardinality(FailedOf(c))
              /\ FailedOf(c) # {} /\ failures[c] >= Threshold => openUntil[c] # Closed
=============================================================================
