# The billing agent in TLA+

The billing agent (`src/`) answers customers who think their invoice is wrong.
It compares the latest finalised invoice with the contract that covers it, and
by the size of the difference it credits the customer, asks a person to
approve a credit, or only notes the request.  Money moves on the word of
retried HTTP calls, two of which may be about the same request, over a
database whose transactions may fail at any statement.  These modules say what
the program does in those cases, what it promises, and where the two differ.

All paths below start at the repository (`src/` is the repository's own root,
so its Python package is `src/src/`).

## The system

| Part | State | Operations | Where it meets the others |
| --- | --- | --- | --- |
| Billing rules: `domain/rules/billing_rules.py`, reads of `billing_repository.py`, `BillingService.analyze_customer_billing` | invoices, contracts (written by others) | pick the invoice, pick the contract, compare, decide | called by the workflow's evaluate node |
| Billing workflow: `agent/graph.py`, `POST /api/chat` | `workflow_runs` | understand, evaluate (commits), side effects (commits) | calls the service, the repository, the e-mail service |
| Approvals: `BillingService.process_approval`, `POST /api/approvals/{id}/decision` | `approval_requests` | load, expire, approve, reject; the endpoint commits and notifies | writes the run, the key, the credit and the audit trail |
| Persistence: `billing_repository.py`, `models.py`, `database.py` | five tables with unique columns | select, flush, commit, roll back at the end of the session | one session for each HTTP call |
| MCP client: `infrastructure/mcp/client.py` | breaker: consecutive failures, open until | call a tool; attempts, back-off, timeouts | local calls into the MCP service, or HTTP |
| MCP server: `mcp_server/` | none of its own (its own sessions on the same database) | read tools; `create_credit`, `request_approval`, which commit | answers the client, maybe after the client has left |
| API shell: `api/main.py` | none | limit on the body, statuses of errors, counting of answers | around each call |
| Authorization: `dependencies.py`, `identity_provider.py` | none of its own; one provider object for all requests | API key or token to permission; introspection over HTTP | before each endpoint |
| Rate limiter: `api/rate_limit.py` | a deque of times for each route and API key | admit or refuse | after the authorization, before the handler |
| Metrics: `shared/observability.py` | counters in the process | count an answer, a credit, an approval, a decision | called by the shell and by the service |
| LLM client, logs, configuration, seed data, migration, deployment | none that later decisions read | | |

What is hard about it:

* **interleaving**: two chats with one request id, two decisions on one
  approval, a chat and a decision; a decision acts on a status it read without
  a lock;
* **atomicity**: approval, run, key, credit and audit entries are written in
  three layers and committed by the endpoint; a chat commits twice;
* **failure**: an exception, a cancellation or a crash at any await rolls back
  what is not committed, and never what is;
* **two sessions**: with HTTP tools the MCP server commits credits and approval
  requests itself, while the key that guards them is still uncommitted in the
  session of the caller;
* **two databases**: PostgreSQL locks rows and index entries, SQLite has one
  writer; they word their errors differently, and the code reads the words;
* **time**: approvals lapse after a day, tool calls time out and may yet be
  executed, breakers open and close, tokens are revoked while they are
  introspected, rate windows slide;
* **order**: what a refused call has used up depends on where each check stands
  among the others.

PROJECT.json lists these at the lines where they bite, with the properties
that watch them.

## The modules

| Module | What it is |
| --- | --- |
| `BillingRules` | operators: which invoice, which contracts, the comparison, `Decision` |
| `MCBillingRules` | a machine that edits the tables row by row, to check the operators over every small set of rows |
| `BillingRulesProofs` | what `Decision` and `Comparisons` guarantee for every input, and so the properties of `MCBillingRules` |
| `BillingWorkflow` | the core: chats and decisions as concurrent handlers over the tables, with `MCP_CLIENT_MODE=local` |
| `CreditLedger` | the abstract promise about money: request by request, no handlers and no transactions |
| `WorkflowLedger` | the refinement mapping from `BillingWorkflow` to `CreditLedger` |
| `MCBillingWorkflow` | values for model checking the workflow |
| `BillingWorkflowProofs` | types, the inductive invariant, and what follows from it |
| `WorkflowLedgerProofs` | that every credit is explained, and that `BillingWorkflow` implements `CreditLedger` |
| `BillingAnswersProofs` | that answers and mails are true of the tables, then and ever after |
| `McpClient` | the tool client with `MCP_CLIENT_MODE=http`: attempts, breaker, cancellation, a server that answers late |
| `McpClientProofs` | types, bounded rows and the breaker's promises, for any number of requests and clients |
| `BillingRemote` | `BillingWorkflow` composed with `McpClient`: each call is served by a process with local or with HTTP tools |
| `BillingRemoteProofs` | that the handlers use `McpClient` as it is; what is sent, what is answered and what is counted, for any number of local and remote calls |
| `BillingMetrics`, `MCBillingMetrics` | the business counters beside `BillingRemote`; values for model checking both |
| `RateLimiter`, `RateLimiterProofs` | the sliding window; that it keeps its limit and refuses nobody without need |
| `ApiGateway` | the way of a call to its handler and back: body, authorization, limiter; contains `RateLimiter` |
| `ApiGatewayProofs` | that the gateway implements `RateLimiter`, and its own promises for every configuration |
| `MCMcpClient`, `MCApiGateway` | values for model checking the client and the gateway |

What composes what: `BillingRemote` EXTENDS `BillingWorkflow` and takes
`McpClient` as the instance `Client`, one client for each handler;
`BillingMetrics` EXTENDS `BillingRemote`; `ApiGateway` EXTENDS `RateLimiter`;
`WorkflowLedger` takes `CreditLedger` as the instance it maps to.
`BillingRemoteProofs` EXTENDS `BillingMetrics` and takes `McpClientProofs` as
the instance `Tools`, with the same substitution as `Client`.

### BillingWorkflow and the code

A handler is one HTTP call, `pc` says which await it is at.  An action runs
from one database statement to the next, because that is where the event loop,
or another process, can run somebody else.

* `ReceiveChat`, `Evaluate`, `CommitEvaluated` are the graph's first two nodes
  (`graph.py:38-66`) with `analyze_customer_billing`.  `RefuseAnalysis` is an
  analysis that finds nothing to compare (a 503, because the local tool client
  wraps every error) or two currencies (a 400).  `RefuseDuplicate` is the
  `INSERT` of a run whose request id is taken.
* `CheckKey`, `InsertKey`, `InsertCredit` are `create_credit_if_allowed`, for a
  chat that credits at once and for an approving decision alike.
* `CompleteCredit`/`CommitCredit`, `RequestApproval`/`CommitWaiting`,
  `Review`/`CommitReview` are the three branches of the side-effects node.
* `LoadApproval`, `ExpireFlush`/`RaiseExpired`, `Decide`, `Grant`, `Reject`,
  `CommitApproved`, `CommitRejected`, `Notify` are `process_approval` and the
  endpoint around it (`chat.py:55-89`).
* `Abort` is any exception, or the end of the process, at any of those places;
  `Lapse` is the day of a pending approval running out.

*Transactions.*  What an open transaction has written is seen by nobody, so
its effect on the tables is in the handler's commit action; what others do
notice is that its rows are locked, which is `held`.  `Blocks` has the two
databases: PostgreSQL makes a writer wait for the owner of the same row or
unique index entry, SQLite makes it wait for any writer.  `EndTransaction` is
commit and rollback alike: the tables change only where a commit action says
so.  Reads are of committed rows (READ COMMITTED on PostgreSQL, no read
transaction on SQLite) and wait for nobody.

*Abstractions.*  A chat makes one run and at most one approval, so the chat
stands for their generated ids; amounts are integers in units of the limits;
`state_json` is the outcome it records; a lapsed approval is a member of
`lapsed`, with no clock.  The last commit of a chat and its answer
(`graph.py:90-96`) are one action, so a process that ends between them is left
out; no property depends on it.  Values of `FAILED` and `EXPIRED` are written
and never committed, so the tables do not have them.

### CreditLedger and the refinement

`CreditLedger` has what a customer and an auditor care about: each request is
opened once, for one amount; paid at most once, that amount, in the step that
completes it; small amounts at once, larger ones after a verdict.  The mapping
reads stage and amount of a request off the one run with its request id, and
the payments off the table of credits.  The ledger allows a verdict to be
overtaken by another, because the code does (first finding below).

### McpClient and the code

A request calls tools one after the other: a chat `get_customer`,
`get_invoice`, `get_contract` and then perhaps a writing one, an approving
decision `create_credit` alone (`NextTools`).  `Call` begins a call;
`Enter`/`RefuseEntry` are `_ensure_circuit_closed`, `Post` sends one attempt,
`Succeed`, `Malformed`, `InvalidResult`, `BackOff` and `GiveUp` are what may
become of it, `Retry` is the end of the pause, `Cancel` the end of the task.
The order in `_invoke_http_tool` matters: an answer that is no object leaves the
breaker alone, one without the fields of the tool has already counted as a
success.  A POST of a writing tool is a message that the server executes or
fails whenever it arrives (`Execute`, `FailOnServer`), whether or not somebody
still waits for it: a timeout of the client does not take a request back.
`ClientOf` says which requests share a client: all of them, as the class and
its tests have it and the run `mcp` checks, or none, as `get_billing_service`
makes them and `BillingRemote` has them.

### BillingRemote and the code

`mode` is `MCP_CLIENT_MODE` of the process that serves a call, chosen when it
arrives: in a rolling change of the setting both kinds are up.  A local handler
takes the steps of `BillingWorkflow`.  A remote one takes them too, except at
the places in `Replaced`:

* the analysis, the insert of a credit and that of an approval request are
  calls of tools (`CallTool`, then `GoOn`, then `CallReturns` or `CallFails`);
* `CommitRemoteCredit` and `CommitRemoteApproved` commit the key, the run and
  the audit trail, and no credit: the server has committed that
  (`billing_service.py:110-130`);
* after `request_approval` comes `RecordWaiting`, and `CommitRemoteWaiting`
  commits a run that waits for an approval request which names another workflow
  (`billing_service.py:143`, `mcp_server/services/billing_service.py`).

Rows of the server are the messages in `written`.  They have request ids and
workflow ids that the server makes up, so no unique index and no decision meets
them.  `ServerStep` on SQLite waits for the one writer, which is as a rule the
handler that calls; no run has that dialect, because a remote credit can then
only time out.  `RemoteAbort` ends a handler and cancels its call; what it has
sent stays under way.  Each handler has a client of its own, so its breaker
sees one request's calls and no cooldown can pass in them: the clock of
`McpClient` stands still.

### BillingMetrics and the code

A handler counts a credit, an approval request or a decision at most once, so a
counter is the set of those who have counted.  `Record` adds them in the very
step of the code that calls `record_...`, which is before the commit.  The code's
counters are of one process and end with it; the module keeps one history of
all processes, which is what the properties compare with the tables.

### RateLimiter, ApiGateway and the code

A check of the limiter is one action, since it awaits nothing and holds a lock.
`admitted` is a history the code does not keep; the properties are about it, and
`DequesAreRecent` says why the deque is enough to decide by.

A call goes from `Receive` (the middleware) over `MisreadLength`,
`RefuseOversized` and `RefuseUnparsable` to the dependencies in their order:
`AuthorizeKey`, or `Introspect`, `ProviderAnswers` and `AuthorizeToken`; then
`LetThrough` or `TurnAway`; then `Handle`, which checks the fields of the body
and runs the handler.  `MisreadLength` is the `int()` of a Content-Length that
is no number (`main.py:68-70`), which raises before the middleware's `try`;
uvicorn's parsers refuse such a header themselves, so it takes another server to
meet it.  Every end is `Finish`.  The process awaits the provider between
`Introspect` and `AuthorizeToken` and the handler in `handler`; there other
calls, the clock and `Revoke` go on.  The provider looks at the token in
`ProviderAnswers`, so a token revoked after that look still gets in, as with any
introspection; `late` are the calls that arrived after it.  With API keys the
code authorizes and limits without an await in between, and the model lets
others in there: it has more behaviours than the code, which the safety
properties bear.  Which API key or token permits what is `TierKey`, `RoleName`
and `ClaimsOf`: arbitrary functions, equal values included.

## The runs

| Run | Instance | What it shows |
| --- | --- | --- |
| `rules` | two customers, four invoices each, five contracts | `ForeignRowsDoNotMatter`, `OverlapIsRefused`, `ComparisonIsDetermined`, `OnlyOverchargesAreCredited` |
| `postgres` | 2 chats, 2 decisions, 1 request id to share, 3 customers, PostgreSQL | types, the inductive invariants, single and authorised credits, atomic outcomes, settled verdicts; every call is answered |
| `sqlite` | the same with 4 customers, SQLite | repeated ids are answered 409; every answer is true of the tables; `BillingWorkflow` implements `CreditLedger` |
| `mcp` | 3 requests on one client, 2 attempts, threshold 2, cooldown 1, clock to 2 | attempts bound rows; the breaker is open only on failures, never longer than a cooldown ahead; after two failures the third request sends nothing |
| `remote` | 1 chat, 2 decisions, each local or remote, 3 customers, 2 attempts, threshold 2, PostgreSQL | what is sent to the server is authorised and guarded by the key; one answer pays; answers and counters agree with the records; a second call sends a credit only where one has failed; every call is answered |
| `gateway` | 3 calls, 1 token, 2 API keys, 3 settings of the authorization, limit 2, window 1, clock to 3 | the limit holds over every window; refusals are justified; only permitted calls take places; revoked tokens get nobody in |

*Why the bounds are enough.*  Two chats and two decisions are the smallest
instance with every conflict the tables can have: two runs for one request id,
two verdicts on one approval, a chat that still runs while its approval is
decided.  A third handler of a kind meets only locks and rows of kinds the
second has met; the theorems cover any number.  Both runs have a
customer who is owed 1 and one who is owed 2, with limits 1 and 2: one is
credited at once, the other needs an approval.  `postgres` adds a customer
without a contract; `sqlite` one with nothing to correct and one whose invoice
is in another currency.

`remote` has one chat and two decisions: a decision needs one chat only, and two
decisions are two rivals for one key, each local or remote.  Two chats in one
request are in `postgres` and `sqlite`; with tool calls they, or a third
decision, take hours.  Two attempts are the fewest of which one can be
late, and a threshold of two is the fewest a handler's own calls can stay below.
`mcp` has three requests, the fewest that can open a breaker of threshold two and
still have a call in flight; its clock covers the cooldown and one instant more.
`gateway` has three calls, the fewest that can be refused behind a limit of two,
and its clock two windows and one instant more; two keys are callers
with a window of their own and callers who share one.  The theorems cover any
number of calls, keys and tokens.

The runs of violated properties are small instances of the same modules; their
counterexamples are the findings.

*Deadlock* is checked in every run.  `Quiescent`, `RemoteQuiescent` and
`AllAnswered` let an instance stop when all its calls have ended, and only then.

*Fairness.*  Each handler, local or remote, and each request of the tool client
is weakly fair in the steps it takes itself: the event loop runs every task that
can go on, the database grants a lock when it is free, and `wait_for` and httpx
end a wait.  Nothing makes a call arrive, fail or lapse, the server execute a
POST, or the clock go on, so none of these is fair: in `remote` every call is
answered although the server may never do anything.  The gateway states no
fairness and no liveness: it waits for nothing but the provider, with a timeout,
and the handler, whose end is `EveryCallAnswered`.  On SQLite a writer that waits
gives up after its driver's timeout, which `Abort` has, unfairly; no liveness
property rests on it.

## What is proved

TLAPS checks every theorem below for all values of the constants, from the
modules' named assumptions alone (types of the rows, disjoint names, numeric
settings).  Of the theorems about behaviours two have a hypothesis besides:
`OwnBreakersNeverOpen`, that each request has a client of its own, as the API
makes them, and that the threshold is above one, and `DuplicatesAreConflicts`,
that the database is SQLite.

* `BillingRulesProofs`: a larger amount never gets less care, whatever the
  limits (`CareGrowsWithTheAmount`); a customer's analysis depends on that
  customer's rows alone (`OnlyOwnRowsMatter`); a second contract over the day of
  the invoice stops the comparison (`OverlapStopsTheComparison`); invoices of
  different days leave one comparison (`OneComparison`); a credit is the
  difference, and the difference an overcharge (`CreditsMakeUpTheDifference`).
  They are about arbitrary sets of rows, infinite ones included; the four
  properties of `MCBillingRules` follow for its tables:
  `ForeignRowsNeverMatter`, `OverlapIsAlwaysRefused`,
  `ComparisonIsAlwaysDetermined`, `OnlyOverchargesAreEverCredited`.
* `BillingWorkflowProofs`: `Typing`, and `Consistency`: the invariant
  `Consistent`, for any number of chats, decisions, ids and rows, on both
  databases.  From it `CreditedAtMostOnce`, `KeyCheckSuffices` and
  `WaitingIsPending`.
* `WorkflowLedgerProofs`: `ExplainedAlways`, the invariant `Explained`; from it
  `CreditsAreAuthorised`; `OutcomesComeWithCredits`;
  `WorkflowImplementsLedger`, the refinement that the `sqlite` run checks;
  `VerdictsAreFinal`.
* `BillingAnswersProofs`: `AnswersStand`, `MailFollowsCommits`, and, for SQLite,
  `DuplicatesAreConflicts`.
* `BillingRemoteProofs`: `HandlersUseTheClient`, that the tool calls in the
  handlers are behaviours of `McpClient`, so that its theorems carry over;
  `RemoteTyping`; `WhatIsSentIsAuthorised`; `SecondPaymentsFollowFailures`;
  `OnePaidAnswer`, `RemoteAnswersStand`, `KeysGuardPosts`; and of the counters
  `TheCommittedIsCounted`, `TheCountedIsCommittedOrFailed`.
* `McpClientProofs`: `ClientTypes`, `RowsAreBounded`, `OpenNeedsFailures`,
  `OpenEnds`, whichever requests share a client, whatever the settings;
  `BreakersOpen`, that a client whose failed requests have reached the threshold
  lets no other through; `OwnBreakersNeverOpen`, that nothing of the kind happens
  with a client for each request.
* `RateLimiterProofs`: `LimiterTypes`, `DequesAreEnough`, `LimitIsKept`,
  `RefusalsAreJustified`.
* `ApiGatewayProofs`: `LimiterInTheGateway`, that the gateway implements
  `RateLimiter`, and through it `GatewayIsLimited`; `GatewayTypes`,
  `RevokedStayOut`, `PlacesOfPermittedCalls`.

*Why `Consistent`.*  That a request is credited once is not inductive.  An
approving decision looks for the key before it inserts it, so the invariant
needs that nobody else inserts it in between: the decision has held the lock of
the approval row since `Decide` (`LocksHeld`), locks are exclusive
(`LocksExclusive`), and any other handler with the same key works for the same
request, which has one run (`OneRunPerRequest`) and so the same approval.  A
rival that had committed the key before would have left the run completed
(`CreditsHaveRuns`), which excludes a chat still under way (`RunStages`), and
the look at the key excludes a decision (`KeysAreFresh`).  Each conjunct is
preserved with the help of the others, and the proof has one step for each
action.

*Why `Explained`.*  That a credit is authorised needs what happens before it is
inserted: a chat takes the branch that its bill calls for (`BranchFitsBill`), a
decision past `Decide` towards the key is an approval (`OnlyApprovalsPay`).  An
approved request has used its key, and its run says so (`ApprovalsMatchRuns`),
although a later rejection may overwrite both, which is the first finding below.
With it every step is one of six things that happen to one run, or nothing
(`StepsAreRunSteps`): the run is opened, paid at once, made to wait, reviewed,
approved or rejected.  Each of the six is a step of the ledger
(`RunStepsAreLedgerSteps`) and leaves the other requests alone (`OthersStay`),
which is the refinement; none of them changes a run and its credit apart, which
is `OutcomesComeWithCredits`.

*Why `Told`.*  An answer is a promise about the tables (`Promise`) that has to
survive every later step: no credit, audit entry or run is removed, and an
approval, once completed, stays completed, if with another verdict.  That a
conflict is a true answer at the look at the key needs that a key in the table
is the key of a completed run (`KeysHaveRuns`): with one run for each request
id, the caller's own approval cannot be pending then.  Mails need that a
decision which is about to notify has committed (`DecisionsCommitFirst`).

*Why `Placed`.*  A remote handler's place tells what it is entitled to
(`DueTo`): a chat at the crediting call has a bill within the automatic limit,
a decision there approves a recorded request, and the request in its client's
hands is one of its own (`ChatPlaced`, `DecisionPlaced`, `CallPlaced`).  What a
client has sent stays under way after its handler is gone, so the invariant is
about messages and not only about handlers.

*Why `Payments`.*  With processes of both modes the row of a credit may be in
either database, so the argument of `Consistent`, which starts from the rows of
the session, does not carry over: a remote payment leaves no such row.
`Payments` starts from the handlers instead.  `HasPaid` is a handler whose answer
is, or will be, that it has paid; its key is recorded (`PaymentsKeyed`), which
a handler past the look at the key excludes (`KeysAreFresh`), because two
handlers on the way to a credit never have the same key (`RivalsDiffer`): a chat
that pays has no approval request, and of two decisions on one request one
holds its row.  The types of the clients are taken from `McpClientProofs` by the
refinement (`ToolsStay`), and the deeds of a handler are reduced to four kinds
(`Begins`, `Ends`, `Works`, `Commits`): every step is a deed of one handler, or
goes on without the handlers (`EveryStep`).

*Why `SendersAccounted`.*  That two calls pay one request only when one of them
has failed is about messages, which stay, while a handler moves on.  So each
sender of a credit is followed: it is still paying, has paid, or has failed
(`Accountable`, preserved by `AccountStays`).  Two senders of one request cannot
both be paying or have paid, by `Payments`; what is left is a failure.

*Why `CountedInTime` and `CountedForAReason`.*  What is counted and what lasts
change in different steps.  Between them the handler is in a place that tells
what it has counted (`AfterCredit`, `AfterRequest`): it enters that place only
by a step that counts (`PlacesAreCounted`), and leaves it only by the commit or
by failing (`CountedLeave`).  That what was committed stays so is
`LastingStays`; a run that waits could be overwritten only by its own first
commit, which `RunsAreNew` excludes.

*Why `AttemptsAreCounted`.*  That the rows of a request are no more than its
attempts needs that all of them are of one tool: a request that has a row of a
writing tool calls nothing more, and what is under way or written is of the tool
it is calling.  Then a row is told from another by its attempt alone, and
attempts are between one and `MaxAttempts`, because a pause is entered only when
one is left.

*Why `FailuresAreCounted`.*  That a breaker opens is about requests that failed
in any order: as long as no request of a client has had an answer, the number of
failures the client remembers is the number of its requests that failed, and
from the threshold on it is open.  An answer in between would reset the count,
and the cooldown would end, which `NoneAnswered` excludes.  Requests whose own
call is still in flight are among the others: the one that fails next keeps the
breaker open and moves its end.  `FailuresEnd` is the other side: a request that
has failed is done, so a client of its own has counted one failure at most, and
no step takes it to a threshold above one.

*Why `DequesAreRecent`.*  The limiter forgets times, and the limit is about
all of them: the proof needs that what was forgotten was too old to count, then
and ever after.  A request let through at least `Limit` places after another
one finds that other one forgotten, hence older than the window.  Refusals need
besides that the history is in order (`InOrder`): the loop stops at the first
time that is not stale, and so no later one is.

*Why `Passage`.*  Where a call is tells what it has shown: at the limiter it is
permitted (`CameBy`), and with a revoked token it is outside, at the provider at
most, with an answer that names no permission (`StaysOutside`).  The keys that
reach the limiter are keys of its buckets, which is what `LimiterInTheGateway`
needs.

*Only model-checked*: `EveryCallAnswered`, in `postgres` and in `remote`, is
liveness under fairness, which this prover does not do.
`OpenAfterRepeatedFailures` is checked in `mcp` for one client that all requests
share, which is what the class and its tests intend; `BreakersOpen` is its
counterpart for each client, whoever uses it.  Every other property of the
passing runs is a theorem.  The inductive invariants in the proof
modules that no run lists are conjunctions of facts about places, and stronger
than what the runs list; TLC finds `Placed`, `Payments`, `CountedInTime` and
`CountedForAReason` true on the instance of `remote` as well.

## Findings

Each has a run that ends in a counterexample.

1. `find_rejected_credit`: a rejection that read PENDING overwrites a committed
   approval, whose credit stays (`billing_repository.py:176`).
2. `find_expired_lost`: the EXPIRED status and the FAILED run are rolled back
   by the exception that reports them (`billing_service.py:192`).
3. `find_early_mail`: the automatic credit is announced before it is committed
   (`graph.py:87`).
4. `find_duplicate_500`: on PostgreSQL a repeated request id is an unhandled
   error and not a 409 (`billing_repository.py:226`).
5. `find_two_rows`: the server credits one request twice.  The trace is a retried
   `create_credit` (`mcp_server/services/billing_service.py:85`).  The property
   is about a retried approval as well: a credit on the server outlives the
   rollback of the key that guards it, so a decision that fails and is made again
   pays again (`billing_service.py:111`).  With `Attempts = 1` in the same cfg
   TLC ends in that trace; `SecondPaymentNeedsFailure` says that there is no
   third way.
6. `find_unresumable`: with HTTP tools an approval request is stored under a
   workflow id that no run has, so a decision on it neither creates nor rejects a
   credit, and a bill above the automatic limit is never paid
   (`billing_service.py:143`).

The modules show more consequences of the design, which have no run of
their own.

* Each request has a client, and so a breaker, of its own
  (`dependencies.py:100`): `OwnBreakersNeverOpen` proves that none ever opens,
  where `docs/DEVELOPER_GUIDE.md:172` says "Circuit breaker opens on repeated
  failures."
* A chat that fails after its first commit leaves a run that nothing resumes, and
  every repetition of the request is refused as a duplicate of it (`graph.py:58`).
* Of two finalised invoices issued at one instant the database may give either,
  and with it the discrepancy (`billing_repository.py:79`);
  `ComparisonIsDetermined` is about customers who have no such pair.
* Two requests about one invoice are both credited in full: the idempotency key
  starts with the request id (`billing_service.py:106`).
* An unknown customer comes back from the HTTP tools as 500 and is asked for
  again (`mcp_server/http_api.py:58`).
* On SQLite the server waits for the very handler that waits for it
  (`mcp_server/services/billing_service.py:84`).

## What is not modelled

* The LLM client: amounts it reads out of the message are used by nothing that
  follows.
* Of the API shell: headers, trace ids, the health routes, the counters of
  answers.  Of the
  authorization: the actor id, which no handler uses, and the token check of
  the MCP server.
* Of the metrics: durations, and the counters of the LLM and of MCP calls.
* Of the MCP server: the stdio front end, and the currency it writes into a
  credit, which is the configured one whatever the invoice's is.
* Of the database: connection pools, column lengths, numeric scales; seed data
  and migration, except for the unique columns.
* The end of a process between a commit and the answer that follows it in the
  same action; what a process forgets when it ends is its counters and windows.
* The wall clock going back, and several server processes with a rate limiter
  each.
* Logs and deployment have no state that the program reads.

## Plan

Done: rules, workflow, ledger, tool client, the workflow with HTTP tools, the
counters, the rate limiter, the gateway, and the theorems above.

Next, in this order:

1. An abstract specification of the payments with both modes, as `CreditLedger`
   is of the local one, and `BillingRemote` shown to implement it.
2. Which rows of the server have no key on record, for each failure by which
   `SecondPaymentsFollowFailures` excuses a second one.
3. The rate limiter and the gateway with several server processes.
