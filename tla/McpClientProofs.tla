--------------------------- MODULE McpClientProofs ---------------------------
(***************************************************************************)
(* What McpClient keeps for any number of requests and clients, and any    *)
(* settings: its types, the rows the attempts of a request may leave on    *)
(* the server, the two bounds on an open breaker, when a breaker opens,    *)
(* and that none does with a client for each request.                      *)
(***************************************************************************)
EXTENDS McpClient, FiniteSetTheorems, TLAPS

\* The code makes at least one attempt, whatever the setting is.
LEMMA AttemptsArePositive == MaxAttempts \in Nat /\ MaxAttempts >= 1
  BY SettingsAreNumbers DEF MaxAttempts

\* What the end of a call writes into the breaker keeps its types.
LEMMA RecordsAreTyped ==
    ASSUME TypeOK, NEW c \in Clients, RecordSuccess(c) \/ RecordFailure(c)
    PROVE  /\ failures' \in [Clients -> Nat]
           /\ openUntil' \in [Clients -> Nat \cup {Closed}]
  BY SettingsAreNumbers DEF TypeOK, RecordSuccess, RecordFailure, Closed

LEMMA CountsHoldAtFirst == Init => TypeOK /\ AttemptsAreCounted
  BY AttemptsArePositive DEF Init, TypeOK, AttemptsAreCounted, Closed, Writes

\* The message of a request that is between two attempts is a message.
LEMMA MessagesAreTyped ==
    ASSUME TypeOK, NEW r \in Requests, tool[r] \in Writes, attempt[r] >= 1
    PROVE  Message(r) \in Messages
  BY AttemptsArePositive DEF TypeOK, Message, Messages

\* One step, whatever it is, keeps the types and the counts.
LEMMA CountsAreKept ==
    TypeOK /\ AttemptsAreCounted /\ [Next]_vars => TypeOK' /\ AttemptsAreCounted'
  <1> SUFFICES ASSUME TypeOK, AttemptsAreCounted, [Next]_vars
               PROVE  TypeOK' /\ AttemptsAreCounted'
    OBVIOUS
  <1> USE AttemptsArePositive, ClientsAreGiven
  <1> USE DEF TypeOK, AttemptsAreCounted, Goto, Finish, breaker, server, RowsOf
  <1>1. ASSUME NEW r \in Requests, Call(r)
        PROVE  TypeOK' /\ AttemptsAreCounted'
    <2>1. PICK t \in NextTools(tool[r]) : tool' = [tool EXCEPT ![r] = t]
      BY <1>1 DEF Call
    <2>2. t \in Reads \cup Writes /\ tool[r] \notin Writes
      BY <2>1 DEF NextTools, Reads, Writes
    <2>3. TypeOK'
      BY <1>1, <2>1, <2>2 DEF Call
    <2>4. \A m \in arriving \cup written : m.request # r
      BY <2>2 DEF Messages
    <2>5. AttemptsAreCounted'
      BY <1>1, <2>1, <2>4 DEF Call, Messages
    <2> QED
      BY <2>3, <2>5
  <1>2. ASSUME NEW r \in Requests, Enter(r)
        PROVE  TypeOK' /\ AttemptsAreCounted'
    BY <1>2 DEF Enter, Closed
  <1>3. ASSUME NEW r \in Requests, RefuseEntry(r)
        PROVE  TypeOK' /\ AttemptsAreCounted'
    BY <1>3 DEF RefuseEntry
  <1>4. ASSUME NEW r \in Requests, Post(r)
        PROVE  TypeOK' /\ AttemptsAreCounted'
    <2>1. tool[r] \in Writes => Message(r) \in Messages
      BY <1>4, MessagesAreTyped DEF Post
    <2>2. TypeOK'
      BY <1>4, <2>1 DEF Post
    <2>3. AttemptsAreCounted'
      BY <1>4 DEF Post, Message
    <2> QED
      BY <2>2, <2>3
  <1>5. ASSUME NEW m \in arriving, Execute(m) \/ FailOnServer(m)
        PROVE  TypeOK' /\ AttemptsAreCounted'
    BY <1>5 DEF Execute, FailOnServer
  <1>6. ASSUME NEW r \in Requests, Succeed(r)
        PROVE  TypeOK' /\ AttemptsAreCounted'
    <2>1. /\ failures' \in [Clients -> Nat]
          /\ openUntil' \in [Clients -> Nat \cup {Closed}]
      BY <1>6, RecordsAreTyped DEF Succeed
    <2>2. tool[r] \in Writes => RowsOf(r) # {}
      BY <1>6 DEF Succeed, Message
    <2> QED
      BY <1>6, <2>1, <2>2 DEF Succeed
  <1>7. ASSUME NEW r \in Requests, Malformed(r) \/ Cancel(r)
        PROVE  TypeOK' /\ AttemptsAreCounted'
    BY <1>7 DEF Malformed, Cancel
  <1>8. ASSUME NEW r \in Requests, InvalidResult(r) \/ GiveUp(r)
        PROVE  TypeOK' /\ AttemptsAreCounted'
    <2>1. /\ failures' \in [Clients -> Nat]
          /\ openUntil' \in [Clients -> Nat \cup {Closed}]
      BY <1>8, RecordsAreTyped DEF InvalidResult, GiveUp
    <2> QED
      BY <1>8, <2>1 DEF InvalidResult, GiveUp
  <1>9. ASSUME NEW r \in Requests, BackOff(r)
        PROVE  TypeOK' /\ AttemptsAreCounted'
    <2>1. pc[r] = "waiting" /\ attempt[r] < MaxAttempts
      BY <1>9 DEF BackOff, FailsFor, MayRetry
    <2> QED
      BY <1>9, <2>1 DEF BackOff
  <1>10. ASSUME NEW r \in Requests, Retry(r)
         PROVE  TypeOK' /\ AttemptsAreCounted'
    BY <1>10 DEF Retry
  <1>11. CASE Tick
    BY <1>11 DEF Tick
  <1>12. CASE UNCHANGED vars
    BY <1>12 DEF vars
  <1> QED
    BY <1>1, <1>2, <1>3, <1>4, <1>5, <1>6, <1>7, <1>8, <1>9, <1>10, <1>11, <1>12
       DEF Next, CallStep, Quiescent

\* The client's variables keep their types, and the attempts their count.
THEOREM ClientTypes == Spec => [](TypeOK /\ AttemptsAreCounted)
  BY CountsHoldAtFirst, CountsAreKept, PTL DEF Spec

-----------------------------------------------------------------------------
\* The rows of a request differ only in the attempt.
LEMMA RowsAreAttempts ==
    ASSUME TypeOK, AttemptsAreCounted, NEW r \in Requests
    PROVE  IsFiniteSet(RowsOf(r)) /\ Cardinality(RowsOf(r)) <= MaxAttempts
  <1> DEFINE Number == [m \in RowsOf(r) |-> m.attempt]
  <1>1. \A m \in RowsOf(r) :
           /\ m \in Messages
           /\ m.request = r /\ m.tool = tool[r]
    BY DEF RowsOf, TypeOK, AttemptsAreCounted
  <1>2. Number \in Injection(RowsOf(r), 1 .. MaxAttempts)
    BY <1>1 DEF Injection, IsInjective, Messages
  <1>3. IsFiniteSet(1 .. MaxAttempts) /\ Cardinality(1 .. MaxAttempts) = MaxAttempts
    BY AttemptsArePositive, FS_Interval
  <1> QED
    BY <1>2, <1>3, FS_Injection

\* However many of a request's POSTs time out and arrive after all, it has no
\* more rows on the server than attempts, and one row if its call succeeded.
THEOREM RowsAreBounded == Spec => []AttemptsBoundRows
  <1>1. TypeOK /\ AttemptsAreCounted => AttemptsBoundRows
    BY RowsAreAttempts DEF AttemptsBoundRows, AttemptsAreCounted
  <1> QED
    BY <1>1, ClientTypes, PTL

-----------------------------------------------------------------------------
BreakerBounds == OpenOnFailures /\ OpenIsBounded

\* The clock only goes forward.
LEMMA BreakerIsKept ==
    TypeOK /\ BreakerBounds /\ [Next]_vars => BreakerBounds'
  <1> SUFFICES ASSUME TypeOK, BreakerBounds, [Next]_vars
               PROVE  BreakerBounds'
    OBVIOUS
  <1> USE SettingsAreNumbers, ClientsAreGiven
  <1> USE DEF TypeOK, BreakerBounds, OpenOnFailures, OpenIsBounded, Closed, breaker
  <1>1. ASSUME NEW r \in Requests, Enter(r)
        PROVE  BreakerBounds'
    BY <1>1 DEF Enter
  <1>2. ASSUME NEW r \in Requests, Succeed(r) \/ InvalidResult(r)
        PROVE  BreakerBounds'
    BY <1>2 DEF Succeed, InvalidResult, RecordSuccess
  <1>3. ASSUME NEW r \in Requests, GiveUp(r)
        PROVE  BreakerBounds'
    BY <1>3 DEF GiveUp, RecordFailure
  <1>4. CASE Tick
    BY <1>4 DEF Tick
  <1>5. CASE UNCHANGED <<failures, openUntil, clock>>
    BY <1>5
  <1>6. ASSUME NEW r \in Requests,
               \/ Call(r) \/ RefuseEntry(r) \/ Post(r) \/ Malformed(r) \/ BackOff(r)
               \/ Retry(r) \/ Cancel(r)
        PROVE  UNCHANGED <<failures, openUntil, clock>>
    BY <1>6 DEF Call, RefuseEntry, Post, Malformed, BackOff, Retry, Cancel
  <1>7. ASSUME NEW m \in arriving, Execute(m) \/ FailOnServer(m)
        PROVE  UNCHANGED <<failures, openUntil, clock>>
    BY <1>7 DEF Execute, FailOnServer
  <1> QED
    BY <1>1, <1>2, <1>3, <1>4, <1>5, <1>6, <1>7 DEF Next, CallStep, Quiescent, vars

LEMMA BreakerHolds == Spec => []BreakerBounds
  <1>1. Init => BreakerBounds
    BY SettingsAreNumbers DEF Init, BreakerBounds, OpenOnFailures, OpenIsBounded, Closed
  <1> QED
    BY <1>1, BreakerIsKept, ClientTypes, PTL DEF Spec

\* An open breaker has the failures that opened it, whatever calls were in
\* flight when it opened and come back since.
THEOREM OpenNeedsFailures == Spec => []OpenOnFailures
  BY BreakerHolds, PTL DEF BreakerBounds

\* A breaker never refuses beyond one cooldown from now.
THEOREM OpenEnds == Spec => []OpenIsBounded
  BY BreakerHolds, PTL DEF BreakerBounds
-----------------------------------------------------------------------------
(***************************************************************************)
(* That the breaker opens.                                                 *)
(***************************************************************************)

\* What a step does to the request that takes it: it fails, it ends otherwise,
\* or it goes on.
Fails(r) == GiveUp(r)
EndsOtherwise(r) ==
    /\ InCall(r)
    /\ \E result \in {"refused", "malformed", "cancelled"} : Finish(r, result)
    /\ UNCHANGED <<tool, clock>>
GoesOn(r) ==
    /\ \E place \in {"ready", "enter", "post", "waiting", "backoff"} : Goto(r, place)
    /\ pc[r] # "done"
    /\ \/ UNCHANGED tool /\ pc[r] # "ready"
       \/ /\ pc[r] = "ready" /\ pc' = [pc EXCEPT ![r] = "enter"]
          /\ \E t \in NextTools(tool[r]) : tool' = [tool EXCEPT ![r] = t]
    /\ UNCHANGED <<outcome, clock>>

LEMMA StepsOfRequests ==
    ASSUME NEW r \in Requests, Call(r) \/ CallStep(r) \/ Cancel(r)
    PROVE  Fails(r) \/ EndsOtherwise(r) \/ GoesOn(r)
  <1>1. CASE Call(r)
    BY <1>1 DEF Call, GoesOn, Goto
  <1>2. CASE RefuseEntry(r) \/ Malformed(r) \/ InvalidResult(r) \/ Cancel(r)
    BY <1>2 DEF RefuseEntry, Malformed, InvalidResult, Cancel, EndsOtherwise, InCall
  <1>3. CASE Enter(r) \/ Post(r) \/ Succeed(r) \/ BackOff(r) \/ Retry(r)
    BY <1>3 DEF Enter, Post, Succeed, BackOff, Retry, FailsFor, GoesOn
  <1>4. CASE GiveUp(r)
    BY <1>4 DEF Fails
  <1> QED
    BY <1>1, <1>2, <1>3, <1>4 DEF CallStep

LEMMA StepsOfNobody ==
    ASSUME [Next]_vars
    PROVE  \/ \E r \in Requests : Call(r) \/ CallStep(r) \/ Cancel(r)
           \/ /\ UNCHANGED <<pc, tool, outcome, failures, openUntil>>
              /\ clock' = clock \/ clock' = clock + 1
  <1>1. ASSUME NEW m \in arriving, Execute(m) \/ FailOnServer(m)
        PROVE  UNCHANGED <<pc, tool, outcome, failures, openUntil, clock>>
    BY <1>1 DEF Execute, FailOnServer, breaker
  <1>2. CASE Tick
    BY <1>2 DEF Tick, breaker
  <1>3. CASE UNCHANGED vars
    BY <1>3 DEF vars, breaker
  <1> QED
    BY <1>1, <1>2, <1>3 DEF Next, Quiescent

\* Only a request in a call has an open outcome and a tool.
Orderly ==
    \A r \in Requests :
        /\ pc[r] # "done" => outcome[r] = "none"
        /\ tool[r] = "none" => pc[r] = "ready"

LEMMA OrderIsKept ==
    ASSUME TypeOK, Orderly, [Next]_vars
    PROVE  Orderly'
  <1> USE DEF TypeOK, Orderly, Goto, Finish
  <1>1. ASSUME NEW r \in Requests, Fails(r)
        PROVE  Orderly'
    BY <1>1 DEF Fails, GiveUp, FailsFor
  <1>2. ASSUME NEW r \in Requests, EndsOtherwise(r)
        PROVE  Orderly'
    BY <1>2 DEF EndsOtherwise, InCall
  <1>3. ASSUME NEW r \in Requests, GoesOn(r)
        PROVE  Orderly'
    <2>1. "none" \notin NextTools(tool[r])
      BY DEF NextTools, Writes
    <2> QED
      BY <1>3, <2>1 DEF GoesOn
  <1>4. CASE UNCHANGED <<pc, tool, outcome>>
    BY <1>4
  <1> QED
    BY <1>1, <1>2, <1>3, <1>4, StepsOfNobody, StepsOfRequests

\* An answer is never taken back.
LEMMA AnswersStay ==
    ASSUME TypeOK, Orderly, [Next]_vars, NEW q \in Requests, Unanswered(q)'
    PROVE  Unanswered(q)
  <1> USE DEF TypeOK, Orderly, Goto, Finish, Unanswered
  <1>1. ASSUME NEW r \in Requests, Fails(r)
        PROVE  Unanswered(q)
    BY <1>1 DEF Fails, GiveUp, FailsFor
  <1>2. ASSUME NEW r \in Requests, EndsOtherwise(r)
        PROVE  Unanswered(q)
    BY <1>2 DEF EndsOtherwise, InCall
  <1>3. ASSUME NEW r \in Requests, GoesOn(r)
        PROVE  Unanswered(q)
    <2>1. \A t \in NextTools(tool[r]) :
            t # "none" /\ (t = "get_customer" => tool[r] = "none")
      BY DEF NextTools, Writes
    <2> QED
      BY <1>3, <2>1 DEF GoesOn
  <1>4. CASE UNCHANGED <<pc, tool, outcome>>
    BY <1>4
  <1> QED
    BY <1>1, <1>2, <1>3, <1>4, StepsOfNobody, StepsOfRequests

LEMMA NoneAnsweredBefore ==
    ASSUME TypeOK, Orderly, [Next]_vars, NEW c \in Clients, NoneAnswered(c)'
    PROVE  NoneAnswered(c)
  <1>1. clock < Cooldown
    <2>1. clock' = clock \/ clock' = clock + 1
      BY StepsOfNobody, StepsOfRequests DEF Fails, GiveUp, EndsOtherwise, GoesOn
    <2> QED
      BY <2>1, SettingsAreNumbers DEF NoneAnswered, TypeOK
  <1> QED
    BY <1>1, AnswersStay DEF NoneAnswered

\* A failure counts once; nothing else changes who has failed.
LEMMA OneMoreFailed ==
    ASSUME TypeOK, Orderly, NEW r \in Requests, Fails(r), NEW c \in Clients
    PROVE  /\ c = ClientOf[r] => r \notin FailedOf(c) /\ FailedOf(c)' = FailedOf(c) \cup {r}
           /\ c # ClientOf[r] => FailedOf(c)' = FailedOf(c)
  <1>1. outcome[r] = "none" /\ outcome' = [outcome EXCEPT ![r] = "failed"]
    BY DEF Fails, GiveUp, FailsFor, Finish, Orderly
  <1> QED
    BY <1>1 DEF FailedOf, TypeOK

LEMMA NobodyElseFails ==
    ASSUME TypeOK, Orderly, NEW r \in Requests, EndsOtherwise(r) \/ GoesOn(r), NEW c \in Clients
    PROVE  FailedOf(c)' = FailedOf(c)
  <1>1. CASE EndsOtherwise(r)
    <2>1. PICK result \in {"refused", "malformed", "cancelled"} :
            outcome' = [outcome EXCEPT ![r] = result]
      BY <1>1 DEF EndsOtherwise, Finish
    <2>2. outcome[r] = "none"
      BY <1>1 DEF EndsOtherwise, InCall, Orderly
    <2> QED
      BY <2>1, <2>2 DEF FailedOf, TypeOK
  <1>2. CASE GoesOn(r)
    BY <1>2 DEF GoesOn, FailedOf
  <1> QED
    BY <1>1, <1>2

\* What FailuresAreCounted says of one client.
Counted(c) ==
    /\ openUntil[c] # Closed => openUntil[c] >= Cooldown
    /\ IsFiniteSet(FailedOf(c))
    /\ NoneAnswered(c) =>
         /\ failures[c] = Cardinality(FailedOf(c))
         /\ FailedOf(c) # {} /\ failures[c] >= Threshold => openUntil[c] # Closed

\* The breaker of a client that none of the step's requests uses.
LEMMA OthersStayCounted ==
    ASSUME TypeOK, Orderly, [Next]_vars, NEW c \in Clients, Counted(c),
           failures'[c] = failures[c], openUntil'[c] = openUntil[c],
           FailedOf(c)' = FailedOf(c)
    PROVE  Counted(c)'
  BY NoneAnsweredBefore DEF Counted

LEMMA FailureIsCounted ==
    ASSUME TypeOK, Orderly, [Next]_vars, NEW r \in Requests, Fails(r),
           NEW c \in Clients, Counted(c)
    PROVE  Counted(c)'
  <1> USE SettingsAreNumbers, ClientsAreGiven
  <1>1. /\ failures' = [failures EXCEPT ![ClientOf[r]] = @ + 1]
        /\ openUntil' = IF failures[ClientOf[r]] + 1 < Threshold THEN openUntil
                        ELSE [openUntil EXCEPT ![ClientOf[r]] = clock + Cooldown]
    BY DEF Fails, GiveUp, RecordFailure
  <1>2. CASE c # ClientOf[r]
    <2>1. failures'[c] = failures[c] /\ openUntil'[c] = openUntil[c]
      BY <1>1, <1>2 DEF TypeOK
    <2> QED
      BY <1>2, <2>1, OneMoreFailed, OthersStayCounted
  <1>3. CASE c = ClientOf[r]
    <2>1. r \notin FailedOf(c) /\ FailedOf(c)' = FailedOf(c) \cup {r}
      BY <1>3, OneMoreFailed
    <2>2. /\ IsFiniteSet(FailedOf(c)')
          /\ Cardinality(FailedOf(c)') = Cardinality(FailedOf(c)) + 1
      BY <2>1, FS_AddElement DEF Counted
    <2>3. /\ failures'[c] = failures[c] + 1
          /\ openUntil'[c] = IF failures[c] + 1 < Threshold THEN openUntil[c]
                             ELSE clock + Cooldown
      BY <1>1, <1>3 DEF TypeOK
    <2>4. openUntil'[c] # Closed => openUntil'[c] >= Cooldown
      BY <2>3 DEF Counted, TypeOK
    <2>5. failures'[c] >= Threshold => openUntil'[c] # Closed
      BY <2>3 DEF TypeOK, Closed
    <2>6. NoneAnswered(c)' => failures'[c] = Cardinality(FailedOf(c)')
      BY <2>2, <2>3, NoneAnsweredBefore DEF Counted
    <2> QED
      BY <2>2, <2>4, <2>5, <2>6 DEF Counted
  <1> QED
    BY <1>2, <1>3

LEMMA RestStaysCounted ==
    ASSUME TypeOK, Orderly, [Next]_vars, NEW r \in Requests,
           Call(r) \/ CallStep(r) \/ Cancel(r), ~ Fails(r),
           NEW c \in Clients, Counted(c)
    PROVE  Counted(c)'
  <1> USE SettingsAreNumbers, ClientsAreGiven
  <1>1. EndsOtherwise(r) \/ GoesOn(r)
    BY StepsOfRequests
  <1>2. FailedOf(c)' = FailedOf(c)
    BY <1>1, NobodyElseFails
  <1>3. CASE UNCHANGED <<failures, openUntil>>
    BY <1>2, <1>3, OthersStayCounted
  <1>4. CASE c # ClientOf[r] /\ (Enter(r) \/ Succeed(r) \/ InvalidResult(r))
    <2>1. failures'[c] = failures[c] /\ openUntil'[c] = openUntil[c]
      BY <1>4 DEF Enter, Succeed, InvalidResult, RecordSuccess, TypeOK
    <2> QED
      BY <1>2, <2>1, OthersStayCounted
  <1>5. CASE c = ClientOf[r] /\ Enter(r)
    <2>1. CASE openUntil[c] = Closed
      <3>1. failures'[c] = failures[c] /\ openUntil'[c] = openUntil[c]
        BY <1>5, <2>1 DEF Enter, TypeOK
      <3> QED
        BY <1>2, <3>1, OthersStayCounted
    <2>2. CASE openUntil[c] # Closed
      <3>1. clock' = clock /\ clock >= openUntil[c] /\ openUntil'[c] = Closed
        BY <1>5, <2>2 DEF Enter, TypeOK
      <3>2. ~ NoneAnswered(c)'
        BY <2>2, <3>1 DEF NoneAnswered, Counted, TypeOK, Closed
      <3> QED
        BY <1>2, <3>1, <3>2 DEF Counted
    <2> QED
      BY <2>1, <2>2
  <1>6. CASE c = ClientOf[r] /\ (Succeed(r) \/ InvalidResult(r))
    <2>1. openUntil'[c] = Closed
      BY <1>6 DEF Succeed, InvalidResult, RecordSuccess, TypeOK
    <2>2. ~ Unanswered(r)'
      <3>1. tool'[r] = tool[r] /\ tool[r] # "none"
        BY <1>6 DEF Succeed, InvalidResult, Orderly
      <3>2. pc'[r] = "ready" \/ outcome'[r] = "malformed"
        BY <1>6 DEF Succeed, InvalidResult, Finish, Goto, TypeOK
      <3> QED
        BY <3>1, <3>2 DEF Unanswered
    <2>3. ~ NoneAnswered(c)'
      BY <1>6, <2>2 DEF NoneAnswered
    <2> QED
      BY <1>2, <2>1, <2>3 DEF Counted
  <1>7. CASE ~ (Enter(r) \/ Succeed(r) \/ InvalidResult(r))
    <2>1. UNCHANGED <<failures, openUntil>>
      BY <1>7 DEF CallStep, Call, RefuseEntry, Post, Malformed, BackOff, Retry, Cancel, Fails, breaker
    <2> QED
      BY <1>3, <2>1
  <1> QED
    BY <1>4, <1>5, <1>6, <1>7

LEMMA FailuresStayCounted ==
    TypeOK /\ FailuresAreCounted /\ [Next]_vars => FailuresAreCounted'
  <1> SUFFICES ASSUME TypeOK, FailuresAreCounted, [Next]_vars
               PROVE  FailuresAreCounted'
    OBVIOUS
  <1>1. Orderly /\ \A c \in Clients : Counted(c)
    BY DEF FailuresAreCounted, Orderly, Counted
  <1>2. Orderly'
    BY <1>1, OrderIsKept
  <1>3. ASSUME NEW c \in Clients
        PROVE  Counted(c)'
    <2>1. CASE UNCHANGED <<pc, tool, outcome, failures, openUntil>>
      <3>1. FailedOf(c)' = FailedOf(c)
        BY <2>1 DEF FailedOf
      <3> QED
        BY <1>1, <2>1, <3>1, OthersStayCounted
    <2> QED
      BY <1>1, <2>1, FailureIsCounted, RestStaysCounted, StepsOfNobody
  <1> QED
    BY <1>2, <1>3 DEF FailuresAreCounted, Orderly, Counted

LEMMA FailuresAreCountedAlways == Spec => []FailuresAreCounted
  <1>1. Init => FailuresAreCounted
    <2> SUFFICES ASSUME Init PROVE FailuresAreCounted
      OBVIOUS
    <2>1. \A c \in Clients : FailedOf(c) = {} /\ openUntil[c] = Closed /\ failures[c] = 0
      BY DEF Init, FailedOf
    <2>2. \A r \in Requests : outcome[r] = "none" /\ pc[r] = "ready"
      BY DEF Init
    <2> QED
      BY <2>1, <2>2, FS_EmptySet DEF FailuresAreCounted
  <1> QED
    BY <1>1, FailuresStayCounted, ClientTypes, PTL DEF Spec

\* A step of a client whose failed requests have reached the threshold.
StopsAtThreshold ==
    \A c \in Clients :
        FailedOf(c) # {} /\ Cardinality(FailedOf(c)) >= Threshold /\ NoneAnswered(c)
            => \A r \in Requests : ClientOf[r] = c /\ pc[r] = "enter" => pc'[r] # "post"

\* As soon as the failed requests of a client reach the threshold, and until one
\* is answered or a cooldown can be over, no other request that uses the client
\* sends anything, whatever calls are still in flight.
THEOREM BreakersOpen == Spec => [][StopsAtThreshold]_vars
  <1>1. ASSUME TypeOK, FailuresAreCounted, [Next]_vars, NEW c \in Clients,
               FailedOf(c) # {}, Cardinality(FailedOf(c)) >= Threshold, NoneAnswered(c),
               NEW r \in Requests, ClientOf[r] = c, pc[r] = "enter"
        PROVE  pc'[r] # "post"
    <2>1. openUntil[c] # Closed /\ openUntil[c] >= Cooldown /\ clock < Cooldown
      BY <1>1 DEF FailuresAreCounted, NoneAnswered
    <2>2. openUntil[c] \in Int /\ clock \in Int /\ Cooldown \in Int
      BY <1>1, SettingsAreNumbers DEF TypeOK, Closed
    <2>3. ~ Enter(r)
      BY <1>1, <2>1, <2>2 DEF Enter
    <2>4. CASE UNCHANGED pc
      BY <1>1, <2>4
    <2>5. ASSUME NEW q \in Requests, Call(q) \/ CallStep(q) \/ Cancel(q), q = r => ~ Enter(q)
          PROVE  pc'[r] # "post"
      <3>1. CASE q = r
        BY <1>1, <2>5, <3>1 DEF CallStep, Call, RefuseEntry, Post, Succeed, Malformed,
           InvalidResult, BackOff, FailsFor, Retry, GiveUp, Cancel, Finish, Goto, TypeOK
      <3>2. CASE q # r
        <4>1. PICK place : pc' = [pc EXCEPT ![q] = place]
          BY <2>5 DEF CallStep, Call, Enter, RefuseEntry, Post, Succeed, Malformed,
             InvalidResult, BackOff, Retry, GiveUp, Cancel, Finish, Goto
        <4> QED
          BY <1>1, <3>2, <4>1 DEF TypeOK
      <3> QED
        BY <3>1, <3>2
    <2> QED
      BY <1>1, <2>3, <2>4, <2>5, StepsOfNobody
  <1>2. TypeOK /\ FailuresAreCounted /\ [Next]_vars => [StopsAtThreshold]_vars
    BY <1>1 DEF StopsAtThreshold
  <1> QED
    BY <1>2, FailuresAreCountedAlways, ClientTypes, PTL DEF Spec

-----------------------------------------------------------------------------
(***************************************************************************)
(* That the breaker does not open, for the clients the API makes: one for  *)
(* each request.                                                           *)
(***************************************************************************)

\* A client with a failure behind it has no request left to call with it.
FailuresEnd ==
    \A c \in Clients :
        /\ openUntil[c] = Closed
        /\ failures[c] # 0 => \E r \in Requests : ClientOf[r] = c /\ pc[r] = "done"

LEMMA DoneStays ==
    ASSUME TypeOK, [Next]_vars, NEW r \in Requests, pc[r] = "done"
    PROVE  pc'[r] = "done"
  <1>1. CASE UNCHANGED pc
    BY <1>1
  <1>2. ASSUME NEW q \in Requests, Call(q) \/ CallStep(q) \/ Cancel(q)
        PROVE  pc'[r] = "done"
    <2>1. q # r
      BY <1>2 DEF CallStep, Call, Enter, RefuseEntry, Post, Succeed, Malformed,
         InvalidResult, BackOff, FailsFor, Retry, GiveUp, Cancel, InCall
    <2>2. PICK place : pc' = [pc EXCEPT ![q] = place]
      BY <1>2 DEF CallStep, Call, Enter, RefuseEntry, Post, Succeed, Malformed,
         InvalidResult, BackOff, Retry, GiveUp, Cancel, Finish, Goto
    <2> QED
      BY <2>1, <2>2 DEF TypeOK
  <1> QED
    BY <1>1, <1>2, StepsOfNobody

LEMMA FailuresStayEnded ==
    ASSUME Threshold > 1, \A q, r \in Requests : ClientOf[q] = ClientOf[r] => q = r,
           TypeOK, FailuresEnd, [Next]_vars
    PROVE  FailuresEnd'
  <1> USE SettingsAreNumbers, ClientsAreGiven
  <1> SUFFICES ASSUME NEW c \in Clients
               PROVE  /\ openUntil'[c] = Closed
                      /\ failures'[c] # 0 => \E r \in Requests : ClientOf[r] = c /\ pc'[r] = "done"
    BY DEF FailuresEnd
  <1>1. CASE failures'[c] \in {0, failures[c]} /\ openUntil'[c] = Closed
    BY <1>1, DoneStays DEF FailuresEnd
  <1>2. ASSUME NEW r \in Requests, Enter(r) \/ Succeed(r) \/ InvalidResult(r)
        PROVE  failures'[c] \in {0, failures[c]} /\ openUntil'[c] = Closed
    BY <1>2 DEF Enter, Succeed, InvalidResult, RecordSuccess, FailuresEnd, TypeOK
  <1>3. ASSUME NEW r \in Requests, GiveUp(r), ClientOf[r] = c
        PROVE  openUntil'[c] = Closed /\ pc'[r] = "done"
    <2>1. pc[r] = "waiting"
      BY <1>3 DEF GiveUp, FailsFor
    <2>2. failures[c] = 0
      BY <1>3, <2>1 DEF FailuresEnd
    <2> QED
      BY <1>3, <2>2 DEF GiveUp, RecordFailure, Finish, Goto, FailuresEnd, TypeOK
  <1>4. ASSUME NEW r \in Requests, GiveUp(r), ClientOf[r] # c
        PROVE  failures'[c] \in {0, failures[c]} /\ openUntil'[c] = Closed
    BY <1>4 DEF GiveUp, RecordFailure, FailuresEnd, TypeOK
  <1>5. CASE UNCHANGED <<failures, openUntil>>
    BY <1>1, <1>5 DEF FailuresEnd
  <1>6. ASSUME NEW r \in Requests,
               \/ Call(r) \/ RefuseEntry(r) \/ Post(r) \/ Malformed(r) \/ BackOff(r)
               \/ Retry(r) \/ Cancel(r)
        PROVE  UNCHANGED <<failures, openUntil>>
    BY <1>6 DEF Call, RefuseEntry, Post, Malformed, BackOff, Retry, Cancel, breaker
  <1>7. ASSUME NEW r \in Requests, Call(r) \/ CallStep(r) \/ Cancel(r)
        PROVE  \/ Enter(r) \/ Succeed(r) \/ InvalidResult(r) \/ GiveUp(r)
               \/ UNCHANGED <<failures, openUntil>>
    BY <1>6, <1>7 DEF CallStep
  <1> QED
    BY <1>1, <1>2, <1>3, <1>4, <1>5, <1>7, StepsOfNobody

\* With a client for each request, as the API makes them, and a threshold above
\* one, no breaker ever opens: a request ends with its first failed call, and the
\* count of its client with it.
THEOREM OwnBreakersNeverOpen ==
    ASSUME Threshold > 1, \A q, r \in Requests : ClientOf[q] = ClientOf[r] => q = r
    PROVE  Spec => [](\A c \in Clients : openUntil[c] = Closed)
  <1>1. Init => FailuresEnd
    BY DEF Init, FailuresEnd
  <1>2. TypeOK /\ FailuresEnd /\ [Next]_vars => FailuresEnd'
    BY FailuresStayEnded
  <1>3. FailuresEnd => \A c \in Clients : openUntil[c] = Closed
    BY DEF FailuresEnd
  <1> QED
    BY <1>1, <1>2, <1>3, ClientTypes, PTL DEF Spec
=============================================================================
