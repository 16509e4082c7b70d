--------------------------- MODULE ApiGatewayProofs ---------------------------
(***************************************************************************)
(* For any number of calls, keys, tokens and roles, and for every          *)
(* configuration of the permissions: behind the authorization the limiter  *)
(* is still the limiter, its places are those of the permitted calls, and  *)
(* a revoked token gets nobody in.                                         *)
(***************************************************************************)
EXTENDS ApiGateway, RateLimiterProofs

-----------------------------------------------------------------------------
(***************************************************************************)
(* Permissions.                                                            *)
(***************************************************************************)

\* A key's permission is the lowest it is configured for, a token's the highest.
LEMMA Extremes ==
    ASSUME NEW T \in SUBSET Permissions, T # {}
    PROVE  /\ \E p \in T : \A q \in T : Rank[p] <= Rank[q]
           /\ \E p \in T : \A q \in T : Rank[p] >= Rank[q]
  <1> USE DEF Permissions, Rank
  <1>1. \E p \in T : \A q \in T : Rank[p] <= Rank[q]
    <2>1. CASE "READ" \in T
      BY <2>1
    <2>2. CASE "READ" \notin T /\ "WRITE" \in T
      BY <2>2
    <2>3. CASE "READ" \notin T /\ "WRITE" \notin T /\ "APPROVE" \in T
      BY <2>3
    <2>4. CASE T = {"ADMIN"}
      BY <2>4
    <2> QED
      BY <2>1, <2>2, <2>3, <2>4
  <1>2. \E p \in T : \A q \in T : Rank[p] >= Rank[q]
    <2>1. CASE "ADMIN" \in T
      BY <2>1
    <2>2. CASE "ADMIN" \notin T /\ "APPROVE" \in T
      BY <2>2
    <2>3. CASE "ADMIN" \notin T /\ "APPROVE" \notin T /\ "WRITE" \in T
      BY <2>3
    <2>4. CASE T = {"READ"}
      BY <2>4
    <2> QED
      BY <2>1, <2>2, <2>3, <2>4
  <1> QED
    BY <1>1, <1>2

\* What a key's permission comes to is what Permitted says of the key.
LEMMA KeyPermits ==
    ASSUME NEW c \in Calls, authMode = "api_key", asks[c].route \in Routes
    PROVE  Suffices(KeyPermission(asks[c].key), asks[c].route) <=> Permitted(c)
  <1> DEFINE T == {p \in Permissions : TierKey[p] = asks[c].key}
             k == KeyPermission(asks[c].key)
             least == CHOOSE p \in T : \A q \in T : Rank[p] <= Rank[q]
             need == Rank[Required[asks[c].route]]
  <1>1. need \in Int /\ \A p \in Permissions : Rank[p] \in Int
    BY DEF Rank, Required, Routes, Permissions
  <1>2. CASE T = {}
    <2>1. k = "none"
      BY <1>2 DEF KeyPermission
    <2> QED
      BY <1>2, <2>1 DEF Suffices, Permitted
  <1>3. CASE T # {}
    <2>1. least \in T /\ \A q \in T : Rank[least] <= Rank[q]
      BY <1>3, Extremes
    <2>2. k = least
      BY <1>3 DEF KeyPermission
    <2>3. k \in T /\ \A q \in T : Rank[k] <= Rank[q]
      BY <2>1, <2>2
    <2> HIDE DEF k
    <2>4. k # "none"
      BY <2>3 DEF Permissions
    <2>5. Rank[k] >= need <=> \A q \in T : Rank[q] >= need
      BY <1>1, <2>3
    <2> QED
      BY <2>3, <2>4, <2>5 DEF Suffices, Permitted, k
  <1> QED
    BY <1>2, <1>3

\* A token's permission is that of one of its roles.
LEMMA RolePermits ==
    ASSUME NEW roles
    PROVE  \/ RolePermission(roles) = "none"
           \/ /\ RolePermission(roles) \in Permissions
              /\ RoleName[RolePermission(roles)] \in roles
  <1> DEFINE T == {p \in Permissions : RoleName[p] \in roles}
             most == CHOOSE p \in T : \A q \in T : Rank[p] >= Rank[q]
  <1>1. CASE T = {}
    BY <1>1 DEF RolePermission
  <1>2. CASE T # {}
    <2>1. most \in T
      BY <1>2, Extremes
    <2>2. RolePermission(roles) = most
      BY <1>2 DEF RolePermission
    <2> QED
      BY <2>1, <2>2
  <1> QED
    BY <1>1, <1>2

-----------------------------------------------------------------------------
(***************************************************************************)
(* What the step of a call can be: it ends with an answer, or goes on.     *)
(***************************************************************************)
Ends(c, s) ==
    /\ s \in Statuses \ {0}
    /\ pc[c] \notin {"idle", "done"}
    /\ Finish(c, s)
    /\ s = 403 => \/ pc[c] = "introspected"
                  \/ authMode # "api_key"
                  \/ ~ Suffices(KeyPermission(asks[c].key), asks[c].route)
    /\ UNCHANGED <<authMode, asks, identity, through, active, late>>

GoesOn(c) ==
    /\ \/ Receive(c)
       \/ /\ pc[c] = "authorize" /\ authMode = "api_key"
          /\ Suffices(KeyPermission(asks[c].key), asks[c].route)
          /\ Goto(c, "limit")
          /\ UNCHANGED <<asks, identity, through, late>>
       \/ /\ pc[c] = "authorize" /\ authMode # "api_key" /\ asks[c].token # NoToken
          /\ Goto(c, "introspecting")
          /\ UNCHANGED <<asks, identity, through, late>>
       \/ ProviderAnswers(c)
       \/ /\ pc[c] = "introspected"
          /\ Suffices(identity[c], asks[c].route)
          /\ Goto(c, "limit")
          /\ UNCHANGED <<asks, identity, through, late>>
       \/ LetThrough(c)
    /\ UNCHANGED <<authMode, status, active>>

LEMMA StepOfACall ==
    ASSUME NEW c \in Calls, CallStep(c)
    PROVE  (\E s \in Statuses : Ends(c, s)) \/ GoesOn(c)
  <1>1. CASE Receive(c)
    <2>1. UNCHANGED <<authMode, status, active>>
      BY <1>1 DEF Receive
    <2> QED
      BY <1>1, <2>1 DEF GoesOn
  <1>2. CASE MisreadLength(c) \/ RefuseOversized(c)
    BY <1>2 DEF MisreadLength, RefuseOversized, Ends, Statuses
  <1>3. CASE RefuseUnparsable(c)
    BY <1>3 DEF RefuseUnparsable, Ends, Statuses
  <1>4. CASE AuthorizeKey(c)
    <2>1. CASE Suffices(KeyPermission(asks[c].key), asks[c].route)
      BY <1>4, <2>1 DEF AuthorizeKey, GoesOn
    <2>2. CASE ~ Suffices(KeyPermission(asks[c].key), asks[c].route)
      <3>1. Ends(c, 403)
        BY <1>4, <2>2 DEF AuthorizeKey, Ends, Statuses
      <3> QED
        BY <3>1 DEF Statuses
    <2> QED
      BY <2>1, <2>2
  <1>5. CASE Introspect(c)
    <2>1. CASE asks[c].token # NoToken /\ authMode = "oidc_introspection"
      BY <1>5, <2>1 DEF Introspect, GoesOn
    <2>2. CASE ~ (asks[c].token # NoToken /\ authMode = "oidc_introspection")
      <3>1. Ends(c, 403)
        BY <1>5, <2>2 DEF Introspect, Ends, Statuses
      <3> QED
        BY <3>1 DEF Statuses
    <2> QED
      BY <2>1, <2>2
  <1>6. CASE ProviderAnswers(c)
    <2>1. UNCHANGED <<authMode, status, active>>
      BY <1>6 DEF ProviderAnswers
    <2> QED
      BY <1>6, <2>1 DEF GoesOn
  <1>7. CASE ProviderFails(c)
    BY <1>7 DEF ProviderFails, Ends, Statuses
  <1>8. CASE ProviderTimesOut(c)
    BY <1>8 DEF ProviderTimesOut, Ends, Statuses
  <1>9. CASE AuthorizeToken(c)
    <2>1. CASE Suffices(identity[c], asks[c].route)
      BY <1>9, <2>1 DEF AuthorizeToken, GoesOn
    <2>2. CASE ~ Suffices(identity[c], asks[c].route)
      <3>1. Ends(c, 403)
        BY <1>9, <2>2 DEF AuthorizeToken, Ends, Statuses
      <3> QED
        BY <3>1 DEF Statuses
    <2> QED
      BY <2>1, <2>2
  <1>10. CASE LetThrough(c)
    <2>1. UNCHANGED <<authMode, status, active>>
      BY <1>10 DEF LetThrough
    <2> QED
      BY <1>10, <2>1 DEF GoesOn
  <1>11. CASE TurnAway(c)
    BY <1>11 DEF TurnAway, Ends, Statuses
  <1>12. CASE Handle(c)
    <2>1. PICK s \in Statuses \ {0} : Finish(c, s) /\ s # 403
      BY <1>12 DEF Handle, Statuses
    <2>2. Ends(c, s)
      BY <1>12, <2>1 DEF Handle, Ends
    <2> QED
      BY <2>2
  <1> QED
    BY <1>1, <1>2, <1>3, <1>4, <1>5, <1>6, <1>7, <1>8, <1>9, <1>10, <1>11, <1>12
       DEF CallStep

\* The steps that are no call's change nothing of any call.
Aside ==
    /\ UNCHANGED <<authMode, pc, asks, identity, status, through, late>>
    /\ active' \subseteq active

LEMMA StepOfTheRest ==
    ASSUME [GatewayNext]_gatewayVars
    PROVE  (\E c \in Calls : CallStep(c)) \/ Aside
  <1>1. CASE UNCHANGED gatewayVars
    BY <1>1 DEF gatewayVars, Aside
  <1>2. CASE \E t \in Tokens : Revoke(t)
    BY <1>2 DEF Revoke, Aside
  <1>3. CASE TimePasses
    BY <1>3 DEF TimePasses, Aside
  <1>4. CASE AllAnswered
    BY <1>4 DEF AllAnswered, gatewayVars, Aside
  <1> QED
    BY <1>1, <1>2, <1>3, <1>4 DEF GatewayNext

-----------------------------------------------------------------------------
(***************************************************************************)
(* Types of the gateway's own variables.                                   *)
(***************************************************************************)
CallsTyped ==
    /\ authMode \in AuthModes
    /\ pc \in [Calls -> Places]
    /\ asks \in [Calls -> [route : Routes, key : ApiKeys \cup {""}, token : Tokens \cup {NoToken}]]
    /\ identity \in [Calls -> Permissions \cup {"none"}]
    /\ status \in [Calls -> Statuses]
    /\ through \subseteq Calls
    /\ active \subseteq Tokens
    /\ late \subseteq Calls

LEMMA CallsStayTyped == CallsTyped /\ [GatewayNext]_gatewayVars => CallsTyped'
  <1> SUFFICES ASSUME CallsTyped, [GatewayNext]_gatewayVars PROVE CallsTyped'
    OBVIOUS
  <1>1. CASE Aside
    BY <1>1 DEF Aside, CallsTyped
  <1>2. ASSUME NEW c \in Calls, NEW s \in Statuses, Ends(c, s)
        PROVE  CallsTyped'
    <2>1. /\ pc' = [pc EXCEPT ![c] = "done"]
          /\ status' = [status EXCEPT ![c] = s]
          /\ UNCHANGED <<authMode, asks, identity, through, active, late>>
      BY <1>2 DEF Ends, Finish, Goto
    <2> QED
      BY <2>1 DEF CallsTyped, Places
  <1>3. ASSUME NEW c \in Calls, GoesOn(c)
        PROVE  CallsTyped'
    <2>1. CASE Receive(c)
      <3>1. PICK ask \in [route : Routes, key : ApiKeys \cup {""}, token : Tokens \cup {NoToken}] :
              asks' = [asks EXCEPT ![c] = ask]
        BY <2>1 DEF Receive
      <3>2. late' \subseteq Calls
        BY <2>1 DEF Receive, CallsTyped
      <3>3. /\ pc' = [pc EXCEPT ![c] = "authorize"]
            /\ UNCHANGED <<authMode, identity, status, through, active>>
        BY <2>1 DEF Receive, Goto
      <3> QED
        BY <3>1, <3>2, <3>3 DEF CallsTyped, Places
    <2>2. CASE ProviderAnswers(c)
      <3>1. RolePermission(ClaimsOf[asks[c].token]) \in Permissions \cup {"none"}
        BY RolePermits
      <3>2. PICK p \in Permissions \cup {"none"} : identity' = [identity EXCEPT ![c] = p]
        BY <2>2, <3>1 DEF ProviderAnswers
      <3>3. /\ pc' = [pc EXCEPT ![c] = "introspected"]
            /\ UNCHANGED <<authMode, asks, status, through, active, late>>
        BY <2>2 DEF ProviderAnswers, Goto
      <3> QED
        BY <3>2, <3>3 DEF CallsTyped, Places
    <2>3. CASE LetThrough(c)
      BY <2>3 DEF LetThrough, Goto, CallsTyped, Places
    <2>4. CASE /\ Goto(c, "limit") \/ Goto(c, "introspecting")
               /\ UNCHANGED <<asks, identity, through, late>>
      BY <1>3, <2>4 DEF GoesOn, Goto, CallsTyped, Places
    <2> QED
      BY <1>3, <2>1, <2>2, <2>3, <2>4 DEF GoesOn
  <1> QED
    BY <1>1, <1>2, <1>3, StepOfACall, StepOfTheRest

LEMMA CallsAreTyped == GatewaySpec => []CallsTyped
  <1>1. ASSUME GatewayInit
        PROVE  CallsTyped
    <2>1. asks \in [Calls -> [route : Routes, key : ApiKeys \cup {""}, token : Tokens \cup {NoToken}]]
      <3>1. asks = [c \in Calls |-> [route |-> "chat", key |-> "", token |-> NoToken]]
        BY <1>1 DEF GatewayInit
      <3>2. "chat" \in Routes
        BY DEF Routes
      <3> QED
        BY <3>1, <3>2
    <2>2. authMode \in AuthModes
      BY <1>1 DEF GatewayInit
    <2>3. pc \in [Calls -> Places]
      <3>1. pc = [c \in Calls |-> "idle"] /\ "idle" \in Places
        BY <1>1 DEF GatewayInit, Places
      <3> QED
        BY <3>1
    <2>4. identity \in [Calls -> Permissions \cup {"none"}]
      <3>1. identity = [c \in Calls |-> "none"]
        BY <1>1 DEF GatewayInit
      <3>2. "none" \in Permissions \cup {"none"}
        OBVIOUS
      <3> QED
        BY <3>1, <3>2
    <2>5. status \in [Calls -> Statuses]
      <3>1. status = [c \in Calls |-> 0]
        BY <1>1 DEF GatewayInit
      <3>2. 0 \in Statuses
        BY DEF Statuses
      <3> QED
        BY <3>1, <3>2
    <2>6. through \subseteq Calls /\ active \subseteq Tokens /\ late \subseteq Calls
      BY <1>1 DEF GatewayInit
    <2> QED
      BY <2>1, <2>2, <2>3, <2>4, <2>5, <2>6 DEF CallsTyped
  <1> QED
    BY <1>1, CallsStayTyped, PTL DEF GatewaySpec

-----------------------------------------------------------------------------
(***************************************************************************)
(* How far a call may have come, and what it must have shown on its way.   *)
(***************************************************************************)
CameBy(c) ==
    /\ pc[c] # "idle" => asks[c].key \in ApiKeys
    /\ pc[c] = "idle" => c \notin late
    /\ pc[c] # "done" => status[c] = 0
    /\ pc[c] \in {"introspecting", "introspected"} =>
         authMode # "api_key" /\ asks[c].token \in Tokens
    /\ pc[c] = "introspected" =>
         identity[c] \in {"none", RolePermission(ClaimsOf[asks[c].token])}
    /\ pc[c] \in {"limit", "handler"} => Permitted(c)
    /\ c \in through => pc[c] \in {"handler", "done"} /\ Permitted(c)
    /\ authMode = "api_key" /\ status[c] = 403 => ~ Permitted(c)

\* A call with a revoked token is at the provider at most, whose answer names
\* no permission.
StaysOutside(c) ==
    /\ authMode # "api_key"
    /\ asks[c].token \in Tokens \ active
    /\ pc[c] \in {"authorize", "introspecting", "introspected", "done"}
    /\ pc[c] = "introspected" => identity[c] = "none"
    /\ c \notin through

Passage == \A c \in Calls : CameBy(c) /\ (c \in late => StaysOutside(c))

\* What decides about a call's permission is fixed when it arrives.
LEMMA PermittedStays ==
    ASSUME NEW c \in Calls, authMode' = authMode, asks'[c] = asks[c]
    PROVE  Permitted(c)' <=> Permitted(c)
  BY DEF Permitted

\* A step of another call leaves a call where it came.
LEMMA OthersUnmoved ==
    ASSUME NEW d \in Calls, CameBy(d), d \in late => StaysOutside(d),
           authMode' = authMode, active' \subseteq active,
           pc'[d] = pc[d], asks'[d] = asks[d], identity'[d] = identity[d],
           status'[d] = status[d], d \in through' <=> d \in through,
           d \in late' <=> d \in late
    PROVE  CameBy(d)' /\ (d \in late => StaysOutside(d))'
  <1>1. Permitted(d)' <=> Permitted(d)
    BY PermittedStays
  <1> QED
    BY <1>1 DEF CameBy, StaysOutside

LEMMA PassageOfOneCall ==
    ASSUME CallsTyped, Passage, NEW c \in Calls, NEW p, NEW a, NEW i, NEW s,
           authMode' = authMode, active' = active,
           pc' = [pc EXCEPT ![c] = p], asks' = [asks EXCEPT ![c] = a],
           identity' = [identity EXCEPT ![c] = i], status' = [status EXCEPT ![c] = s],
           through' \ {c} = through \ {c}, late' \ {c} = late \ {c},
           CameBy(c)', (c \in late => StaysOutside(c))'
    PROVE  Passage'
  <1>1. ASSUME NEW d \in Calls, d # c
        PROVE  CameBy(d)' /\ (d \in late => StaysOutside(d))'
    <2>1. /\ pc'[d] = pc[d] /\ asks'[d] = asks[d]
          /\ identity'[d] = identity[d] /\ status'[d] = status[d]
      BY <1>1 DEF CallsTyped
    <2>2. (d \in through' <=> d \in through) /\ (d \in late' <=> d \in late)
      BY <1>1
    <2>3. CameBy(d) /\ (d \in late => StaysOutside(d))
      BY DEF Passage
    <2> QED
      BY <2>1, <2>2, <2>3, OthersUnmoved
  <1> QED
    BY <1>1 DEF Passage

LEMMA PassageKept ==
    CallsTyped /\ Passage /\ [GatewayNext]_gatewayVars => Passage'
  <1> SUFFICES ASSUME CallsTyped, Passage, [GatewayNext]_gatewayVars PROVE Passage'
    OBVIOUS
  <1>1. CASE Aside
    <2>1. \A d \in Calls : CameBy(d)' /\ (d \in late => StaysOutside(d))'
      BY <1>1, OthersUnmoved DEF Aside, Passage
    <2> QED
      BY <2>1 DEF Passage
  <1>2. ASSUME NEW c \in Calls, NEW s \in Statuses, Ends(c, s)
        PROVE  Passage'
    <2>1. /\ pc' = [pc EXCEPT ![c] = "done"]
          /\ status' = [status EXCEPT ![c] = s]
          /\ UNCHANGED <<authMode, asks, identity, through, active, late>>
          /\ pc[c] \notin {"idle", "done"}
      BY <1>2 DEF Ends, Finish, Goto
    <2>2. /\ pc'[c] = "done" /\ status'[c] = s
          /\ asks' = [asks EXCEPT ![c] = asks[c]]
          /\ identity' = [identity EXCEPT ![c] = identity[c]]
      BY <2>1 DEF CallsTyped
    <2>3. CameBy(c) /\ (c \in late => StaysOutside(c))
      BY DEF Passage
    <2>4. authMode = "api_key" /\ s = 403 => ~ Permitted(c)
      <3>1. SUFFICES ASSUME authMode = "api_key", s = 403 PROVE ~ Permitted(c)
        OBVIOUS
      <3>2. ~ Suffices(KeyPermission(asks[c].key), asks[c].route)
        BY <1>2, <2>3, <3>1 DEF Ends, CameBy
      <3>3. asks[c].route \in Routes
        BY DEF CallsTyped
      <3> QED
        BY <3>1, <3>2, <3>3, KeyPermits
    <2>5. Permitted(c)' <=> Permitted(c)
      BY <2>1, PermittedStays
    <2>6. CameBy(c)'
      BY <2>1, <2>2, <2>3, <2>4, <2>5 DEF CameBy
    <2>7. (c \in late => StaysOutside(c))'
      BY <2>1, <2>2, <2>3 DEF StaysOutside
    <2> QED
      BY <2>1, <2>2, <2>6, <2>7, PassageOfOneCall
  <1>3. ASSUME NEW c \in Calls, Receive(c)
        PROVE  Passage'
    <2>1. PICK route \in Routes, key \in ApiKeys, token \in Tokens \cup {NoToken} :
            /\ authMode = "api_key" => token = NoToken
            /\ asks' = [asks EXCEPT ![c] = [route |-> route, key |-> key, token |-> token]]
            /\ late' = IF token \in Tokens \ active THEN late \cup {c} ELSE late
      BY <1>3 DEF Receive
    <2>2. /\ pc[c] = "idle" /\ pc' = [pc EXCEPT ![c] = "authorize"]
          /\ UNCHANGED <<authMode, identity, status, through, active>>
      BY <1>3 DEF Receive, Goto
    <2>3. CameBy(c)
      BY DEF Passage
    <2>4. /\ c \notin late /\ c \notin through /\ status[c] = 0
      BY <2>2, <2>3 DEF CameBy
    <2>5. /\ pc'[c] = "authorize" /\ status'[c] = 0
          /\ asks'[c].key = key /\ asks'[c].token = token
      BY <2>1, <2>2, <2>4 DEF CallsTyped
    <2>6. CameBy(c)'
      BY <2>2, <2>4, <2>5 DEF CameBy
    <2>7. (c \in late => StaysOutside(c))'
      BY <2>1, <2>2, <2>4, <2>5, TokensAreTokens DEF StaysOutside
    <2>8. /\ identity' = [identity EXCEPT ![c] = identity[c]]
          /\ status' = [status EXCEPT ![c] = status[c]]
          /\ through' \ {c} = through \ {c} /\ late' \ {c} = late \ {c}
      BY <2>1, <2>2 DEF CallsTyped
    <2> QED
      BY <2>1, <2>2, <2>6, <2>7, <2>8, PassageOfOneCall
  <1>4. ASSUME NEW c \in Calls, GoesOn(c), ~ Receive(c)
        PROVE  Passage'
    <2>1. CameBy(c) /\ (c \in late => StaysOutside(c))
      BY DEF Passage
    <2>2. UNCHANGED <<authMode, asks, status, active, late>>
      BY <1>4 DEF GoesOn, ProviderAnswers, LetThrough
    <2>3. Permitted(c)' <=> Permitted(c)
      BY <2>2, PermittedStays
    <2>4. /\ asks' = [asks EXCEPT ![c] = asks[c]]
          /\ status' = [status EXCEPT ![c] = status[c]]
      BY <2>2 DEF CallsTyped
    <2>5. asks[c].route \in Routes /\ asks[c].token \in Tokens \cup {NoToken}
      BY DEF CallsTyped
    <2>6. CASE /\ pc[c] = "authorize" /\ authMode = "api_key"
               /\ Suffices(KeyPermission(asks[c].key), asks[c].route)
               /\ Goto(c, "limit")
               /\ UNCHANGED <<asks, identity, through, late>>
      <3>1. Permitted(c)
        BY <2>5, <2>6, KeyPermits
      <3>2. pc' = [pc EXCEPT ![c] = "limit"] /\ identity' = [identity EXCEPT ![c] = identity[c]]
        BY <2>6 DEF Goto, CallsTyped
      <3>3. pc'[c] = "limit"
        BY <3>2 DEF CallsTyped
      <3>4. CameBy(c)'
        BY <2>1, <2>2, <2>3, <2>6, <3>1, <3>3 DEF CameBy
      <3>5. (c \in late => StaysOutside(c))'
        BY <2>1, <2>2, <2>6 DEF StaysOutside
      <3> QED
        BY <2>2, <2>4, <2>6, <3>2, <3>4, <3>5, PassageOfOneCall
    <2>7. CASE /\ pc[c] = "authorize" /\ authMode # "api_key" /\ asks[c].token # NoToken
               /\ Goto(c, "introspecting")
               /\ UNCHANGED <<asks, identity, through, late>>
      <3>1. /\ pc' = [pc EXCEPT ![c] = "introspecting"]
            /\ identity' = [identity EXCEPT ![c] = identity[c]]
        BY <2>7 DEF Goto, CallsTyped
      <3>2. pc'[c] = "introspecting"
        BY <3>1 DEF CallsTyped
      <3>3. CameBy(c)'
        BY <2>1, <2>2, <2>3, <2>5, <2>7, <3>2 DEF CameBy
      <3>4. (c \in late => StaysOutside(c))'
        BY <2>1, <2>2, <2>7, <3>2 DEF StaysOutside
      <3> QED
        BY <2>2, <2>4, <2>7, <3>1, <3>3, <3>4, PassageOfOneCall
    <2>8. CASE ProviderAnswers(c)
      <3>1. PICK p \in {"none", RolePermission(ClaimsOf[asks[c].token])} :
              /\ p # "none" => asks[c].token \in active
              /\ identity' = [identity EXCEPT ![c] = p]
        BY <2>8 DEF ProviderAnswers
      <3>2. /\ pc[c] = "introspecting" /\ through' = through
            /\ pc' = [pc EXCEPT ![c] = "introspected"]
        BY <2>8 DEF ProviderAnswers, Goto
      <3>3. pc'[c] = "introspected" /\ identity'[c] = p
        BY <3>1, <3>2 DEF CallsTyped
      <3>4. CameBy(c)'
        <4>1. (RolePermission(ClaimsOf[asks[c].token]))' = RolePermission(ClaimsOf[asks[c].token])
          BY <2>2 DEF RolePermission
        <4> QED
          BY <2>1, <2>2, <2>3, <3>1, <3>2, <3>3, <4>1 DEF CameBy
      <3>5. (c \in late => StaysOutside(c))'
        BY <2>1, <2>2, <3>1, <3>2, <3>3 DEF StaysOutside
      <3> QED
        BY <2>2, <2>4, <3>1, <3>2, <3>4, <3>5, PassageOfOneCall
    <2>9. CASE /\ pc[c] = "introspected"
               /\ Suffices(identity[c], asks[c].route)
               /\ Goto(c, "limit")
               /\ UNCHANGED <<asks, identity, through, late>>
      <3>1. Permitted(c)
        <4>1. identity[c] # "none" /\ Rank[identity[c]] >= Rank[Required[asks[c].route]]
          BY <2>9 DEF Suffices
        <4>2. identity[c] = RolePermission(ClaimsOf[asks[c].token])
          BY <2>1, <2>9, <4>1 DEF CameBy
        <4>3. /\ identity[c] \in Permissions
              /\ RoleName[identity[c]] \in ClaimsOf[asks[c].token]
          BY <4>1, <4>2, RolePermits
        <4>4. authMode # "api_key" /\ asks[c].token \in Tokens
          BY <2>1, <2>9 DEF CameBy
        <4> QED
          BY <4>1, <4>3, <4>4 DEF Permitted
      <3>2. c \notin late
        BY <2>1, <2>9 DEF StaysOutside, Suffices
      <3>3. pc' = [pc EXCEPT ![c] = "limit"] /\ identity' = [identity EXCEPT ![c] = identity[c]]
        BY <2>9 DEF Goto, CallsTyped
      <3>4. pc'[c] = "limit"
        BY <3>3 DEF CallsTyped
      <3>5. CameBy(c)'
        BY <2>1, <2>2, <2>3, <2>9, <3>1, <3>4 DEF CameBy
      <3>6. (c \in late => StaysOutside(c))'
        BY <2>2, <3>2
      <3> QED
        BY <2>2, <2>4, <2>9, <3>3, <3>5, <3>6, PassageOfOneCall
    <2>10. CASE LetThrough(c)
      <3>1. /\ pc[c] = "limit" /\ through' = through \cup {c} /\ identity' = identity
            /\ pc' = [pc EXCEPT ![c] = "handler"]
        BY <2>10 DEF LetThrough, Goto
      <3>2. pc'[c] = "handler" /\ identity' = [identity EXCEPT ![c] = identity[c]]
        BY <3>1 DEF CallsTyped
      <3>3. Permitted(c) /\ c \notin late
        BY <2>1, <3>1 DEF CameBy, StaysOutside
      <3>4. CameBy(c)'
        BY <2>1, <2>2, <2>3, <3>1, <3>2, <3>3 DEF CameBy
      <3>5. (c \in late => StaysOutside(c))'
        BY <2>2, <3>3
      <3>6. through' \ {c} = through \ {c}
        BY <3>1
      <3> QED
        BY <2>2, <2>4, <3>1, <3>2, <3>4, <3>5, <3>6, PassageOfOneCall
    <2> QED
      BY <1>4, <2>6, <2>7, <2>8, <2>9, <2>10 DEF GoesOn
  <1> QED
    BY <1>1, <1>2, <1>3, <1>4, StepOfACall, StepOfTheRest

LEMMA PassageHolds == GatewaySpec => []Passage
  <1>1. ASSUME GatewayInit
        PROVE  Passage
    <2>1. \A c \in Calls : pc[c] = "idle" /\ status[c] = 0 /\ c \notin through /\ c \notin late
      BY <1>1 DEF GatewayInit
    <2> QED
      BY <2>1 DEF Passage, CameBy
  <1> QED
    BY <1>1, PassageKept, CallsAreTyped, PTL DEF GatewaySpec

\* A call that arrives after its token was revoked never reaches a handler,
\* whatever other calls with the token have been told, and however late the
\* provider answers.
THEOREM RevokedStayOut == GatewaySpec => []RevokedTokensAreRefused
  <1>1. CallsTyped /\ Passage => RevokedTokensAreRefused
    BY DEF CallsTyped, Passage, StaysOutside, RevokedTokensAreRefused
  <1> QED
    BY <1>1, PassageHolds, CallsAreTyped, PTL

-----------------------------------------------------------------------------
(***************************************************************************)
(* The limiter behind the authorization.                                   *)
(***************************************************************************)
LEMMA BucketIsThere ==
    ASSUME CallsTyped, Passage, NEW c \in Calls, pc[c] = "limit"
    PROVE  BucketOf(c) \in Buckets
  <1>1. asks[c].route \in Routes /\ asks[c].key \in ApiKeys
    BY DEF CallsTyped, Passage, CameBy
  <1> QED
    BY <1>1 DEF BucketOf, Buckets, Routes

LEMMA StepOfTheLimiter ==
    CallsTyped /\ Passage /\ [GatewayNext]_gatewayVars => [Next]_vars
  <1> SUFFICES ASSUME CallsTyped, Passage, [GatewayNext]_gatewayVars
               PROVE  [Next]_vars
    OBVIOUS
  <1>1. ASSUME NEW c \in Calls, LetThrough(c)
        PROVE  Next
    BY <1>1, BucketIsThere DEF LetThrough, Next
  <1>2. ASSUME NEW c \in Calls, TurnAway(c)
        PROVE  Next
    BY <1>2, BucketIsThere DEF TurnAway, Next
  <1>3. ASSUME NEW c \in Calls, CallStep(c), ~ LetThrough(c), ~ TurnAway(c)
        PROVE  UNCHANGED vars
    BY <1>3 DEF CallStep, Receive, MisreadLength, RefuseOversized, RefuseUnparsable, AuthorizeKey,
       Introspect, ProviderAnswers, ProviderFails, ProviderTimesOut, AuthorizeToken, Handle
  <1>4. CASE TimePasses
    BY <1>4 DEF TimePasses, Next
  <1>5. CASE \E t \in Tokens : Revoke(t)
    BY <1>5 DEF Revoke
  <1>6. CASE AllAnswered \/ UNCHANGED gatewayVars
    BY <1>6 DEF AllAnswered, gatewayVars
  <1> QED
    BY <1>1, <1>2, <1>3, <1>4, <1>5, <1>6 DEF GatewayNext

\* Seen from the windows, the gateway does what RateLimiter does: whatever the
\* authorization awaits, the limiter's check stays one step.
THEOREM LimiterInTheGateway == GatewaySpec => Spec
  <1>1. GatewayInit => Init
    BY DEF GatewayInit
  <1> QED
    BY <1>1, StepOfTheLimiter, CallsAreTyped, PassageHolds, PTL DEF GatewaySpec, Spec

\* So the calls that come through the gateway are limited as RateLimiter says.
THEOREM GatewayIsLimited ==
    GatewaySpec => [](WindowRespected /\ RefusalsJustified /\ DequesAreRecent)
  BY LimiterInTheGateway, LimitIsKept, RefusalsAreJustified, DequesAreEnough, PTL

\* The variables of the gateway, and of the limiter in it, keep their types.
THEOREM GatewayTypes == GatewaySpec => []GatewayTypeOK
  <1>1. TypeOK /\ CallsTyped => GatewayTypeOK
    BY DEF CallsTyped, GatewayTypeOK
  <1> QED
    BY <1>1, LimiterInTheGateway, LimiterTypes, CallsAreTyped, PTL

-----------------------------------------------------------------------------
(***************************************************************************)
(* The places of the windows.                                              *)
(***************************************************************************)
Takers(b) == {c \in through : BucketOf(c) = b}

PlacesAreTaken ==
    /\ IsFiniteSet(through)
    /\ \A b \in Buckets : Len(admitted[b]) = Cardinality(Takers(b))

LEMMA PlacesStayTaken ==
    TypeOK /\ CallsTyped /\ Passage /\ PlacesAreTaken /\ [GatewayNext]_gatewayVars
        => PlacesAreTaken'
  <1> SUFFICES ASSUME TypeOK, CallsTyped, Passage, PlacesAreTaken, [GatewayNext]_gatewayVars
               PROVE  PlacesAreTaken'
    OBVIOUS
  <1>1. ASSUME NEW c \in Calls, LetThrough(c)
        PROVE  PlacesAreTaken'
    <2>0. PICK b \in Buckets : b = BucketOf(c)
      BY <1>1, BucketIsThere DEF LetThrough
    <2>1. /\ c \notin through
          /\ through' = through \cup {c} /\ asks' = asks
          /\ admitted' = [admitted EXCEPT ![b] = Append(@, clock)]
      BY <1>1, <2>0 DEF LetThrough, Admit, Passage, CameBy
    <2>2. IsFiniteSet(through')
      BY <2>1, FS_AddElement DEF PlacesAreTaken
    <2>3. Takers(b)' = Takers(b) \cup {c} /\ c \notin Takers(b) /\ IsFiniteSet(Takers(b))
      <3>1. Takers(b)' = {d \in through' : BucketOf(d) = b}
        BY <2>1 DEF Takers, BucketOf
      <3>2. Takers(b) \subseteq through
        BY DEF Takers
      <3> QED
        BY <2>0, <2>1, <3>1, <3>2, FS_Subset DEF Takers, PlacesAreTaken
    <2>4. Cardinality(Takers(b)') = Cardinality(Takers(b)) + 1
      BY <2>3, FS_AddElement
    <2>5. Len(admitted'[b]) = Len(admitted[b]) + 1
      <3>1. admitted[b] \in Seq(Times) /\ clock \in Times
        BY <2>1 DEF TypeOK, Times
      <3>2. admitted'[b] = Append(admitted[b], clock)
        BY <2>1 DEF TypeOK
      <3> QED
        BY <3>1, <3>2
    <2>6. ASSUME NEW a \in Buckets, a # b
          PROVE  Len(admitted'[a]) = Cardinality(Takers(a)')
      <3>1. admitted'[a] = admitted[a]
        BY <2>1, <2>6 DEF TypeOK
      <3>2. Takers(a)' = Takers(a)
        BY <2>0, <2>1, <2>6 DEF Takers, BucketOf
      <3> QED
        BY <3>1, <3>2 DEF PlacesAreTaken
    <2>7. Len(admitted'[b]) = Cardinality(Takers(b)')
      BY <2>1, <2>4, <2>5 DEF PlacesAreTaken
    <2>8. ASSUME NEW a \in Buckets
          PROVE  Len(admitted'[a]) = Cardinality(Takers(a)')
      <3>1. CASE a = b
        BY <2>7, <3>1 DEF Takers
      <3>2. CASE a # b
        BY <2>6, <3>2
      <3> QED
        BY <3>1, <3>2
    <2> QED
      BY <2>2, <2>8 DEF PlacesAreTaken, Takers
  <1>2. CASE /\ UNCHANGED <<admitted, through>>
             /\ \A d \in through : asks'[d] = asks[d]
    <2>1. \A b \in Buckets : Takers(b)' = Takers(b)
      BY <1>2 DEF Takers, BucketOf
    <2> QED
      BY <1>2, <2>1 DEF PlacesAreTaken, Takers
  <1>3. ASSUME NEW c \in Calls, Receive(c)
        PROVE  UNCHANGED <<admitted, through>> /\ \A d \in through : asks'[d] = asks[d]
    <2>1. pc[c] = "idle" /\ UNCHANGED <<vars, through>>
      BY <1>3 DEF Receive
    <2>2. c \notin through
      BY <2>1 DEF Passage, CameBy
    <2>3. \A d \in Calls : d # c => asks'[d] = asks[d]
      BY <1>3 DEF Receive, CallsTyped
    <2> QED
      BY <2>1, <2>2, <2>3 DEF vars, CallsTyped
  <1>4. ASSUME NEW c \in Calls, CallStep(c), ~ LetThrough(c), ~ Receive(c)
        PROVE  UNCHANGED <<admitted, through, asks>>
    BY <1>4 DEF CallStep, MisreadLength, RefuseOversized, RefuseUnparsable, AuthorizeKey,
       Introspect, ProviderAnswers, ProviderFails, ProviderTimesOut, AuthorizeToken,
       TurnAway, Refuse, Handle, vars
  <1>5. ASSUME ~ \E c \in Calls : CallStep(c)
        PROVE  UNCHANGED <<admitted, through, asks>>
    BY <1>5 DEF GatewayNext, Revoke, TimePasses, Tick, AllAnswered, gatewayVars, vars
  <1> QED
    BY <1>1, <1>2, <1>3, <1>4, <1>5

\* Only permitted calls take places in a window, one each, and with API keys
\* nobody permitted is forbidden.
THEOREM PlacesOfPermittedCalls == GatewaySpec => []PlacesArePermittedCalls
  <1>1. ASSUME GatewayInit
        PROVE  PlacesAreTaken
    <2>1. \A b \in Buckets : admitted[b] = << >> /\ Takers(b) = {}
      BY <1>1 DEF GatewayInit, Init, Takers
    <2>2. through = {}
      BY <1>1 DEF GatewayInit
    <2>3. \A b \in Buckets : Len(admitted[b]) = 0 /\ Cardinality(Takers(b)) = 0
      BY <2>1, FS_EmptySet
    <2> QED
      BY <2>2, <2>3, FS_EmptySet DEF PlacesAreTaken
  <1>2. CallsTyped /\ Passage /\ PlacesAreTaken => PlacesArePermittedCalls
    <2> SUFFICES ASSUME CallsTyped, Passage, PlacesAreTaken
                 PROVE  PlacesArePermittedCalls
      OBVIOUS
    <2>1. \A b \in Buckets : Len(admitted[b]) = Cardinality({c \in through : BucketOf(c) = b})
      BY DEF PlacesAreTaken, Takers
    <2>2. \A c \in Calls : CameBy(c)
      BY DEF Passage
    <2>3. through \subseteq Calls
      BY DEF CallsTyped
    <2>4. \A c \in through : Permitted(c)
      BY <2>2, <2>3 DEF CameBy
    <2>5. authMode = "api_key" => \A c \in Calls : status[c] = 403 => ~ Permitted(c)
      BY <2>2 DEF CameBy
    <2> QED
      BY <2>1, <2>4, <2>5 DEF PlacesArePermittedCalls
  <1> QED
    BY <1>1, <1>2, PlacesStayTaken, LimiterInTheGateway, LimiterTypes, CallsAreTyped,
       PassageHolds, PTL DEF GatewaySpec
=============================================================================
