----------------------------- MODULE ApiGateway ------------------------------
(***************************************************************************)
(* The way of a call from the middleware of the API to its handler and     *)
(* back: the limit on the body, the authorization, the rate limiter.  The  *)
(* handler itself is BillingWorkflow's; here it answers with any status it *)
(* has.                                                                    *)
(*                                                                         *)
(* The process awaits the identity provider and the handler, so other      *)
(* calls, the clock and the provider's administration go on meanwhile.     *)
(* What is wrong with a body is no part of the state: each check on it may *)
(* fail, where it stands among the others.                                 *)
(***************************************************************************)
EXTENDS RateLimiter

CONSTANTS
    Calls,          \* the calls of the two routes
    Tokens,         \* bearer tokens
    ClaimsOf,       \* the role names in the claims of each token
    TierKey,        \* settings.auth_read_key, ..., auth_admin_key
    RoleName        \* settings.auth_read_role, ..., auth_admin_role

Permissions == {"READ", "WRITE", "APPROVE", "ADMIN"}
Routes == {"chat", "approval"}
NoToken == "none"   \* no Authorization header, or one that is no bearer token

ASSUME TokensAreTokens == NoToken \notin Tokens
ASSUME AuthIsConfigured ==
    /\ DOMAIN TierKey = Permissions
    /\ DOMAIN RoleName = Permissions
    /\ DOMAIN ClaimsOf = Tokens

VARIABLES
    authMode,       \* settings.auth_mode, and whether the provider's URL is set
    pc,             \* where each call is
    asks,           \* its route, and the headers X-API-Key and Authorization
    identity,       \* the permission the provider's answer comes to, or "none"
    status,         \* the status of its answer, 0 before there is one
    through,        \* the calls the limiter let through
    active,         \* the tokens the provider takes for active
    late            \* the calls that arrived after their token was revoked

gatewayVars == <<vars, authMode, pc, asks, identity, status, through, active, late>>

AuthModes == {"api_key", "oidc_introspection", "oidc_without_url"}
Places == {"idle", "authorize", "introspecting", "introspected", "limit", "handler", "done"}

Required == [chat |-> "WRITE", approval |-> "APPROVE"]
Rank == [READ |-> 1, WRITE |-> 2, APPROVE |-> 3, ADMIN |-> 4]

BucketOf(c) == Bucket(asks[c].route, asks[c].key)

\* Mutant: the required permission itself is refused and the next lower allowed.
SufficesAlmost(p, route) == p # "none" /\ Rank[p] + 1 >= Rank[Required[route]]

Suffices(p, route) == p # "none" /\ Rank[p] >= Rank[Required[route]]

\* A key configured for several permissions has the lowest of them, a set of
\* roles the highest.
KeyPermission(key) ==
    LET tiers == {p \in Permissions : TierKey[p] = key}
    IN  IF tiers = {} THEN "none"
        ELSE CHOOSE p \in tiers : \A q \in tiers : Rank[p] <= Rank[q]

RolePermission(roles) ==
    LET tiers == {p \in Permissions : RoleName[p] \in roles}
    IN  IF tiers = {} THEN "none"
        ELSE CHOOSE p \in tiers : \A q \in tiers : Rank[p] >= Rank[q]

-----------------------------------------------------------------------------
Goto(c, place) == pc' = [pc EXCEPT ![c] = place]

\* The call is answered, by a return or by an exception.
Finish(c, s) ==
    /\ Goto(c, "done")
    /\ status' = [status EXCEPT ![c] = s]

GatewayInit ==
    /\ Init
    /\ authMode \in AuthModes
    /\ pc = [c \in Calls |-> "idle"]
    /\ asks = [c \in Calls |-> [route |-> "chat", key |-> "", token |-> NoToken]]
    /\ identity = [c \in Calls |-> "none"]
    /\ status = [c \in Calls |-> 0]
    /\ through = {}
    /\ active = Tokens
    /\ late = {}

\* A call arrives.  With API keys nobody looks at the bearer token.
Receive(c) ==
    /\ pc[c] = "idle"
    /\ \E route \in Routes, key \in ApiKeys, token \in Tokens \cup {NoToken} :
         /\ authMode = "api_key" => token = NoToken
         /\ asks' = [asks EXCEPT ![c] = [route |-> route, key |-> key, token |-> token]]
         /\ late' = IF token \in Tokens \ active THEN late \cup {c} ELSE late
    /\ Goto(c, "authorize")
    /\ UNCHANGED <<vars, authMode, identity, status, through, active>>

\* The Content-Length of a chat is no number: int() raises in the middleware,
\* before its try, and past the handlers of the application's exceptions.  Some
\* ASGI servers refuse such a header themselves.
MisreadLength(c) ==
    /\ pc[c] = "authorize"
    /\ asks[c].route = "chat"
    /\ Finish(c, 500)
    /\ UNCHANGED <<vars, authMode, asks, identity, through, active, late>>

\* A chat longer than settings.max_request_body_bytes goes no further.
RefuseOversized(c) ==
    /\ pc[c] = "authorize"
    /\ asks[c].route = "chat"
    /\ Finish(c, 413)
    /\ UNCHANGED <<vars, authMode, asks, identity, through, active, late>>

\* A body that is no JSON is refused before the dependencies are called.
RefuseUnparsable(c) ==
    /\ pc[c] = "authorize"
    /\ Finish(c, 422)
    /\ UNCHANGED <<vars, authMode, asks, identity, through, active, late>>

AuthorizeKey(c) ==
    /\ pc[c] = "authorize"
    /\ authMode = "api_key"
    /\ IF Suffices(KeyPermission(asks[c].key), asks[c].route)
         THEN Goto(c, "limit") /\ UNCHANGED status
         ELSE Finish(c, 403)
    /\ UNCHANGED <<vars, authMode, asks, identity, through, active, late>>

\* The token is sent to the identity provider.
Introspect(c) ==
    /\ pc[c] = "authorize"
    /\ authMode # "api_key"
    /\ IF asks[c].token # NoToken /\ authMode = "oidc_introspection"
         THEN Goto(c, "introspecting") /\ UNCHANGED status
         ELSE Finish(c, 403)
    /\ UNCHANGED <<vars, authMode, asks, identity, through, active, late>>

\* Mutant: what an earlier call with the same token was told is told again.
ProviderAnswersFromCache(c) ==
    /\ pc[c] = "introspecting"
    /\ \E p \in {"none", RolePermission(ClaimsOf[asks[c].token])} :
         /\ \/ p = "none"
            \/ asks[c].token \in active
            \/ \E d \in through : asks[d].token = asks[c].token
         /\ identity' = [identity EXCEPT ![c] = p]
    /\ Goto(c, "introspected")
    /\ UNCHANGED <<vars, authMode, asks, status, through, active, late>>

\* The provider looks at the token, and its answer is under way.  An answer
\* that is no object, or has no subject, names no permission.
ProviderAnswers(c) ==
    /\ pc[c] = "introspecting"
    /\ \E p \in {"none", RolePermission(ClaimsOf[asks[c].token])} :
         /\ p # "none" => asks[c].token \in active
         /\ identity' = [identity EXCEPT ![c] = p]
    /\ Goto(c, "introspected")
    /\ UNCHANGED <<vars, authMode, asks, status, through, active, late>>

\* An answer with an error status, a broken connection, an answer that is no JSON.
ProviderFails(c) ==
    /\ pc[c] = "introspecting"
    /\ Finish(c, 503) \/ Finish(c, 500)
    /\ UNCHANGED <<vars, authMode, asks, identity, through, active, late>>

\* settings.auth_introspection_timeout_seconds have passed.
ProviderTimesOut(c) ==
    /\ pc[c] \in {"introspecting", "introspected"}
    /\ Finish(c, 503)
    /\ UNCHANGED <<vars, authMode, asks, identity, through, active, late>>

AuthorizeToken(c) ==
    /\ pc[c] = "introspected"
    /\ IF Suffices(identity[c], asks[c].route)
         THEN Goto(c, "limit") /\ UNCHANGED status
         ELSE Finish(c, 403)
    /\ UNCHANGED <<vars, authMode, asks, identity, through, active, late>>

\* The limiter counts by the API key, whatever the call was authorized by.
LetThrough(c) ==
    /\ pc[c] = "limit"
    /\ Admit(BucketOf(c))
    /\ through' = through \cup {c}
    /\ Goto(c, "handler")
    /\ UNCHANGED <<authMode, asks, identity, status, active, late>>

TurnAway(c) ==
    /\ pc[c] = "limit"
    /\ Refuse(BucketOf(c))
    /\ Finish(c, 429)
    /\ UNCHANGED <<authMode, asks, identity, through, active, late>>

\* The fields of the body are checked last, so a refused body has used its
\* place in the window; then the handler runs, and answers or raises.
Handle(c) ==
    /\ pc[c] = "handler"
    /\ \E s \in {422, 200, 400, 404, 409, 500, 503} : Finish(c, s)
    /\ UNCHANGED <<vars, authMode, asks, identity, through, active, late>>

-----------------------------------------------------------------------------
\* The provider revokes a token.
Revoke(t) ==
    /\ t \in active
    /\ active' = active \ {t}
    /\ UNCHANGED <<vars, authMode, pc, asks, identity, status, through, late>>

TimePasses ==
    /\ Tick
    /\ UNCHANGED <<authMode, pc, asks, identity, status, through, active, late>>

AllAnswered ==
    /\ \A c \in Calls : pc[c] = "done"
    /\ UNCHANGED gatewayVars

CallStep(c) ==
    \/ Receive(c) \/ MisreadLength(c) \/ RefuseOversized(c) \/ RefuseUnparsable(c)
    \/ AuthorizeKey(c) \/ Introspect(c) \/ ProviderAnswers(c) \/ ProviderFails(c)
    \/ ProviderTimesOut(c) \/ AuthorizeToken(c)
    \/ LetThrough(c) \/ TurnAway(c) \/ Handle(c)

GatewayNext ==
    \/ \E c \in Calls : CallStep(c)
    \/ \E t \in Tokens : Revoke(t)
    \/ TimePasses
    \/ AllAnswered

GatewaySpec == GatewayInit /\ [][GatewayNext]_gatewayVars

-----------------------------------------------------------------------------
(***************************************************************************)
(* Properties.                                                             *)
(***************************************************************************)
Statuses == {0, 200, 400, 403, 404, 409, 413, 422, 429, 500, 503}

GatewayTypeOK ==
    /\ TypeOK
    /\ authMode \in AuthModes
    /\ pc \in [Calls -> Places]
    /\ asks \in [Calls -> [route : Routes, key : ApiKeys \cup {""}, token : Tokens \cup {NoToken}]]
    /\ identity \in [Calls -> Permissions \cup {"none"}]
    /\ status \in [Calls -> Statuses]
    /\ through \subseteq Calls
    /\ active \subseteq Tokens
    /\ late \subseteq Calls

\* Whether the call's key, in every permission it is configured for, or one of
\* its token's roles suffices for the route.
Permitted(c) ==
    LET Enough(p) == Rank[p] >= Rank[Required[asks[c].route]]
    IN  IF authMode = "api_key"
          THEN /\ \E p \in Permissions : TierKey[p] = asks[c].key
               /\ \A p \in Permissions : TierKey[p] = asks[c].key => Enough(p)
          ELSE asks[c].token \in Tokens /\
               \E p \in Permissions : RoleName[p] \in ClaimsOf[asks[c].token] /\ Enough(p)

\* The places of a window are those of the permitted calls that got through, one
\* for each: a forbidden, refused or unparsable call takes no place from the
\* callers it shares a window with.  And nobody permitted is answered 403.
PlacesArePermittedCalls ==
    /\ \A b \in Buckets : Len(admitted[b]) = Cardinality({c \in through : BucketOf(c) = b})
    /\ \A c \in through : Permitted(c)
    /\ authMode = "api_key" => \A c \in Calls : status[c] = 403 => ~ Permitted(c)

\* A call that arrives after its token was revoked never reaches a handler: each
\* call is asked about anew, although the provider object is shared by all.
RevokedTokensAreRefused == late \cap through = {}
=============================================================================
