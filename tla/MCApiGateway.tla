---------------------------- MODULE MCApiGateway -----------------------------
(***************************************************************************)
(* Values for model checking ApiGateway, and RateLimiter in it.            *)
(***************************************************************************)
EXTENDS ApiGateway, TLC

\* Two keys of two permissions each, of which it has the lower; one is asked with.
MCApiKeys == {"", "top"}
MCTierKey == [READ |-> "low", WRITE |-> "low", APPROVE |-> "top", ADMIN |-> "top"]

\* A token with two roles.
MCClaimsOf == [t \in Tokens |-> {"r", "w"}]
MCRoleName == [READ |-> "r", WRITE |-> "w", APPROVE |-> "a", ADMIN |-> "m"]

CallsAlike == Permutations(Calls)
=============================================================================
