----------------------------- MODULE MCMcpClient -----------------------------
(***************************************************************************)
(* Values for model checking McpClient: one client for all requests, as    *)
(* the class and its tests have it.                                        *)
(***************************************************************************)
EXTENDS McpClient, TLC

OneForAll == [r \in Requests |-> CHOOSE c \in Clients : TRUE]

RequestsAlike == Permutations(Requests)
=============================================================================
