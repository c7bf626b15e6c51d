------------------------------ MODULE Process ------------------------------
(***************************************************************************)
(* One registry process from start to stop: Startup brings the stores up to   *)
(* date and then serves the requests of Mcp.  What Gateway and Mcp keep in     *)
(* memory, the requests being served, the limits and blocks, the issuers'      *)
(* keys, is lost when the process stops; the stores, with the revoked tokens,   *)
(* and the issuers are not.                                                *)
(***************************************************************************)
EXTENDS Startup, Mcp

processVars == <<startupVars, mcpVars>>

ProcessInit == StartupInit /\ McpInit

FreshMemory ==
    /\ task' = [t \in Task |-> Idle]
    /\ tat' = [b \in Buckets |-> Unspent]
    /\ block' = [a \in Address |-> Unspent]
    /\ cache' = [i \in Issuer |-> [keys |-> {}, at |-> -Ttl]]
    /\ judged' = [a \in Address |-> 0] /\ handled' = [b \in Buckets |-> 0]
    /\ UNCHANGED <<now, phase, revoked, retiredAt, setup, requests, warned>>

Serve == mode = "serving" /\ McpNext /\ UNCHANGED startupVars
Exit == End /\ FreshMemory
Maintain == Progress /\ UNCHANGED mcpVars

ProcessNext == Serve \/ Exit \/ Maintain
ProcessSpec == ProcessInit /\ [][ProcessNext]_processVars
=============================================================================
