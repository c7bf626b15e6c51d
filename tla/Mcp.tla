-------------------------------- MODULE Mcp --------------------------------
(***************************************************************************)
(* The HTTP surface behind the Gateway: the authority each route asks for,   *)
(* and the MCP endpoint, whose tools run as further requests through the      *)
(* same router with the caller's credential.                                *)
(***************************************************************************)
EXTENDS Gateway

CONSTANTS
    PublicRead,     \* TAR_PUBLIC_READ
    ReadOnly        \* TAR_MCP_READ_ONLY

VARIABLE warned     \* history: tools refused by their gate, with what the route would say

mcpVars == <<gatewayVars, warned>>

(***************************************************************************)
(* What the handler behind a route asks of the caller.                       *)
(***************************************************************************)
HasScope(p, s) == p.admin \/ s \in p.scopes
IsCurator(p) == p.admin \/ p.curator
SubscribeOnly(p) == p.scopes = {"subscribe:artifacts"}
ActsForInstance(p, i) == p.acts = i /\ i # NoCredential /\ ~SubscribeOnly(p)
RequireCurator(p) == IsCurator(p) \/ HasScope(p, "register:software")
RequireInstance(p) == p.acts # NoCredential

(* What a handler asks of a credential that is not bound to a Software.            *)
Permits(p, route) ==
    CASE route.guard = "open" -> TRUE
      [] route.guard = "read" -> PublicRead \/ p.credential # "none"
      [] route.guard = "curator" -> RequireCurator(p)
      [] route.guard = "create_instance" -> IsCurator(p) \/ HasScope(p, "register:instance")
      [] route.guard = "instance" -> ActsForInstance(p, route.of) \/ RequireCurator(p)
      [] route.guard = "create_artifact" -> IsCurator(p) \/ HasScope(p, "advertise:produce")
      [] route.guard = "produced" -> HasScope(p, "advertise:produce") /\ RequireInstance(p)
      [] route.guard = "consumed" -> HasScope(p, "advertise:consume") /\ RequireInstance(p)
      [] route.guard = "admin" -> p.admin

To(class, guard) == [class |-> class, guard |-> guard, of |-> NoCredential]
Open == To("read", "open")
Read == To("read", "read")
Capability(i) == [To("write", "instance") EXCEPT !.of = i]
Endpoint == To("mcp", "mcp")
Direct(route) == [route |-> route, rpc |-> <<>>]

(***************************************************************************)
(* The tools: whether one writes, the gate that mirrors its route, and the    *)
(* requests a call makes, which for some depend on the arguments.             *)
(***************************************************************************)
ToolOf(write, gate, calls) == [write |-> write, gate |-> gate, calls |-> calls]
Deployments == {b.acts : b \in Binding} \cup {TokenRights[k].acts : k \in Token}

registry_info == {<<Open, Open, Open>>}
list_enumerations == {<<>>}
vocab_search == {<<Read>>}
vocab_resolve == {<<Read>>}
search_registry == {<<Read>>, <<To("federated", "read")>>}
list_records == {<<Read>>}
get_record == {<<Read>>}
find_capable == {<<Read>>}
lineage == {<<Read>>}
identify_content == {<<Read>>}
register_software == {<<To("write", "curator")>>}
update_software == {<<To("write", "curator")>>}
add_release == {<<To("write", "curator")>>}
declare_capability ==
    {<<To("write", "curator")>>} \cup {<<Capability(i)>> : i \in Deployments}
simple_write(guard) == {<<To("write", guard)>>}

Reading == {"registry_info", "vocab_search", "vocab_resolve", "list_enumerations",
            "search_registry", "list_records", "get_record"}
LookingUp == {"find_capable_software", "get_artifact_lineage", "identify_content"}
Curating == {"register_software", "update_software", "add_release", "declare_capability",
             "register_artifact_type"}
Deploying == {"register_instance", "advertise_produced", "advertise_consumed"}

GateOf(name) ==
    CASE name \in Curating -> "curator"
      [] name = "register_instance" -> "register:instance"
      [] name = "advertise_produced" -> "advertise:produce"
      [] name = "advertise_consumed" -> "advertise:consume"
      [] OTHER -> "read"
CallsOf(name) ==
    CASE name = "registry_info" -> registry_info
      [] name = "vocab_search" -> vocab_search
      [] name = "vocab_resolve" -> vocab_resolve
      [] name = "list_enumerations" -> list_enumerations
      [] name = "search_registry" -> search_registry
      [] name = "list_records" -> list_records
      [] name = "get_record" -> get_record
      [] name = "find_capable_software" -> find_capable
      [] name = "get_artifact_lineage" -> lineage
      [] name = "identify_content" -> identify_content
      [] name = "register_software" -> register_software
      [] name = "update_software" -> update_software
      [] name = "add_release" -> add_release
      [] name = "declare_capability" -> declare_capability
      [] name = "register_artifact_type" -> simple_write("curator")
      [] name = "register_instance" -> simple_write("create_instance")
      [] name = "advertise_produced" -> simple_write("produced")
      [] name = "advertise_consumed" -> simple_write("consumed")
catalogue ==
    [name \in Reading \cup LookingUp \cup Curating \cup Deploying |->
        ToolOf(name \in Curating \cup Deploying, GateOf(name), CallsOf(name))]

(* Fault: the gate of an advertising tool looks at the scope only.            *)
ScopeAlone(gate, p) ==
    CASE gate = "read" -> PublicRead \/ p.credential # "none"
      [] gate = "curator" -> IsCurator(p) \/ HasScope(p, "register:software")
      [] OTHER -> IsCurator(p) \/ HasScope(p, gate)
GateAllows(gate, p) ==
    CASE gate = "read" -> PublicRead \/ p.credential # "none"
      [] gate = "curator" -> IsCurator(p) \/ HasScope(p, "register:software")
      [] gate = "register:instance" -> IsCurator(p) \/ HasScope(p, gate)
      [] OTHER -> RequireInstance(p) /\ HasScope(p, gate)
(***************************************************************************)
(* The endpoint.                                                           *)
(***************************************************************************)
CallOf(tool) ==
    [route |-> Endpoint,
     rpc |-> [method |-> "tools/call", tool |-> tool, mirrored |-> TRUE, id |-> TRUE]]
Asking(method) ==
    [route |-> Endpoint,
     rpc |-> [method |-> method, tool |-> "none", mirrored |-> TRUE, id |-> TRUE]]
Garbled(r) == [r EXCEPT !.rpc.mirrored = FALSE]
Notification(r) == [r EXCEPT !.rpc.id = FALSE]

Unchanged == UNCHANGED <<now, tat, block, keysVars, revoked, setup, requests, judged, handled>>
AtEndpoint(t) == task[t].pc = "serve" /\ Route(t).guard = "mcp"
RpcOf(t) == task[t].rpc

(* What the endpoint answers without a tool: a mirrored header that differs, a   *)
(* notification, a credential that failed, the open handshake, a list, an         *)
(* anonymous caller of a registry that does not serve reads, an unknown method     *)
(* or tool, a write tool of a read-only endpoint.                             *)
RunsTool(t) ==
    LET rpc == RpcOf(t)
        who == task[t].who.credential
    IN /\ rpc.mirrored /\ rpc.id
       /\ who \notin {"refused", "broken"}
       /\ rpc.method = "tools/call"
       /\ who # "none" \/ PublicRead
       /\ rpc.tool \in DOMAIN catalogue
       /\ ~(catalogue[rpc.tool].write /\ ReadOnly)

AnswerRpc(t) ==
    /\ AtEndpoint(t) /\ ~RunsTool(t)
    /\ Done(t)
    /\ Unchanged /\ UNCHANGED warned

(* Whether the vocabulary holds the terms the arguments cite: either.          *)
guard_vocabulary == BOOLEAN

(* call: the gate, then the vocabulary, then the requests.                    *)
CallTool(t) ==
    /\ AtEndpoint(t) /\ RunsTool(t)
    /\ LET name == RpcOf(t).tool
           tool == catalogue[name]
       IN \E calls \in tool.calls, usable \in guard_vocabulary :
             IF ~GateAllows(tool.gate, task[t].who)
             THEN /\ Done(t)
                  /\ warned' = warned \cup {[tool |-> name, who |-> task[t].who, calls |-> calls]}
             ELSE /\ IF usable /\ calls # <<>>
                     THEN task' = [task EXCEPT ![t].pc = "charge", ![t].left = calls,
                                               ![t].tool = name]
                     ELSE Done(t)
                  /\ UNCHANGED warned
    /\ Unchanged

(***************************************************************************)
(* A handler, reached directly or from a tool.  A tool whose request fails      *)
(* ends, but for registry_info, which reports what it got.                    *)
(***************************************************************************)
Handle(t) ==
    /\ task[t].pc = "serve" /\ Route(t).guard # "mcp"
    /\ IF Len(task[t].left) > 1
       THEN task' = [task EXCEPT ![t].pc = "charge", ![t].left = Tail(@)]
       ELSE Done(t)
    /\ Unchanged /\ UNCHANGED warned

TooMany(t) ==
    /\ OverLimit(t)
    /\ IF task[t].tool = "registry_info" /\ Len(task[t].left) > 1
       THEN task' = [task EXCEPT ![t].left = Tail(@)]
       ELSE Done(t)
    /\ Unchanged /\ UNCHANGED warned

(***************************************************************************)
(* The whole.                                                              *)
(***************************************************************************)
McpInit == GatewayInit /\ warned = {}

McpNext ==
    \/ \E t \in Task :
          \/ (Arrive(t) \/ VerifyToken(t) \/ DecodePinned(t) \/ LookupKeys(t)
              \/ IssuerAnswers(t) \/ IssuerFails(t) \/ InsertKeys(t)
              \/ NoteFailure(t) \/ BlockAddress(t) \/ Admit(t)) /\ UNCHANGED warned
          \/ AnswerRpc(t) \/ CallTool(t) \/ Handle(t) \/ TooMany(t)
    \/ (Tick \/ RetainRecent) /\ UNCHANGED warned
    \/ (\E k \in Token : RevokeToken(k)) /\ UNCHANGED warned
    \/ (\E k \in Kid : Publish(k) \/ Retire(k)) /\ UNCHANGED warned

(***************************************************************************)
(* Properties.                                                             *)
(***************************************************************************)

(* However many requests try credentials at once, an address has at most its    *)
(* burst judged, and in each further period one more and those that get in before *)
(* a block falls: all there are, and all again for each request of an earlier      *)
(* period whose late block cuts the present one short (note_auth_failure,         *)
(* auth_blocked).                                                          *)
FailuresBounded ==
    \A a \in Address :
        judged[a] <= AuthFail.burst + Cardinality(Task)
                     + (now \div AuthFail.period) * (1 + Cardinality(Task) * Cardinality(Task))

(* A JWT signed by a key its issuer published before the request and still       *)
(* publishes is not refused while the issuer answers, whatever older answer a     *)
(* slower fetch put in the cache (keys_for, authenticate_jwt).                  *)
CurrentKeyAccepted ==
    \A t \in Task :
        task[t].pc = "note" /\ task[t].steady => ~Claims[task[t].cred].sound

(* A token does not act in a request that came after it was revoked; a key that  *)
(* was withdrawn is believed for one life of the cache after the slowest fetch     *)
(* that still saw it (verify_token, keys_for).                                *)
CredentialsExpire ==
    \A t \in Task : Known(t) =>
        /\ ~task[t].revokedBefore
        /\ task[t].cred \in Jwt /\ phase[KidOf(t)] = "retired" =>
              task[t].decided < retiredAt[KidOf(t)] + Patience + Ttl

(* Requests reach handlers no faster than their caller's limit allows, counting   *)
(* those that tool calls make and those whose credential failed (middleware,      *)
(* FORWARDED).                                                             *)
BurstRespected ==
    \A class \in Class, t \in Task :
        LET limit == LimitOf(t, class)
        IN task[t] # Idle /\ ~task[t].who.admin /\ limit # Off =>
              handled[class, Caller(t)] <= limit.burst + now \div limit.period

(* The gate of a tool says what its routes say: a call it lets through is not     *)
(* refused by the handler, and of the calls it refuses the handler would take      *)
(* only a deployment's own capability (Gate::allows, instances::put_capability).   *)
(* Of credentials bound to a Software, which register_instance may be refused for   *)
(* the Software its body names, nothing is said.                               *)
ToolsMirrorHandlers ==
    /\ \A t \in Task :
          task[t].pc = "serve" /\ task[t].tool # "none" => Permits(task[t].who, Route(t))
    /\ \A w \in warned :
          \/ \E n \in DOMAIN w.calls : ~Permits(w.who, w.calls[n])
          \/ w.tool = "declare_capability" /\ ActsForInstance(w.who, w.calls[1].of)
=============================================================================
