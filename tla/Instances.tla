----------------------------- MODULE Instances -----------------------------
(***************************************************************************)
(* Instances (deployments) of a Software record: created by a curator or by  *)
(* their own announcement, patched, withdrawn, and probed by the health loop. *)
(*                                                                         *)
(* A record is the subject's triples in the local graph.  A handler checks,  *)
(* reads and writes in separate uses of the store, and other requests run in *)
(* between: an action is one of those uses.                                 *)
(***************************************************************************)
EXTENDS Software

CONSTANTS
    Caller,         \* request tasks, 1..n; a request goes to the first idle one
    Inst,           \* instance IRIs, numbered in the order they are minted
    Endpoint,       \* endpoint URLs
    Cred,           \* credentials of deployments
    Shared,         \* those bound to the software: an auto-registration key or client
    Oidc,           \* those that are OIDC clients; the others are local tokens
    InstKey,        \* names a deployment gives itself
    InstanceBody,   \* what a PATCH or an announcement states
    AutoRegister,   \* TAR_OIDC_AUTO_REGISTER_INSTANCES
    HealthBatch,    \* deployments the health loop takes per pass
    MaxCalls        \* bound: requests

Shown == {"label", "endpoint"}
Blank == [label |-> Cleared, endpoint |-> Cleared, client |-> Cleared,
          owner |-> Cleared, key |-> Cleared, capability |-> {}]

ASSUME InstancesAssumption ==
    /\ Inst \subseteq Nat \ {0}
    /\ Shared \subseteq Cred /\ Oidc \subseteq Cred
    /\ Cleared \notin Endpoint \cup Cred \cup InstKey
    /\ \A body \in InstanceBody : DOMAIN body \subseteq Shown
    /\ AutoRegister \in BOOLEAN
    /\ Caller = 1..Cardinality(Caller)
    /\ {HealthBatch, MaxCalls} \subseteq Nat

VARIABLES
    instance,       \* what replace_instance writes, by IRI
    existing,       \* the IRIs minted so far
    gone,           \* withdrawn
    health,         \* the endpoint the recorded verdict is about
    call,           \* requests in progress
    probes,         \* the rest of the health loop's pass: <<instance, url>> pairs
    calls, caps,    \* bounds
    turn, stated, crossed, raced    \* history

instanceRecord == <<instance, existing, gone, health>>
callHist == <<calls, caps, turn, stated, crossed, raced>>
instanceVars == <<instanceRecord, call, probes, callHist>>

NoCall == [pc |-> "idle", iri |-> 0, input |-> Blank, body |-> <<>>, read |-> 0,
           cred |-> Cleared, key |-> Cleared, bound |-> 0, announces |-> FALSE]

InstancesInit ==
    /\ instance = [i \in Inst |-> Blank]
    /\ existing = {} /\ gone = {}
    /\ health = [i \in Inst |-> Cleared]
    /\ call = [w \in Caller |-> NoCall]
    /\ probes = {}
    /\ caps = 0
    /\ turn = [i \in Inst |-> 0]
    /\ stated = [i \in Inst |-> Blank]
    /\ crossed = {} /\ raced = {}

Live == existing \ gone
Deploys == {i \in Live : instance[i].endpoint # Cleared}
Start(w, c) ==
    /\ call[w] = NoCall /\ \A v \in 1..(w - 1) : call[v] # NoCall
    /\ calls < MaxCalls
    /\ calls' = calls + 1
    /\ call' = [call EXCEPT ![w] = c]
End(w) == call' = [call EXCEPT ![w] = NoCall]

(***************************************************************************)
(* Writing a record.  replace_instance drops every triple of the subject, so  *)
(* the verdict of the last probe and a tombstone go with it; a capability      *)
(* that is carried over gets a new IRI.                                      *)
(***************************************************************************)
NewCap == <<"cap", caps + 1>>
WriteInstance(w) ==
    LET i == call[w].iri
        in == call[w].input
    IN /\ instance' = [instance EXCEPT ![i] =
             [in EXCEPT !.capability = IF @ = {} THEN {} ELSE {NewCap}]]
       /\ caps' = IF in.capability = {} THEN caps ELSE caps + 1
       /\ existing' = existing \cup {i}
       /\ gone' = gone \ {i}
       /\ health' = [health EXCEPT ![i] = Cleared]
       /\ turn' = [turn EXCEPT ![i] = @ + 1]
       /\ stated' = [stated EXCEPT ![i] =
             IF i \in existing THEN Merge(@, call[w].body) ELSE in]
       /\ crossed' = IF i \in existing /\ (call[w].read # turn[i] \/ i \in gone)
                     THEN crossed \cup {i} ELSE crossed

(* check_deployable: software that cannot be hosted has no endpoint.         *)
CheckDeployable(w) ==
    /\ call[w].pc = "check"
    /\ IF call[w].input.endpoint # Cleared /\ ~software.deployable
       THEN End(w)
       ELSE call' = [call EXCEPT ![w].pc = "write"]
    /\ UNCHANGED <<instanceRecord, probes, callHist>>

ApplyInstance(w) ==
    /\ call[w].pc = "write"
    /\ WriteInstance(w)
    /\ End(w)
    /\ UNCHANGED <<probes, calls, raced>>

Checking(i, input, body, announcing) ==
    [NoCall EXCEPT !.pc = "check", !.iri = i, !.input = input, !.body = body,
                   !.read = turn[i], !.announces = announcing]

(* An IRI nobody has: they are given out in order.                           *)
Unminted == Inst \ (existing \cup {call[v].iri : v \in Caller})
NewIri == {i \in Unminted : \A j \in Unminted : i <= j}

(***************************************************************************)
(* POST /instances, by a curator: for itself or for an OIDC client.          *)
(***************************************************************************)
CreateInstance(w, body, client) ==
    /\ \E i \in NewIri :
         Start(w, Checking(i, [Merge(Blank, body) EXCEPT !.client = client], body, FALSE))
    /\ UNCHANGED <<instanceRecord, probes, caps, turn, stated, crossed, raced>>

(***************************************************************************)
(* PATCH /instances/{id}: by the deployment itself, or by a curator when the *)
(* deployment did not register itself.                                       *)
(***************************************************************************)
(* Fault: the body is the new record.                                        *)
MergedWhole(i, body) == [Merge(Blank, body) EXCEPT !.owner = instance[i].owner,
                         !.key = instance[i].key, !.client = instance[i].client]

Merged(i, body) == Merge(instance[i], body)

PatchInstance(w, i, body, itself) ==
    /\ i \in existing
    /\ itself \/ instance[i].owner = Cleared
    /\ Start(w, Checking(i, Merged(i, body), body, FALSE))
    /\ UNCHANGED <<instanceRecord, probes, caps, turn, stated, crossed, raced>>

(* DELETE /instances/{id}: a tombstone is added, nothing is removed.          *)
WithdrawInstance(w, i) ==
    /\ i \in existing
    /\ Start(w, NoCall)
    /\ gone' = gone \cup {i}
    /\ UNCHANGED <<instance, existing, health, probes, caps, turn, stated, crossed, raced>>

(***************************************************************************)
(* PUT /instances/{id}/capability: the link that is there is used again.     *)
(***************************************************************************)
ReadCapability(w, i) ==
    /\ i \in existing
    /\ Start(w, [NoCall EXCEPT !.pc = "capability", !.iri = i, !.read = turn[i],
                               !.input = instance[i]])
    /\ UNCHANGED <<instanceRecord, probes, caps, turn, stated, crossed, raced>>

LinkCapability(w) ==
    LET i == call[w].iri
        known == call[w].input.capability
    IN /\ call[w].pc = "capability"
       /\ instance' = [instance EXCEPT ![i].capability =
             IF known = {} THEN @ \cup {NewCap} ELSE @ \cup {CHOOSE x \in known : TRUE}]
       /\ caps' = IF known = {} THEN caps + 1 ELSE caps
       /\ turn' = [turn EXCEPT ![i] = @ + 1]
       /\ crossed' = IF call[w].read # turn[i] THEN crossed \cup {i} ELSE crossed
       /\ End(w)
       /\ UNCHANGED <<existing, gone, health, probes, calls, stated, raced>>

(***************************************************************************)
(* PUT /instances/self.  Authenticating an OIDC client reads which Instance   *)
(* it is: the one that names it, withdrawn or not, else the only one it       *)
(* registered that is not withdrawn.                                         *)
(***************************************************************************)
Naming(c) == {i \in existing : instance[i].client = c}
RegisteredBy(c) == {i \in Live : instance[i].owner = c}
Binding(c) ==
    IF c \notin Oidc THEN {0}
    ELSE IF Naming(c) # {} THEN Naming(c)
    ELSE IF Cardinality(RegisteredBy(c)) = 1 THEN RegisteredBy(c) ELSE {0}

Announce(w, c, key, body) ==
    /\ \E b \in Binding(c) :
         Start(w, [NoCall EXCEPT !.pc = "find", !.cred = c, !.key = key, !.bound = b,
                                 !.body = body, !.announces = TRUE])
    /\ UNCHANGED <<instanceRecord, probes, caps, turn, stated, crossed, raced>>

SelfKey(w) == IF call[w].key = Cleared THEN call[w].cred ELSE call[w].key

(* find_self_registered.                                                    *)
(* Fault: the name the deployment gives itself is not looked at.             *)
FoundByNobody(w) == {}

Found(w) == {i \in RegisteredBy(call[w].cred) : instance[i].key = SelfKey(w)}

(* Which record the announcement is about: for a shared credential the one    *)
(* it registered under this name, for any other the one it is.               *)
About(w) ==
    LET bound == call[w].bound
        found == IF Found(w) = {} THEN {0} ELSE Found(w)
    IN IF call[w].cred \in Shared
       THEN IF Found(w) = {} /\ call[w].key = Cleared THEN {bound} ELSE found
       ELSE IF bound # 0 THEN {bound} ELSE found

MayRegister(c) == c \in Shared \/ AutoRegister

FindSelf(w) ==
    /\ call[w].pc = "find"
    /\ \E i \in About(w) :
         IF i # 0 THEN call' = [call EXCEPT ![w].pc = "load", ![w].iri = i]
         ELSE IF ~MayRegister(call[w].cred) THEN End(w)
         ELSE \E new \in NewIri :
                call' = [call EXCEPT ![w].pc = "check", ![w].iri = new,
                   ![w].input = [Merge([Blank EXCEPT !.label = call[w].cred], call[w].body) EXCEPT
                     !.client = IF call[w].cred \in Shared THEN Cleared ELSE call[w].cred,
                     !.owner = call[w].cred, !.key = SelfKey(w)]]
    /\ UNCHANGED <<instanceRecord, probes, calls, caps, turn, stated, crossed>>
    /\ raced' = raced \cup
         {call'[v].iri : v \in {u \in Caller :
            \E x \in Caller \ {u} :
               /\ call'[u].announces /\ call'[x].announces
               /\ {call'[u].pc, call'[x].pc} \subseteq {"check", "write"}
               /\ {call'[u].iri, call'[x].iri} \cap existing = {}
               /\ call'[u].input.owner = call'[x].input.owner
               /\ call'[u].input.key = call'[x].input.key}}

LoadSelf(w) ==
    /\ call[w].pc = "load"
    /\ call' = [call EXCEPT ![w].pc = "check", ![w].read = turn[call[w].iri],
                            ![w].input = Merged(call[w].iri, call[w].body)]
    /\ UNCHANGED <<instanceRecord, probes, callHist>>

(***************************************************************************)
(* The health loop: a pass reads the deployments that serve an endpoint, and *)
(* records each verdict after the probe, whatever the record says by then.   *)
(***************************************************************************)
ReadTargets ==
    /\ probes = {} /\ Deploys # {}
    /\ LET targets == CHOOSE s \in SUBSET Deploys :
             Cardinality(s) = IF Cardinality(Deploys) <= HealthBatch
                              THEN Cardinality(Deploys) ELSE HealthBatch
       IN probes' = {<<i, instance[i].endpoint>> : i \in targets}
    /\ UNCHANGED <<instanceRecord, call, callHist>>

(* Fault: a verdict that is there stands.                                    *)
VerdictOnce(i, url) == IF health[i] = Cleared THEN url ELSE health[i]

Verdict(i, url) == url

RecordHealth ==
    \E p \in probes :
      /\ health' = [health EXCEPT ![p[1]] = Verdict(p[1], p[2])]
      /\ probes' = probes \ {p}
      /\ UNCHANGED <<instance, existing, gone, call, callHist>>

(***************************************************************************)
(* The component, beside the software it deploys.                            *)
(***************************************************************************)
NewRequest(w) ==
    \/ \E body \in InstanceBody, client \in (Cred \ Shared) \cup {Cleared} :
         CreateInstance(w, body, client)
    \/ \E i \in Inst, body \in InstanceBody, itself \in BOOLEAN : PatchInstance(w, i, body, itself)
    \/ \E i \in Inst : WithdrawInstance(w, i) \/ ReadCapability(w, i)
    \/ \E c \in Cred, key \in InstKey \cup {Cleared}, body \in InstanceBody : Announce(w, c, key, body)
Proceed(w) ==
    CheckDeployable(w) \/ ApplyInstance(w) \/ LinkCapability(w) \/ FindSelf(w) \/ LoadSelf(w)
HealthPass == ReadTargets \/ RecordHealth

InstancesNext ==
    \/ \E w \in Caller : NewRequest(w) \/ Proceed(w)
    \/ HealthPass

recordsVars == <<softwareVars, instanceVars>>
RecordsInit ==
    \E s \in Setup : SoftwareInit(s) /\ InstancesInit /\ calls = s.calls
RecordsNext ==
    \/ SoftwareNext /\ UNCHANGED instanceVars
    \/ InstancesNext /\ UNCHANGED softwareVars
RecordsSpec == RecordsInit /\ [][RecordsNext]_recordsVars

(* The runtime runs every request task that is ready, the health loop and the *)
(* forge poller; a forge that is asked answers or fails in the end.           *)
RecordsFairness ==
    /\ \A c \in Curator : WF_recordsVars((AskForge(c) \/ Continue(c)) /\ UNCHANGED instanceVars)
    /\ \A w \in Caller : WF_recordsVars(Proceed(w) /\ UNCHANGED softwareVars)
    /\ WF_recordsVars(HealthPass /\ UNCHANGED softwareVars)
    /\ WF_recordsVars(Poll /\ UNCHANGED instanceVars)
RecordsFairSpec == RecordsSpec /\ RecordsFairness

(***************************************************************************)
(* Properties.                                                             *)
(***************************************************************************)
(* A deployment has one record: two records that are not withdrawn carry the *)
(* same credential and name only if the announcements that created them had  *)
(* both looked before either wrote, or a record was written back that had    *)
(* been withdrawn or changed since it was read.                              *)
OneRecordPerDeployment ==
    \A i, j \in Live :
        /\ i # j /\ instance[i].owner # Cleared
        /\ instance[i].owner = instance[j].owner /\ instance[i].key = instance[j].key
        => {i, j} \subseteq raced \/ {i, j} \cap crossed # {}

(* As long as no two writers of a record overlapped, what PATCHes and         *)
(* announcements stated stands, field by field, and one capability is linked. *)
StatementsStand ==
    \A i \in existing \ crossed :
        /\ \A f \in Shown : instance[i][f] = stated[i][f]
        /\ Cardinality(instance[i].capability) <= 1

(* When no request changes anything any more, the verdict of every probed     *)
(* deployment becomes one about the endpoint it has now, also when a probe of *)
(* an earlier endpoint was on its way as the record was replaced.            *)
HealthCatchesUp ==
    Cardinality(Inst) <= HealthBatch =>
        \A i \in Inst : <>[](i \in Deploys => health[i] = instance[i].endpoint)

(* The same of the forge poller: the numbers kept are in the end those the    *)
(* poller asked the current repository for.                                  *)
PollerCatchesUp ==
    <>[](~withdrawn /\ RepoOf(software) # Cleared => stats.repo = RepoOf(software))
=============================================================================
