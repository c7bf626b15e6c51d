------------------------------- MODULE Peers -------------------------------
(***************************************************************************)
(* Peer registries and the stubs cached from them: adding, announcing and   *)
(* removing a peer, GET /resolve, and the background resolver.              *)
(*                                                                         *)
(* Peers and the resolve queue are SQLite rows, stubs are subjects in one   *)
(* named graph per peer.  Handlers await once per SQLite statement and once  *)
(* per use of the graph store, so an action is one of those.                *)
(*                                                                         *)
(* Time is the order of next_attempt_at: due lists the queue's rows whose    *)
(* time has come, in the order the resolver's SELECT returns them.          *)
(***************************************************************************)
EXTENDS Naturals, Sequences, FiniteSets, SequencesExt

CONSTANTS
    Base,           \* base IRIs of other registries
    Iri,            \* foreign IRIs
    BaseOf,         \* the base an IRI starts with, or None
    Also,           \* other records the document at an IRI describes
    Silent,         \* IRIs whose document may not describe the IRI itself
    Resolvable,     \* IRIs something cites or asks for
    KnownPeers,     \* active peers at the start
    Cited,          \* IRIs in the resolve queue at the start
    Cached,         \* subjects in the peers' graphs at the start
    Admin, Announcer, Reader,  \* request tasks of each kind
    Worker,         \* the resolver's task
    Unknown,        \* the id of the graph of stubs no peer owns
    None,
    Batch,          \* rows the resolver takes per tick
    MaxIds,         \* bound: ids minted per base
    MaxCount,       \* bound: record_count of a peer, which stops counting there
    MaxResolves,    \* bound: GET /resolve requests
    MaxFaults,      \* bound: failed statements, dead requests and crashes
    MaxDisturbances \* bound: GET /resolve requests and faults together

Fetcher == Reader \cup {Worker}
Id == Base \X (1..MaxIds)
NoPeer == [id |-> None, state |-> "none", status |-> "unknown", count |-> 0]

ASSUME PeerAssumption ==
    /\ BaseOf \in [Iri -> Base \cup {None}]
    /\ Also \in [Iri -> SUBSET Iri]
    /\ {Resolvable, Cited, Cached, Silent} \subseteq SUBSET Iri
    /\ KnownPeers \subseteq Base
    /\ Worker \notin Reader
    /\ Unknown \notin Id
    /\ None \notin Base \cup Id \cup Iri
    /\ Cited \subseteq Resolvable
    /\ IsFiniteSet(Cited) /\ IsFiniteSet(Cached)
    /\ \A i \in Cached : BaseOf[i] \in KnownPeers
    /\ {Batch, MaxIds} \subseteq Nat \ {0}
    /\ {MaxCount, MaxResolves, MaxFaults, MaxDisturbances} \subseteq Nat

VARIABLES
    peers, minted,      \* table peers, by base IRI; ids given out
    queue, due,         \* table resolve_queue
    graph,              \* <<graph, subject>> pairs
    admin,              \* POST and DELETE /peers in progress
    announced,          \* POST /peers/announce in progress: the row to write
    fetch,              \* fetch_stub calls in progress
    batch,              \* rows of this tick
    dropped, missed, resolves, faults   \* history and bounds

sqlVars == <<peers, minted, queue, due>>
hist == <<dropped, missed, resolves, faults>>
vars == <<sqlVars, graph, admin, announced, fetch, batch, hist>>

(* The bounds on what may disturb the resolver.                              *)
ResolveLeft == resolves < MaxResolves /\ resolves + faults < MaxDisturbances
FaultLeft == faults < MaxFaults /\ resolves + faults < MaxDisturbances

PeerRow(id, state, status, count) ==
    [id |-> id, state |-> state, status |-> status, count |-> count]
NoAdmin == [pc |-> "idle", base |-> None, row |-> NoPeer, todo |-> {}]
NoAnnounce == [base |-> None, row |-> NoPeer]
NoFetch == [pc |-> "idle", iri |-> None, peer |-> NoPeer, todo |-> {},
            leftovers |-> {}, stub |-> {}, cached |-> FALSE]

Known(b) == peers[b] # NoPeer
Tracked(i) == queue[i] # "none"
FirstId(b) == <<b, 1>>
CachedAtStart == {<<FirstId(BaseOf[i]), i>> : i \in Cached}

Init ==
    /\ peers = [b \in Base |->
         IF b \in KnownPeers THEN PeerRow(FirstId(b), "active", "ok", 0) ELSE NoPeer]
    /\ minted = [b \in Base |-> IF b \in KnownPeers THEN 1 ELSE 0]
    /\ queue = [i \in Iri |-> IF i \in Cited THEN "pending" ELSE "none"]
    /\ due = SetToSeq(Cited)
    /\ graph = CachedAtStart
    /\ admin = [m \in Admin |-> NoAdmin]
    /\ announced = [n \in Announcer |-> NoAnnounce]
    /\ fetch = [f \in Fetcher |-> NoFetch]
    /\ batch = <<>>
    /\ dropped = {} /\ missed = {} /\ resolves = 0 /\ faults = 0

(***************************************************************************)
(* upsert_peer: a base IRI that is there already keeps its id and its count. *)
(***************************************************************************)
(* Fault: the whole row is replaced.                                         *)
UpsertReplacing(b, row) == peers' = [peers EXCEPT ![b] = row]

Upsert(b, row) ==
    peers' = [peers EXCEPT ![b] =
                IF Known(b) THEN PeerRow(peers[b].id, row.state, row.status, peers[b].count)
                ELSE row]

Mint(b) ==
    /\ minted[b] < MaxIds
    /\ minted' = [minted EXCEPT ![b] = @ + 1]
NewId(b) == <<b, minted[b] + 1>>

(***************************************************************************)
(* POST /peers, after the well-known document was fetched and matched.       *)
(***************************************************************************)
BeginAdd(m, b, peersOfPeer) ==
    /\ admin[m] = NoAdmin
    /\ Mint(b)
    /\ LET row == IF Known(b) THEN PeerRow(peers[b].id, "active", "ok", peers[b].count)
                              ELSE PeerRow(NewId(b), "active", "ok", 0)
       IN admin' = [admin EXCEPT ![m] = [pc |-> "upsert", base |-> b, row |-> row,
                                         todo |-> peersOfPeer]]
    /\ UNCHANGED <<peers, queue, due, graph, announced, fetch, batch, hist>>

(* The next peer of the peer, or the answer.                                 *)
Suggesting(todo) ==
    IF todo = {} THEN NoAdmin ELSE [NoAdmin EXCEPT !.pc = "suggest", !.todo = todo]

UpsertPeer(m) ==
    /\ admin[m].pc = "upsert"
    /\ Upsert(admin[m].base, admin[m].row)
    /\ admin' = [admin EXCEPT ![m] = Suggesting(@.todo)]
    /\ UNCHANGED <<minted, queue, due, graph, announced, fetch, batch, hist>>

LookUpSuggestion(m) ==
    /\ admin[m].pc = "suggest"
    /\ \E b \in admin[m].todo :
         IF Known(b)
         THEN /\ admin' = [admin EXCEPT ![m] = Suggesting(@.todo \ {b})]
              /\ UNCHANGED minted
         ELSE /\ Mint(b)
              /\ admin' = [admin EXCEPT ![m] =
                   [pc |-> "put", base |-> b, todo |-> @.todo \ {b},
                    row |-> PeerRow(NewId(b), "suggested", "unknown", 0)]]
    /\ UNCHANGED <<peers, queue, due, graph, announced, fetch, batch, hist>>

PutSuggestion(m) ==
    /\ admin[m].pc = "put"
    /\ Upsert(admin[m].base, admin[m].row)
    /\ admin' = [admin EXCEPT ![m] = Suggesting(@.todo)]
    /\ UNCHANGED <<minted, queue, due, graph, announced, fetch, batch, hist>>

(***************************************************************************)
(* POST /peers/announce, for a base that is not known.                       *)
(***************************************************************************)
BeginAnnounce(n, b) ==
    /\ announced[n] = NoAnnounce
    /\ ~Known(b)
    /\ Mint(b)
    /\ announced' = [announced EXCEPT ![n] =
         [base |-> b, row |-> PeerRow(NewId(b), "suggested", "unknown", 0)]]
    /\ UNCHANGED <<peers, queue, due, graph, admin, fetch, batch, hist>>

RecordAnnouncement(n) ==
    /\ announced[n] # NoAnnounce
    /\ Upsert(announced[n].base, announced[n].row)
    /\ announced' = [announced EXCEPT ![n] = NoAnnounce]
    /\ UNCHANGED <<minted, queue, due, graph, admin, fetch, batch, hist>>

(***************************************************************************)
(* DELETE /peers/{id}: the graph, then the row.                              *)
(***************************************************************************)
BeginRemove(m, b) ==
    /\ admin[m] = NoAdmin
    /\ Known(b)
    /\ admin' = [admin EXCEPT ![m] = [NoAdmin EXCEPT !.pc = "drop", !.row = peers[b]]]
    /\ UNCHANGED <<sqlVars, graph, announced, fetch, batch, hist>>

DropGraph(m) ==
    /\ admin[m].pc = "drop"
    /\ graph' = {x \in graph : x[1] # admin[m].row.id}
    /\ dropped' = dropped \cup {admin[m].row.id}
    /\ admin' = [admin EXCEPT ![m].pc = "delete"]
    /\ UNCHANGED <<sqlVars, announced, fetch, batch, missed, resolves, faults>>

DeletePeer(m) ==
    /\ admin[m].pc = "delete"
    /\ peers' = [b \in Base |-> IF peers[b].id = admin[m].row.id THEN NoPeer ELSE peers[b]]
    /\ admin' = [admin EXCEPT ![m] = NoAdmin]
    /\ UNCHANGED <<minted, queue, due, graph, announced, fetch, batch, hist>>

(* A statement fails, or the request dies between two.                       *)
AbandonAdmin(m) ==
    /\ admin[m] # NoAdmin
    /\ FaultLeft
    /\ faults' = faults + 1
    /\ admin' = [admin EXCEPT ![m] = NoAdmin]
    /\ UNCHANGED <<sqlVars, graph, announced, fetch, batch, dropped, missed, resolves>>

(***************************************************************************)
(* The resolve queue.                                                      *)
(***************************************************************************)
(* queue_resolve: ON CONFLICT DO NOTHING.                                    *)
QueueResolve(i) ==
    IF Tracked(i) THEN UNCHANGED <<queue, due>>
    ELSE /\ queue' = [queue EXCEPT ![i] = "pending"]
         /\ due' = Append(due, i)

(* An advertisement cites an IRI (Advertise!UseReference, MintArtifact).     *)
Cite(i) ==
    /\ QueueResolve(i)
    /\ UNCHANGED <<peers, minted, graph, admin, announced, fetch, batch, hist>>

(* A row is due once.                                                        *)
PlaceOf(i) == CHOOSE n \in 1..Len(due) : due[n] = i

(* mark_resolved and mark_resolve_failed put next_attempt_at in the future.   *)
Reschedule(i, status) ==
    /\ queue' = IF Tracked(i) THEN [queue EXCEPT ![i] = status] ELSE queue
    /\ due' = IF i \in ToSet(due) THEN RemoveAt(due, PlaceOf(i)) ELSE due

(* ... and it comes: a TTL or a backoff runs out.                            *)
ComeDue(i) ==
    /\ Tracked(i)
    /\ i \notin ToSet(due)
    /\ due' = Append(due, i)
    /\ UNCHANGED <<peers, minted, queue, graph, admin, announced, fetch, batch, hist>>

(***************************************************************************)
(* fetch_stub.                                                             *)
(***************************************************************************)
Goto(f, there) == fetch' = [fetch EXCEPT ![f].pc = there]
OwningPeer(i) == IF BaseOf[i] = None THEN NoPeer ELSE peers[BaseOf[i]]

(* owning_peer: a list that cannot be read counts as no owner.               *)
Start(f, i) ==
    \/ /\ fetch' = [fetch EXCEPT ![f] = [NoFetch EXCEPT !.pc = "get", !.iri = i,
                                                        !.peer = OwningPeer(i)]]
       /\ UNCHANGED faults
    \/ /\ FaultLeft
       /\ faults' = faults + 1
       /\ fetch' = [fetch EXCEPT ![f] = [NoFetch EXCEPT !.pc = "get", !.iri = i]]

(* GET /resolve of an IRI that is not cached, or with refresh=true.          *)
Resolve(f, i) ==
    /\ f # Worker
    /\ fetch[f] = NoFetch
    /\ ResolveLeft
    /\ resolves' = resolves + 1
    /\ Start(f, i)
    /\ UNCHANGED <<sqlVars, graph, admin, announced, batch, dropped, missed>>

(* Fault: newest first.                                                      *)
DueRowsNewest == SubSeq(Reverse(due), 1, IF Len(due) < Batch THEN Len(due) ELSE Batch)

DueRows == SubSeq(due, 1, IF Len(due) < Batch THEN Len(due) ELSE Batch)

ResolverTick ==
    /\ batch = <<>>
    /\ fetch[Worker] = NoFetch
    /\ due # <<>>
    /\ batch' = DueRows
    /\ UNCHANGED <<sqlVars, graph, admin, announced, fetch, hist>>

ResolveNext ==
    /\ batch # <<>>
    /\ fetch[Worker] = NoFetch
    /\ Start(Worker, Head(batch))
    /\ batch' = Tail(batch)
    /\ UNCHANGED <<sqlVars, graph, admin, announced, dropped, missed, resolves>>

(* note_peer_contact, by id.                                                 *)
NoteContact(row, status) ==
    peers' = [b \in Base |-> IF Known(b) /\ peers[b].id = row.id
                             THEN [peers[b] EXCEPT !.status = status] ELSE peers[b]]

(* No connection, a timeout, an error status, or half a body.                *)
GetFails(f) ==
    /\ fetch[f].pc = "get"
    /\ Goto(f, "failed")
    /\ UNCHANGED <<sqlVars, graph, admin, announced, batch, hist>>

(* What stub_quads keeps of a document: the record at the IRI, if it is there. *)
StubQuads(i) == {{i}} \cup (IF i \in Silent THEN {{}} ELSE {})

(* The peer answered; its body may still not be Turtle.                      *)
GetAnswers(f) ==
    /\ fetch[f].pc = "get"
    /\ NoteContact(fetch[f].peer, "ok")
    /\ \/ Goto(f, "failed") /\ UNCHANGED missed
       \/ \E stub \in StubQuads(fetch[f].iri) :
            /\ fetch' = [fetch EXCEPT ![f].pc = "leftovers", ![f].stub = stub,
                                      ![f].todo = Also[fetch[f].iri]]
            /\ missed' = IF stub = {} THEN missed \cup {fetch[f].iri} ELSE missed
    /\ UNCHANGED <<minted, queue, due, graph, admin, announced, batch, dropped, resolves,
                   faults>>

MarkFailed(f) ==
    /\ fetch[f].pc = "failed"
    /\ Reschedule(fetch[f].iri, "failed")
    /\ fetch' = [fetch EXCEPT ![f].pc = "failed contact"]
    /\ UNCHANGED <<peers, minted, graph, admin, announced, batch, hist>>

NoteFailure(f) ==
    /\ fetch[f].pc = "failed contact"
    /\ NoteContact(fetch[f].peer, "error")
    /\ fetch' = [fetch EXCEPT ![f] = NoFetch]
    /\ UNCHANGED <<minted, queue, due, graph, admin, announced, batch, hist>>

(* Fault: only a stub that was fetched before is one to keep.                *)
IsTrackedResolved(i) == queue[i] = "resolved"

IsTracked(i) == Tracked(i)

(* Other records of the document are dropped, unless they are stubs too.     *)
CheckLeftover(f) ==
    /\ fetch[f].pc = "leftovers"
    /\ \E s \in fetch[f].todo :
         /\ fetch' = [fetch EXCEPT ![f].todo = @ \ {s},
                                  ![f].leftovers = IF IsTracked(s) THEN @ ELSE @ \cup {s}]
         /\ missed' = IF Tracked(s) THEN missed ELSE missed \cup {s}
    /\ UNCHANGED <<sqlVars, graph, admin, announced, batch, dropped, resolves, faults>>

Graph(f) == IF fetch[f].peer = NoPeer THEN Unknown ELSE fetch[f].peer.id

(* Fault: every fetch counts as the first.                                   *)
WasCachedNever(f) == FALSE

WasCached(f) == <<Graph(f), fetch[f].iri>> \in graph

AskCached(f) ==
    /\ fetch[f].pc = "leftovers"
    /\ fetch[f].todo = {}
    /\ fetch' = [fetch EXCEPT ![f].pc = "apply", ![f].cached = WasCached(f)]
    /\ UNCHANGED <<sqlVars, graph, admin, announced, batch, hist>>

(* One GraphTx: the subject and the leftovers out, the stub in.              *)
ApplyStub(f) ==
    /\ fetch[f].pc = "apply"
    /\ graph' = (graph \ ({Graph(f)} \X (fetch[f].leftovers \cup {fetch[f].iri})))
                  \cup ({Graph(f)} \X fetch[f].stub)
    /\ Goto(f, "track")
    /\ UNCHANGED <<sqlVars, admin, announced, batch, hist>>

Track(f) ==
    /\ fetch[f].pc = "track"
    /\ QueueResolve(fetch[f].iri)
    /\ Goto(f, "mark")
    /\ UNCHANGED <<peers, minted, graph, admin, announced, batch, hist>>

MarkResolved(f) ==
    /\ fetch[f].pc = "mark"
    /\ Reschedule(fetch[f].iri, "resolved")
    /\ fetch' = [fetch EXCEPT ![f].pc = "count"]
    /\ UNCHANGED <<peers, minted, graph, admin, announced, batch, hist>>

(* Fault: the row of the same base, whichever peer it is by now.             *)
IsFetchedPeerByBase(f, b) == Known(b) /\ BaseOf[fetch[f].iri] = b

IsFetchedPeer(f, b) == Known(b) /\ peers[b].id = fetch[f].peer.id

Capped(n) == IF n > MaxCount THEN MaxCount ELSE n

(* record_count, from the row read at the start.                             *)
SetRecordCount(f) ==
    /\ fetch[f].pc = "count"
    /\ peers' = [b \in Base |->
         IF IsFetchedPeer(f, b) /\ ~fetch[f].cached
         THEN [peers[b] EXCEPT !.count = Capped(fetch[f].peer.count + 1)] ELSE peers[b]]
    /\ fetch' = [fetch EXCEPT ![f] = NoFetch]
    /\ UNCHANGED <<minted, queue, due, graph, admin, announced, batch, hist>>

(* The graph store fails: the error is returned as it is.                    *)
StoreFails(f) ==
    /\ fetch[f].pc = "apply"
    /\ FaultLeft
    /\ faults' = faults + 1
    /\ fetch' = [fetch EXCEPT ![f] = NoFetch]
    /\ UNCHANGED <<sqlVars, graph, admin, announced, batch, dropped, missed, resolves>>

(* A statement whose result is ignored (`let _ =`) fails.                    *)
StatementFails(f) ==
    /\ FaultLeft
    /\ faults' = faults + 1
    /\ \/ fetch[f].pc = "failed" /\ Goto(f, "failed contact")
       \/ fetch[f].pc = "track" /\ Goto(f, "mark")
       \/ fetch[f].pc = "mark" /\ Goto(f, "count")
       \/ /\ fetch[f].pc \in {"failed contact", "count"}
          /\ fetch' = [fetch EXCEPT ![f] = NoFetch]
    /\ UNCHANGED <<sqlVars, graph, admin, announced, batch, dropped, missed, resolves>>

(* The process dies.                                                        *)
Crash ==
    /\ FaultLeft
    /\ faults' = faults + 1
    /\ admin' = [m \in Admin |-> NoAdmin]
    /\ announced' = [n \in Announcer |-> NoAnnounce]
    /\ fetch' = [f \in Fetcher |-> NoFetch]
    /\ batch' = <<>>
    /\ UNCHANGED <<sqlVars, graph, dropped, missed, resolves>>

FetchStep(f) ==
    \/ GetFails(f) \/ GetAnswers(f) \/ MarkFailed(f) \/ NoteFailure(f)
    \/ CheckLeftover(f) \/ AskCached(f) \/ ApplyStub(f) \/ Track(f) \/ MarkResolved(f)
    \/ SetRecordCount(f)

ResolverStep == ResolverTick \/ ResolveNext \/ FetchStep(Worker)

AdminStep(m) ==
    \/ \E b \in Base : \E others \in SUBSET (Base \ {b}) : BeginAdd(m, b, others)
    \/ \E b \in Base : BeginRemove(m, b)
    \/ UpsertPeer(m) \/ LookUpSuggestion(m) \/ PutSuggestion(m)
    \/ DropGraph(m) \/ DeletePeer(m) \/ AbandonAdmin(m)

Next ==
    \/ \E m \in Admin : AdminStep(m)
    \/ \E n \in Announcer, b \in Base : BeginAnnounce(n, b)
    \/ \E n \in Announcer : RecordAnnouncement(n)
    \/ \E i \in Resolvable : Cite(i) \/ ComeDue(i)
    \/ \E f \in Reader, i \in Resolvable : Resolve(f, i)
    \/ \E f \in Reader : FetchStep(f)
    \/ ResolverStep
    \/ \E f \in Fetcher : StoreFails(f) \/ StatementFails(f)
    \/ Crash

Spec == Init /\ [][Next]_vars

(* The resolver's timer ticks and its requests have a timeout.               *)
FairSpec == Spec /\ WF_vars(ResolverStep)

-----------------------------------------------------------------------------
(***************************************************************************)
(* Properties.                                                             *)
(***************************************************************************)
Removing(id) == \E m \in Admin : admin[m].pc = "drop" /\ admin[m].row.id = id

(* A tracked stub is kept until its peer is removed or its own document says  *)
(* nothing of it any more: no fetch that fails loses it, and no fetch of      *)
(* another document, at the same time, that happens to describe it            *)
(* ("unless it is a stub the resolver tracks in its own right, which its own  *)
(* refresh keeps") -- unless that fetch had asked before it was tracked, and  *)
(* deletes after.                                                            *)
StubsKept ==
    [][\A x \in graph : Tracked(x[2]) =>
          x \in graph' \/ Removing(x[1]) \/ x[2] \in missed]_vars

(* "A refresh is not a new record; counting it again would inflate": a peer's *)
(* record_count never exceeds the stubs that were fetched into its graph,    *)
(* whatever fetches of the same and of other IRIs overlap, unless its        *)
(* removal was begun or a record of it was missed: the document at its IRI   *)
(* said nothing of it, or another fetch took it for a leftover.              *)
Countable(b) ==
    /\ Known(b) /\ peers[b].id \notin dropped
    /\ \A i \in missed \cap Resolvable : BaseOf[i] # b
RecordCountNotInflated ==
    \A b \in Base : Countable(b) =>
        peers[b].count <= Cardinality({x \in graph \ CachedAtStart : x[1] = peers[b].id})

(* A peer keeps its id until it is removed, although adds of one base and     *)
(* announcements of it may overlap and each bring an id of their own: the     *)
(* cached graph, the queue and the peer's URL are named by it.               *)
PeerIdStable ==
    [][\A b \in Base : Known(b) /\ peers'[b] # NoPeer => peers'[b].id = peers[b].id]_vars

(* "a background worker fetches a stub afterwards": every IRI that is queued  *)
(* is fetched, however many others come due and fail again meanwhile.        *)
QueuedAttempted == \A i \in Iri : queue[i] = "pending" ~> queue[i] # "pending"
=============================================================================
