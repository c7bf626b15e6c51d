# Tool & Artifact Registry: a verification development

TLA+ models of the registry in `src/`, TLC runs that check them on small
instances, and TLAPS proofs of the results that matter most. Every definition is
translated from the Rust source; `PROJECT.json` maps each to its lines, and lists
the runs, the mutants that show each property can fail, the findings, the hazards
and the theorems.

## 1. The system

The registry is one process (axum on tokio) with two stores that do not share a
transaction: an RDF **graph store** (embedded Oxigraph, or a remote SPARQL
endpoint), which holds what the registry says about the world, and an SQLite
**operational database**, which holds keys, claims, queues, peers, subscriptions
and credentials. Handlers are tasks that await once per SQL statement and once per
use of the graph store; other tasks run between any two awaits, and a handler is
dropped when its connection closes. Four loops run beside the handlers: the
resolver, the delivery worker, the health checks and the forge poller
(`main.rs:190`).

| Component | State it keeps | Operations | What makes it correct |
|---|---|---|---|
| Advertisement ingest (`api/advertise.rs`, `api/openlineage.rs`) | `run_keys`, `artifact_keys`, `advertise_idem`, the graph | advertise produced or consumed, OpenLineage ingest | one Run per CI attempt; a retry neither duplicates nor loses a link; records exist for what is linked |
| Subscriptions (`api/subscriptions.rs`, `ops/subscriptions.rs`) | `subscriptions`, `subscription_deliveries` | create, patch, delete, enqueue, the delivery worker, pull, ack | each match is queued once; rows die only by their own failures; what was delivered is not sent again; cursors skip nothing |
| Federated search (`api/search.rs`, `ops/federation.rs`) | `federation_seen` per registry, the legs in flight | search, claim, re-check, fan-out, timeout, join, sweep | a registry takes a query on once; hops and time are bounded; what was taken on is in the answer |
| Peers and stubs (`api/peers.rs`) | `peers`, `resolve_queue`, one graph per peer | add, announce, remove, resolve, the resolver loop | tracked stubs survive refreshes; counts match graphs; what is queued is attempted |
| Software, releases and forge (`api/software.rs`, `domain/software.rs`, `domain/forge.rs`) | Software and release records, `repository_stats` | PATCH, withdraw, release, sync from GitHub, the poller | edits are not lost unless writers overlap; numbers shown are of the repository shown |
| Instances (`api/instances.rs`, `domain/instance.rs`) | Instance records | create, PATCH, withdraw, capability, PUT /instances/self | find-or-create makes one record; what is stated stands |
| Health checks (`health.rs`) | health of an Instance | probe, record | the verdict becomes one about the endpoint that is served |
| Rate limiter (`ratelimit.rs`) | buckets, blocked addresses, in memory | judge, charge, block, sweep | limits hold under concurrency, also for the requests a tool call makes |
| Credentials (`auth/`, `api/tokens.rs`) | token rows; the cache of signing keys, in memory | verify, revoke, fetch keys | a revoked token does not act; a rotated key is picked up, a withdrawn one expires |
| MCP server (`mcp/`) and the routes behind it | nothing | answer, gate a tool, run it as further requests | the gates say what the handlers say |
| Bundles and migrations (`bundles.rs`, `seed.rs`) | bundle graphs and their digests, the local graph | sync, adopt the retired vocabulary, class the types | what serves has the bundles of its build; no term is lost or doubled |
| Rebase (`rebase.rs`) | both stores, a snapshot file | rewrite a base IRI, restore | a crash and a rerun leave one base, and no advertisement is applied twice |
| Start-up (`main.rs`, `state.rs`) | nothing | boot, serve, stop | memory is lost and the stores are not |
| Graph store (`store/`), operational database (`ops/mod.rs`) | quads, tables | one transaction or statement at a time | the atoms of every other model |
| Artifacts, runs, vocabulary, types, keywords | records | reads, single transactions | projections |
| SHACL, RDF building, negotiation, rendering, llms.txt, frontend | none | pure functions | not modelled |

How they interact: a request passes the limiter and the credential check, then its
handler; a tool call is a request whose handler makes more of them through the same
router. An advertisement writes its keys and claims, commits the graph, then hands
the artifacts to the subscriptions (`notify_advertised`); a reference to a foreign
IRI goes to the resolve queue, which the resolver drains; search reads the peers and
the graph; an Instance is checked against its Software when it is written. The
loops share nothing with the handlers but the two stores, and start-up and rebase
run on the same stores while nothing serves.

Where it is hard: everything is read-then-write over two stores without a common
transaction. The hazards (in `PROJECT.json`, at their lines) are the interleavings
at each await, requests that die between SQLite and the graph, records written back
from an older reading, batches read by a loop and used later, caches filled by the
slower of two fetches, starts and moves that are interrupted, and timeouts that race
answers across registries.

## 2. Modules

One module per component; an MC module gives its constants values; a Proofs
module holds its theorems.

| Module | Models | Correspondence |
|---|---|---|
| `Advertise` | `advertise`, `ingest`, `ensure_run`, `update_run_outcome`, the key and claim statements of `ops/mod.rs`, `GraphTx` | `pc` is the await a request has reached; `tx` is its `GraphTx`; `runKeys`, `artifactKeys`, `claims`, `resolveQueue` are the tables; `graph` the committed records, links and statuses. `RememberRun`/`RememberArtifact` are the `INSERT OR IGNORE`s, `ClaimAdvertisement` the claim, `Commit` the store's apply, `Notify` and `Answer` what follows it, `Abort` every `?`, cancelled handler and crash; `before`, `acked`, `notified` are history |
| `Delivery` | what the delivery queue promises | an abstract specification: each match is queued, posted, delivered or buried, re-armed, forgotten |
| `Subscriptions` | `api/subscriptions.rs` and `ops/subscriptions.rs` | `subs`, `deliveries` are the tables; `ready` and `waiting` are the rows ordered by `next_attempt_at`, due or not yet (`InOrder` ranks a set of rows by their number, `Only` keeps a set of them in the order they are in); `wpc`, `batch`, `value` are the worker's place in `deliver_due`/`mark_failed` and the number it last read; `doing` is the statements an owner's request still has to run; `pulling` a pull between its awaits; `matched`, `lost`, `tries`, `raced`, `pulled`, `asked` are history. `AsDelivery` maps the rows to those of `Delivery` |
| `FedSearch` | `search`, `fetch_peer`, `claim_query`, `parse_path` on every registry of a federation | a leg is the path of a request from the origin; its record has the hops, budget and path it carries and how far its handler is. `Tick` is the clock of all timeouts |
| `Peers` | `api/peers.rs`, the resolve queue and peer rows of `ops/mod.rs` | `peers`, `queue` are tables, `due` the rows the resolver's SELECT returns, in its order; `graph` the (graph, subject) pairs of stubs; `fetch`, `admin`, `announced` are calls in progress; `missed` is history |
| `Software` | PATCH, withdrawal, releases, sync and the poller on one record | `software`, `withdrawn`, `syncStatus` are its triples, `stats` its row of `repository_stats`; `edit` the requests between two uses of the store, with the record as each read it; `pollOf` the poller's question to GitHub; `revision`, `wanted`, `overlapped` are history |
| `Instances` | `api/instances.rs`, `domain/instance.rs`, `health.rs`; extends `Software`, whose `deployable` it checks | `instance`, `gone`, `health` are the records; `call` the requests, `probes` the pass of the health loop; `turn`, `stated`, `crossed`, `raced` are history. `RecordsSpec` runs the two side by side |
| `Gateway` | `ratelimit::middleware`, `authenticate`, `keys_for`, token verification | `tat` is the GCRA time of each bucket, `block` the blocked addresses, `cache` the keys of each issuer, `phase` the issuer's own keys; a `task` goes from its address to its credential (through the token row or up to two fetches of keys), the note of a failure, the block, and the charge. `judged`, `handled`, `retiredAt` are history |
| `Mcp` | `mcp/tools.rs`, `call.rs`, `transport.rs`, the guards of the routes | extends `Gateway`; `catalogue` gives each tool's gate (`GateOf`) and the requests it makes (`CallsOf`), `Permits` what the route asks; a tool call puts its requests at the head of the task, which charges each |
| `Startup` | `bundles.rs`, the migrations of `seed.rs`, `rebase.rs`, restore | `mode` is the step of the start or command, one transaction each; `bundleGraph`, `recorded`, `local`, `legacy` are graphs, `token`, `runKeys`, `idem` tables; `snapshot` is the files of the rebases since the local graph was last whole, each named for its time, so that none overwrites another (`rebase.rs:204`); in a rebase `arg` holds the old base and the quads that were read; `torn`, `rolledBack`, `astray`, `newest`, `lent` are history; what peers' graphs class is chosen where a start reads it (`Foreign`). `Stop` may come between any two |
| `Process` | `main.rs` | composes `Startup` and `Mcp`: requests are served in mode `serving` only, and a stop or restore loses what `Gateway` keeps in memory (`FreshMemory`) but not the stores |
| `AdvertiseProofs`, `SubscriptionsProofs`, `FedSearchProofs`, `PeersProofs`, `RecordsProofs`, `ProcessProofs` (of `Startup`), `McpProofs` (of `Gateway` and `Mcp`) | theorems | see section 4 |

Data is abstracted to what the properties tell apart: an artifact record is its
IRI, a producer's description a model value, a filter the set of events it matches,
a peer's document the records it describes, a search hit the registry it came from,
a record the fields its writers disagree on, a bundle its terms and the base they
are written with, a JWT the claims the code looks at. Time in `Subscriptions` and
`Peers` is the order in which rows come due; in `FedSearch` and `Gateway` it is a
discrete clock, since budgets, periods and cache lives are computed with.

Definitions marked `Fault:` are deliberately wrong variants of the definition
below them, used to show that a property can fail; no specification uses them.

### Plan

Done, in the order of how much of the system's own logic a module carries:
Advertise, Subscriptions, FedSearch, Peers; the records (Software, Instances); the
process (Gateway, Mcp, Startup); Delivery as the abstract queue. Left:

1. Advertise composed with Subscriptions: a committed artifact is in the queue of
   whoever it matches.
2. Pure definitions against a reference: filter matching, merging of duplicate
   hits, keyword and type acceptance, SHACL.

## 3. Runs

Deadlock is not checked in any run: every run bounds the number of requests, and
with the last of them answered and nothing due the process is idle.

### Passing

| Run | Properties | Instance |
|---|---|---|
| `advertise_race` | `TypeOK`, `AckedLinksAccounted`, `RecordsAccounted`, `RunPerInstance`, `ForeignReferencesQueued`, `OneRunPerKey`, `SingleStatus`, `RetryIdempotent` | three requests, two at a time, one death, two Instances, the bodies of `RaceBodies` |
| `advertise_live` | `AckedLinksLand` | two requests with any body, one death, fair |
| `subscriptions_queue` | `EveryMatchQueuedOnce`, `DeadIsEarned`, `ImplementsDelivery` | one webhook, two advertisements, the worker, one PATCH of five kinds or a DELETE, one crash or failed statement |
| `subscriptions_pull` | `PulledBeforeAcked`, `RemainingTellsMore`, `QuotaOverrunBounded` | no subscription at first, two creators at a quota of one, an advertisement, two pulls with pages of one row, a cursor of the subscriber's own |
| `subscriptions_live` | `DueRowsSettle` | two webhooks, batches of one row, one fault, fair |
| `fed` | `HandledOnce`, `RefusedElsewhereCovered`, `HopsRespected`, `ResponsiveNotTimedOut`, `OriginAnswers` | a full mesh of three with different hop maxima and time budgets, one unresponsive, sweeps, an overhead that meets `EnoughTime`, fair |
| `peers_fetch` | `StubsKept`, `QueuedAttempted` | one peer with three records, one of them left by an earlier fetch, one whose document may be silent on it; the resolver, and one GET /resolve or one fault (`MaxDisturbances` = 1), fair |
| `peers_admin` | `RecordCountNotInflated`, `PeerIdStable` | two bases, an administrator, an announcer, the resolver, one crash, dead request or failed statement |
| `records` | `EditsStand`, `NumbersAreOfTheRepo`, `OneRecordPerDeployment`, `StatementsStand`, `PollerCatchesUp`, `HealthCatchesUp` | three requests about the software of which a sync makes sense, or three about its deployments, or two and one, two at a time; the poller and the health loop; a shared credential and one of its own, both OIDC clients; fair |
| `process` | `FailuresBounded`, `CurrentKeyAccepted`, `CredentialsExpire`, `BurstRespected`, `ToolsMirrorHandlers`, `BundlesCurrent`, `TermsSurvive`, `TermsClassed`, `AppliedOnce` | two builds, two bases, two bundles, one of which has a term of the registry in the second build only, a peer that may class that term, up to five starts; in steady starts up to five requests of one address, two at a time, or any tool by any of ten callers |

What the newer ones show. `subscriptions_queue` checks the refinement: each
statement of the worker, the owner, the notifier and the pull is a step of
`Delivery` or none, whatever the worker's batch was read from before; so a POST is
of a row that was queued, a delivered row is not sent again, also after a resume,
and a row goes only with its subscription (SQLite's cascade). The refinement says nothing
of the POST of a row that was deleted since its batch was read: such a POST maps to a
stutter, as the row is no longer in the queue.
`records` explores every order of two writers of one record at each use of the
store, with a sync that spans GitHub's answer and an announcement that looks, loads,
checks and writes. `process` puts a stop between any two transactions of a start or
a move and lets another build or base be configured after it; the requests it
serves in between exercise the limiter, the cache of keys and the gates.

Why these bounds are enough: every hazard here needs two actors and one death or
two, and each await is an action, so two requests in flight already meet in every
order; batch and page sizes of one or two make a row wait for another; the peer
graph holds cycles and two routes of unequal length; two builds and two bases with
three starts give every interrupted upgrade, and a return to the first. Requests
and interrupted starts are studied in separate starting points of `process`
(`Apart`), since they share nothing but the mode. Each property of a passing run
has a mutant in `PROJECT.json`, the change of one mapped definition a plausible bug
would make, under which the same run fails: so the bounds reach the states the
property is about.

Symmetry (over requests in `advertise_race`; over advertisements and, in
`subscriptions_pull`, creators, pullers, subscriptions and events; over tasks in
`process`) is used only where the run has no liveness property and no constant
distinguishes the values.

Bounds by name: `MaxInFlight`, `MaxAborts` (Advertise); `MaxSeq`, `MaxPatches`,
`MaxPulls`, `MaxFaults` (Subscriptions); `MaxIds`, `MaxCount` (where the count
saturates), `MaxResolves`, `MaxFaults`, `MaxDisturbances` (the two together)
(Peers); `MaxReleases`, `MaxEdits` (Software); `MaxCalls`, the size of `Inst`
(Instances); `requests` and `until` of a `Setup` (Gateway); `boots`, `moves` and
`ads` of a `Start` (Startup).
`MaxPerInstance`, `MaxAttempts`, `SuspendAfter`, `Batch`, `PageLimit`, `MaxPeers`,
`MaxHops`, `Margin`, `MinUseful`, `HealthBatch`, `Limit`, `AuthFail`, `Ttl` are
settings of the code with small values; `Patience` is the longest a request lasts.

### What the code does not promise

Several properties hold only up to a race the code leaves open. They are stated
with the exception, which a history variable makes precise, so that they fail for
anything else:

- `OneRunPerKey` and `SingleStatus` except requests that **overlap** (`before[r]` is
  what was at rest when `r` arrived): the Run is looked up and minted in two awaits
  (`advertise.rs:108`), so two overlapping first requests of one CI attempt commit
  two Runs, and an outcome that commits before the Run it attaches to leaves it two
  statuses (`advertise.rs:262`).
- `RecordsAccounted` counts a record still in a request's transaction: subscribers
  can be told of an artifact another request has minted and not committed
  (`advertise.rs:218`).
- `DeadIsEarned` except a subscription in `raced`: a resume that runs between the
  worker's read of a number and its use of it (`ops/subscriptions.rs:621-678`)
  re-arms a row that is buried all the same.
- `QuotaOverrunBounded` instead of the quota itself: count and insert are two
  statements (`api/subscriptions.rs:279`).
- `RemainingTellsMore` instead of an exact count: `remaining` is a difference of
  sequence numbers that other subscriptions share (`api/subscriptions.rs:446`).
- `StubsKept` and `RecordCountNotInflated` except records in `missed`: those a
  fetch took for leftovers while they were not tracked (`peers.rs:311`), and those
  whose own document says nothing of them, which every refresh counts anew
  (`peers.rs:342`).
- `HandledOnce` except registries whose row a sweep deleted.
- `EditsStand`, `StatementsStand` and `OneRecordPerDeployment` except records whose
  writers overlapped (`overlapped`, `crossed`, `raced`): no handler checks that what
  it read is still there (`software.rs:412`, `instances.rs:322`, `:462`). The
  connection of a Software to GitHub is not covered: a PATCH that does not name it
  drops it, since `software_in_from` leaves `sync` out, although the comment there
  says everything else stands (`software.rs:228`).
- `FailuresBounded` counts what was admitted before a block fell: limiter and block
  table are two locks (`ratelimit.rs:443`). A task that was refused in one period and
  blocks in a later one overwrites that period's block by its own, shorter one, and
  all other tasks may get in again; hence the square of the number of tasks. (With
  three tasks TLC finds a run past the bound that leaves these out; the bound stated
  holds for any number, section 4.) In steady state an address gets about two
  evaluations per period, one that spends and one that blocks.
- `CredentialsExpire` gives a withdrawn key one life of the cache after the slowest
  fetch that still saw it, and `CurrentKeyAccepted` asks nothing of a key published
  after the request arrived.
- `BundlesCurrent` except a return to an earlier build or base after an interrupted
  start: the recorded digest is then the right one for a graph that is not
  (`bundles.rs:317`). Its assumption that no build goes back to a bundle an earlier
  one had replaced is the same exception for upgrades.
- `TermsClassed` says that a term has a concept class in some graph, not that the list
  of types offers it: `class_existing_types` leaves a term to the bundle or the peer's
  graph that classes it (`seed.rs:146`), and the list then has it only under the
  registry's own `/type/` prefix or when something cites it (`types.rs:216`). The class
  in a peer's graph is what the start found (`lent`): a term that has only that one is
  without a class from the removal of the peer to the next start, so that no record
  may cite it and registering it again is refused (`types.rs:114`; the model lets that
  through). Which concept class a
  bundle gives is not told apart.
- `ToolsMirrorHandlers` for credentials that are not bound to a Software: one that is
  passes the gate of `register_instance` and is refused by the handler when the body
  names another Software (`instances.rs:191`).
- `TermsSurvive` and `AppliedOnce` except what was written while a rebase had left
  the local graph empty (a remote store that runs the two halves of an update
  apart) or the two stores under different bases.

Other behaviour the models show and no property is about: the worker posts the
rest of its batch after suspending the subscription (`api/subscriptions.rs:774`);
an announcement that overlaps an add turns the active peer back into a suggestion
(`peers.rs:189`); a fetch that began before its peer was removed stores into the
dropped graph after it (`peers.rs:222`); an IRI fetched before and after the adding
of its registry has a stub in two graphs (`peers.rs:326`); a path that exceeds its
cap loses its latest registries, which may then be asked again and refuse
(`search.rs:93`); a duplicate refused by a registry that took the query on by a
longer path may leave a subtree unasked and `partial` false (`search.rs:284`); a
PATCH of an Instance erases its health and takes a tombstone away, and the
announcement of a withdrawn one that names a client brings its record back
(`instances.rs:322`); the capability of one's own Instance is refused by the gate
of the tool although the handler, where authority is meant to be decided
(`tools.rs:70`), would allow it; vocabulary is checked for read tools too (`guard_vocabulary`); the
extractor of an optional credential does fail, against the comment at
`auth/mod.rs:210`; a restart forgets blocks, buckets and keys; a term that a later
bundle ships stays in the local graph as well; the retired vocabulary graph is not
rewritten by a rebase; restore adds to what is there.

### Where the code and its documentation disagree

Each of these runs checks one property taken from a comment or a document of the
repository, and ends in a counterexample; `PROJECT.json` quotes the line.

| Run | What happens |
|---|---|
| `advertise_lost_lineage` | a retry finds the claim of a request that died and reports a link nobody writes |
| `subscriptions_unsigned` | a POST between the statements that set webhook and secret is unsigned |

### Fairness

`advertise_live`: weak fairness of every request's next await, which is tokio
polling a ready task; nothing is assumed of arrivals, refusals or deaths.
`subscriptions_live`: weak fairness of the worker, whose interval timer ticks and
whose POSTs have a timeout, and of time (`BackoffElapses`); whether a POST succeeds
is free, and nothing is assumed of the other tasks. `fed`: weak fairness of
the clock and of the handlers of responsive registries; an unresponsive one need
never answer, and its caller's timeout is what ends the wait. `peers_fetch`: weak
fairness of the resolver loop, whose timer ticks and whose requests have a timeout.
`records`: weak fairness of every request's next use of the store, of the poller
and of the health loop, whose timers tick and whose requests have timeouts; GitHub
and an endpoint may fail every time, which is an answer too. Nothing is assumed of
new requests, so the two liveness properties are about the time after the last one.

## 4. Proofs

Assumptions are the named ASSUMEs of the modules, which TLC evaluates in every run:

- `PayloadAssumption`: the shapes of bodies, and absent values are told apart from
  present ones. `AdapterAssumption`: the OpenLineage adapter always brings a key and a
  status. `IriAssumption`: minted IRIs are not caller-supplied ones (they are fresh
  UUIDs under the registry's own base), and no IRI is both local and foreign.
  `BoundAssumption`: the bounds are numbers.
- `InstancesAssumption`: instance IRIs are numbered.
- `SoftwareAssumption`: the shapes of software bodies; no text, repository or connection
  is the value a client clears a field with.
- `SubscriptionAssumption`: the shapes of subscriptions and PATCH bodies, and the value
  for none is none of theirs. `LimitAssumption`: batches and the retry limits are
  positive (`RetryPolicy::from_env` clamps the latter).
- `FedAssumption`: the peers of a registry are registries, and every registry has a
  positive timeout. One theorem has `EnoughTime` as a hypothesis besides (below).
- `PeerAssumption`: ids, base URLs, IRIs and the value for none are told apart; what is
  cited can be resolved, and the cited and the cached IRIs are finitely many; a
  cached IRI is under the base of a peer known at the start.
- `QuotaAssumption`: the sets of creators and of subscriptions there are at the
  start are finite, and these are within what the check lets through.
- `StartupAssumption`: no build returns to what a bundle was before an earlier one
  changed it. `StartAssumption`: a version series is not a term, no base is the
  value for none, and the graphs a process starts from are of their type.
- `GatewayAssumption`: bursts, periods and the life of the key cache are positive
  (`Quota::with_period` and `allow_burst` take nothing else), a claim names a key, and
  the requests being served are finitely many.
- `CallersAssumption`: tokens, JWTs, the bootstrap token and none are told apart; an
  address is no principal (`enum Key` of `ratelimit.rs` has a case for each); the
  bucket of failed credentials is of no class; a pinned key is not one the issuer
  rotates, since it is in the configuration.

`AdvertiseProofs` (any sets of requests, Instances, keys and bodies; any number in
flight and any number of deaths):

- `TypeCorrect`. The second half of `TypeOK`, that a task past the run lookup has
  a Run and one at the claim has an item, is what makes it inductive.
- `AcknowledgedLinksAccounted`. A link a request was answered for may have been
  claimed by another. The inductive invariant says that every claim's link is in the
  graph or in the transaction of a request that is in progress or dead, that what
  a request has done so far is claimed, and that answered links are claims; a commit
  moves a transaction into the graph before the request stops carrying it, and
  nothing removes a link.
- `EndpointsAccounted`. Likewise for records: an IRI a request holds, a key row
  names, a claim mentions or a subscriber was told has a record in the graph or in
  a transaction not yet applied.
- `RunsNotShared`. The Run of a key row or of a request was minted by a request of
  the same Instance; a task that attaches takes it from the row of its own key and
  Instance, and one that mints is its own witness.
- `NoSecondRun`. Once the request that minted a Run has gone past `RememberRun`
  alive, and so in particular once the Run is in the graph, the key's row is there
  and stays; a request that arrived after such a one was at rest finds the row and
  attaches. The invariant adds that nobody else's transaction carries a Run and
  that `before` holds only requests at rest.
- `ForeignAlwaysQueued`. `NamedInv`: every foreign IRI that a task, a transaction, the
  key table or a link names is in the queue or described by a peer. A lookup that
  answers "known" does so because of a link, whose artifact is queued already; the
  records in the graph are of minted artifacts only.
- `StatusAlwaysSingle`. `StatusInv`: a transaction gives its own Run one status and
  replaces what is there unless it mints the Run; a status in the graph came from a
  task past its commit; who uses a Run overlaps its minter or came after its end.
  So only a minter that commits after a user adds a second one.
- `RepeatChangesNothing`. `Traced` says of a task that its Run and its links can be read
  off the key tables and its body. A request nobody overlaps is `Traced` at every
  step, as nobody writes between its lookups and its rows; rows are never changed
  (`RowsStay`), so a repeat that arrives after its answer finds each of them and is
  `Traced` too, whatever others do: same Run, same links, every claim taken.

`SubscriptionsProofs` (any numbers of creators, advertisements, owners, pullers,
subscriptions, rows, attempts, faults and crashes; any policy and page size):

- `TypeCorrect`.
- `MatchesAlwaysQueuedOnce`. `MatchInv`: a match is of a subscription that is gone, or
  lost with a failed insert, or still to be inserted, or in a row; `RowsInv`: no two
  rows are of one match, which `INSERT OR IGNORE` keeps although two advertisements
  insert it at once.
- `DeadAlwaysEarned`. `QueueInv`: the unsettled rows are those of the two queues, each
  in one place; `BatchInv`: what the worker took with its batch stays true of the rows
  that are still there, and nobody else settles a row; `AttemptsInv`: no row
  claims more attempts than it was POSTed, at each of the worker's stages, but for
  subscriptions a resume overtook.
- `QueueIsDelivery`. Each action maps to one step of `Delivery` or to a stutter: what is
  needed of the state is `RowsInv`, `BatchInv` (a row is POSTed while it is queued) and
  `FreshInv` (a row that is not there has not been POSTed). The queues are not
  in the mapping, so ordering, due times and batches drop out of it.
- `AckNeverSkips`. `CursorInv`: the rows of a subscription up to its cursor, or up to the
  one a page is about to return, were shown or named, in every order of two pulls; the
  set of what was shown only grows.
- `RemainingAlwaysTrue` follows from the type of a pull and the row it read last.
- `QuotaOverrun`. `QuotaInv` counts, per instance, subscriptions and creators that passed
  the check; only the last to pass can find one place, so a bound on the sum is
  inductive where one on the count is not.

The queues are defined by rank (`InOrder`) and not by recursion, and so sorting needs
no induction: a finite set of numbers is enumerated by how many lie below each.

`FedSearchProofs` (any registries, any peer graph, any settings):

- `TypeCorrect`.
- `HopsWithinMaximum`. The invariant bounds the hops a leg carries together with
  the length of the path behind it by the maximum of each registry on it; each
  registry clamps what it is granted before it forwards less one.
- `HandledAtMostOnce`. A registry that has handled the query has its row as long
  as it is not swept, and the claim is one statement.
- `RefusedAlwaysCovered`. A leg is `Live` if it and every leg before it but the first is
  waited for: what it carries can still reach the origin. `CoverInv`: for every registry
  that took the query on, some live leg holds its records, or is about to, or says that
  its answer is partial; and a leg that may still take on is live, or some live leg is
  partial. An answer moves what it carries to its caller; giving up on a leg makes its
  caller partial, which is live if the leg was; a handler that is dropped was not live.
  `WaitInv` (a leg that is waited for has a waiting caller) is what makes an answering
  handler the last live one on its route, and the origin's answer the only one left.
- `ResponsiveNeverTimedOut`. `PatienceInv`: a caller has more time left than a responsive
  peer may still spend on itself and on its own peers (`Needs`), which each tick, claim
  and fan-out keeps. It needs `EnoughTime`, the overhead of a registry being
  less than the margin, than `MIN_USEFUL_HOP_BUDGET` and than any timeout. The
  second is not spelled out in the code: a leg granted a budget between the two
  (250 ms and the 600 ms of `hop_margin`) still asks its peers, with nothing left to
  grant them, and gives up on those whose overhead is more than its budget.

`PeersProofs` (any registries, IRIs, documents and peers known at the start; any number
of requests, announcements, ids, faults and crashes):

- `TypeCorrect`. `RowInv`, which is proved with the types: every copy of a peer's row,
  in the table, on its way to it or read from it by a fetch, has an id of its base.
- `PeerIdAlwaysStable`. An upsert keeps the id of a base that is there, a contact note
  and a count keep it, and only a removal makes room for another.
- `StubsAlwaysKept`. `StubInv`: what a fetch is about to delete beside its stub was not
  tracked when it asked, and it writes the stub again or its document said nothing.
- `RecordCountNeverInflated`. `CountInv` speaks of every copy of a row, since a count that
  was read is written back later: for a peer nothing was taken from (`Sound`) no copy
  counts more stubs than its graph holds (`Honest`), and a fetch that will add one
  holds a stub its copy does not count (`Counting`). A step makes no peer `Sound` again
  and takes no stub from one that stays so (`SoundKeeps`, from `GraphInv` and `StubInv`),
  so copies nobody touches stay `Honest` while others fetch. The bound on the count
  (`MaxCount`) is not used beyond its being at most what is written.

`RecordsProofs` (any number of requests, records, repositories, credentials and
bodies):

- `EditsAlwaysStand`. `EditsInv` says of every request that holds a reading of the
  record: if nobody has written since, what it is about to write is what the record
  should say after it. A write makes every other reading old, so the condition on
  the others becomes void instead of having to be kept.
- `NumbersAlwaysOfTheRepo`. The numbers in the row are of the repository in the row
  or none; what is shown compares that repository with the record's.
- `StatementsAlwaysStand`. The same as the first, per Instance record, with `turn`
  for the revision; besides, one capability is linked, since a request that found
  one uses it again and one that found none is void once another has linked.
- `AlwaysOneRecord`. An announcement on its way to create a record found none of
  its credential and name; `Alone` and `Abreast` say that any such record there is
  now, or is about to be, was created by one that looked at the same time, or was
  written back from an old reading. IRIs in flight need not be distinct for this.

`ProcessProofs` (any number of builds, bases and bundles, stops and moves):

- `BundlesAlwaysCurrent`. A bundle that no start is in the middle of has the
  recorded digest; one that was left half written (`torn`) has, unless something
  was rolled back, the digest of an earlier build or base than one it was
  dropped for, and so is not skipped (`TornIsStale`, where the assumption about the
  builds is used). The theorem is about the whole process: a step of it is one of
  `Startup` or leaves its variables alone.
- `TermsAlwaysClassed`. `UsableInv`: no graph, and no file of a rebase, classes anything
  but terms, and from the classing step on each term of the local graph is classed in
  it, in a bundle's graph, or was in a peer's (`HeldClassed`). Bundles change only
  before that step, in the same start (`ClassesStay`), which is why a term left to a
  bundle need not stay without a class when a later build no longer has it.
- `TermsAlwaysSurvive`. `SurviveInv`: a term no bundle has keeps its last label in the
  local graph or the retired one, or, while the local graph is lost, in a file of
  a rebase that came after it was last whole (`Whole`, `TermKept`).
- `AlwaysAppliedOnce`. `OnceInv`: the runs the graph knows are in `idem`, under the base
  the two stores agree on, and each was written by one call.

`McpProofs` (any number of requests at once, credentials, addresses, keys, issuers and
limits; any tool, route and sequence of stops):

- `CredentialsAlwaysExpire`, `CurrentKeyAlwaysAccepted`. `CredentialInv`: an answer an
  issuer gave is not older than the request that waits for it (`Resolves`), which is
  not older than `Patience`; so a cached key set is stamped at most that long after a
  key of it was withdrawn (`KeysInv`), and is believed for less than `Ttl` from its
  stamp. A key that was published when the request came and still is (`Steady`) is
  in whatever answer the second round gets.
- `BurstAlwaysRespected`. `PaceInv`: a bucket is filled by one period for every request
  counted for its caller, and never further ahead of the clock than its burst. A sweep
  takes only buckets that have drained; the limit of a bucket is one, as an
  address has no credential and a principal is no address (`ChargedFairly`).
- `ToolsAlwaysMirror`. `CatalogueFits` goes through the tools: gate and handlers agree
  for any principal not bound to a Software, except for a deployment's own capability. `MirrorInv` adds
  that the calls left of a tool are those the gate was asked about, and that its
  caller stays the same.

- `FailuresAlwaysBounded`. `JudgedInv`, for each address, bounds what was judged by what
  the state keeps: the periods its bucket has been filled by (`Periods`), of which
  those from the burst on may each have begun a time without attempts (`Beyond`); and
  within such a time, the requests that may yet be refused (`Unresolved`), those
  whose block will last until the next attempt (`Lasting`), and those whose block
  would end before it and so cut a longer one short (`Brief`), each of which may let
  in all the others once. A time without attempts begins with a request that is not
  blocking anyone, so there are fewer `Brief` ones than tasks; in the first there
  are none, as nobody was refused before (`Stamped`, `FullAfterBurst`).

Only model-checked: liveness, which is out of the prover's reach. No module declares a
RECURSIVE operator.

## 5. Not modelled

Artifacts' read side, SHACL, RDF building, content negotiation, rendering, llms.txt,
the SPARQL proxy, API docs and the frontend: pure functions or reads, without state
of their own. In the modelled components: webhook URL validation, filter matching,
audit rows, local search and the merge of duplicate hits, the quads inside a record,
the fields GitHub fills besides a tagline, listings, principals bound to a Software,
expiry dates of tokens and signatures of JWTs (a claim is sound or not), the OAuth
metadata document, response headers, redirects of a previous base, the example data
of `tar seed`. A chunked bulk load of a bundle counts as none until it is complete,
which is what its digest says too; a registry that keeps its data in memory is not
modelled, since nothing of it outlives a stop.
