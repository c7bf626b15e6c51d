--------------------------- MODULE Subscriptions ---------------------------
(***************************************************************************)
(* Artifact subscriptions: the standing interests, the delivery queue one  *)
(* match writes a row to, the webhook worker that drains it, and the pull   *)
(* path that reads the same rows from a cursor.                            *)
(*                                                                         *)
(* Every SQL statement commits on its own and every handler awaits between  *)
(* two of them, so an action is one statement (with the synchronous code    *)
(* around it).  All handlers and the one worker task interleave.           *)
(*                                                                         *)
(* Time is the order of next_attempt_at: ready holds the rows whose time    *)
(* has come and waiting the others, both in the order the worker's SELECT   *)
(* would list them.                                                        *)
(***************************************************************************)
EXTENDS Naturals, Sequences, FiniteSets, SequencesExt

CONSTANTS
    Sub,            \* subscription ids, each used once
    Existing,       \* the subscriptions there are at the start, by id
    Instance,
    Event,          \* (artifact, role) pairs an advertisement can produce
    Filters,        \* the filters in use, each as the set of events it matches
    Creator, Notifier, Owner, Puller,   \* request tasks of each kind
    Patches,        \* the PATCH bodies that may arrive
    Cursors,        \* cursors a subscriber may send of its own accord
    None,
    MaxPerInstance, MaxAttempts, SuspendAfter, Batch, PageLimit,
    MaxSeq,         \* bound: delivery rows ever written
    MaxPatches,     \* bound: owner requests (PATCH and DELETE)
    MaxPulls,       \* bound: pull-path requests
    MaxFaults       \* bound: crashes, failed statements, dead requests

Rows == 1..MaxSeq
Stmt == {"filter", "hook", "no hook", "secret", "no secret",
         "enable", "disable", "resume", "rearm", "delete rows", "delete"}
Patch == [filter : Filters \cup {None}, hook : {"keep", "set", "clear"},
          rotate : BOOLEAN, enabled : {"keep", "on", "off"}, resume : BOOLEAN]

ASSUME SubscriptionAssumption ==
    /\ DOMAIN Existing \subseteq Sub
    /\ \A s \in DOMAIN Existing :
         Existing[s] \in [instance : Instance, filter : Filters, hook : BOOLEAN]
    /\ Filters \subseteq SUBSET Event
    /\ Filters # {}
    /\ Patches \subseteq Patch
    /\ Cursors \subseteq Nat
    /\ None \notin Instance \cup Filters \cup Sub
(* RetryPolicy::from_env clamps both limits to at least 1.                  *)
ASSUME LimitAssumption ==
    /\ {MaxAttempts, SuspendAfter, Batch, PageLimit} \subseteq Nat \ {0}
    /\ {MaxPerInstance, MaxSeq, MaxPatches, MaxPulls, MaxFaults} \subseteq Nat

(* The table at the start is one the same code wrote.                        *)
ASSUME QuotaAssumption ==
    /\ IsFiniteSet(Creator) /\ IsFiniteSet(DOMAIN Existing)
    /\ Creator # {} => \A i \in Instance :
         Cardinality({s \in DOMAIN Existing : Existing[s].instance = i})
             < MaxPerInstance + Cardinality(Creator)

VARIABLES
    (* SQLite *)
    live, subs,             \* table subscriptions
    deliveries, lastSeq,    \* table subscription_deliveries, AUTOINCREMENT
    ready, waiting,         \* its unsettled rows, by next_attempt_at
    (* tasks *)
    creating,               \* Instance whose quota check passed
    todo,                   \* matches an advertisement has yet to queue
    doing,                  \* statements an owner's request has yet to run
    pulling,                \* a GET .../deliveries in progress
    wpc, batch, value,      \* the worker: await, rows of this tick, last read
    (* history and bounds *)
    used, told, matched, lost, received, tries, raced, pulled, asked,
    patches, pulls, faults

store == <<live, subs, deliveries, lastSeq, ready, waiting>>
worker == <<wpc, batch, value>>
tasks == <<creating, todo, doing, pulling>>
hist == <<used, told, matched, lost, received, tries, raced, pulled, asked>>
bounds == <<patches, pulls, faults>>
vars == <<store, worker, tasks, hist, bounds>>

(***************************************************************************)
(* Rows.                                                                   *)
(***************************************************************************)
NoDelivery == [sub |-> None, event |-> None, status |-> "none", attempts |-> 0]
NoSub == [instance |-> None, filter |-> {}, hook |-> FALSE, secret |-> FALSE,
          enabled |-> FALSE, active |-> FALSE, failures |-> 0, cursor |-> 0]
NewSub(i, f, hook) ==
    [instance |-> i, filter |-> f, hook |-> hook, secret |-> hook,
     enabled |-> TRUE, active |-> TRUE, failures |-> 0, cursor |-> 0]

Present(q) == deliveries[q].status # "none"
RowsOf(s) == {q \in Rows : Present(q) /\ deliveries[q].sub = s}
Settled == {"delivered", "dead"}
OfInstance(i) == {s \in live : subs[s].instance = i}

Idle == [sub |-> None, filter |-> None, stmts |-> <<>>]
NoPull == [pc |-> "idle", sub |-> None, from |-> 0, upto |-> 0,
           remaining |-> 0, left |-> 0]

(* A set of numbers in increasing order, and the subsequence of the elements *)
(* in a set: by rank and not by recursion, so that proofs can use them.      *)
InOrder(S) ==
    [k \in 1..Cardinality(S) |-> CHOOSE n \in S : Cardinality({m \in S : m <= n}) = k]
Only(seq, S) ==
    LET at == InOrder({i \in DOMAIN seq : seq[i] \in S})
    IN [k \in DOMAIN at |-> seq[at[k]]]

Drop(rows) ==
    /\ ready' = Only(ready, Rows \ rows)
    /\ waiting' = Only(waiting, Rows \ rows)

Init ==
    /\ live = DOMAIN Existing
    /\ subs = [s \in Sub |->
                 IF s \in DOMAIN Existing
                 THEN NewSub(Existing[s].instance, Existing[s].filter, Existing[s].hook)
                 ELSE NoSub]
    /\ deliveries = [q \in Rows |-> NoDelivery]
    /\ lastSeq = 0
    /\ ready = <<>> /\ waiting = <<>>
    /\ creating = [c \in Creator |-> None]
    /\ todo = [n \in Notifier |-> {}]
    /\ doing = [o \in Owner |-> Idle]
    /\ pulling = [u \in Puller |-> NoPull]
    /\ wpc = "idle" /\ batch = <<>> /\ value = 0
    /\ used = live /\ told = {} /\ matched = {} /\ lost = {}
    /\ received = {} /\ raced = {} /\ pulled = {}
    /\ tries = [q \in Rows |-> 0]
    /\ asked = [s \in Sub |-> 0]
    /\ patches = 0 /\ pulls = 0 /\ faults = 0

(***************************************************************************)
(* POST /instances/{id}/subscriptions: the quota is counted in one          *)
(* statement and the row inserted in another.                               *)
(***************************************************************************)
(* Fault: the comparison lets one too many through.                          *)
HasRoomForOneMore(i) == Cardinality(OfInstance(i)) <= MaxPerInstance

HasRoom(i) == Cardinality(OfInstance(i)) < MaxPerInstance

CountForInstance(c, i) ==
    /\ creating[c] = None
    /\ HasRoom(i)
    /\ Sub \ used # {}
    /\ creating' = [creating EXCEPT ![c] = i]
    /\ UNCHANGED <<store, worker, todo, doing, pulling, hist, bounds>>

CreateSubscription(c) ==
    /\ creating[c] # None
    /\ \E s \in Sub \ used, f \in Filters, hook \in BOOLEAN :
         /\ live' = live \cup {s}
         /\ subs' = [subs EXCEPT ![s] = NewSub(creating[c], f, hook)]
         /\ used' = used \cup {s}
    /\ creating' = [creating EXCEPT ![c] = None]
    /\ UNCHANGED <<deliveries, lastSeq, ready, waiting, worker, todo, doing, pulling,
                   told, matched, lost, received, tries, raced, pulled, asked, bounds>>

(***************************************************************************)
(* The advertisement path.  Enabled subscriptions are read once and matched *)
(* in memory; each match is then one INSERT OR IGNORE, against the unique    *)
(* index on (subscription, artifact, role) and the foreign key.             *)
(***************************************************************************)
NotifyAdvertised(n, events) ==
    /\ n \notin told
    /\ told' = told \cup {n}
    /\ LET found == {m \in live \X events : subs[m[1]].enabled /\ m[2] \in subs[m[1]].filter}
       IN todo' = [todo EXCEPT ![n] = found] /\ matched' = matched \cup found
    /\ UNCHANGED <<store, worker, creating, doing, pulling, used, lost, received,
                   tries, raced, pulled, asked, bounds>>

(* Fault: no unique index.                                                    *)
QueuedNever(s, e) == FALSE

Queued(s, e) == \E q \in RowsOf(s) : deliveries[q].event = e

InsertDelivery(s, e) ==
    /\ lastSeq < MaxSeq
    /\ lastSeq' = lastSeq + 1
    /\ deliveries' = [deliveries EXCEPT ![lastSeq + 1] =
                        [sub |-> s, event |-> e, status |-> "pending", attempts |-> 0]]
    /\ ready' = Append(ready, lastSeq + 1)

Enqueue(n, s, e) ==
    /\ <<s, e>> \in todo[n]
    /\ todo' = [todo EXCEPT ![n] = @ \ {<<s, e>>}]
    /\ IF s \in live /\ ~Queued(s, e)
       THEN InsertDelivery(s, e)
       ELSE UNCHANGED <<deliveries, lastSeq, ready>>
    /\ UNCHANGED <<live, subs, waiting, worker, creating, doing, pulling, hist, bounds>>

(* An INSERT fails and is only logged, or the advertising request dies.      *)
LoseMatches(n) ==
    /\ faults < MaxFaults
    /\ faults' = faults + 1
    /\ \E gone \in SUBSET todo[n] :
         /\ gone # {}
         /\ todo' = [todo EXCEPT ![n] = @ \ gone]
         /\ lost' = lost \cup gone
    /\ UNCHANGED <<store, worker, creating, doing, pulling, used, told, matched,
                   received, tries, raced, pulled, asked, patches, pulls>>

(***************************************************************************)
(* The owner.  PATCH reads the subscription, decides which columns to write, *)
(* and subscriptions::update then runs one UPDATE per column in this order;  *)
(* resume and DELETE are two statements each.                                *)
(***************************************************************************)
HasHook(s, p) == p.hook = "set" \/ (p.hook = "keep" /\ subs[s].hook)
MintsSecret(s, p) == p.rotate \/ (HasHook(s, p) /\ ~subs[s].secret)

Statements(s, p) ==
    (IF p.filter # None THEN <<"filter">> ELSE <<>>) \o
    (CASE p.hook = "set" -> <<"hook">>
       [] p.hook = "clear" -> <<"no hook">>
       [] OTHER -> <<>>) \o
    (CASE MintsSecret(s, p) -> <<"secret">>
       [] p.hook = "clear" -> <<"no secret">>
       [] OTHER -> <<>>) \o
    (CASE p.enabled = "on" -> <<"enable">>
       [] p.enabled = "off" -> <<"disable">>
       [] OTHER -> <<>>) \o
    (IF p.resume THEN <<"resume", "rearm">> ELSE <<>>)

Begin(o, s, filter, stmts) ==
    /\ doing[o] = Idle
    /\ patches < MaxPatches
    /\ patches' = patches + 1
    /\ s \in live
    /\ doing' = [doing EXCEPT ![o] = [sub |-> s, filter |-> filter, stmts |-> stmts]]
    /\ UNCHANGED <<store, worker, creating, todo, pulling, hist, pulls, faults>>

(* A secret without a webhook to sign for is refused with 400.              *)
BeginPatch(o, s, p) ==
    /\ MintsSecret(s, p) => HasHook(s, p)
    /\ Statements(s, p) # <<>>
    /\ Begin(o, s, p.filter, Statements(s, p))

BeginDelete(o, s) == Begin(o, s, None, <<"delete rows", "delete">>)

(* The statement at the head of an owner's request.                         *)
Runs(o, stmt) ==
    /\ doing[o].stmts # <<>>
    /\ Head(doing[o].stmts) = stmt
    /\ LET rest == Tail(doing[o].stmts)
       IN doing' = [doing EXCEPT ![o] = IF rest = <<>> THEN Idle
                                        ELSE [doing[o] EXCEPT !.stmts = rest]]

Changed(s, stmt, filter) ==
    CASE stmt = "filter"    -> [subs[s] EXCEPT !.filter = filter]
      [] stmt = "hook"      -> [subs[s] EXCEPT !.hook = TRUE]
      [] stmt = "no hook"   -> [subs[s] EXCEPT !.hook = FALSE]
      [] stmt = "secret"    -> [subs[s] EXCEPT !.secret = TRUE]
      [] stmt = "no secret" -> [subs[s] EXCEPT !.secret = FALSE]
      [] stmt = "enable"    -> [subs[s] EXCEPT !.enabled = TRUE]
      [] stmt = "disable"   -> [subs[s] EXCEPT !.enabled = FALSE]
      [] stmt = "resume"    -> [subs[s] EXCEPT !.active = TRUE, !.failures = 0]

(* History: the resume of a subscription whose row the worker is between two *)
(* statements of.                                                            *)
Overtakes(s, at) ==
    IF wpc \in at /\ Head(batch).sub = s THEN raced \cup {s} ELSE raced

UpdateSubscription(o, stmt) ==
    /\ Runs(o, stmt)
    /\ LET s == doing[o].sub
       IN subs' = IF s \in live
                  THEN [subs EXCEPT ![s] = Changed(s, stmt, doing[o].filter)]
                  ELSE subs
    /\ raced' = IF stmt = "resume" THEN Overtakes(doing[o].sub, {"suspend"}) ELSE raced
    /\ UNCHANGED <<live, deliveries, lastSeq, ready, waiting, worker, creating, todo,
                   pulling, used, told, matched, lost, received, tries, pulled, asked,
                   bounds>>

(* Fault: resume puts every row back, delivered ones too.                    *)
RearmableAll(s) == {q \in RowsOf(s) : deliveries[q].status # "pending"}

Rearmable(s) == {q \in RowsOf(s) : deliveries[q].status \in {"dead", "failed"}}

(* Back to pending, due at the moment the request began, so possibly before  *)
(* rows queued since.                                                        *)
RearmDeliveries(o) ==
    /\ Runs(o, "rearm")
    /\ LET rows == Rearmable(doing[o].sub)
       IN /\ deliveries' = [q \in Rows |->
                IF q \in rows THEN [deliveries[q] EXCEPT !.status = "pending", !.attempts = 0]
                              ELSE deliveries[q]]
          /\ LET rest == Only(ready, Rows \ rows)
             IN \E i \in 0..Len(rest) :
                  ready' = SubSeq(rest, 1, i) \o InOrder(rows) \o SubSeq(rest, i + 1, Len(rest))
          /\ waiting' = Only(waiting, Rows \ rows)
          /\ tries' = [q \in Rows |-> IF q \in rows THEN 0 ELSE tries[q]]
    /\ raced' = Overtakes(doing[o].sub, {"failed", "mark"})
    /\ UNCHANGED <<live, subs, lastSeq, worker, creating, todo, pulling, used, told,
                   matched, lost, received, pulled, asked, bounds>>

(* ON DELETE CASCADE takes the rows that were queued since "delete rows".    *)
DeleteRows(s) ==
    /\ deliveries' = [q \in Rows |-> IF q \in RowsOf(s) THEN NoDelivery ELSE deliveries[q]]
    /\ Drop(RowsOf(s))
    /\ lost' = lost \cup {<<s, deliveries[q].event>> : q \in RowsOf(s)}

DeleteSubscription(o, stmt) ==
    /\ Runs(o, stmt)
    /\ LET s == doing[o].sub
       IN /\ DeleteRows(s)
          /\ IF stmt = "delete" /\ s \in live
             THEN live' = live \ {s} /\ subs' = [subs EXCEPT ![s] = NoSub]
             ELSE UNCHANGED <<live, subs>>
    /\ UNCHANGED <<lastSeq, worker, creating, todo, pulling, used, told, matched,
                   received, tries, raced, pulled, asked, bounds>>

(* A statement fails, or the owner's request dies between two of them.       *)
AbandonRequest(o) ==
    /\ faults < MaxFaults
    /\ doing[o] # Idle
    /\ faults' = faults + 1
    /\ doing' = [doing EXCEPT ![o] = Idle]
    /\ UNCHANGED <<store, worker, creating, todo, pulling, hist, patches, pulls>>

(***************************************************************************)
(* The delivery worker: one task, one batch per tick, one POST at a time.    *)
(***************************************************************************)
Active(s) == s \in live /\ subs[s].enabled /\ subs[s].active /\ subs[s].hook

(* next_attempt_at of the earliest waiting row comes.                        *)
BackoffElapses ==
    /\ waiting # <<>>
    /\ ready' = Append(ready, Head(waiting))
    /\ waiting' = Tail(waiting)
    /\ UNCHANGED <<live, subs, deliveries, lastSeq, worker, tasks, hist, bounds>>

(* Fault: rows that failed once are not selected again.                      *)
DueDeliveriesPending ==
    LET due == Only(ready, {q \in Rows : /\ Active(deliveries[q].sub)
                                         /\ deliveries[q].status = "pending"})
    IN SubSeq(due, 1, IF Len(due) < Batch THEN Len(due) ELSE Batch)

DueDeliveries ==
    LET due == Only(ready, {q \in Rows : Active(deliveries[q].sub)})
    IN SubSeq(due, 1, IF Len(due) < Batch THEN Len(due) ELSE Batch)

FetchDue ==
    /\ wpc = "idle"
    /\ DueDeliveries # <<>>
    /\ wpc' = "post"
    /\ batch' = [i \in DOMAIN DueDeliveries |->
         LET d == deliveries[DueDeliveries[i]]
         IN [seq |-> DueDeliveries[i], sub |-> d.sub, attempts |-> d.attempts,
             signed |-> subs[d.sub].secret]]
    /\ UNCHANGED <<store, value, tasks, hist, bounds>>

Current == Head(batch)
WorkerGoto(there) == wpc' = there /\ UNCHANGED batch
NextDelivery ==
    /\ batch' = Tail(batch)
    /\ wpc' = IF Tail(batch) = <<>> THEN "idle" ELSE "post"

(* A POST can reach the receiver and still fail: the answer is lost, late or *)
(* not a 2xx.                                                               *)
PostWebhook ==
    /\ wpc = "post"
    /\ tries' = [tries EXCEPT ![Current.seq] = @ + 1]
    /\ \/ WorkerGoto("delivered") /\ received' = received \cup {Current.seq}
       \/ WorkerGoto("failed") /\ received' \in {received, received \cup {Current.seq}}
    /\ UNCHANGED <<store, value, tasks, used, told, matched, lost, raced, pulled, asked,
                   bounds>>

(* mark_delivered: attempts comes from the batch, not from the row.          *)
MarkDelivered ==
    /\ wpc = "delivered"
    /\ LET q == Current.seq
       IN IF Present(q)
          THEN /\ deliveries' = [deliveries EXCEPT ![q].status = "delivered",
                                                   ![q].attempts = Current.attempts + 1]
               /\ Drop({q})
          ELSE UNCHANGED <<deliveries, ready, waiting>>
    /\ WorkerGoto("reset")
    /\ UNCHANGED <<live, subs, lastSeq, value, tasks, hist, bounds>>

SetFailures(s, n) == subs' = IF s \in live THEN [subs EXCEPT ![s].failures = n] ELSE subs

ResetFailures ==
    /\ wpc = "reset"
    /\ SetFailures(Current.sub, 0)
    /\ NextDelivery
    /\ UNCHANGED <<live, deliveries, lastSeq, ready, waiting, value, tasks, hist, bounds>>

(* mark_failed, statement by statement.                                      *)
ReadAttempts ==
    /\ wpc = "failed"
    /\ value' = deliveries[Current.seq].attempts + 1
    /\ WorkerGoto("mark")
    /\ UNCHANGED <<store, tasks, hist, bounds>>

(* Fault: gives up one attempt early.                                        *)
ExhaustedEarly == value + 1 >= MaxAttempts

Exhausted == value >= MaxAttempts

MarkFailed ==
    /\ wpc = "mark"
    /\ LET q == Current.seq
           status == IF Exhausted THEN "dead" ELSE "failed"
           rest == Only(waiting, Rows \ {q})
       IN IF Present(q)
          THEN /\ deliveries' = [deliveries EXCEPT ![q].status = status, ![q].attempts = value]
               /\ ready' = Only(ready, Rows \ {q})
               /\ IF Exhausted
                  THEN waiting' = rest
                  ELSE \E i \in 1..Len(rest) + 1 : waiting' = InsertAt(rest, i, q)
          ELSE UNCHANGED <<deliveries, ready, waiting>>
    /\ WorkerGoto("count")
    /\ UNCHANGED <<live, subs, lastSeq, value, tasks, hist, bounds>>

CountFailure ==
    /\ wpc = "count"
    /\ SetFailures(Current.sub, subs[Current.sub].failures + 1)
    /\ WorkerGoto("check")
    /\ UNCHANGED <<live, deliveries, lastSeq, ready, waiting, value, tasks, hist, bounds>>

CheckFailures ==
    /\ wpc = "check"
    /\ IF subs[Current.sub].failures >= SuspendAfter
       THEN WorkerGoto("suspend")
       ELSE NextDelivery
    /\ UNCHANGED <<store, value, tasks, hist, bounds>>

Suspend ==
    /\ wpc = "suspend"
    /\ subs' = IF Current.sub \in live THEN [subs EXCEPT ![Current.sub].active = FALSE]
                                       ELSE subs
    /\ NextDelivery
    /\ UNCHANGED <<live, deliveries, lastSeq, ready, waiting, value, tasks, hist, bounds>>

(* A statement of mark_delivered or mark_failed fails: logged, and the       *)
(* worker goes on to the next row.                                           *)
WorkerError ==
    /\ faults < MaxFaults
    /\ wpc \notin {"idle", "post"}
    /\ faults' = faults + 1
    /\ NextDelivery
    /\ UNCHANGED <<store, value, tasks, hist, patches, pulls>>

(***************************************************************************)
(* The pull path.  GET .../deliveries: load the subscription, read a page,   *)
(* read max_seq, then acknowledge if ack=true.  POST .../ack: one UPDATE.    *)
(***************************************************************************)
Larger(a, b) == IF a >= b THEN a ELSE b

BeginPull(u, s) ==
    /\ pulling[u].pc = "idle"
    /\ pulls < MaxPulls
    /\ pulls' = pulls + 1
    /\ s \in live
    /\ \/ /\ pulling' = [pulling EXCEPT ![u] = [NoPull EXCEPT !.pc = "page", !.sub = s,
                                                              !.from = subs[s].cursor]]
          /\ UNCHANGED asked
       \/ \E c \in Cursors :
            /\ pulling' = [pulling EXCEPT ![u] = [NoPull EXCEPT !.pc = "page", !.sub = s,
                                                                !.from = c]]
            /\ asked' = [asked EXCEPT ![s] = Larger(@, c)]
    /\ UNCHANGED <<store, worker, creating, todo, doing, used, told, matched, lost,
                   received, tries, raced, pulled, patches, faults>>

After(s, c) == {q \in RowsOf(s) : q > c}

(* Fault: newest first.                                                      *)
PageNewest(s, c) == {q \in After(s, c) : Cardinality({p \in After(s, c) : p > q}) < PageLimit}

(* ORDER BY seq ASC LIMIT ?                                                  *)
Page(s, c) == {q \in After(s, c) : Cardinality({p \in After(s, c) : p < q}) < PageLimit}

(* The last seq of a page, or the cursor it started from.                     *)
LastOf(rows, c) == CHOOSE n \in rows \cup {c} : \A q \in rows : q <= n

ReadPage(u) ==
    /\ pulling[u].pc = "page"
    /\ LET page == Page(pulling[u].sub, pulling[u].from)
       IN /\ pulled' = pulled \cup page
          /\ pulling' = [pulling EXCEPT ![u].pc = "latest",
                                        ![u].upto = LastOf(page, pulling[u].from)]
    /\ UNCHANGED <<store, worker, creating, todo, doing, used, told, matched, lost,
                   received, tries, raced, asked, bounds>>

(* Fault: the newest row of the table, whoever's it is.                      *)
LatestAnywhere(s) == lastSeq

Latest(s) == LastOf(RowsOf(s), 0)

ReadLatest(u) ==
    /\ pulling[u].pc = "latest"
    /\ LET latest == Latest(pulling[u].sub)
           upto == pulling[u].upto
       IN pulling' = [pulling EXCEPT ![u].pc = "ack",
                        ![u].remaining = IF latest > upto THEN latest - upto ELSE 0,
                        ![u].left = Cardinality(After(pulling[u].sub, upto))]
    /\ UNCHANGED <<store, worker, creating, todo, doing, hist, bounds>>

Acknowledge(s, c) ==
    subs' = IF s \in live THEN [subs EXCEPT ![s].cursor = Larger(@, c)] ELSE subs

(* The answer to a GET, with or without ack=true.                            *)
AnswerPull(u) ==
    /\ pulling[u].pc = "ack"
    /\ \/ Acknowledge(pulling[u].sub, pulling[u].upto)
       \/ UNCHANGED subs
    /\ pulling' = [pulling EXCEPT ![u] = NoPull]
    /\ UNCHANGED <<live, deliveries, lastSeq, ready, waiting, worker, creating, todo,
                   doing, hist, bounds>>

Ack(s, c) ==
    /\ s \in live
    /\ pulls < MaxPulls
    /\ pulls' = pulls + 1
    /\ Acknowledge(s, c)
    /\ asked' = [asked EXCEPT ![s] = Larger(@, c)]
    /\ UNCHANGED <<live, deliveries, lastSeq, ready, waiting, worker, tasks, used, told,
                   matched, lost, received, tries, raced, pulled, patches, faults>>

(***************************************************************************)
(* The process dies.  SQLite keeps its rows; every task is gone.             *)
(***************************************************************************)
Crash ==
    /\ faults < MaxFaults
    /\ faults' = faults + 1
    /\ wpc' = "idle" /\ batch' = <<>> /\ value' = 0
    /\ creating' = [c \in Creator |-> None]
    /\ todo' = [n \in Notifier |-> {}]
    /\ lost' = lost \cup UNION {todo[n] : n \in Notifier}
    /\ doing' = [o \in Owner |-> Idle]
    /\ pulling' = [u \in Puller |-> NoPull]
    /\ UNCHANGED <<store, used, told, matched, received, tries, raced, pulled, asked,
                   patches, pulls>>

CreatorStep(c) == (\E i \in Instance : CountForInstance(c, i)) \/ CreateSubscription(c)
NotifierStep(n) ==
    \/ \E events \in SUBSET Event \ {{}} : NotifyAdvertised(n, events)
    \/ \E s \in Sub, e \in Event : Enqueue(n, s, e)
    \/ LoseMatches(n)
OwnerStep(o) ==
    \/ \E s \in Sub, p \in Patches : BeginPatch(o, s, p)
    \/ \E s \in Sub : BeginDelete(o, s)
    \/ \E stmt \in Stmt \ {"rearm", "delete rows", "delete"} : UpdateSubscription(o, stmt)
    \/ RearmDeliveries(o)
    \/ \E stmt \in {"delete rows", "delete"} : DeleteSubscription(o, stmt)
    \/ AbandonRequest(o)
WorkerStep ==
    \/ FetchDue \/ PostWebhook \/ MarkDelivered \/ ResetFailures \/ ReadAttempts
    \/ MarkFailed \/ CountFailure \/ CheckFailures \/ Suspend
PullerStep(u) ==
    (\E s \in Sub : BeginPull(u, s)) \/ ReadPage(u) \/ ReadLatest(u) \/ AnswerPull(u)

Next ==
    \/ \E c \in Creator : CreatorStep(c)
    \/ \E n \in Notifier : NotifierStep(n)
    \/ \E o \in Owner : OwnerStep(o)
    \/ \E u \in Puller : PullerStep(u)
    \/ \E s \in Sub, c \in Cursors : Ack(s, c)
    \/ BackoffElapses \/ WorkerStep \/ WorkerError \/ Crash

Spec == Init /\ [][Next]_vars

(* The interval timer ticks, awaits return (a POST has a timeout), and       *)
(* backoffs run out.                                                         *)
FairSpec == Spec /\ WF_vars(WorkerStep) /\ WF_vars(BackoffElapses)

(***************************************************************************)
(* Properties.                                                             *)
(***************************************************************************)
(* Idempotency of enqueue under concurrent advertisements: a match of a live *)
(* subscription has exactly one row once the advertisement that made it has  *)
(* been through, however many others made the same match meanwhile, unless a *)
(* failed insert, a crash or a DELETE took it.                               *)
EveryMatchQueuedOnce ==
    \A m \in matched :
        LET rows == {q \in RowsOf(m[1]) : deliveries[q].event = m[2]}
        IN /\ Cardinality(rows) <= 1
           /\ rows = {} => \/ m[1] \notin live
                           \/ m \in lost
                           \/ \E n \in Notifier : m \in todo[n]

(* The queue implements the life cycle of Delivery, whatever two             *)
(* advertisements, a stale batch, a resume, a DELETE between the statements  *)
(* of the worker or a crash do: no row outlives its subscription or is queued *)
(* for one that is gone, and a row recorded as delivered was received and is *)
(* neither POSTed nor re-armed again.                                        *)
StatusOf(d) == IF d.status \in Settled THEN d.status ELSE "queued"
AsDelivery == INSTANCE Delivery WITH
    rows <- {[match |-> <<deliveries[q].sub, deliveries[q].event>>,
              status |-> StatusOf(deliveries[q]), posts |-> tries[q],
              got |-> q \in received] : q \in {r \in Rows : Present(r)}}

ImplementsDelivery == AsDelivery!Spec

(* "Attempts on one delivery before it is dead" (RetryPolicy): a row is only *)
(* buried once it has been POSTed max_attempts times since it was queued or  *)
(* last re-armed by resume, whatever crashes, failed statements and resumes  *)
(* came between; only a resume that overtakes mark_failed on a row of the    *)
(* same subscription can cost a row some of its attempts.                    *)
DeadIsEarned ==
    \A q \in Rows : deliveries[q].status = "dead" =>
        tries[q] >= MaxAttempts \/ deliveries[q].sub \in raced

(* "Every POST is signed": no row is taken for delivery without the secret.  *)
EveryPostSigned == wpc = "post" => Current.signed

(* The count in create is not atomic with the insert, but at most one        *)
(* subscription per further concurrent create can slip past the limit.       *)
QuotaOverrunBounded ==
    \A i \in Instance : Cardinality(OfInstance(i)) <= MaxPerInstance + Cardinality(Creator) - 1

(* What is behind the acknowledged cursor has been handed out on a page, or  *)
(* is behind a cursor the subscriber itself named: acknowledging a page      *)
(* while new matches arrive never skips a row nobody read.                   *)
PulledBeforeAcked ==
    \A q \in Rows :
        Present(q) /\ deliveries[q].sub \in live /\ q <= subs[deliveries[q].sub].cursor
            => q \in pulled \/ q <= asked[deliveries[q].sub]

(* remaining = 0 tells a subscriber truthfully whether to keep going: there  *)
(* are matches after the page exactly when remaining is positive, even for a *)
(* table shared with other subscriptions.                                    *)
RemainingTellsMore ==
    \A u \in Puller : pulling[u].pc = "ack" =>
        ((pulling[u].remaining = 0) <=> (pulling[u].left = 0))

(* A due row of a subscription that can be pushed is eventually delivered or *)
(* buried, unless the subscription stops being pushable or goes: rows of     *)
(* other endpoints that keep failing do not starve it, whatever the batch    *)
(* size, and no row is retried for ever.                                     *)
DueRowsSettle ==
    \A q \in Rows :
        (deliveries[q].status \in {"pending", "failed"}) ~>
            (\/ deliveries[q].status \in Settled \cup {"none"}
             \/ ~Active(deliveries[q].sub))
=============================================================================
