------------------------------ MODULE Gateway ------------------------------
(***************************************************************************)
(* What every request passes before its handler: the rate-limit middleware,  *)
(* which resolves the credential once, counts refused credentials per        *)
(* address, blocks an address that sent too many, and charges the request to  *)
(* its caller.                                                             *)
(*                                                                         *)
(* A request waits for the token table, for the issuer's signing keys and    *)
(* for locks, and other requests run meanwhile: one action is the stretch     *)
(* between two waits.  Time is discrete; no request lasts longer than Patience.*)
(***************************************************************************)
EXTENDS Integers, Sequences, FiniteSets, FiniteSetsExt, Functions

CONSTANTS
    Task,           \* requests being served at once
    Address,        \* client addresses, as bucket() groups them
    Token,          \* API tokens
    Jwt,            \* JWTs, described by Claims
    Malformed,      \* bearer values of no known format
    Root,           \* the bootstrap token
    NoCredential,
    Kid,            \* signing keys
    Pinned,         \* those given to the verifier, not discovered
    Issuer, Home,   \* accepted issuers; the estate's own
    UiClient,       \* the browser sign-in client of Home
    Claims,         \* [Jwt -> issuer, kid, sound, client, roles, scopes]
    Binding,        \* what Instances declare: a set of [client, issuer, acts, scopes]
    TokenRights,    \* [Token -> acts, scopes]
    Class,          \* request classes
    Limit,          \* [Class -> [anon, authed]], each Off or [burst, period]
    Off,
    AuthFail,       \* the limit on failed credentials
    Ttl,            \* JWKS_TTL
    Patience,       \* longest time a request takes
    Setup           \* what may happen: callers, credentials and requests, keys at the
                    \* start and those that rotate; and the bounds, requests and until

(* A Principal; "refused" and "broken" stand for the two errors authenticate   *)
(* ends with.                                                              *)
Nobody == [credential |-> "none", subject |-> NoCredential, admin |-> FALSE,
           curator |-> FALSE, scopes |-> {}, acts |-> NoCredential]
Refused == [Nobody EXCEPT !.credential = "refused"]
Broken == [Nobody EXCEPT !.credential = "broken"]
Scope == {"admin", "register:software", "register:instance", "advertise:produce",
          "advertise:consume", "read:private", "subscribe:artifacts"}

ASSUME GatewayAssumption ==
    /\ Ttl \in Nat \ {0} /\ Patience \in Nat
    /\ \A c \in Class : \A side \in {"anon", "authed"} :
          \/ Limit[c][side] = Off
          \/ Limit[c][side].burst \in Nat \ {0} /\ Limit[c][side].period \in Nat \ {0}
    /\ AuthFail.burst \in Nat \ {0} /\ AuthFail.period \in Nat \ {0}
    /\ Home \in Issuer /\ Pinned \subseteq Kid /\ IsFiniteSet(Task)
    /\ \A j \in Jwt : Claims[j].scopes \subseteq Scope /\ Claims[j].kid \in Kid

VARIABLES
    now,
    task,
    tat,            \* when each bucket is full again; 0 for a key the store has not
    block,          \* until when an address is refused authentication; 0 for none
    cache,          \* [Issuer -> keys, at]
    phase,          \* [Kid -> "future", "published" or "retired"]
    revoked,        \* tokens
    setup, requests,        \* bounds
    judged, handled, retiredAt      \* history

keysVars == <<cache, phase, retiredAt>>
gatewayVars == <<now, task, tat, block, keysVars, revoked, setup, requests, judged, handled>>

Idle == [pc |-> "idle", addr |-> NoCredential, cred |-> NoCredential, who |-> Nobody,
         left |-> <<>>, rpc |-> <<>>, tool |-> "none", at |-> 0, decided |-> 0,
         forced |-> FALSE, keys |-> {}, wait |-> 0, revokedBefore |-> FALSE, steady |-> FALSE]

Unspent == 0
AuthBucket(a) == <<"auth_fail", a>>
SubjectOf(cred) ==      \* a token of a deployment is charged as the deployment
    IF cred \in Jwt THEN <<Claims[cred].issuer, Claims[cred].client>>
    ELSE IF TokenRights[cred].acts # NoCredential THEN TokenRights[cred].acts ELSE cred
Buckets == {AuthBucket(a) : a \in Address}
           \cup (Class \X (Address \cup Token \cup Malformed
                          \cup {SubjectOf(cred) : cred \in Token \cup Jwt}))

(* Credentials are told apart, addresses are no principals, and a pinned key is   *)
(* never withdrawn.                                                        *)
ASSUME CallersAssumption ==
    /\ Token \cap Jwt = {} /\ {Root, NoCredential} \cap (Token \cup Jwt) = {}
    /\ Address \cap {SubjectOf(cred) : cred \in Token \cup Jwt} = {}
    /\ "auth_fail" \notin Class
    /\ \A s \in Setup :
          /\ s.caller \subseteq Address /\ s.keys \subseteq Kid
          /\ s.credential \subseteq Token \cup Jwt \cup Malformed \cup {Root, NoCredential}
          /\ s.rotating \subseteq Kid \ Pinned

GatewayInit ==
    /\ setup \in Setup
    /\ now = 0 /\ requests = 0
    /\ task = [t \in Task |-> Idle]
    /\ tat = [b \in Buckets |-> Unspent]
    /\ block = [a \in Address |-> Unspent]
    /\ cache = [i \in Issuer |-> [keys |-> setup.keys,
                                  at |-> IF setup.keys = {} THEN -Ttl ELSE 0]]
    /\ phase = [k \in Kid |-> IF k \in setup.keys THEN "published" ELSE "future"]
    /\ revoked = {}
    /\ judged = [a \in Address |-> 0]
    /\ handled = [b \in Buckets |-> 0]
    /\ retiredAt = [k \in Kid |-> 0]

Goto(t, pc) == task' = [task EXCEPT ![t].pc = pc]
Done(t) == task' = [task EXCEPT ![t] = Idle]
Become(t, who, pc) == [task EXCEPT ![t].who = who, ![t].pc = pc, ![t].decided = now]

(***************************************************************************)
(* A keyed limiter: each request fills its bucket by one period, and one that *)
(* would fill it past the burst is refused until it has drained.             *)
(***************************************************************************)
Filled(b) == Max({tat[b], now})
FreeAt(b, limit) == Filled(b) - (limit.burst - 1) * limit.period
HasRoom(b, limit) == FreeAt(b, limit) <= now
Fill(b, limit) == tat' = [tat EXCEPT ![b] = Filled(b) + limit.period]

(***************************************************************************)
(* Principals.                                                             *)
(***************************************************************************)
Administrator ==
    [Nobody EXCEPT !.credential = "known", !.subject = Root, !.admin = TRUE, !.scopes = Scope]
TokenPrincipal(k) ==
    [Nobody EXCEPT !.credential = "known", !.subject = SubjectOf(k),
        !.scopes = TokenRights[k].scopes, !.acts = TokenRights[k].acts,
        !.admin = "admin" \in TokenRights[k].scopes]
(* principal_from_claims: only the home issuer names roles; the sign-in       *)
(* client is nobody's deployment; a deployment that declares the client is the  *)
(* principal, with the token's scopes, else the record's, else both advertise   *)
(* scopes.                                                                 *)
BoundTo(c) ==
    IF c.issuer = Home /\ c.client = UiClient THEN {}
    ELSE {b \in Binding : b.client = c.client /\ b.issuer = c.issuer}
ScopesOf(c) ==
    IF c.scopes # {} \/ BoundTo(c) = {} THEN c.scopes
    ELSE LET declared == UNION {b.scopes : b \in BoundTo(c)}
         IN IF declared # {} THEN declared ELSE {"advertise:produce", "advertise:consume"}
ClaimsPrincipal(j) ==
    LET c == Claims[j]
        roles == IF c.issuer = Home THEN c.roles ELSE {}
    IN [credential |-> "known", subject |-> SubjectOf(j), scopes |-> ScopesOf(c),
        admin |-> "admin" \in roles \cup ScopesOf(c), curator |-> "curator" \in roles,
        acts |-> IF BoundTo(c) = {} THEN NoCredential
                 ELSE (CHOOSE b \in BoundTo(c) : TRUE).acts]

(***************************************************************************)
(* Middleware: who is calling.                                             *)
(***************************************************************************)
(* Fault: the block is not looked up.                                      *)
BlockedIgnored(a) == FALSE
Blocked(a) == block[a] > now

Resolving(cred) ==
    CASE cred \in Token -> "verify"
      [] cred \in Jwt /\ Claims[cred].issuer \in Issuer ->
            IF Claims[cred].kid \in Pinned THEN "decode" ELSE "lookup"
      [] cred \in {NoCredential, Root} -> "charge"
      [] OTHER -> "note"

Received(a, cred, r) ==
    [Idle EXCEPT !.addr = a, !.cred = cred, !.left = <<r.route>>, !.rpc = r.rpc, !.at = now,
        !.who = IF cred = Root THEN Administrator
                ELSE IF cred = NoCredential THEN Nobody ELSE Refused,
        !.pc = Resolving(cred), !.revokedBefore = cred \in revoked,
        !.steady = Resolving(cred) \in {"lookup", "decode"}
            /\ phase[Claims[cred].kid] = "published"]
Arrive(t) ==
    /\ task[t] = Idle /\ requests < setup.requests
    /\ requests' = requests + 1
    /\ \E a \in setup.caller, cred \in setup.credential, r \in setup.request :
          IF cred # NoCredential /\ Blocked(a) THEN UNCHANGED task
          ELSE task' = [task EXCEPT ![t] = Received(a, cred, r)]
    /\ UNCHANGED <<now, tat, block, keysVars, revoked, setup, judged, handled>>

(* verify_token; a database that is down is not a refusal.                   *)
Live(k) == k \notin revoked
VerifyToken(t) ==
    /\ task[t].pc = "verify"
    /\ \E up \in BOOLEAN :
          task' = IF ~up THEN Become(t, Broken, "charge")
                  ELSE IF Live(task[t].cred)
                  THEN Become(t, TokenPrincipal(task[t].cred), "charge")
                  ELSE Become(t, Refused, "note")
    /\ UNCHANGED <<now, tat, block, keysVars, revoked, setup, requests, judged, handled>>

KidOf(t) == Claims[task[t].cred].kid
IssuerOf(t) == Claims[task[t].cred].issuer
Decode(t, kept) ==
    IF Claims[task[t].cred].sound
    THEN [kept EXCEPT ![t].who = ClaimsPrincipal(task[t].cred), ![t].pc = "charge",
                      ![t].decided = now]
    ELSE [kept EXCEPT ![t].who = Refused, ![t].pc = "note"]
DecodePinned(t) ==
    /\ task[t].pc = "decode"
    /\ task' = Decode(t, task)
    /\ UNCHANGED <<now, tat, block, keysVars, revoked, setup, requests, judged, handled>>

(* keys_for(force = false): a fresh cache answers; a key it lacks makes the    *)
(* second round fetch whatever the cache says.                              *)
(* Fault: a key that is not found is refused in the first round.              *)
SecondRoundSkipped(t) == Become(t, Refused, "note")
SecondRound(t) == [task EXCEPT ![t].pc = "fetch", ![t].forced = TRUE]
(* Fault: the age of the keys is not looked at.                              *)
FreshAlways(i) == cache[i].keys # {}
Fresh(i) == now - cache[i].at < Ttl
LookupKeys(t) ==
    /\ task[t].pc = "lookup"
    /\ task' = IF ~Fresh(IssuerOf(t)) THEN [task EXCEPT ![t].pc = "fetch"]
               ELSE IF KidOf(t) \in cache[IssuerOf(t)].keys THEN Decode(t, task)
               ELSE SecondRound(t)
    /\ UNCHANGED <<now, tat, block, keysVars, revoked, setup, requests, judged, handled>>

Published(i) ==
    {k \in Kid : phase[k] = "published" /\ \E j \in Jwt : Claims[j].kid = k /\ Claims[j].issuer = i}
IssuerAnswers(t) ==
    /\ task[t].pc = "fetch"
    /\ task' = [task EXCEPT ![t].pc = "insert", ![t].keys = Published(IssuerOf(t))]
    /\ UNCHANGED <<now, tat, block, keysVars, revoked, setup, requests, judged, handled>>
IssuerFails(t) ==
    /\ task[t].pc = "fetch"
    /\ task' = [task EXCEPT ![t].pc = "note", ![t].who = Refused, ![t].steady = FALSE]
    /\ UNCHANGED <<now, tat, block, keysVars, revoked, setup, requests, judged, handled>>

(* The answer replaces the cached set, stamped when it is inserted.           *)
InsertKeys(t) ==
    /\ task[t].pc = "insert"
    /\ cache' = [cache EXCEPT ![IssuerOf(t)] = [keys |-> task[t].keys, at |-> now]]
    /\ task' = IF KidOf(t) \in task[t].keys THEN Decode(t, task)
               ELSE IF task[t].forced THEN Become(t, Refused, "note")
               ELSE SecondRound(t)
    /\ UNCHANGED <<now, tat, block, phase, retiredAt, revoked, setup, requests, judged, handled>>

(***************************************************************************)
(* A refused credential: spend an attempt; past the burst, block the address   *)
(* until the next attempt would be allowed.  The limiter and the table of      *)
(* blocks are two locks.                                                   *)
(***************************************************************************)
NoteFailure(t) ==
    /\ task[t].pc = "note"
    /\ LET b == AuthBucket(task[t].addr)
       IN IF HasRoom(b, AuthFail)
          THEN Fill(b, AuthFail) /\ Goto(t, "charge")
          ELSE /\ task' = [task EXCEPT ![t].pc = "block",
                                       ![t].wait = FreeAt(b, AuthFail) - now]
               /\ UNCHANGED tat
    /\ judged' = [judged EXCEPT ![task[t].addr] = @ + 1]
    /\ UNCHANGED <<now, block, keysVars, revoked, setup, requests, handled>>

BlockAddress(t) ==
    /\ task[t].pc = "block"
    /\ block' = [block EXCEPT ![task[t].addr] = now + task[t].wait]
    /\ Goto(t, "charge")
    /\ UNCHANGED <<now, tat, keysVars, revoked, setup, requests, judged, handled>>

(***************************************************************************)
(* Middleware: whom to charge.  An inner request of a tool call carries its     *)
(* caller's context and is charged like any other.                           *)
(***************************************************************************)
Known(t) == task[t].who.credential = "known"
Caller(t) == IF Known(t) THEN task[t].who.subject ELSE task[t].addr

LimitOf(t, class) == IF Known(t) THEN Limit[class].authed ELSE Limit[class].anon
(* Fault: a credential that failed has a bucket of its own.                   *)
ChargedToCredential(t) ==
    IF task[t].who.credential = "refused" THEN task[t].cred ELSE Caller(t)
Charged(t) == Caller(t)

Route(t) == Head(task[t].left)
Exempt(t) ==
    task[t].who.admin \/ Route(t).class \notin Class \/ LimitOf(t, Route(t).class) = Off

Admit(t) ==
    /\ task[t].pc = "charge"
    /\ IF Exempt(t) THEN UNCHANGED <<tat, handled>>
       ELSE LET b == <<Route(t).class, Charged(t)>>
                limit == LimitOf(t, Route(t).class)
            IN /\ HasRoom(b, limit)
               /\ Fill(b, limit)
               /\ handled' = [handled EXCEPT ![<<Route(t).class, Caller(t)>>] = @ + 1]
    /\ Goto(t, "serve")
    /\ UNCHANGED <<now, block, keysVars, revoked, setup, requests, judged>>

OverLimit(t) ==
    /\ task[t].pc = "charge" /\ ~Exempt(t)
    /\ ~HasRoom(<<Route(t).class, Charged(t)>>, LimitOf(t, Route(t).class))

(***************************************************************************)
(* The surroundings: time, the sweep of idle buckets, revocation, and the       *)
(* issuer's rotation of its keys.                                           *)
(***************************************************************************)
Tick ==
    /\ now < setup.until
    /\ \A t \in Task : task[t] # Idle => now - task[t].at < Patience
    /\ now' = now + 1
    /\ UNCHANGED <<task, tat, block, keysVars, revoked, setup, requests, judged, handled>>

Swept(f) == [x \in DOMAIN f |-> IF f[x] > now THEN f[x] ELSE Unspent]
RetainRecent ==
    /\ tat' = Swept(tat) /\ block' = Swept(block)
    /\ <<tat, block>>' # <<tat, block>>
    /\ UNCHANGED <<now, task, keysVars, revoked, setup, requests, judged, handled>>

RevokeToken(k) ==
    /\ k \in (setup.credential \cap Token) \ revoked
    /\ revoked' = revoked \cup {k}
    /\ UNCHANGED <<now, task, tat, block, keysVars, setup, requests, judged, handled>>

Publish(k) ==
    /\ k \in setup.rotating /\ phase[k] = "future"
    /\ phase' = [phase EXCEPT ![k] = "published"]
    /\ UNCHANGED <<now, task, tat, block, cache, retiredAt, revoked, setup, requests, judged, handled>>
Retire(k) ==
    /\ k \in setup.rotating /\ phase[k] = "published"
    /\ phase' = [phase EXCEPT ![k] = "retired"]
    /\ retiredAt' = [retiredAt EXCEPT ![k] = now]
    /\ task' = [t \in Task |->
          IF task[t].cred \in Jwt /\ KidOf(t) = k THEN [task[t] EXCEPT !.steady = FALSE]
          ELSE task[t]]
    /\ UNCHANGED <<now, tat, block, cache, revoked, setup, requests, judged, handled>>
=============================================================================
