------------------------------ MODULE McpProofs ------------------------------
(***************************************************************************)
(* Theorems about Gateway and Mcp as Process runs them: for any number of     *)
(* requests at once, credentials, addresses, keys and limits, and whatever      *)
(* starts and stops come between two requests.                               *)
(***************************************************************************)
EXTENDS Process, FiniteSetTheorems, TLAPS

(* A request is a record of these fields.                                     *)
TaskShape(r) ==
    r = [pc |-> r.pc, addr |-> r.addr, cred |-> r.cred, who |-> r.who, left |-> r.left,
         rpc |-> r.rpc, tool |-> r.tool, at |-> r.at, decided |-> r.decided,
         forced |-> r.forced, keys |-> r.keys, wait |-> r.wait,
         revokedBefore |-> r.revokedBefore, steady |-> r.steady]
TasksShaped == DOMAIN task = Task /\ \A u \in Task : TaskShape(task[u])

Principals ==
    {Nobody, Refused, Broken, Administrator}
    \cup {TokenPrincipal(k) : k \in Token} \cup {ClaimsPrincipal(j) : j \in Jwt}
Subjects == {SubjectOf(cred) : cred \in Token \cup Jwt}
InRound == {"lookup", "decode", "fetch", "insert"}

-----------------------------------------------------------------------------
(* The parts of the invariant.                                               *)

(* No request is older than the patience of its client.                       *)
Pending(u) ==
    /\ task[u].pc = "idle" => task[u] = Idle
    /\ task[u].who \in Principals
    /\ task[u].pc # "idle" =>
          /\ task[u].addr \in Address
          /\ task[u].at \in Int /\ task[u].at <= now /\ now - task[u].at <= Patience

(* A key an answer of the issuer holds was withdrawn, if it was, after the        *)
(* request that asked for it had come.                                       *)
Resolves(u) ==
    /\ task[u].pc \in InRound => task[u].cred \in Jwt /\ IssuerOf(u) \in Issuer
    /\ task[u].pc = "decode" => KidOf(u) \in Pinned
    /\ task[u].pc = "verify" => task[u].cred \in Token
    /\ task[u].pc = "insert" =>
          /\ task[u].keys \subseteq Kid
          /\ \A k \in task[u].keys : phase[k] = "retired" => task[u].at <= retiredAt[k]

Expires(u) ==
    /\ task[u].revokedBefore => task[u].cred \in revoked /\ ~Known(u)
    /\ Known(u) /\ task[u].cred \in Jwt =>
          /\ task[u].decided \in Int /\ task[u].decided <= now
          /\ phase[KidOf(u)] = "retired" => task[u].decided < retiredAt[KidOf(u)] + Patience + Ttl

(* A request whose key is and was published finds it in the issuer's answer.      *)
Steady(u) ==
    task[u].steady =>
        /\ task[u].cred \in Jwt /\ task[u].pc # "verify"
        /\ task[u].pc \in InRound => phase[KidOf(u)] = "published"
        /\ task[u].pc = "insert" => KidOf(u) \in task[u].keys
        /\ task[u].pc = "note" => ~Claims[task[u].cred].sound

KeysInv ==
    /\ now \in Nat /\ revoked \subseteq Token /\ setup \in Setup
    /\ DOMAIN phase = Kid /\ DOMAIN cache = Issuer
    /\ retiredAt \in [Kid -> Int]
    /\ \A k \in Kid : phase[k] = "retired" => k \notin Pinned /\ retiredAt[k] <= now
    /\ \A i \in Issuer :
         /\ cache[i].at \in Int /\ cache[i].at <= now /\ cache[i].keys \subseteq Kid
         /\ \A k \in cache[i].keys : phase[k] = "retired" => cache[i].at <= retiredAt[k] + Patience

KeyTask(u) == Pending(u) /\ Resolves(u) /\ Expires(u) /\ Steady(u)
CredentialInv == TasksShaped /\ KeysInv /\ \A u \in Task : KeyTask(u)

-----------------------------------------------------------------------------
(* Lemmas.                                                                   *)

LEMMA IdleShape == TaskShape(Idle) /\ Idle.pc = "idle" /\ Idle.who = Nobody /\ ~Idle.revokedBefore
                   /\ ~Idle.steady /\ Idle.tool = "none" /\ Idle.addr = NoCredential
                   /\ Idle.cred = NoCredential
                   /\ Nobody.credential = "none"
BY DEF Idle, TaskShape, Nobody

LEMMA PrincipalFields ==
    /\ Nobody.credential = "none" /\ ~Nobody.admin
    /\ Refused.credential = "refused" /\ ~Refused.admin
    /\ Broken.credential = "broken" /\ ~Broken.admin
    /\ Administrator.credential = "known" /\ Administrator.admin
    /\ \A k : TokenPrincipal(k).credential = "known" /\ TokenPrincipal(k).subject = SubjectOf(k)
    /\ \A j : ClaimsPrincipal(j).credential = "known" /\ ClaimsPrincipal(j).subject = SubjectOf(j)
<1>1. Nobody.credential = "none" /\ ~Nobody.admin
  BY DEF Nobody
<1>2. Refused.credential = "refused" /\ ~Refused.admin
  BY DEF Refused, Nobody
<1>3. Broken.credential = "broken" /\ ~Broken.admin
  BY DEF Broken, Nobody
<1>4. Administrator.credential = "known" /\ Administrator.admin
  BY DEF Administrator, Nobody
<1>5. \A k : TokenPrincipal(k).credential = "known" /\ TokenPrincipal(k).subject = SubjectOf(k)
  BY DEF TokenPrincipal, Nobody
<1>6. \A j : ClaimsPrincipal(j).credential = "known" /\ ClaimsPrincipal(j).subject = SubjectOf(j)
  BY DEF ClaimsPrincipal
<1> QED BY <1>1, <1>2, <1>3, <1>4, <1>5, <1>6

(* A request of its own, and a stage the keys are not needed in any more.         *)
LEMMA IdleIsFine ==
    ASSUME NEW u \in Task, task'[u] = Idle
    PROVE  TaskShape(task[u])' /\ KeyTask(u)'
<1>1. Nobody \in Principals
  BY DEF Principals
<1> QED BY <1>1, IdleShape
        DEF TaskShape, KeyTask, Pending, Resolves, Expires, Steady, Known, InRound

(* A request that does not move, while nothing it looks at changes.              *)
LEMMA StandsStill ==
    ASSUME NEW u \in Task, TaskShape(task[u]), KeyTask(u), task'[u] = task[u],
           UNCHANGED <<now, phase, retiredAt>>, revoked \subseteq revoked'
    PROVE  TaskShape(task[u])' /\ KeyTask(u)'
<1>1. TaskShape(task[u])'
  BY DEF TaskShape
<1>2. Pending(u)'
  BY DEF KeyTask, Pending
<1>3. Resolves(u)'
  BY DEF KeyTask, Resolves, KidOf, IssuerOf
<1>4. Expires(u)'
  BY DEF KeyTask, Expires, KidOf, Known
<1>5. Steady(u)'
  BY DEF KeyTask, Steady, KidOf
<1> QED BY <1>1, <1>2, <1>3, <1>4, <1>5 DEF KeyTask

(* A request whose caller is settled.                                         *)
LEMMA MovesOn ==
    ASSUME NEW u \in Task, KeyTask(u), UNCHANGED <<now, phase, retiredAt, revoked>>,
           task[u].pc # "idle", TaskShape(task'[u]),
           task'[u].pc \notin InRound \cup {"idle", "verify", "note"},
           task'[u].addr = task[u].addr, task'[u].cred = task[u].cred, task'[u].who = task[u].who,
           task'[u].at = task[u].at, task'[u].decided = task[u].decided,
           task'[u].revokedBefore = task[u].revokedBefore, task'[u].steady = task[u].steady
    PROVE  TaskShape(task[u])' /\ KeyTask(u)'
<1>1. TaskShape(task[u])'
  BY DEF TaskShape
<1>2. Pending(u)'
  BY DEF KeyTask, Pending
<1>3. Resolves(u)'
  BY DEF Resolves, InRound
<1>4. Expires(u)'
  BY DEF KeyTask, Expires, KidOf, Known
<1>5. Steady(u)'
  BY DEF KeyTask, Steady, InRound
<1> QED BY <1>1, <1>2, <1>3, <1>4, <1>5 DEF KeyTask

(* Of a step that changes one request, what is left to show is about that one.    *)
LEMMA OneMoves ==
    ASSUME CredentialInv, NEW t \in Task, UNCHANGED <<now, phase, retiredAt, revoked>>,
           DOMAIN task' = Task, \A u \in Task \ {t} : task'[u] = task[u],
           TaskShape(task[t])' /\ KeyTask(t)'
    PROVE  TasksShaped' /\ \A u \in Task : KeyTask(u)'
<1>1. ASSUME NEW u \in Task PROVE TaskShape(task[u])' /\ KeyTask(u)'
  <2>1. CASE u = t
    BY <2>1
  <2>2. CASE u # t
    BY <2>2, StandsStill DEF CredentialInv, TasksShaped
  <2> QED BY <2>1, <2>2
<1> QED BY <1>1 DEF TasksShaped

LEMMA KeysUntouched ==
    ASSUME KeysInv, UNCHANGED <<now, keysVars, revoked, setup>>
    PROVE  KeysInv'
BY DEF KeysInv, keysVars

(* The four ways a request changes.                                           *)
LEMMA PcChanges ==
    ASSUME TasksShaped, NEW t \in Task, NEW p, task' = [task EXCEPT ![t].pc = p]
    PROVE  /\ DOMAIN task' = Task /\ \A u \in Task \ {t} : task'[u] = task[u]
           /\ TaskShape(task'[t]) /\ task'[t].pc = p
           /\ task'[t].addr = task[t].addr /\ task'[t].cred = task[t].cred
           /\ task'[t].who = task[t].who /\ task'[t].at = task[t].at
           /\ task'[t].decided = task[t].decided /\ task'[t].left = task[t].left
           /\ task'[t].tool = task[t].tool /\ task'[t].keys = task[t].keys
           /\ task'[t].revokedBefore = task[t].revokedBefore /\ task'[t].steady = task[t].steady
BY DEF TasksShaped, TaskShape

LEMMA Becomes ==
    ASSUME TasksShaped, NEW t \in Task, NEW w, NEW p, task' = Become(t, w, p)
    PROVE  /\ DOMAIN task' = Task /\ \A u \in Task \ {t} : task'[u] = task[u]
           /\ TaskShape(task'[t]) /\ task'[t].pc = p /\ task'[t].who = w /\ task'[t].decided = now
           /\ task'[t].addr = task[t].addr /\ task'[t].cred = task[t].cred
           /\ task'[t].at = task[t].at /\ task'[t].left = task[t].left
           /\ task'[t].tool = task[t].tool
           /\ task'[t].revokedBefore = task[t].revokedBefore /\ task'[t].steady = task[t].steady
<1> DEFINE n == now
<1>1. task' = [task EXCEPT ![t].who = w, ![t].pc = p, ![t].decided = n]
  BY DEF Become
<1>2. DOMAIN task' = Task /\ \A u \in Task \ {t} : task'[u] = task[u]
  BY <1>1 DEF TasksShaped, TaskShape
<1>3. TaskShape(task'[t])
  BY <1>1 DEF TasksShaped, TaskShape
<1>4. task'[t].pc = p /\ task'[t].who = w /\ task'[t].decided = now
  BY <1>1 DEF TasksShaped, TaskShape
<1>5. /\ task'[t].addr = task[t].addr /\ task'[t].cred = task[t].cred
      /\ task'[t].at = task[t].at /\ task'[t].left = task[t].left
      /\ task'[t].tool = task[t].tool
  BY <1>1 DEF TasksShaped, TaskShape
<1>6. task'[t].revokedBefore = task[t].revokedBefore /\ task'[t].steady = task[t].steady
  BY <1>1 DEF TasksShaped, TaskShape
<1> QED BY <1>2, <1>3, <1>4, <1>5, <1>6

LEMMA Decodes ==
    ASSUME TasksShaped, NEW t \in Task, task' = Decode(t, task)
    PROVE  /\ DOMAIN task' = Task /\ \A u \in Task \ {t} : task'[u] = task[u]
           /\ TaskShape(task'[t])
           /\ task'[t].addr = task[t].addr /\ task'[t].cred = task[t].cred
           /\ task'[t].at = task[t].at /\ task'[t].left = task[t].left
           /\ task'[t].tool = task[t].tool
           /\ task'[t].revokedBefore = task[t].revokedBefore /\ task'[t].steady = task[t].steady
           /\ \/ /\ Claims[task[t].cred].sound /\ task'[t].pc = "charge" /\ task'[t].decided = now
                 /\ task'[t].who = ClaimsPrincipal(task[t].cred)
              \/ ~Claims[task[t].cred].sound /\ task'[t].pc = "note" /\ task'[t].who = Refused
<1>1. CASE Claims[task[t].cred].sound
  <2>1. PICK w : w = ClaimsPrincipal(task[t].cred)
    OBVIOUS
  <2>2. task' = Become(t, w, "charge")
    BY <1>1, <2>1 DEF Decode, Become
  <2> QED BY <1>1, <2>1, <2>2, Becomes
<1>2. CASE ~Claims[task[t].cred].sound
  <2>2. task' = [task EXCEPT ![t].who = Refused, ![t].pc = "note"]
    BY <1>2 DEF Decode
  <2>3. DOMAIN task' = Task /\ \A u \in Task \ {t} : task'[u] = task[u]
    BY <2>2 DEF TasksShaped, TaskShape
  <2>4. TaskShape(task'[t])
    BY <2>2 DEF TasksShaped, TaskShape
  <2>5. task'[t].who = Refused /\ task'[t].pc = "note"
    BY <2>2 DEF TasksShaped, TaskShape
  <2>6. /\ task'[t].addr = task[t].addr /\ task'[t].cred = task[t].cred
        /\ task'[t].at = task[t].at /\ task'[t].left = task[t].left
        /\ task'[t].tool = task[t].tool
    BY <2>2 DEF TasksShaped, TaskShape
  <2>7. task'[t].revokedBefore = task[t].revokedBefore /\ task'[t].steady = task[t].steady
    BY <2>2 DEF TasksShaped, TaskShape
  <2> QED BY <1>2, <2>3, <2>4, <2>5, <2>6, <2>7
<1> QED BY <1>1, <1>2

LEMMA GoesToFetch ==
    ASSUME TasksShaped, NEW t \in Task, task' = SecondRound(t)
    PROVE  /\ DOMAIN task' = Task /\ \A u \in Task \ {t} : task'[u] = task[u]
           /\ TaskShape(task'[t]) /\ task'[t].pc = "fetch"
           /\ task'[t].addr = task[t].addr /\ task'[t].cred = task[t].cred
           /\ task'[t].who = task[t].who /\ task'[t].at = task[t].at
           /\ task'[t].decided = task[t].decided /\ task'[t].left = task[t].left
           /\ task'[t].tool = task[t].tool
           /\ task'[t].revokedBefore = task[t].revokedBefore /\ task'[t].steady = task[t].steady
<1>1. task' = [task EXCEPT ![t].pc = "fetch", ![t].forced = TRUE]
  BY DEF SecondRound
<1>2. DOMAIN task' = Task /\ \A u \in Task \ {t} : task'[u] = task[u]
  BY <1>1 DEF TasksShaped, TaskShape
<1>3. TaskShape(task'[t])
  BY <1>1 DEF TasksShaped, TaskShape
<1>4. task'[t].pc = "fetch" /\ task'[t].who = task[t].who /\ task'[t].decided = task[t].decided
  BY <1>1 DEF TasksShaped, TaskShape
<1>5. /\ task'[t].addr = task[t].addr /\ task'[t].cred = task[t].cred
      /\ task'[t].at = task[t].at /\ task'[t].left = task[t].left
      /\ task'[t].tool = task[t].tool
  BY <1>1 DEF TasksShaped, TaskShape
<1>6. task'[t].revokedBefore = task[t].revokedBefore /\ task'[t].steady = task[t].steady
  BY <1>1 DEF TasksShaped, TaskShape
<1> QED BY <1>2, <1>3, <1>4, <1>5, <1>6

LEMMA BecomesIdle ==
    ASSUME TasksShaped, NEW t \in Task, Done(t)
    PROVE  DOMAIN task' = Task /\ (\A u \in Task \ {t} : task'[u] = task[u]) /\ task'[t] = Idle
BY DEF TasksShaped, Done

-----------------------------------------------------------------------------
(* The steps of a request.                                                   *)

LEMMA StepOfOne ==
    ASSUME CredentialInv, NEW t \in Task, UNCHANGED <<now, keysVars, revoked, setup>>,
           DOMAIN task' = Task, \A u \in Task \ {t} : task'[u] = task[u],
           TaskShape(task[t])' /\ KeyTask(t)'
    PROVE  CredentialInv'
<1>1. KeysInv'
  BY KeysUntouched DEF CredentialInv
<1>2. TasksShaped' /\ \A u \in Task : KeyTask(u)'
  BY OneMoves DEF keysVars
<1> QED BY <1>1, <1>2 DEF CredentialInv

LEMMA Settled ==
    ASSUME CredentialInv, NEW t \in Task, UNCHANGED <<now, keysVars, revoked, setup>>,
           task[t].pc # "idle", DOMAIN task' = Task, \A u \in Task \ {t} : task'[u] = task[u],
           TaskShape(task'[t]),
           task'[t].pc \notin InRound \cup {"idle", "verify", "note"},
           task'[t].addr = task[t].addr, task'[t].cred = task[t].cred, task'[t].who = task[t].who,
           task'[t].at = task[t].at, task'[t].decided = task[t].decided,
           task'[t].revokedBefore = task[t].revokedBefore, task'[t].steady = task[t].steady
    PROVE  CredentialInv'
<1>1. TaskShape(task[t])' /\ KeyTask(t)'
  BY MovesOn DEF CredentialInv, keysVars
<1> QED BY <1>1, StepOfOne

LEMMA Ends ==
    ASSUME CredentialInv, NEW t \in Task, UNCHANGED <<now, keysVars, revoked, setup>>, Done(t)
    PROVE  CredentialInv'
<1>1. DOMAIN task' = Task /\ (\A u \in Task \ {t} : task'[u] = task[u]) /\ task'[t] = Idle
  BY BecomesIdle DEF CredentialInv
<1>2. TaskShape(task[t])' /\ KeyTask(t)'
  BY <1>1, IdleIsFine
<1> QED BY <1>1, <1>2, StepOfOne

LEMMA ArriveKeeps == ASSUME CredentialInv, NEW t \in Task, Arrive(t) PROVE CredentialInv'
<1>1. UNCHANGED <<now, keysVars, revoked, setup>>
  BY DEF Arrive
<1>2. CASE UNCHANGED task
  <2>1. TaskShape(task[t])' /\ KeyTask(t)'
    BY <1>1, <1>2, StandsStill DEF CredentialInv, TasksShaped, keysVars
  <2> QED BY <1>1, <1>2, <2>1, StepOfOne DEF CredentialInv, TasksShaped
<1>3. CASE ~UNCHANGED task
  <2>1. PICK a \in setup.caller, cred \in setup.credential, r \in setup.request :
          task' = [task EXCEPT ![t] = Received(a, cred, r)]
    BY <1>3 DEF Arrive
  <2>2. PICK w, p, b, s, e, x, n :
          /\ w = IF cred = Root THEN Administrator
                 ELSE IF cred = NoCredential THEN Nobody ELSE Refused
          /\ p = Resolving(cred) /\ b = (cred \in revoked)
          /\ s = (Resolving(cred) \in {"lookup", "decode"} /\ phase[Claims[cred].kid] = "published")
          /\ e = <<r.route>> /\ x = r.rpc /\ n = now
    OBVIOUS
  <2>3. Received(a, cred, r) =
            [Idle EXCEPT !.addr = a, !.cred = cred, !.left = e, !.rpc = x, !.at = n,
                         !.who = w, !.pc = p, !.revokedBefore = b, !.steady = s]
    BY <2>2, Zenon DEF Received
  <2>4. /\ DOMAIN task' = Task /\ \A u \in Task \ {t} : task'[u] = task[u]
        /\ task'[t] = Received(a, cred, r)
    BY <2>1 DEF CredentialInv, TasksShaped
  <2>5. PICK y : y = task'[t]
    OBVIOUS
  <2>6. /\ TaskShape(y) /\ y.addr = a /\ y.cred = cred /\ y.at = n /\ y.who = w /\ y.pc = p
        /\ y.revokedBefore = b /\ y.steady = s
    <3>0. y = [Idle EXCEPT !.addr = a, !.cred = cred, !.left = e, !.rpc = x, !.at = n,
                           !.who = w, !.pc = p, !.revokedBefore = b, !.steady = s]
      BY <2>3, <2>4, <2>5
    <3>1. y.addr = a
      BY <3>0, Z3 DEF Idle
    <3>2. y.cred = cred
      BY <3>0, Z3 DEF Idle
    <3>3. y.at = n
      BY <3>0, Z3 DEF Idle
    <3>4. y.who = w
      BY <3>0, Z3 DEF Idle
    <3>5. y.pc = p
      BY <3>0, Z3 DEF Idle
    <3>6. y.revokedBefore = b
      BY <3>0, Z3 DEF Idle
    <3>7. y.steady = s
      BY <3>0, Z3 DEF Idle
    <3>9. TaskShape(y)
      BY <3>0 DEF TaskShape, Idle
    <3> QED BY <3>1, <3>2, <3>3, <3>4, <3>5, <3>6, <3>7, <3>9
  <2>7. KeyTask(t)'
    <3>0. /\ a \in Address /\ cred \in Token \cup Jwt \cup Malformed \cup {Root, NoCredential}
          /\ now \in Int /\ revoked \subseteq Token
      BY CallersAssumption DEF CredentialInv, KeysInv
    <3>1. p \in {"verify", "decode", "lookup", "charge", "note"}
      BY <2>2 DEF Resolving
    <3>2. p \in {"lookup", "decode"} =>
              cred \in Jwt /\ Claims[cred].issuer \in Issuer /\ (p = "decode" => Claims[cred].kid \in Pinned)
      BY <2>2 DEF Resolving
    <3>3. p = "verify" => cred \in Token
      BY <2>2, <3>1 DEF Resolving
    <3>4. /\ w \in Principals
          /\ w.credential = "known" => cred = Root
      BY <2>2, PrincipalFields DEF Principals
    <3>5. Pending(t)'
      BY <1>1, <2>2, <2>5, <2>6, <3>0, <3>1, <3>4, GatewayAssumption DEF Pending
    <3>6. Resolves(t)'
      BY <2>5, <2>6, <3>1, <3>2, <3>3 DEF Resolves, InRound, IssuerOf, KidOf
    <3>7. Expires(t)'
      <4>1. (b => cred \in revoked') /\ (cred = Root => ~b /\ cred \notin Jwt)
        BY <1>1, <2>2, <3>0, CallersAssumption
      <4> QED BY <2>5, <2>6, <3>4, <4>1 DEF Expires, Known
    <3>8. Steady(t)'
      <4>1. s => p \in {"lookup", "decode"} /\ phase'[Claims[cred].kid] = "published"
        BY <1>1, <2>2 DEF keysVars
      <4> QED BY <2>5, <2>6, <3>2, <4>1 DEF Steady, KidOf
    <3> QED BY <3>5, <3>6, <3>7, <3>8 DEF KeyTask
  <2>8. TaskShape(task[t])'
    BY <2>5, <2>6 DEF TaskShape
  <2> QED BY <1>1, <2>4, <2>7, <2>8, StepOfOne
<1> QED BY <1>2, <1>3

LEMMA VerifyKeeps == ASSUME CredentialInv, NEW t \in Task, VerifyToken(t) PROVE CredentialInv'
<1>1. task[t].pc = "verify" /\ UNCHANGED <<now, keysVars, revoked, setup>>
  BY DEF VerifyToken
<1>2. /\ TasksShaped /\ Pending(t) /\ Resolves(t) /\ Expires(t) /\ Steady(t)
      /\ task[t].cred \in Token /\ task[t].cred \notin Jwt
  BY <1>1, CallersAssumption DEF CredentialInv, KeyTask, Resolves
<1>3. PICK w, p :
        /\ task' = Become(t, w, p)
        /\ \/ p = "charge" /\ w = Broken
           \/ p = "charge" /\ w = TokenPrincipal(task[t].cred) /\ task[t].cred \notin revoked
           \/ p = "note" /\ w = Refused
  BY DEF VerifyToken, Live
<1>4. /\ DOMAIN task' = Task /\ \A u \in Task \ {t} : task'[u] = task[u]
      /\ TaskShape(task'[t]) /\ task'[t].pc = p /\ task'[t].who = w
      /\ task'[t].addr = task[t].addr /\ task'[t].cred = task[t].cred /\ task'[t].at = task[t].at
      /\ task'[t].revokedBefore = task[t].revokedBefore /\ task'[t].steady = task[t].steady
  BY <1>2, <1>3, Becomes
<1>5. w \in Principals
  BY <1>2, <1>3 DEF Principals
<1>6. Pending(t)'
  BY <1>1, <1>2, <1>3, <1>4, <1>5 DEF Pending
<1>7. Resolves(t)'
  BY <1>3, <1>4 DEF Resolves, InRound
<1>8. Expires(t)'
  BY <1>1, <1>2, <1>3, <1>4, PrincipalFields DEF Expires, Known
<1>9. Steady(t)'
  BY <1>1, <1>2, <1>4 DEF Steady
<1>10. TaskShape(task[t])' /\ KeyTask(t)'
  BY <1>4, <1>6, <1>7, <1>8, <1>9 DEF KeyTask, TaskShape
<1> QED BY <1>1, <1>4, <1>10, StepOfOne

(* A JWT is decoded with a key that is not withdrawn, or was so recently that     *)
(* the cache or the answer still had it.                                      *)
LEMMA DecodeIsTimely ==
    ASSUME CredentialInv, NEW t \in Task, task[t].pc \in InRound,
           UNCHANGED <<now, phase, retiredAt, revoked>>, task' = Decode(t, task),
           phase[KidOf(t)] = "retired" => now < retiredAt[KidOf(t)] + Patience + Ttl
    PROVE  /\ DOMAIN task' = Task /\ \A u \in Task \ {t} : task'[u] = task[u]
           /\ TaskShape(task[t])' /\ KeyTask(t)'
<1>1. /\ TasksShaped /\ Pending(t) /\ Resolves(t) /\ Expires(t) /\ Steady(t)
      /\ task[t].cred \in Jwt /\ task[t].cred \notin Token /\ task[t].cred \notin revoked
      /\ task[t].pc # "idle"
  <2>1. task[t].pc # "idle"
    BY DEF InRound
  <2> QED BY <2>1, CallersAssumption DEF CredentialInv, KeyTask, Resolves, KeysInv
<1>2. /\ DOMAIN task' = Task /\ \A u \in Task \ {t} : task'[u] = task[u]
      /\ TaskShape(task'[t])
      /\ task'[t].addr = task[t].addr /\ task'[t].cred = task[t].cred /\ task'[t].at = task[t].at
      /\ task'[t].revokedBefore = task[t].revokedBefore /\ task'[t].steady = task[t].steady
      /\ \/ /\ Claims[task[t].cred].sound /\ task'[t].pc = "charge" /\ task'[t].decided = now
            /\ task'[t].who = ClaimsPrincipal(task[t].cred)
         \/ ~Claims[task[t].cred].sound /\ task'[t].pc = "note" /\ task'[t].who = Refused
  BY <1>1, Decodes
<1>3. task'[t].who \in Principals /\ task'[t].pc \in {"charge", "note"}
  BY <1>1, <1>2 DEF Principals
<1>4. Pending(t)'
  BY <1>1, <1>2, <1>3 DEF Pending
<1>5. Resolves(t)'
  BY <1>3 DEF Resolves, InRound
<1>6. now \in Int
  BY DEF CredentialInv, KeysInv
<1>7. Expires(t)'
  <2>1. ~task'[t].revokedBefore
    BY <1>1, <1>2 DEF Expires
  <2>2. CASE task'[t].who = Refused
    BY <2>1, <2>2, PrincipalFields DEF Expires, Known
  <2>3. CASE task'[t].decided = now
    BY <1>2, <1>6, <2>1, <2>3 DEF Expires, KidOf
  <2> QED BY <1>2, <2>2, <2>3
<1>8. Steady(t)'
  BY <1>1, <1>2, <1>3 DEF Steady, InRound
<1> QED BY <1>2, <1>4, <1>5, <1>7, <1>8 DEF KeyTask, TaskShape

LEMMA DecodePinnedKeeps == ASSUME CredentialInv, NEW t \in Task, DecodePinned(t) PROVE CredentialInv'
<1>1. task[t].pc = "decode" /\ task' = Decode(t, task) /\ UNCHANGED <<now, keysVars, revoked, setup>>
  BY DEF DecodePinned
<1>2. phase[KidOf(t)] # "retired"
  <2>1. KidOf(t) \in Pinned
    BY <1>1 DEF CredentialInv, KeyTask, Resolves
  <2>2. KidOf(t) \in Kid
    BY <2>1, GatewayAssumption
  <2> QED BY <2>1, <2>2 DEF CredentialInv, KeysInv
<1>3. /\ DOMAIN task' = Task /\ \A u \in Task \ {t} : task'[u] = task[u]
      /\ TaskShape(task[t])' /\ KeyTask(t)'
  BY <1>1, <1>2, DecodeIsTimely DEF InRound, keysVars
<1> QED BY <1>1, <1>3, StepOfOne

LEMMA AsksIssuer ==
    ASSUME CredentialInv, NEW t \in Task, task[t].pc \in {"lookup", "insert"},
           UNCHANGED <<now, phase, retiredAt, revoked>>, task'[t].pc = "fetch", TaskShape(task'[t]),
           task'[t].addr = task[t].addr, task'[t].cred = task[t].cred,
           task'[t].who = task[t].who, task'[t].at = task[t].at,
           task'[t].decided = task[t].decided,
           task'[t].revokedBefore = task[t].revokedBefore, task'[t].steady = task[t].steady
    PROVE  TaskShape(task[t])' /\ KeyTask(t)'
<1>1. /\ Pending(t) /\ Resolves(t) /\ Expires(t) /\ Steady(t)
      /\ task[t].pc \in InRound /\ task[t].pc # "idle"
  BY DEF CredentialInv, KeyTask, InRound
<1>2. Pending(t)'
  BY <1>1 DEF Pending
<1>3. Resolves(t)'
  BY <1>1 DEF Resolves, IssuerOf
<1>4. Expires(t)'
  BY <1>1 DEF Expires, Known, KidOf
<1>5. Steady(t)'
  BY <1>1 DEF Steady, KidOf
<1> QED BY <1>2, <1>3, <1>4, <1>5 DEF KeyTask, TaskShape

LEMMA LookupKeeps == ASSUME CredentialInv, NEW t \in Task, LookupKeys(t) PROVE CredentialInv'
<1>1. task[t].pc = "lookup" /\ UNCHANGED <<now, keysVars, revoked, setup>>
  BY DEF LookupKeys
<1>2. /\ TasksShaped /\ task[t].cred \in Jwt /\ IssuerOf(t) \in Issuer
  BY <1>1 DEF CredentialInv, KeyTask, Resolves, InRound
<1>3. CASE ~Fresh(IssuerOf(t)) /\ task' = [task EXCEPT ![t].pc = "fetch"]
  <2>1. /\ DOMAIN task' = Task /\ \A u \in Task \ {t} : task'[u] = task[u]
        /\ TaskShape(task'[t]) /\ task'[t].pc = "fetch"
        /\ task'[t].addr = task[t].addr /\ task'[t].cred = task[t].cred
        /\ task'[t].who = task[t].who /\ task'[t].at = task[t].at
        /\ task'[t].decided = task[t].decided
        /\ task'[t].revokedBefore = task[t].revokedBefore /\ task'[t].steady = task[t].steady
    BY <1>2, <1>3, PcChanges
  <2>2. TaskShape(task[t])' /\ KeyTask(t)'
    BY <1>1, <2>1, AsksIssuer DEF keysVars
  <2> QED BY <1>1, <2>1, <2>2, StepOfOne
<1>4. CASE Fresh(IssuerOf(t)) /\ KidOf(t) \in cache[IssuerOf(t)].keys /\ task' = Decode(t, task)
  <2>1. phase[KidOf(t)] = "retired" => now < retiredAt[KidOf(t)] + Patience + Ttl
    <3>1. /\ cache[IssuerOf(t)].at \in Int /\ now \in Int /\ KidOf(t) \in Kid
          /\ retiredAt \in [Kid -> Int]
          /\ phase[KidOf(t)] = "retired" =>
                cache[IssuerOf(t)].at <= retiredAt[KidOf(t)] + Patience
      BY <1>2, <1>4 DEF CredentialInv, KeysInv
    <3>2. now - cache[IssuerOf(t)].at < Ttl
      BY <1>4 DEF Fresh
    <3> QED BY <3>1, <3>2, GatewayAssumption
  <2>2. /\ DOMAIN task' = Task /\ \A u \in Task \ {t} : task'[u] = task[u]
        /\ TaskShape(task[t])' /\ KeyTask(t)'
    BY <1>1, <1>4, <2>1, DecodeIsTimely DEF InRound, keysVars
  <2> QED BY <1>1, <2>2, StepOfOne
<1>5. CASE task' = SecondRound(t)
  <2>1. /\ DOMAIN task' = Task /\ \A u \in Task \ {t} : task'[u] = task[u]
        /\ TaskShape(task'[t]) /\ task'[t].pc = "fetch"
        /\ task'[t].addr = task[t].addr /\ task'[t].cred = task[t].cred
        /\ task'[t].who = task[t].who /\ task'[t].at = task[t].at
        /\ task'[t].decided = task[t].decided
        /\ task'[t].revokedBefore = task[t].revokedBefore /\ task'[t].steady = task[t].steady
    BY <1>2, <1>5, GoesToFetch
  <2>2. TaskShape(task[t])' /\ KeyTask(t)'
    BY <1>1, <2>1, AsksIssuer DEF keysVars
  <2> QED BY <1>1, <2>1, <2>2, StepOfOne
<1> QED BY <1>3, <1>4, <1>5 DEF LookupKeys

LEMMA AnswerKeeps == ASSUME CredentialInv, NEW t \in Task, IssuerAnswers(t) PROVE CredentialInv'
<1>1. task[t].pc = "fetch" /\ UNCHANGED <<now, keysVars, revoked, setup>>
  BY DEF IssuerAnswers
<1>2. /\ TasksShaped /\ Pending(t) /\ Resolves(t) /\ Expires(t) /\ Steady(t)
      /\ task[t].cred \in Jwt /\ IssuerOf(t) \in Issuer
  BY <1>1 DEF CredentialInv, KeyTask, Resolves, InRound
<1>3. PICK ks : ks = Published(IssuerOf(t))
  OBVIOUS
<1>4. task' = [task EXCEPT ![t].pc = "insert", ![t].keys = ks]
  BY <1>3 DEF IssuerAnswers
<1>5. DOMAIN task' = Task /\ \A u \in Task \ {t} : task'[u] = task[u]
  BY <1>2, <1>4 DEF TasksShaped, TaskShape
<1>6. TaskShape(task'[t])
  BY <1>2, <1>4 DEF TasksShaped, TaskShape
<1>7. task'[t].pc = "insert" /\ task'[t].keys = ks
  BY <1>2, <1>4 DEF TasksShaped, TaskShape
<1>8. /\ task'[t].addr = task[t].addr /\ task'[t].cred = task[t].cred
      /\ task'[t].who = task[t].who /\ task'[t].at = task[t].at
      /\ task'[t].decided = task[t].decided
  BY <1>2, <1>4 DEF TasksShaped, TaskShape
<1>9. task'[t].revokedBefore = task[t].revokedBefore /\ task'[t].steady = task[t].steady
  BY <1>2, <1>4 DEF TasksShaped, TaskShape
<1>10. ks \subseteq Kid /\ \A k \in ks : phase[k] = "published"
  BY <1>3 DEF Published
<1>11. task[t].steady => KidOf(t) \in ks
  <2>1. task[t].steady => phase[KidOf(t)] = "published" /\ KidOf(t) \in Kid
    BY <1>1, <1>2, GatewayAssumption DEF Steady, InRound, KidOf
  <2> QED BY <1>2, <1>3, <2>1 DEF Published, KidOf, IssuerOf
<1>12. Pending(t)'
  BY <1>1, <1>2, <1>7, <1>8 DEF Pending
<1>13. Resolves(t)'
  BY <1>1, <1>2, <1>7, <1>8, <1>10 DEF Resolves, IssuerOf, keysVars
<1>14. Expires(t)'
  BY <1>1, <1>2, <1>8, <1>9 DEF Expires, Known, KidOf, keysVars
<1>15. Steady(t)'
  BY <1>1, <1>2, <1>7, <1>8, <1>9, <1>11 DEF Steady, KidOf, InRound, keysVars
<1>16. TaskShape(task[t])' /\ KeyTask(t)'
  BY <1>6, <1>12, <1>13, <1>14, <1>15 DEF KeyTask, TaskShape
<1> QED BY <1>1, <1>5, <1>16, StepOfOne

(* A credential that is refused.                                              *)
LEMMA RefusalKeeps ==
    ASSUME CredentialInv, NEW t \in Task, UNCHANGED <<now, phase, retiredAt, revoked>>,
           task[t].pc # "idle",
           TaskShape(task'[t]), task'[t].pc = "note", task'[t].who = Refused,
           task'[t].addr = task[t].addr, task'[t].cred = task[t].cred, task'[t].at = task[t].at,
           task'[t].revokedBefore = task[t].revokedBefore, ~task'[t].steady
    PROVE  TaskShape(task[t])' /\ KeyTask(t)'
<1>1. /\ Pending(t) /\ Expires(t)
  BY DEF CredentialInv, KeyTask
<1>2. Pending(t)'
  BY <1>1 DEF Pending, Principals
<1>3. Resolves(t)'
  BY DEF Resolves, InRound
<1>4. Expires(t)'
  BY <1>1, PrincipalFields DEF Expires, Known
<1>5. Steady(t)'
  BY DEF Steady
<1> QED BY <1>2, <1>3, <1>4, <1>5 DEF KeyTask, TaskShape

LEMMA FailsKeeps == ASSUME CredentialInv, NEW t \in Task, IssuerFails(t) PROVE CredentialInv'
<1>1. task[t].pc = "fetch" /\ UNCHANGED <<now, keysVars, revoked, setup>> /\ TasksShaped
  BY DEF IssuerFails, CredentialInv
<1>2. task' = [task EXCEPT ![t].pc = "note", ![t].who = Refused, ![t].steady = FALSE]
  BY DEF IssuerFails
<1>3. DOMAIN task' = Task /\ \A u \in Task \ {t} : task'[u] = task[u]
  BY <1>1, <1>2 DEF TasksShaped, TaskShape
<1>4. TaskShape(task'[t])
  BY <1>1, <1>2 DEF TasksShaped, TaskShape
<1>5. task'[t].pc = "note" /\ task'[t].who = Refused
  BY <1>1, <1>2 DEF TasksShaped, TaskShape
<1>6. ~task'[t].steady
  BY <1>1, <1>2 DEF TasksShaped, TaskShape
<1>7. /\ task'[t].addr = task[t].addr /\ task'[t].cred = task[t].cred
      /\ task'[t].at = task[t].at
  BY <1>1, <1>2 DEF TasksShaped, TaskShape
<1>8. task'[t].revokedBefore = task[t].revokedBefore
  BY <1>1, <1>2 DEF TasksShaped, TaskShape
<1>9. TaskShape(task[t])' /\ KeyTask(t)'
  BY <1>1, <1>4, <1>5, <1>6, <1>7, <1>8, RefusalKeeps DEF keysVars
<1> QED BY <1>1, <1>3, <1>9, StepOfOne

LEMMA CacheKeeps ==
    ASSUME CredentialInv, NEW t \in Task, InsertKeys(t) PROVE KeysInv'
<1>1. /\ task[t].pc = "insert" /\ UNCHANGED <<now, phase, retiredAt, revoked, setup>>
      /\ cache' = [cache EXCEPT ![IssuerOf(t)] = [keys |-> task[t].keys, at |-> now]]
  BY DEF InsertKeys
<1>2. /\ KeysInv /\ IssuerOf(t) \in Issuer /\ task[t].keys \subseteq Kid
      /\ task[t].at \in Int /\ now - task[t].at <= Patience
      /\ \A k \in task[t].keys : phase[k] = "retired" => task[t].at <= retiredAt[k]
  BY <1>1 DEF CredentialInv, KeyTask, Pending, Resolves, InRound
<1>3. ASSUME NEW i \in Issuer
      PROVE  /\ cache'[i].at \in Int /\ cache'[i].at <= now /\ cache'[i].keys \subseteq Kid
             /\ \A k \in cache'[i].keys :
                    phase[k] = "retired" => cache'[i].at <= retiredAt[k] + Patience
  <2>1. CASE i = IssuerOf(t)
    <3>1. cache'[i].keys = task[t].keys /\ cache'[i].at = now
      BY <1>1, <1>2, <2>1 DEF KeysInv
    <3>2. ASSUME NEW k \in task[t].keys, phase[k] = "retired" PROVE now <= retiredAt[k] + Patience
      <4>1. task[t].at <= retiredAt[k] /\ retiredAt[k] \in Int /\ now \in Int /\ Patience \in Nat
        BY <1>2, <3>2, GatewayAssumption DEF KeysInv
      <4> QED BY <1>2, <4>1
    <3> QED BY <1>2, <3>1, <3>2 DEF KeysInv
  <2>2. CASE i # IssuerOf(t)
    BY <1>1, <1>2, <2>2 DEF KeysInv
  <2> QED BY <2>1, <2>2
<1> QED BY <1>1, <1>2, <1>3 DEF KeysInv

LEMMA InsertKeeps == ASSUME CredentialInv, NEW t \in Task, InsertKeys(t) PROVE CredentialInv'
<1>1. task[t].pc = "insert" /\ UNCHANGED <<now, phase, retiredAt, revoked, setup>>
  BY DEF InsertKeys
<1>2. /\ TasksShaped /\ Pending(t) /\ Resolves(t) /\ Expires(t) /\ Steady(t) /\ KeysInv
      /\ task[t].pc \in InRound /\ task[t].pc # "idle"
  BY <1>1 DEF CredentialInv, KeyTask, InRound
<1>3. /\ DOMAIN task' = Task /\ \A u \in Task \ {t} : task'[u] = task[u]
      /\ TaskShape(task[t])' /\ KeyTask(t)'
  <2>1. CASE KidOf(t) \in task[t].keys /\ task' = Decode(t, task)
    <3>1. phase[KidOf(t)] = "retired" => now < retiredAt[KidOf(t)] + Patience + Ttl
      <4>1. /\ KidOf(t) \in Kid /\ now \in Int /\ retiredAt \in [Kid -> Int]
            /\ task[t].at \in Int /\ now - task[t].at <= Patience
            /\ phase[KidOf(t)] = "retired" => task[t].at <= retiredAt[KidOf(t)]
        BY <1>1, <1>2, <2>1 DEF KeysInv, Pending, Resolves
      <4> QED BY <4>1, GatewayAssumption
    <3> QED BY <1>1, <1>2, <2>1, <3>1, DecodeIsTimely
  <2>2. CASE KidOf(t) \notin task[t].keys /\ task' = Become(t, Refused, "note")
    <3>1. ~task[t].steady
      BY <1>1, <1>2, <2>2 DEF Steady
    <3>2. PICK w, p : w = Refused /\ p = "note"
      OBVIOUS
    <3>3. /\ DOMAIN task' = Task /\ \A u \in Task \ {t} : task'[u] = task[u]
          /\ TaskShape(task'[t]) /\ task'[t].pc = p /\ task'[t].who = w
          /\ task'[t].addr = task[t].addr /\ task'[t].cred = task[t].cred
          /\ task'[t].at = task[t].at
          /\ task'[t].revokedBefore = task[t].revokedBefore /\ task'[t].steady = task[t].steady
      BY <1>2, <2>2, <3>2, Becomes
    <3>4. TaskShape(task[t])' /\ KeyTask(t)'
      BY <1>1, <1>2, <3>1, <3>2, <3>3, RefusalKeeps
    <3> QED BY <3>3, <3>4
  <2>3. CASE task' = SecondRound(t)
    <3>1. /\ DOMAIN task' = Task /\ \A u \in Task \ {t} : task'[u] = task[u]
          /\ TaskShape(task'[t]) /\ task'[t].pc = "fetch"
          /\ task'[t].addr = task[t].addr /\ task'[t].cred = task[t].cred
          /\ task'[t].who = task[t].who /\ task'[t].at = task[t].at
          /\ task'[t].decided = task[t].decided
          /\ task'[t].revokedBefore = task[t].revokedBefore /\ task'[t].steady = task[t].steady
      BY <1>2, <2>3, GoesToFetch
    <3>2. TaskShape(task[t])' /\ KeyTask(t)'
      BY <1>1, <3>1, AsksIssuer
    <3> QED BY <3>1, <3>2
  <2> QED BY <2>1, <2>2, <2>3 DEF InsertKeys
<1>4. TasksShaped' /\ \A u \in Task : KeyTask(u)'
  BY <1>1, <1>3, OneMoves
<1>5. KeysInv'
  BY CacheKeeps
<1> QED BY <1>4, <1>5 DEF CredentialInv

(* Goto to a later stage.                                                     *)
LEMMA GotoKeeps ==
    ASSUME CredentialInv, NEW t \in Task, UNCHANGED <<now, keysVars, revoked, setup>>,
           task[t].pc # "idle", NEW p, Goto(t, p), p \notin InRound \cup {"idle", "verify", "note"}
    PROVE  CredentialInv'
<1>1. TasksShaped /\ task' = [task EXCEPT ![t].pc = p]
  BY DEF Goto, CredentialInv
<1>2. /\ DOMAIN task' = Task /\ \A u \in Task \ {t} : task'[u] = task[u]
      /\ TaskShape(task'[t]) /\ task'[t].pc = p
      /\ task'[t].addr = task[t].addr /\ task'[t].cred = task[t].cred
      /\ task'[t].who = task[t].who /\ task'[t].at = task[t].at
      /\ task'[t].decided = task[t].decided
      /\ task'[t].revokedBefore = task[t].revokedBefore /\ task'[t].steady = task[t].steady
  BY <1>1, PcChanges
<1> QED BY <1>2, Settled

LEMMA NoteKeeps == ASSUME CredentialInv, NEW t \in Task, NoteFailure(t) PROVE CredentialInv'
<1>1. task[t].pc = "note" /\ UNCHANGED <<now, keysVars, revoked, setup>> /\ TasksShaped
  BY DEF NoteFailure, CredentialInv
<1>2. CASE Goto(t, "charge")
  <2>1. "charge" \notin InRound \cup {"idle", "verify", "note"} /\ task[t].pc # "idle"
    BY <1>1 DEF InRound
  <2> QED BY <1>1, <1>2, <2>1, GotoKeeps
<1>3. CASE \E w : task' = [task EXCEPT ![t].pc = "block", ![t].wait = w]
  <2>1. PICK w : task' = [task EXCEPT ![t].pc = "block", ![t].wait = w]
    BY <1>3
  <2>2. DOMAIN task' = Task /\ \A u \in Task \ {t} : task'[u] = task[u]
    BY <1>1, <2>1 DEF TasksShaped, TaskShape
  <2>3. TaskShape(task'[t])
    BY <1>1, <2>1 DEF TasksShaped, TaskShape
  <2>4. task'[t].pc = "block"
    BY <1>1, <2>1 DEF TasksShaped, TaskShape
  <2>5. /\ task'[t].addr = task[t].addr /\ task'[t].cred = task[t].cred
        /\ task'[t].who = task[t].who /\ task'[t].at = task[t].at
        /\ task'[t].decided = task[t].decided
    BY <1>1, <2>1 DEF TasksShaped, TaskShape
  <2>6. task'[t].revokedBefore = task[t].revokedBefore /\ task'[t].steady = task[t].steady
    BY <1>1, <2>1 DEF TasksShaped, TaskShape
  <2>7. task'[t].pc \notin InRound \cup {"idle", "verify", "note"}
    BY <2>4 DEF InRound
  <2> QED BY <1>1, <2>2, <2>3, <2>5, <2>6, <2>7, Settled
<1> QED BY <1>2, <1>3 DEF NoteFailure

LEMMA BlockKeeps == ASSUME CredentialInv, NEW t \in Task, BlockAddress(t) PROVE CredentialInv'
<1>1. task[t].pc # "idle" /\ UNCHANGED <<now, keysVars, revoked, setup>> /\ Goto(t, "charge")
  BY DEF BlockAddress
<1>2. "charge" \notin InRound \cup {"idle", "verify", "note"}
  BY DEF InRound
<1> QED BY <1>1, <1>2, GotoKeeps

LEMMA AdmitKeeps == ASSUME CredentialInv, NEW t \in Task, Admit(t) PROVE CredentialInv'
<1>1. task[t].pc # "idle" /\ UNCHANGED <<now, keysVars, revoked, setup>> /\ Goto(t, "serve")
  BY DEF Admit
<1>2. "serve" \notin InRound \cup {"idle", "verify", "note"}
  BY DEF InRound
<1> QED BY <1>1, <1>2, GotoKeeps

(* The requests of a tool call, and what is left of a call.                      *)
LEMMA CallsMore ==
    ASSUME CredentialInv, NEW t \in Task, UNCHANGED <<now, keysVars, revoked, setup>>,
           task[t].pc \in {"charge", "serve"}, NEW ls, NEW tl,
           task' = [task EXCEPT ![t].pc = "charge", ![t].left = ls, ![t].tool = tl]
    PROVE  CredentialInv'
<1>1. TasksShaped
  BY DEF CredentialInv
<1>2. DOMAIN task' = Task /\ \A u \in Task \ {t} : task'[u] = task[u]
  BY <1>1 DEF TasksShaped, TaskShape
<1>3. TaskShape(task'[t])
  BY <1>1 DEF TasksShaped, TaskShape
<1>4. task'[t].pc = "charge"
  BY <1>1 DEF TasksShaped, TaskShape
<1>5. /\ task'[t].addr = task[t].addr /\ task'[t].cred = task[t].cred
      /\ task'[t].who = task[t].who /\ task'[t].at = task[t].at
      /\ task'[t].decided = task[t].decided
  BY <1>1 DEF TasksShaped, TaskShape
<1>6. task'[t].revokedBefore = task[t].revokedBefore /\ task'[t].steady = task[t].steady
  BY <1>1 DEF TasksShaped, TaskShape
<1>7. task'[t].pc \notin InRound \cup {"idle", "verify", "note"}
  BY <1>4 DEF InRound
<1> QED BY <1>2, <1>3, <1>5, <1>6, <1>7, Settled

(* What a call or an answer of the endpoint leaves of the request.               *)
LEMMA EndpointSteps ==
    ASSUME NEW t \in Task, AnswerRpc(t) \/ CallTool(t) \/ Handle(t) \/ TooMany(t)
    PROVE  /\ Unchanged /\ task[t].pc \in {"charge", "serve"}
           /\ \/ Done(t)
              \/ \E calls, name :
                    task' = [task EXCEPT ![t].pc = "charge", ![t].left = calls, ![t].tool = name]
              \/ \E ls : task' = [task EXCEPT ![t].pc = "charge", ![t].left = ls]
              \/ task[t].pc = "charge" /\ \E ls : task' = [task EXCEPT ![t].left = ls]
<1>1. CASE AnswerRpc(t)
  BY <1>1 DEF AnswerRpc, AtEndpoint
<1>2. CASE CallTool(t)
  BY <1>2 DEF CallTool, AtEndpoint
<1>3. CASE Handle(t)
  BY <1>3 DEF Handle
<1>4. CASE TooMany(t)
  BY <1>4 DEF TooMany, OverLimit
<1> QED BY <1>1, <1>2, <1>3, <1>4

LEMMA EndpointKeeps ==
    ASSUME CredentialInv, NEW t \in Task,
           AnswerRpc(t) \/ CallTool(t) \/ Handle(t) \/ TooMany(t)
    PROVE  CredentialInv'
<1>1. TasksShaped /\ UNCHANGED <<now, keysVars, revoked, setup>> /\ task[t].pc \in {"charge", "serve"}
  BY EndpointSteps DEF CredentialInv, Unchanged
<1>2. CASE Done(t)
  BY <1>1, <1>2, Ends
<1>3. CASE \E calls, name :
              task' = [task EXCEPT ![t].pc = "charge", ![t].left = calls, ![t].tool = name]
  BY <1>1, <1>3, CallsMore
<1>4. CASE \E ls : task' = [task EXCEPT ![t].pc = "charge", ![t].left = ls]
  <2>1. PICK ls : task' = [task EXCEPT ![t].pc = "charge", ![t].left = ls]
    BY <1>4
  <2>2. DOMAIN task' = Task /\ \A u \in Task \ {t} : task'[u] = task[u]
    BY <1>1, <2>1 DEF TasksShaped, TaskShape
  <2>3. TaskShape(task'[t])
    BY <1>1, <2>1 DEF TasksShaped, TaskShape
  <2>4. task'[t].pc = "charge"
    BY <1>1, <2>1 DEF TasksShaped, TaskShape
  <2>5. /\ task'[t].addr = task[t].addr /\ task'[t].cred = task[t].cred
        /\ task'[t].who = task[t].who /\ task'[t].at = task[t].at
        /\ task'[t].decided = task[t].decided
    BY <1>1, <2>1 DEF TasksShaped, TaskShape
  <2>6. task'[t].revokedBefore = task[t].revokedBefore /\ task'[t].steady = task[t].steady
    BY <1>1, <2>1 DEF TasksShaped, TaskShape
  <2>7. task'[t].pc \notin InRound \cup {"idle", "verify", "note"}
    BY <2>4 DEF InRound
  <2> QED BY <1>1, <2>2, <2>3, <2>5, <2>6, <2>7, Settled
<1>5. CASE task[t].pc = "charge" /\ \E ls : task' = [task EXCEPT ![t].left = ls]
  <2>1. PICK ls : task' = [task EXCEPT ![t].left = ls]
    BY <1>5
  <2>2. DOMAIN task' = Task /\ \A u \in Task \ {t} : task'[u] = task[u]
    BY <1>1, <2>1 DEF TasksShaped, TaskShape
  <2>3. TaskShape(task'[t])
    BY <1>1, <2>1 DEF TasksShaped, TaskShape
  <2>4. task'[t].pc = "charge"
    BY <1>1, <1>5, <2>1 DEF TasksShaped, TaskShape
  <2>5. /\ task'[t].addr = task[t].addr /\ task'[t].cred = task[t].cred
        /\ task'[t].who = task[t].who /\ task'[t].at = task[t].at
        /\ task'[t].decided = task[t].decided
    BY <1>1, <2>1 DEF TasksShaped, TaskShape
  <2>6. task'[t].revokedBefore = task[t].revokedBefore /\ task'[t].steady = task[t].steady
    BY <1>1, <2>1 DEF TasksShaped, TaskShape
  <2>7. task'[t].pc \notin InRound \cup {"idle", "verify", "note"}
    BY <2>4 DEF InRound
  <2> QED BY <1>1, <2>2, <2>3, <2>5, <2>6, <2>7, Settled
<1> QED BY <1>1, <1>2, <1>3, <1>4, <1>5, EndpointSteps

-----------------------------------------------------------------------------
(* The surroundings.                                                         *)

LEMMA TickKeeps == ASSUME CredentialInv, Tick PROVE CredentialInv'
<1>1. /\ now' = now + 1 /\ UNCHANGED <<task, keysVars, revoked, setup>>
      /\ \A t \in Task : task[t] # Idle => now - task[t].at < Patience
      /\ now \in Nat /\ Patience \in Nat
  BY GatewayAssumption DEF Tick, CredentialInv, KeysInv
<1>2. KeysInv'
  <2>1. \A k \in Kid : phase[k] = "retired" => k \notin Pinned /\ retiredAt[k] <= now'
    BY <1>1 DEF CredentialInv, KeysInv
  <2>2. \A i \in Issuer : cache[i].at <= now'
    BY <1>1 DEF CredentialInv, KeysInv
  <2> QED BY <1>1, <2>1, <2>2 DEF CredentialInv, KeysInv, keysVars
<1>3. ASSUME NEW u \in Task PROVE KeyTask(u)'
  <2>1. Pending(u) /\ Resolves(u) /\ Expires(u) /\ Steady(u)
    BY DEF CredentialInv, KeyTask
  <2>2. Pending(u)'
    <3>1. task[u].pc # "idle" => task[u].at \in Int /\ now - task[u].at < Patience
      BY <1>1, <2>1, IdleShape DEF Pending
    <3> QED BY <1>1, <2>1, <3>1 DEF Pending
  <2>3. Resolves(u)' /\ Steady(u)'
    BY <1>1, <2>1 DEF Resolves, Steady, IssuerOf, KidOf, keysVars
  <2>4. Expires(u)'
    BY <1>1, <2>1 DEF Expires, Known, KidOf, keysVars
  <2> QED BY <2>2, <2>3, <2>4 DEF KeyTask
<1>4. TasksShaped'
  BY <1>1 DEF CredentialInv, TasksShaped, TaskShape
<1> QED BY <1>2, <1>3, <1>4 DEF CredentialInv

(* Steps that leave the requests, the clock and the keys alone.                  *)
LEMMA AllStandStill ==
    ASSUME CredentialInv, UNCHANGED <<now, task, phase, retiredAt>>, revoked \subseteq revoked'
    PROVE  TasksShaped' /\ \A u \in Task : KeyTask(u)'
<1>1. ASSUME NEW u \in Task PROVE TaskShape(task[u])' /\ KeyTask(u)'
  BY StandsStill DEF CredentialInv, TasksShaped
<1> QED BY <1>1 DEF CredentialInv, TasksShaped

LEMMA SweepKeeps == ASSUME CredentialInv, RetainRecent PROVE CredentialInv'
<1>1. UNCHANGED <<now, task, keysVars, revoked, setup>>
  BY DEF RetainRecent
<1> QED BY <1>1, AllStandStill, KeysUntouched DEF CredentialInv, keysVars

LEMMA RevokeKeeps == ASSUME CredentialInv, NEW k \in Token, RevokeToken(k) PROVE CredentialInv'
<1>1. UNCHANGED <<now, task, keysVars, setup>> /\ revoked' = revoked \cup {k}
  BY DEF RevokeToken
<1>2. KeysInv'
  BY <1>1 DEF CredentialInv, KeysInv, keysVars
<1> QED BY <1>1, <1>2, AllStandStill DEF CredentialInv, keysVars

LEMMA PublishKeeps == ASSUME CredentialInv, NEW k \in Kid, Publish(k) PROVE CredentialInv'
<1>1. /\ UNCHANGED <<now, task, cache, retiredAt, revoked, setup>>
      /\ phase[k] = "future" /\ phase' = [phase EXCEPT ![k] = "published"]
      /\ DOMAIN phase = Kid
  BY DEF Publish, CredentialInv, KeysInv
<1>2. /\ DOMAIN phase' = Kid
      /\ \A q : q \in Kid /\ phase'[q] = "retired" => phase[q] = "retired"
      /\ \A q : phase[q] = "published" => phase'[q] = "published" 
  BY <1>1
<1>3. KeysInv'
  BY <1>1, <1>2 DEF CredentialInv, KeysInv
<1>4. ASSUME NEW u \in Task PROVE KeyTask(u)'
  <2>1. Pending(u) /\ Resolves(u) /\ Expires(u) /\ Steady(u)
    BY DEF CredentialInv, KeyTask
  <2>2. task[u].cred \in Jwt => KidOf(u) \in Kid
    BY GatewayAssumption DEF KidOf
  <2>3. Pending(u)'
    BY <1>1, <2>1 DEF Pending
  <2>4. Resolves(u)'
    BY <1>1, <1>2, <2>1 DEF Resolves, IssuerOf, KidOf
  <2>5. Expires(u)'
    BY <1>1, <1>2, <2>1, <2>2 DEF Expires, Known, KidOf
  <2>6. Steady(u)'
    BY <1>1, <1>2, <2>1 DEF Steady, KidOf
  <2> QED BY <2>3, <2>4, <2>5, <2>6 DEF KeyTask
<1>5. TasksShaped'
  BY <1>1 DEF CredentialInv, TasksShaped, TaskShape
<1> QED BY <1>3, <1>4, <1>5 DEF CredentialInv

LEMMA RetireKeeps == ASSUME CredentialInv, NEW k \in Kid, Retire(k) PROVE CredentialInv'
<1>1. /\ UNCHANGED <<now, cache, revoked, setup>> /\ k \in setup.rotating
      /\ phase[k] = "published" /\ phase' = [phase EXCEPT ![k] = "retired"]
      /\ retiredAt' = [retiredAt EXCEPT ![k] = now]
      /\ DOMAIN phase = Kid /\ retiredAt \in [Kid -> Int] /\ now \in Int
  BY DEF Retire, CredentialInv, KeysInv
<1>2. /\ DOMAIN phase' = Kid /\ retiredAt' \in [Kid -> Int]
      /\ phase'[k] = "retired" /\ retiredAt'[k] = now
      /\ \A q \in Kid \ {k} : phase'[q] = phase[q] /\ retiredAt'[q] = retiredAt[q]
  BY <1>1
<1>3. Ttl \in Nat \ {0} /\ Patience \in Nat
  BY GatewayAssumption
<1>4. KeysInv'
  <2>1. k \notin Pinned
    BY <1>1, CallersAssumption DEF CredentialInv, KeysInv
  <2>2. \A q \in Kid : phase'[q] = "retired" => q \notin Pinned /\ retiredAt'[q] <= now'
    BY <1>1, <1>2, <2>1 DEF CredentialInv, KeysInv
  <2>3. ASSUME NEW i \in Issuer, NEW q \in cache[i].keys, phase'[q] = "retired"
        PROVE  cache[i].at <= retiredAt'[q] + Patience
    <3>1. q \in Kid /\ cache[i].at \in Int /\ cache[i].at <= now
      BY DEF CredentialInv, KeysInv
    <3>2. CASE q = k
      BY <1>1, <1>2, <1>3, <3>1, <3>2
    <3>3. CASE q # k
      BY <1>2, <2>3, <3>1, <3>3 DEF CredentialInv, KeysInv
    <3> QED BY <3>2, <3>3
  <2>4. now' \in Nat /\ revoked' \subseteq Token /\ setup' \in Setup /\ DOMAIN cache' = Issuer
    BY <1>1 DEF CredentialInv, KeysInv
  <2>5. ASSUME NEW i \in Issuer
        PROVE  cache'[i].at \in Int /\ cache'[i].at <= now' /\ cache'[i].keys \subseteq Kid
    BY <1>1 DEF CredentialInv, KeysInv
  <2> QED BY <1>1, <1>2, <2>2, <2>3, <2>4, <2>5 DEF KeysInv
<1>5. ASSUME NEW u \in Task
      PROVE  TaskShape(task[u])' /\ KeyTask(u)'
  <2>1. /\ TaskShape(task[u]) /\ Pending(u) /\ Resolves(u) /\ Expires(u) /\ Steady(u)
    BY DEF CredentialInv, TasksShaped, KeyTask
  <2>2. task'[u] = IF task[u].cred \in Jwt /\ KidOf(u) = k
                   THEN [task[u] EXCEPT !.steady = FALSE] ELSE task[u]
    BY DEF Retire
  <2>3. /\ TaskShape(task'[u]) /\ task'[u].pc = task[u].pc /\ task'[u].addr = task[u].addr
        /\ task'[u].cred = task[u].cred /\ task'[u].who = task[u].who
        /\ task'[u].at = task[u].at /\ task'[u].decided = task[u].decided
        /\ task'[u].keys = task[u].keys /\ task'[u].revokedBefore = task[u].revokedBefore
    BY <2>1, <2>2 DEF TaskShape
  <2>4. task'[u].steady => task'[u] = task[u] /\ ~(task[u].cred \in Jwt /\ KidOf(u) = k)
    BY <2>1, <2>2 DEF TaskShape
  <2>5. task[u].pc = "idle" => task'[u] = task[u]
    BY <2>1, <2>2, IdleShape, CallersAssumption DEF Pending
  <2>6. Pending(u)'
    BY <1>1, <2>1, <2>3, <2>5 DEF Pending
  <2>7. Resolves(u)'
    <3>1. ASSUME task[u].pc = "insert", NEW q \in task[u].keys, phase'[q] = "retired"
          PROVE  task[u].at <= retiredAt'[q]
      <4>1. q \in Kid /\ task[u].at <= now
        BY <2>1, <3>1 DEF Resolves, Pending
      <4> QED BY <1>2, <2>1, <3>1, <4>1 DEF Resolves
    <3> QED BY <2>1, <2>3, <3>1 DEF Resolves, IssuerOf, KidOf
  <2>8. Expires(u)'
    <3>1. ASSUME Known(u), task[u].cred \in Jwt, phase'[KidOf(u)] = "retired"
          PROVE  task[u].decided < retiredAt'[KidOf(u)] + Patience + Ttl
      <4>1. KidOf(u) \in Kid /\ task[u].decided \in Int /\ task[u].decided <= now
        BY <2>1, <3>1, GatewayAssumption DEF KidOf, Expires
      <4>2. CASE KidOf(u) = k
        BY <1>1, <1>2, <1>3, <4>1, <4>2
      <4>3. CASE KidOf(u) # k
        BY <1>2, <2>1, <3>1, <4>1, <4>3 DEF Expires
      <4> QED BY <4>2, <4>3
    <3>2. Known(u)' <=> Known(u)
      BY <2>3 DEF Known
    <3>3. KidOf(u)' = KidOf(u)
      BY <2>3 DEF KidOf
    <3> QED BY <1>1, <2>1, <2>3, <3>1, <3>2, <3>3 DEF Expires
  <2>9. Steady(u)'
    <3>1. CASE task'[u].steady
      <4>1. task'[u] = task[u] /\ task[u].cred \in Jwt /\ KidOf(u) # k /\ KidOf(u) \in Kid
        BY <2>1, <2>4, <3>1, GatewayAssumption DEF Steady, KidOf
      <4> QED BY <1>2, <2>1, <4>1 DEF Steady, KidOf
    <3>2. CASE ~task'[u].steady
      BY <3>2 DEF Steady
    <3> QED BY <3>1, <3>2
  <2> QED BY <2>3, <2>6, <2>7, <2>8, <2>9 DEF KeyTask, TaskShape
<1>6. DOMAIN task' = Task
  BY DEF Retire
<1> QED BY <1>4, <1>5, <1>6 DEF CredentialInv, TasksShaped

LEMMA MemoryIsLost == ASSUME CredentialInv, FreshMemory PROVE CredentialInv'
<1>1. /\ task' = [t \in Task |-> Idle] /\ cache' = [i \in Issuer |-> [keys |-> {}, at |-> -Ttl]]
      /\ UNCHANGED <<now, phase, revoked, retiredAt, setup>>
  BY DEF FreshMemory
<1>2. ASSUME NEW u \in Task PROVE TaskShape(task[u])' /\ KeyTask(u)'
  BY <1>1, IdleIsFine
<1>3. KeysInv'
  <2>1. now \in Nat /\ Ttl \in Nat
    BY GatewayAssumption DEF CredentialInv, KeysInv
  <2> QED BY <1>1, <2>1 DEF CredentialInv, KeysInv
<1> QED BY <1>1, <1>2, <1>3 DEF CredentialInv, TasksShaped

LEMMA StartsEmpty == McpInit => CredentialInv
<1> SUFFICES ASSUME McpInit PROVE CredentialInv
  OBVIOUS
<1>1. /\ setup \in Setup /\ now = 0 /\ task = [t \in Task |-> Idle] /\ revoked = {}
      /\ cache = [i \in Issuer |-> [keys |-> setup.keys,
                                    at |-> IF setup.keys = {} THEN -Ttl ELSE 0]]
      /\ phase = [q \in Kid |-> IF q \in setup.keys THEN "published" ELSE "future"]
      /\ retiredAt = [q \in Kid |-> 0]
  BY DEF McpInit, GatewayInit
<1>2. setup.keys \subseteq Kid /\ Ttl \in Nat
  BY <1>1, CallersAssumption, GatewayAssumption
<1>3. KeysInv
  BY <1>1, <1>2 DEF KeysInv
<1>4. ASSUME NEW u \in Task PROVE TaskShape(task[u]) /\ KeyTask(u)
  <2>1. task[u] = Idle /\ Nobody \in Principals
    BY <1>1 DEF Principals
  <2> QED BY <2>1, IdleShape
          DEF KeyTask, Pending, Resolves, Expires, Steady, Known, InRound
<1> QED BY <1>1, <1>3, <1>4 DEF CredentialInv, TasksShaped

LEMMA CredentialSteps ==
    ASSUME CredentialInv, [ProcessNext]_processVars PROVE CredentialInv'
<1>1. CASE UNCHANGED mcpVars
  BY <1>1, AllStandStill, KeysUntouched
     DEF CredentialInv, mcpVars, gatewayVars, keysVars
<1>2. CASE McpNext
  BY <1>2, ArriveKeeps, VerifyKeeps, DecodePinnedKeeps, LookupKeeps, AnswerKeeps, FailsKeeps,
     InsertKeeps, NoteKeeps, BlockKeeps, AdmitKeeps, EndpointKeeps, TickKeeps, SweepKeeps,
     RevokeKeeps, PublishKeeps, RetireKeeps
     DEF McpNext
<1>3. CASE FreshMemory
  BY <1>3, MemoryIsLost
<1> QED BY <1>1, <1>2, <1>3 DEF ProcessNext, Serve, Exit, Maintain, processVars

LEMMA CredentialsHold == ProcessSpec => []CredentialInv
<1>1. ProcessInit => CredentialInv
  BY StartsEmpty DEF ProcessInit
<1>2. CredentialInv /\ [ProcessNext]_processVars => CredentialInv'
  BY CredentialSteps
<1> QED BY <1>1, <1>2, PTL DEF ProcessSpec

(* CredentialsExpire.  A token that was revoked before a request came is still     *)
(* revoked when verify_token looks it up; a cached key set is stamped at most       *)
(* Patience after the answer it holds, and believed for less than Ttl from then.   *)
THEOREM CredentialsAlwaysExpire == ProcessSpec => []CredentialsExpire
<1>1. CredentialInv => CredentialsExpire
  BY DEF CredentialInv, KeyTask, Expires, CredentialsExpire
<1> QED BY <1>1, CredentialsHold, PTL

(* CurrentKeyAccepted.  A key that is published when the request comes and until    *)
(* it is decided is in the answer of the second round of keys_for, whatever other    *)
(* requests put in the cache between.                                         *)
THEOREM CurrentKeyAlwaysAccepted == ProcessSpec => []CurrentKeyAccepted
<1>1. CredentialInv => CurrentKeyAccepted
  BY DEF CredentialInv, KeyTask, Steady, CurrentKeyAccepted
<1> QED BY <1>1, CredentialsHold, PTL

-----------------------------------------------------------------------------
(* The limits.                                                               *)

Paced(b, limit) ==
    limit # Off =>
       /\ handled[b] * limit.period <= Filled(b)
       /\ Filled(b) <= now + limit.burst * limit.period

(* Every bucket is filled under one limit: an address has no credential, and a       *)
(* principal is no address.                                                  *)
PaceInv ==
    /\ tat \in [Buckets -> Int] /\ handled \in [Buckets -> Nat]
    /\ \A class \in Class :
          /\ \A a \in Address : Paced(<<class, a>>, Limit[class].anon)
          /\ \A s \in Subjects : Paced(<<class, s>>, Limit[class].authed)

LEMMA MaxOfTwo ==
    ASSUME NEW a \in Int, NEW b \in Int
    PROVE  Max({a, b}) \in {a, b} /\ Max({a, b}) >= a /\ Max({a, b}) >= b
<1>1. \E x \in {a, b} : \A y \in {a, b} : x >= y
  BY SMT
<1>2. Max({a, b}) \in {a, b} /\ \A y \in {a, b} : Max({a, b}) >= y
  <2>1. Max({a, b}) = CHOOSE x \in {a, b} : \A y \in {a, b} : x >= y
    BY Zenon DEF Max
  <2> QED BY <1>1, <2>1
<1> QED BY <1>2

LEMMA InBursts ==
    ASSUME NEW h \in Nat, NEW p \in Nat \ {0}, NEW n \in Nat, NEW m \in Nat, h * p <= n + m * p
    PROVE  h <= m + n \div p
<1> DEFINE q == n \div p
<1>1. q \in Int /\ n < (q + 1) * p
  BY SMT
<1> HIDE DEF q
<1>2. SUFFICES ASSUME h >= m + q + 1 PROVE FALSE
  BY <1>1 DEF q
<1>3. h * p >= (m + q + 1) * p
  BY <1>1, <1>2
<1>4. (m + q + 1) * p = m * p + (q + 1) * p
  BY <1>1
<1> QED BY <1>1, <1>3, <1>4

LEMMA LimitShape ==
    ASSUME NEW class \in Class, NEW side \in {"anon", "authed"}, Limit[class][side] # Off
    PROVE  Limit[class][side].burst \in Nat \ {0} /\ Limit[class][side].period \in Nat \ {0}
BY GatewayAssumption

LEMMA CallerBuckets ==
    /\ \A class \in Class : \A x \in Address \cup Subjects : <<class, x>> \in Buckets
    /\ \A a \in Address : AuthBucket(a) \in Buckets
    /\ \A class \in Class : \A a \in Address : \A x : AuthBucket(a) # <<class, x>>
<1>1. \A class \in Class : \A a \in Address : \A x : AuthBucket(a) # <<class, x>>
  BY CallersAssumption DEF AuthBucket
<1> QED BY <1>1 DEF Buckets, Subjects

(* The bucket and the limit of a request that is charged.                        *)
LEMMA ChargedFairly ==
    ASSUME CredentialInv, NEW t \in Task, task[t].pc # "idle", ~task[t].who.admin
    PROVE  \/ Known(t) /\ Caller(t) \in Subjects
           \/ ~Known(t) /\ Caller(t) \in Address
<1>1. Pending(t)
  BY DEF CredentialInv, KeyTask
<1>2. CASE Known(t)
  BY <1>1, <1>2, PrincipalFields DEF Pending, Principals, Known, Caller, Subjects
<1>3. CASE ~Known(t)
  BY <1>1, <1>3 DEF Pending, Caller
<1> QED BY <1>2, <1>3

(* A bucket that is left alone, while the clock does not go back.                 *)
LEMMA PacedOn ==
    ASSUME NEW b, NEW limit, limit # Off => limit.burst \in Nat /\ limit.period \in Nat,
           tat[b] \in Int, now \in Nat, now' \in Nat, now <= now',
           tat'[b] = tat[b] \/ (tat[b] <= now' /\ tat'[b] = Unspent),
           handled[b] \in Nat, handled'[b] = handled[b], Paced(b, limit)
    PROVE  Paced(b, limit)'
<1> SUFFICES ASSUME limit # Off
    PROVE  /\ handled'[b] * limit.period <= Filled(b)'
           /\ Filled(b)' <= now' + limit.burst * limit.period
  BY DEF Paced
<1>1. handled[b] * limit.period <= Filled(b) /\ Filled(b) <= now + limit.burst * limit.period
  BY DEF Paced
<1>2. PICK h \in Int, m \in Int :
          h = handled[b] * limit.period /\ m = limit.burst * limit.period /\ m >= 0
  BY SMT
<1>3. /\ Filled(b) \in {tat[b], now} /\ Filled(b) >= tat[b] /\ Filled(b) >= now
  <2>1. PICK x \in Int, y \in Int : x = tat[b] /\ y = now
    OBVIOUS
  <2> QED BY <2>1, MaxOfTwo, Zenon DEF Filled
<1>4. tat'[b] \in Int
  BY DEF Unspent
<1>5. Filled(b)' \in {tat'[b], now'} /\ Filled(b)' >= tat'[b] /\ Filled(b)' >= now'
  <2>1. PICK x \in Int, y \in Int : x = tat'[b] /\ y = now'
    BY <1>4
  <2> QED BY <2>1, MaxOfTwo, Zenon DEF Filled
<1>6. Filled(b)' >= Filled(b) /\ Filled(b)' <= now' + m
  BY <1>1, <1>2, <1>3, <1>5 DEF Unspent
<1>7. handled'[b] * limit.period = h /\ h <= Filled(b)'
  <2>1. h <= Filled(b) /\ Filled(b) \in Int /\ Filled(b)' \in Int
    BY <1>1, <1>2, <1>3, <1>4, <1>5
  <2> QED BY <1>2, <1>6, <2>1
<1> QED BY <1>2, <1>6, <1>7

(* A bucket that a request fills, its count of requests with it.                  *)
LEMMA PacedFilled ==
    ASSUME NEW b, NEW limit, limit # Off, limit.burst \in Nat \ {0}, limit.period \in Nat \ {0},
           tat[b] \in Int, now \in Nat, now' = now, HasRoom(b, limit),
           tat'[b] = Filled(b) + limit.period,
           handled[b] \in Nat, handled'[b] = handled[b] + 1, Paced(b, limit)
    PROVE  Paced(b, limit)'
<1>1. PICK x \in Int, y \in Int : x = tat[b] /\ y = now
  OBVIOUS
<1>2. Filled(b) \in Int /\ Filled(b) >= now
  BY <1>1, MaxOfTwo, Zenon DEF Filled
<1>3. PICK u \in Int, v \in Int : u = tat'[b] /\ v = now' /\ u >= v
  BY <1>2
<1>4. Filled(b)' \in {u, v} /\ Filled(b)' >= u /\ Filled(b)' >= v
  BY <1>3, MaxOfTwo, Zenon DEF Filled
<1>5. Filled(b)' = Filled(b) + limit.period
  BY <1>2, <1>3, <1>4
<1>6. handled[b] * limit.period <= Filled(b)
  BY DEF Paced
<1>7. PICK h \in Nat, m \in Nat, p \in Nat :
          h = handled[b] /\ m = limit.burst /\ p = limit.period
  OBVIOUS
<1>8. (h + 1) * p = h * p + p /\ (m - 1) * p = m * p - p
  OBVIOUS
<1>9. Filled(b) - (m - 1) * p <= now
  BY <1>7 DEF HasRoom, FreeAt
<1>10. h * p \in Int /\ m * p \in Int
  OBVIOUS
<1>11. Filled(b)' <= now' + m * p /\ (h + 1) * p <= Filled(b)'
  BY <1>2, <1>5, <1>6, <1>7, <1>8, <1>9, <1>10
<1> QED BY <1>7, <1>11 DEF Paced

LEMMA RestKeepsPace ==
    ASSUME PaceInv, now \in Nat, now' \in Nat, now <= now', handled' = handled,
           tat' \in [Buckets -> Int],
           \A class \in Class : \A x \in Address \cup Subjects :
              \/ tat'[<<class, x>>] = tat[<<class, x>>]
              \/ tat[<<class, x>>] <= now' /\ tat'[<<class, x>>] = Unspent
    PROVE  PaceInv'
<1>1. ASSUME NEW class \in Class, NEW x \in Address \cup Subjects, NEW side \in {"anon", "authed"},
             Paced(<<class, x>>, Limit[class][side])
      PROVE  Paced(<<class, x>>, Limit[class][side])'
  <2>1. PICK b, limit : b = <<class, x>> /\ limit = Limit[class][side]
    OBVIOUS
  <2>2. b \in Buckets
    BY <2>1, CallerBuckets
  <2>3. tat[b] \in Int /\ handled[b] \in Nat /\ handled'[b] = handled[b]
    BY <2>2 DEF PaceInv
  <2>4. tat'[b] = tat[b] \/ (tat[b] <= now' /\ tat'[b] = Unspent)
    BY <2>1
  <2>5. limit # Off => limit.burst \in Nat /\ limit.period \in Nat
    BY <2>1, LimitShape
  <2>6. Paced(b, limit)
    BY <1>1, <2>1
  <2>7. Paced(b, limit)'
    BY <2>3, <2>4, <2>5, <2>6, PacedOn
  <2> QED BY <2>1, <2>7
<1>2. ASSUME NEW class \in Class, NEW a \in Address PROVE Paced(<<class, a>>, Limit[class].anon)'
  BY <1>1 DEF PaceInv
<1>3. ASSUME NEW class \in Class, NEW s \in Subjects PROVE Paced(<<class, s>>, Limit[class].authed)'
  BY <1>1 DEF PaceInv
<1> QED BY <1>2, <1>3 DEF PaceInv

LEMMA AdmitKeepsPace ==
    ASSUME CredentialInv, PaceInv, NEW t \in Task, Admit(t) PROVE PaceInv'
<1>1. task[t].pc # "idle" /\ now' = now /\ now \in Nat
  BY DEF Admit, CredentialInv, KeysInv
<1>2. CASE Exempt(t)
  <2>1. UNCHANGED <<tat, handled>>
    BY <1>2 DEF Admit
  <2> QED BY <1>1, <2>1, RestKeepsPace DEF PaceInv
<1>3. CASE ~Exempt(t)
  <2>0. PICK side \in {"anon", "authed"} : side = IF Known(t) THEN "authed" ELSE "anon"
    OBVIOUS
  <2>1. PICK c, x, l :
          c = Route(t).class /\ x = Caller(t) /\ l = LimitOf(t, c)
    OBVIOUS
  <2>2. c \in Class /\ l # Off /\ l = Limit[c][side] /\ ~task[t].who.admin
    BY <1>3, <2>0, <2>1 DEF Exempt, LimitOf
  <2>3. /\ x \in Address \cup Subjects
        /\ side = "authed" => x \in Subjects
        /\ side = "anon" => x \in Address
    BY <1>1, <2>0, <2>1, <2>2, ChargedFairly
  <2>4. PICK b : b = <<c, x>>
    OBVIOUS
  <2>5. /\ HasRoom(b, l) /\ tat' = [tat EXCEPT ![b] = Filled(b) + l.period]
        /\ handled' = [handled EXCEPT ![b] = @ + 1]
    BY <1>3, <2>1, <2>4 DEF Admit, Charged, Fill
  <2>6. /\ b \in Buckets /\ tat[b] \in Int /\ handled[b] \in Nat
        /\ tat \in [Buckets -> Int] /\ handled \in [Buckets -> Nat]
    BY <2>2, <2>3, <2>4, CallerBuckets DEF PaceInv
  <2>7. l.burst \in Nat \ {0} /\ l.period \in Nat \ {0}
    BY <2>2, LimitShape
  <2>8. Filled(b) \in Int
    <3>1. PICK i \in Int, j \in Int : i = tat[b] /\ j = now
      BY <1>1, <2>6
    <3> QED BY <3>1, MaxOfTwo, Zenon DEF Filled
  <2>9. /\ tat' \in [Buckets -> Int] /\ handled' \in [Buckets -> Nat]
        /\ tat'[b] = Filled(b) + l.period /\ handled'[b] = handled[b] + 1
        /\ \A d \in Buckets \ {b} : tat'[d] = tat[d] /\ handled'[d] = handled[d]
    BY <2>5, <2>6, <2>7, <2>8
  <2>10. ASSUME NEW class \in Class, NEW y \in Address \cup Subjects, NEW s \in {"anon", "authed"},
                s = "authed" => y \in Subjects, s = "anon" => y \in Address,
                Paced(<<class, y>>, Limit[class][s])
         PROVE  Paced(<<class, y>>, Limit[class][s])'
    <3>1. PICK d, limit : d = <<class, y>> /\ limit = Limit[class][s]
      OBVIOUS
    <3>2. d \in Buckets /\ tat[d] \in Int /\ handled[d] \in Nat /\ Paced(d, limit)
      BY <2>10, <3>1, CallerBuckets DEF PaceInv
    <3>3. limit # Off => limit.burst \in Nat /\ limit.period \in Nat
      BY <3>1, LimitShape
    <3>4. CASE d = b
      <4>1. class = c /\ y = x
        BY <2>4, <3>1, <3>4
      <4>2. s = side
        BY <2>3, <2>10, <4>1, CallersAssumption DEF Subjects
      <4>3. limit = l
        BY <2>2, <3>1, <4>1, <4>2
      <4>4. Paced(b, l)
        BY <3>2, <3>4, <4>3
      <4>5. Paced(b, l)'
        BY <1>1, <2>2, <2>5, <2>6, <2>7, <2>9, <4>4, PacedFilled
      <4> QED BY <3>1, <3>4, <4>3, <4>5
    <3>5. CASE d # b
      <4>1. tat'[d] = tat[d] /\ handled'[d] = handled[d]
        BY <2>9, <3>2, <3>5
      <4>2. Paced(d, limit)'
        BY <1>1, <3>2, <3>3, <4>1, PacedOn
      <4> QED BY <3>1, <4>2
    <3> QED BY <3>4, <3>5
  <2>11. ASSUME NEW class \in Class, NEW a \in Address PROVE Paced(<<class, a>>, Limit[class].anon)'
    BY <2>10 DEF PaceInv
  <2>12. ASSUME NEW class \in Class, NEW s \in Subjects PROVE Paced(<<class, s>>, Limit[class].authed)'
    BY <2>10 DEF PaceInv
  <2> QED BY <2>9, <2>11, <2>12 DEF PaceInv
<1> QED BY <1>2, <1>3

LEMMA FailureKeepsPace ==
    ASSUME CredentialInv, PaceInv, NEW t \in Task, NoteFailure(t) PROVE PaceInv'
<1>1. task[t].pc = "note" /\ now' = now /\ now \in Nat /\ handled' = handled
  BY DEF NoteFailure, CredentialInv, KeysInv
<1>2. PICK b : b = AuthBucket(task[t].addr)
  OBVIOUS
<1>3. b \in Buckets /\ \A class \in Class : \A x : b # <<class, x>>
  <2>1. task[t].addr \in Address
    BY <1>1 DEF CredentialInv, KeyTask, Pending
  <2> QED BY <1>2, <2>1, CallerBuckets
<1>4. CASE UNCHANGED tat
  BY <1>1, <1>4, RestKeepsPace DEF PaceInv
<1>5. CASE tat' = [tat EXCEPT ![b] = Filled(b) + AuthFail.period]
  <2>1. Filled(b) \in Int
    <3>1. PICK i \in Int, j \in Int : i = tat[b] /\ j = now
      BY <1>1, <1>3 DEF PaceInv
    <3> QED BY <3>1, MaxOfTwo, Zenon DEF Filled
  <2>2. tat \in [Buckets -> Int] /\ AuthFail.period \in Nat
    BY GatewayAssumption DEF PaceInv
  <2>3. tat' \in [Buckets -> Int] /\ \A d \in Buckets \ {b} : tat'[d] = tat[d]
    BY <1>3, <1>5, <2>1, <2>2
  <2>4. \A class \in Class : \A x \in Address \cup Subjects :
            tat'[<<class, x>>] = tat[<<class, x>>]
    BY <1>3, <2>3, CallerBuckets
  <2> QED BY <1>1, <2>3, <2>4, RestKeepsPace
<1> QED BY <1>2, <1>4, <1>5 DEF NoteFailure, Fill

LEMMA SweepKeepsPace ==
    ASSUME CredentialInv, PaceInv, RetainRecent PROVE PaceInv'
<1>1. /\ now' = now /\ now \in Nat /\ handled' = handled /\ tat \in [Buckets -> Int]
      /\ tat' = [b \in Buckets |-> IF tat[b] > now THEN tat[b] ELSE Unspent]
  BY DEF RetainRecent, Swept, CredentialInv, KeysInv, PaceInv
<1>2. tat' \in [Buckets -> Int]
  BY <1>1 DEF Unspent
<1>3. \A b \in Buckets : tat'[b] = tat[b] \/ (tat[b] <= now' /\ tat'[b] = Unspent)
  BY <1>1
<1> QED BY <1>1, <1>2, <1>3, CallerBuckets, RestKeepsPace

LEMMA FreshKeepsPace ==
    ASSUME now' \in Nat, tat' = [b \in Buckets |-> Unspent], handled' = [b \in Buckets |-> 0]
    PROVE  PaceInv'
<1>1. ASSUME NEW b \in Buckets, NEW limit, limit # Off => limit.burst \in Nat /\ limit.period \in Nat
      PROVE  Paced(b, limit)'
  <2>1. tat'[b] = 0 /\ handled'[b] = 0
    BY DEF Unspent
  <2>2. PICK x \in Int, y \in Int : x = tat'[b] /\ y = now' /\ x = 0 /\ y >= 0
    BY <2>1
  <2>3. Filled(b)' \in {x, y} /\ Filled(b)' >= x /\ Filled(b)' >= y
    BY <2>2, MaxOfTwo, Zenon DEF Filled
  <2>4. Filled(b)' = y
    BY <2>2, <2>3
  <2>5. limit # Off => handled'[b] * limit.period = 0 /\ limit.burst * limit.period >= 0
    BY <1>1, <2>1
  <2>6. limit # Off => limit.burst * limit.period \in Int
    BY <1>1
  <2> QED BY <2>2, <2>4, <2>5, <2>6 DEF Paced
<1>2. ASSUME NEW class \in Class, NEW x \in Address \cup Subjects, NEW side \in {"anon", "authed"}
      PROVE  Paced(<<class, x>>, Limit[class][side])'
  <2>1. PICK b, limit : b = <<class, x>> /\ limit = Limit[class][side]
    OBVIOUS
  <2>2. b \in Buckets /\ (limit # Off => limit.burst \in Nat /\ limit.period \in Nat)
    BY <2>1, CallerBuckets, LimitShape
  <2>3. Paced(b, limit)'
    BY <1>1, <2>2
  <2> QED BY <2>1, <2>3
<1>3. \A class \in Class :
          /\ \A a \in Address : Paced(<<class, a>>, Limit[class].anon)'
          /\ \A s \in Subjects : Paced(<<class, s>>, Limit[class].authed)'
  BY <1>2
<1> QED BY <1>3 DEF PaceInv, Unspent

LEMMA PaceSteps ==
    ASSUME CredentialInv, CredentialInv', PaceInv, [ProcessNext]_processVars PROVE PaceInv'
<1>1. now \in Nat /\ now' \in Nat
  BY DEF CredentialInv, KeysInv
<1>2. CASE UNCHANGED <<tat, handled>> /\ now <= now'
  BY <1>1, <1>2, RestKeepsPace DEF PaceInv
<1>3. CASE FreshMemory
  BY <1>1, <1>3, FreshKeepsPace DEF FreshMemory
<1>4. CASE McpNext
  <2>1. ASSUME NEW t \in Task,
               Arrive(t) \/ VerifyToken(t) \/ DecodePinned(t) \/ LookupKeys(t)
               \/ IssuerAnswers(t) \/ IssuerFails(t) \/ InsertKeys(t) \/ BlockAddress(t)
               \/ AnswerRpc(t) \/ CallTool(t) \/ Handle(t) \/ TooMany(t)
        PROVE  UNCHANGED <<tat, handled>> /\ now <= now'
    <3>1. CASE Arrive(t) \/ VerifyToken(t) \/ DecodePinned(t) \/ LookupKeys(t)
               \/ IssuerAnswers(t) \/ IssuerFails(t) \/ InsertKeys(t) \/ BlockAddress(t)
      <4>1. UNCHANGED <<tat, handled, now>>
        BY <3>1, Zenon DEF Arrive, VerifyToken, DecodePinned, LookupKeys, IssuerAnswers,
           IssuerFails, InsertKeys, BlockAddress
      <4> QED BY <1>1, <4>1
    <3>2. CASE AnswerRpc(t) \/ CallTool(t) \/ Handle(t) \/ TooMany(t)
      <4>1. Unchanged
        BY <3>2, Zenon DEF AnswerRpc, CallTool, Handle, TooMany
      <4> QED BY <1>1, <4>1 DEF Unchanged
    <3> QED BY <2>1, <3>1, <3>2
  <2>2. ASSUME Tick \/ (\E k \in Token : RevokeToken(k)) \/ (\E k \in Kid : Publish(k) \/ Retire(k))
        PROVE  UNCHANGED <<tat, handled>> /\ now <= now'
    BY <1>1, <2>2 DEF Tick, RevokeToken, Publish, Retire
  <2> QED BY <1>2, <1>4, <2>1, <2>2, AdmitKeepsPace, FailureKeepsPace, SweepKeepsPace DEF McpNext
<1>5. CASE UNCHANGED mcpVars
  BY <1>1, <1>2, <1>5 DEF mcpVars, gatewayVars
<1> QED BY <1>3, <1>4, <1>5 DEF ProcessNext, Serve, Exit, Maintain, processVars

LEMMA StartsUnspent == CredentialInv /\ McpInit => PaceInv
<1> SUFFICES ASSUME CredentialInv, McpInit PROVE PaceInv
  OBVIOUS
<1>1. /\ now \in Nat /\ tat = [b \in Buckets |-> Unspent] /\ handled = [b \in Buckets |-> 0]
  BY DEF CredentialInv, KeysInv, McpInit, GatewayInit
<1>2. ASSUME NEW b \in Buckets, NEW limit, limit # Off => limit.burst \in Nat /\ limit.period \in Nat
      PROVE  Paced(b, limit)
  <2>1. PICK x \in Int, y \in Int : x = tat[b] /\ y = now /\ x = 0 /\ y >= 0
    BY <1>1 DEF Unspent
  <2>2. Filled(b) \in {x, y} /\ Filled(b) >= x /\ Filled(b) >= y
    BY <2>1, MaxOfTwo, Zenon DEF Filled
  <2>3. Filled(b) = y
    BY <2>1, <2>2
  <2>4. limit # Off => /\ handled[b] * limit.period = 0
                       /\ limit.burst * limit.period >= 0 /\ limit.burst * limit.period \in Int
    BY <1>1, <1>2
  <2> QED BY <2>1, <2>3, <2>4 DEF Paced
<1>3. ASSUME NEW class \in Class, NEW x \in Address \cup Subjects, NEW side \in {"anon", "authed"}
      PROVE  Paced(<<class, x>>, Limit[class][side])
  BY <1>2, CallerBuckets, LimitShape
<1> QED BY <1>1, <1>3 DEF PaceInv, Unspent

LEMMA PaceHolds == ProcessSpec => []PaceInv
<1>1. CredentialInv /\ ProcessInit => PaceInv
  BY StartsUnspent DEF ProcessInit
<1>2. CredentialInv /\ CredentialInv' /\ PaceInv /\ [ProcessNext]_processVars => PaceInv'
  BY PaceSteps
<1> QED BY <1>1, <1>2, CredentialsHold, PTL DEF ProcessSpec

(* BurstRespected.  A bucket counts every request its caller has had handled, one    *)
(* period each, and is never filled further ahead of the clock than its burst: so    *)
(* however its requests are split over addresses, tool calls and failed             *)
(* credentials, a caller gets a burst and one more in each period (middleware).      *)
THEOREM BurstAlwaysRespected == ProcessSpec => []BurstRespected
<1>1. ASSUME CredentialInv, PaceInv, NEW class \in Class, NEW t \in Task,
             task[t] # Idle, ~task[t].who.admin, LimitOf(t, class) # Off
      PROVE  handled[class, Caller(t)] <= LimitOf(t, class).burst + now \div LimitOf(t, class).period
  <2>1. task[t].pc # "idle"
    BY <1>1 DEF CredentialInv, KeyTask, Pending
  <2>2. \/ Known(t) /\ Caller(t) \in Subjects
        \/ ~Known(t) /\ Caller(t) \in Address
    BY <1>1, <2>1, ChargedFairly
  <2>3. PICK b, l : b = <<class, Caller(t)>> /\ l = LimitOf(t, class)
    OBVIOUS
  <2>4. Paced(b, l) /\ b \in Buckets
    BY <1>1, <2>2, <2>3, CallerBuckets DEF PaceInv, LimitOf
  <2>5. l.burst \in Nat \ {0} /\ l.period \in Nat \ {0}
    BY <1>1, <2>3, LimitShape DEF LimitOf
  <2>6. PICK h \in Nat, m \in Nat, p \in Nat \ {0} : h = handled[b] /\ m = l.burst /\ p = l.period
    BY <1>1, <2>4, <2>5 DEF PaceInv
  <2>7. now \in Nat /\ tat[b] \in Int
    BY <1>1, <2>4 DEF CredentialInv, KeysInv, PaceInv
  <2>8. Filled(b) \in Int
    <3>1. PICK i \in Int, j \in Int : i = tat[b] /\ j = now
      BY <2>7
    <3> QED BY <3>1, MaxOfTwo, Zenon DEF Filled
  <2>9. h * p <= Filled(b) /\ Filled(b) <= now + m * p
    BY <1>1, <2>3, <2>4, <2>6 DEF Paced
  <2>10. h * p \in Int /\ m * p \in Int
    OBVIOUS
  <2>11. h * p <= now + m * p
    BY <2>7, <2>8, <2>9, <2>10
  <2>12. h <= m + now \div p
    BY <2>7, <2>11, InBursts
  <2> QED BY <2>3, <2>6, <2>12
<1>2. CredentialInv /\ PaceInv => BurstRespected
  BY <1>1 DEF BurstRespected
<1> QED BY <1>2, CredentialsHold, PaceHolds, PTL

-----------------------------------------------------------------------------
(* The tools.                                                                *)

Writes == {"curator", "create_instance", "produced", "consumed"}
ToolRoutes ==
    {Open, Read, To("federated", "read")}
    \cup {To("write", guard) : guard \in Writes} \cup {Capability(i) : i \in Deployments}

LEMMA RouteFields ==
    /\ \A class, guard : To(class, guard).guard = guard
    /\ Open.guard = "open" /\ Read.guard = "read"
    /\ \A i : Capability(i).guard = "instance" /\ Capability(i).of = i
<1>1. \A class, guard : To(class, guard).guard = guard
  BY DEF To
<1>2. Open.guard = "open" /\ Read.guard = "read"
  BY DEF To, Open, Read
<1>3. ASSUME NEW i PROVE Capability(i).guard = "instance" /\ Capability(i).of = i
  BY DEF Capability, To
<1> QED BY <1>1, <1>2, <1>3

(* What the handlers behind the tools ask.                                      *)
LEMMA Asked ==
    ASSUME NEW p, NEW r
    PROVE  /\ r.guard = "open" => Permits(p, r)
           /\ r.guard = "read" => (Permits(p, r) <=> PublicRead \/ p.credential # "none")
           /\ r.guard = "curator" => (Permits(p, r) <=> RequireCurator(p))
           /\ r.guard = "create_instance" =>
                 (Permits(p, r) <=> IsCurator(p) \/ HasScope(p, "register:instance"))
           /\ r.guard = "instance" =>
                 (Permits(p, r) <=> ActsForInstance(p, r.of) \/ RequireCurator(p))
           /\ r.guard = "produced" =>
                 (Permits(p, r) <=> HasScope(p, "advertise:produce") /\ RequireInstance(p))
           /\ r.guard = "consumed" =>
                 (Permits(p, r) <=> HasScope(p, "advertise:consume") /\ RequireInstance(p))
<1> USE DEF Permits
<1>1. r.guard = "open" => Permits(p, r)
  OBVIOUS
<1>2. r.guard = "read" => (Permits(p, r) <=> PublicRead \/ p.credential # "none")
  OBVIOUS
<1>3. r.guard = "curator" => (Permits(p, r) <=> RequireCurator(p))
  BY DEF RequireCurator
<1>4. r.guard = "create_instance" =>
          (Permits(p, r) <=> IsCurator(p) \/ HasScope(p, "register:instance"))
  OBVIOUS
<1>5. r.guard = "instance" => (Permits(p, r) <=> ActsForInstance(p, r.of) \/ RequireCurator(p))
  OBVIOUS
<1>6. r.guard = "produced" =>
          (Permits(p, r) <=> HasScope(p, "advertise:produce") /\ RequireInstance(p))
  OBVIOUS
<1>7. r.guard = "consumed" =>
          (Permits(p, r) <=> HasScope(p, "advertise:consume") /\ RequireInstance(p))
  OBVIOUS
<1> QED BY <1>1, <1>2, <1>3, <1>4, <1>5, <1>6, <1>7

LEMMA Gates ==
    ASSUME NEW p
    PROVE  /\ GateAllows("read", p) <=> PublicRead \/ p.credential # "none"
           /\ GateAllows("curator", p) <=> RequireCurator(p)
           /\ GateAllows("register:instance", p) <=> IsCurator(p) \/ HasScope(p, "register:instance")
           /\ GateAllows("advertise:produce", p) <=>
                 RequireInstance(p) /\ HasScope(p, "advertise:produce")
           /\ GateAllows("advertise:consume", p) <=>
                 RequireInstance(p) /\ HasScope(p, "advertise:consume")
BY DEF GateAllows, RequireCurator

(* Each tool: its gate, and the guards of its requests.                           *)
LEMMA CatalogueIs ==
    ASSUME NEW name \in DOMAIN catalogue, NEW calls \in catalogue[name].calls
    PROVE  /\ calls \in Seq(ToolRoutes)
           /\ \/ /\ catalogue[name].gate = "read"
                 /\ \A n \in DOMAIN calls : calls[n].guard \in {"open", "read"}
              \/ /\ catalogue[name].gate = "curator" /\ DOMAIN calls = {1}
                 /\ \/ calls[1].guard = "curator"
                    \/ name = "declare_capability" /\ calls[1].guard = "instance"
              \/ /\ DOMAIN calls = {1}
                 /\ <<catalogue[name].gate, calls[1].guard>> \in
                       {<<"register:instance", "create_instance">>,
                        <<"advertise:produce", "produced">>, <<"advertise:consume", "consumed">>}
<1>1. /\ name \in Reading \cup LookingUp \cup Curating \cup Deploying
      /\ catalogue[name].gate = GateOf(name) /\ catalogue[name].calls = CallsOf(name)
  BY DEF catalogue, ToolOf
<1>2. CASE name \in Reading \cup LookingUp
  <2>1. GateOf(name) = "read"
    BY <1>2 DEF GateOf, Reading, LookingUp, Curating
  <2>2. calls \in {<<Open, Open, Open>>, <<>>, <<Read>>, <<To("federated", "read")>>}
    BY <1>1, <1>2 DEF CallsOf, Reading, LookingUp, registry_info, vocab_search, vocab_resolve,
       list_enumerations, search_registry, list_records, get_record, find_capable, lineage,
       identify_content
  <2>3. {Open, Read, To("federated", "read")} \subseteq ToolRoutes
    BY DEF ToolRoutes
  <2>4. calls \in Seq(ToolRoutes)
    <3>1. \A x \in ToolRoutes : <<>> \in Seq(ToolRoutes) /\ <<x>> \in Seq(ToolRoutes)
                                /\ <<x, x, x>> \in Seq(ToolRoutes)
      OBVIOUS
    <3> QED BY <2>2, <2>3, <3>1, Zenon
  <2>5. \A n \in DOMAIN calls : calls[n] \in {Open, Read, To("federated", "read")}
    BY <2>2
  <2>6. \A n \in DOMAIN calls : calls[n].guard \in {"open", "read"}
    BY <2>5, RouteFields
  <2> QED BY <1>1, <2>1, <2>4, <2>6
<1>3. CASE name \in Curating
  <2>1. GateOf(name) = "curator"
    BY <1>3 DEF GateOf, Curating
  <2>2. \/ calls = <<To("write", "curator")>>
        \/ name = "declare_capability" /\ \E i \in Deployments : calls = <<Capability(i)>>
    BY <1>1, <1>3 DEF CallsOf, Curating, register_software, update_software, add_release,
       declare_capability, simple_write
  <2>3. PICK r \in ToolRoutes :
          calls = <<r>> /\ (r.guard = "curator" \/ (name = "declare_capability" /\ r.guard = "instance"))
    <3>1. To("write", "curator") \in ToolRoutes /\ \A i \in Deployments : Capability(i) \in ToolRoutes
      BY DEF ToolRoutes, Writes
    <3> QED BY <2>2, <3>1, RouteFields
  <2>4. calls \in Seq(ToolRoutes) /\ DOMAIN calls = {1} /\ calls[1] = r
    BY <2>3
  <2> QED BY <1>1, <2>1, <2>3, <2>4
<1>4. CASE name \in Deploying
  <2>1. \E g \in Writes :
          /\ calls = <<To("write", g)>>
          /\ <<GateOf(name), g>> \in
                       {<<"register:instance", "create_instance">>,
                        <<"advertise:produce", "produced">>, <<"advertise:consume", "consumed">>}
    <3>1. CASE name = "register_instance"
      <4>1. GateOf(name) = "register:instance" /\ CallsOf(name) = simple_write("create_instance")
        BY <3>1 DEF GateOf, CallsOf, Curating
      <4> QED BY <1>1, <4>1 DEF simple_write, Writes
    <3>2. CASE name = "advertise_produced"
      <4>1. GateOf(name) = "advertise:produce" /\ CallsOf(name) = simple_write("produced")
        BY <3>2 DEF GateOf, CallsOf, Curating
      <4> QED BY <1>1, <4>1 DEF simple_write, Writes
    <3>3. CASE name = "advertise_consumed"
      <4>1. GateOf(name) = "advertise:consume" /\ CallsOf(name) = simple_write("consumed")
        BY <3>3 DEF GateOf, CallsOf, Curating
      <4> QED BY <1>1, <4>1 DEF simple_write, Writes
    <3> QED BY <1>4, <3>1, <3>2, <3>3 DEF Deploying
  <2>2. PICK g \in Writes, r \in ToolRoutes :
          /\ calls = <<r>> /\ r.guard = g
          /\ <<GateOf(name), g>> \in
                       {<<"register:instance", "create_instance">>,
                        <<"advertise:produce", "produced">>, <<"advertise:consume", "consumed">>}
    BY <2>1, RouteFields DEF ToolRoutes
  <2>3. calls \in Seq(ToolRoutes) /\ DOMAIN calls = {1} /\ calls[1] = r
    BY <2>2
  <2> QED BY <1>1, <2>2, <2>3
<1> QED BY <1>1, <1>2, <1>3, <1>4

LEMMA CatalogueFits ==
    ASSUME NEW name \in DOMAIN catalogue, NEW calls \in catalogue[name].calls, NEW p
    PROVE  /\ GateAllows(catalogue[name].gate, p) => \A n \in DOMAIN calls : Permits(p, calls[n])
           /\ ~GateAllows(catalogue[name].gate, p) /\ (PublicRead \/ p.credential # "none") =>
                 \/ \E n \in DOMAIN calls : ~Permits(p, calls[n])
                 \/ name = "declare_capability" /\ ActsForInstance(p, calls[1].of)
<1>1. CASE /\ catalogue[name].gate = "read"
           /\ \A n \in DOMAIN calls : calls[n].guard \in {"open", "read"}
  BY <1>1, Gates, Asked
<1>2. CASE /\ catalogue[name].gate = "curator" /\ DOMAIN calls = {1}
           /\ \/ calls[1].guard = "curator"
              \/ name = "declare_capability" /\ calls[1].guard = "instance"
  BY <1>2, Gates, Asked
<1>3. CASE /\ DOMAIN calls = {1}
           /\ <<catalogue[name].gate, calls[1].guard>> \in
                       {<<"register:instance", "create_instance">>,
                        <<"advertise:produce", "produced">>, <<"advertise:consume", "consumed">>}
  BY <1>3, Gates, Asked
<1> QED BY <1>1, <1>2, <1>3, CatalogueIs

(* What is left of a tool call is what its caller may do.                        *)
StaysAllowed(u) ==
    task[u].tool # "none" =>
        /\ task[u].pc \in {"charge", "serve"}
        /\ task[u].left \in Seq(ToolRoutes) /\ task[u].left # <<>>
        /\ \A n \in DOMAIN task[u].left : Permits(task[u].who, task[u].left[n])
Warned(w) ==
    \/ \E n \in DOMAIN w.calls : ~Permits(w.who, w.calls[n])
    \/ w.tool = "declare_capability" /\ ActsForInstance(w.who, w.calls[1].of)
MirrorInv == (\A u \in Task : StaysAllowed(u)) /\ (\A w \in warned : Warned(w))

LEMMA OneFollows ==
    ASSUME MirrorInv, NEW t \in Task, \A u \in Task \ {t} : task'[u] = task[u],
           StaysAllowed(t)', warned' = warned
    PROVE  MirrorInv'
<1>1. ASSUME NEW u \in Task \ {t} PROVE StaysAllowed(u)'
  BY DEF MirrorInv, StaysAllowed
<1> QED BY <1>1 DEF MirrorInv, Warned

LEMMA ToolStays ==
    ASSUME CredentialInv, MirrorInv, NEW t \in Task, \A u \in Task \ {t} : task'[u] = task[u],
           task[t].pc \notin {"charge", "serve"}, task'[t].tool = task[t].tool, warned' = warned
    PROVE  MirrorInv'
<1>1. StaysAllowed(t)'
  BY DEF MirrorInv, StaysAllowed
<1> QED BY <1>1, OneFollows

LEMMA CommonFollows ==
    ASSUME MirrorInv, task' = task, warned' = warned
    PROVE  MirrorInv'
<1>1. ASSUME NEW u \in Task PROVE StaysAllowed(u)'
  BY DEF MirrorInv, StaysAllowed
<1> QED BY <1>1 DEF MirrorInv, Warned

LEMMA DoneFollows ==
    ASSUME CredentialInv, MirrorInv, NEW t \in Task, Done(t), warned' = warned PROVE MirrorInv'
<1>1. TasksShaped
  BY DEF CredentialInv
<1>2. task'[t] = Idle /\ \A u \in Task \ {t} : task'[u] = task[u]
  BY <1>1, BecomesIdle
<1>3. StaysAllowed(t)'
  BY <1>2, IdleShape DEF StaysAllowed
<1> QED BY <1>2, <1>3, OneFollows

LEMMA ResolvingFollows ==
    ASSUME CredentialInv, MirrorInv, NEW t \in Task, warned' = warned,
           VerifyToken(t) \/ DecodePinned(t) \/ LookupKeys(t) \/ IssuerAnswers(t)
           \/ IssuerFails(t) \/ InsertKeys(t) \/ NoteFailure(t) \/ BlockAddress(t)
    PROVE  MirrorInv'
<1>1. TasksShaped
  BY DEF CredentialInv
<1>2. SUFFICES /\ \A u \in Task \ {t} : task'[u] = task[u]
               /\ task'[t].tool = task[t].tool /\ task[t].pc \notin {"charge", "serve"}
  BY ToolStays
<1>3. ASSUME NEW p, task' = [task EXCEPT ![t].pc = p]
      PROVE  (\A u \in Task \ {t} : task'[u] = task[u]) /\ task'[t].tool = task[t].tool
  BY <1>1, <1>3, PcChanges
<1>4. ASSUME NEW w, NEW p, task' = Become(t, w, p)
      PROVE  (\A u \in Task \ {t} : task'[u] = task[u]) /\ task'[t].tool = task[t].tool
  BY <1>1, <1>4, Becomes
<1>5. ASSUME task' = Decode(t, task)
      PROVE  (\A u \in Task \ {t} : task'[u] = task[u]) /\ task'[t].tool = task[t].tool
  BY <1>1, <1>5, Decodes
<1>6. ASSUME task' = SecondRound(t)
      PROVE  (\A u \in Task \ {t} : task'[u] = task[u]) /\ task'[t].tool = task[t].tool
  BY <1>1, <1>6, GoesToFetch
<1>7. CASE VerifyToken(t)
  BY <1>4, <1>7 DEF VerifyToken
<1>8. CASE DecodePinned(t)
  BY <1>5, <1>8 DEF DecodePinned
<1>9. CASE LookupKeys(t)
  BY <1>3, <1>5, <1>6, <1>9 DEF LookupKeys
<1>10. CASE IssuerAnswers(t)
  <2>1. PICK ks : task' = [task EXCEPT ![t].pc = "insert", ![t].keys = ks] /\ task[t].pc = "fetch"
    BY <1>10 DEF IssuerAnswers
  <2> QED BY <1>1, <2>1 DEF TasksShaped, TaskShape
<1>11. CASE IssuerFails(t)
  <2>1. task' = [task EXCEPT ![t].pc = "note", ![t].who = Refused, ![t].steady = FALSE]
        /\ task[t].pc = "fetch"
    BY <1>11 DEF IssuerFails
  <2>2. \A u \in Task \ {t} : task'[u] = task[u]
    BY <1>1, <2>1 DEF TasksShaped, TaskShape
  <2>3. task'[t].tool = task[t].tool
    BY <1>1, <2>1 DEF TasksShaped, TaskShape
  <2> QED BY <2>1, <2>2, <2>3
<1>12. CASE InsertKeys(t)
  BY <1>4, <1>5, <1>6, <1>12 DEF InsertKeys
<1>13. CASE NoteFailure(t)
  <2>1. task[t].pc = "note" /\ \/ task' = [task EXCEPT ![t].pc = "charge"]
                               \/ \E w : task' = [task EXCEPT ![t].pc = "block", ![t].wait = w]
    BY <1>13 DEF NoteFailure, Goto
  <2>2. CASE \E w : task' = [task EXCEPT ![t].pc = "block", ![t].wait = w]
    <3>1. PICK w : task' = [task EXCEPT ![t].pc = "block", ![t].wait = w]
      BY <2>2
    <3>2. \A u \in Task \ {t} : task'[u] = task[u]
      BY <1>1, <3>1 DEF TasksShaped, TaskShape
    <3>3. task'[t].tool = task[t].tool
      BY <1>1, <3>1 DEF TasksShaped, TaskShape
    <3> QED BY <2>1, <3>2, <3>3
  <2>3. CASE task' = [task EXCEPT ![t].pc = "charge"]
    BY <1>3, <2>1, <2>3
  <2> QED BY <2>1, <2>2, <2>3
<1>14. CASE BlockAddress(t)
  BY <1>3, <1>14 DEF BlockAddress, Goto
<1> QED BY <1>7, <1>8, <1>9, <1>10, <1>11, <1>12, <1>13, <1>14

LEMMA ArriveFollows ==
    ASSUME CredentialInv, MirrorInv, NEW t \in Task, Arrive(t), warned' = warned PROVE MirrorInv'
<1>1. TasksShaped
  BY DEF CredentialInv
<1>2. CASE UNCHANGED task
  BY <1>2, CommonFollows
<1>3. CASE ~UNCHANGED task
  <2>1. PICK a, cred, r : task' = [task EXCEPT ![t] = Received(a, cred, r)]
    BY <1>3 DEF Arrive
  <2>2. task'[t] = Received(a, cred, r) /\ \A u \in Task \ {t} : task'[u] = task[u]
    BY <1>1, <2>1 DEF TasksShaped
  <2>3. PICK w, p, b, s, e, x, n :
            Received(a, cred, r) =
            [Idle EXCEPT !.addr = a, !.cred = cred, !.left = e, !.rpc = x, !.at = n,
                         !.who = w, !.pc = p, !.revokedBefore = b, !.steady = s]
    BY Zenon DEF Received
  <2>4. task'[t].tool = "none"
    BY <2>2, <2>3, Z3 DEF Idle
  <2>5. StaysAllowed(t)'
    BY <2>4 DEF StaysAllowed
  <2> QED BY <2>2, <2>5, OneFollows
<1> QED BY <1>2, <1>3

LEMMA AdmitFollows ==
    ASSUME CredentialInv, MirrorInv, NEW t \in Task, Admit(t), warned' = warned PROVE MirrorInv'
<1>1. TasksShaped /\ task' = [task EXCEPT ![t].pc = "serve"]
  BY DEF CredentialInv, Admit, Goto
<1>2. PICK p : p = "serve"
  OBVIOUS
<1>3. /\ \A u \in Task \ {t} : task'[u] = task[u]
      /\ task'[t].pc = p /\ task'[t].who = task[t].who
      /\ task'[t].left = task[t].left /\ task'[t].tool = task[t].tool
  BY <1>1, <1>2, PcChanges
<1>4. StaysAllowed(t)'
  BY <1>2, <1>3 DEF MirrorInv, StaysAllowed
<1> QED BY <1>3, <1>4, OneFollows

(* One request less of a call.                                                *)
LEMMA TailFollows ==
    ASSUME CredentialInv, MirrorInv, NEW t \in Task, warned' = warned,
           \A u \in Task \ {t} : task'[u] = task[u], Len(task[t].left) > 1,
           task'[t].pc = "charge", task'[t].who = task[t].who, task'[t].tool = task[t].tool,
           task'[t].left = Tail(task[t].left)
    PROVE  MirrorInv'
<1>1. CASE task[t].tool = "none"
  BY <1>1, OneFollows DEF StaysAllowed
<1>2. CASE task[t].tool # "none"
  <2>1. PICK s : s = task[t].left
    OBVIOUS
  <2>2. /\ s \in Seq(ToolRoutes) /\ Len(s) > 1
        /\ \A n \in DOMAIN s : Permits(task[t].who, s[n])
    BY <1>2, <2>1 DEF MirrorInv, StaysAllowed
  <2>3. /\ Tail(s) \in Seq(ToolRoutes) /\ Tail(s) # <<>>
        /\ \A n \in DOMAIN Tail(s) : n + 1 \in DOMAIN s /\ Tail(s)[n] = s[n + 1]
    <3>1. Tail(s) \in Seq(ToolRoutes) /\ Len(Tail(s)) = Len(s) - 1 /\ s # <<>>
      BY <2>2
    <3>2. DOMAIN Tail(s) = 1..(Len(s) - 1) /\ DOMAIN s = 1..Len(s) /\ Len(s) \in Nat
      BY <2>2, <3>1
    <3>3. \A n \in 1..(Len(s) - 1) : Tail(s)[n] = s[n + 1]
      BY <2>2
    <3>4. Tail(s) # <<>>
      BY <2>2, <3>1, <3>2
    <3> QED BY <3>1, <3>2, <3>3, <3>4
  <2>4. \A n \in DOMAIN Tail(s) : Permits(task[t].who, Tail(s)[n])
    BY <2>2, <2>3
  <2>5. StaysAllowed(t)'
    BY <2>1, <2>3, <2>4 DEF StaysAllowed
  <2> QED BY <2>5, OneFollows
<1> QED BY <1>1, <1>2

LEMMA HandleFollows ==
    ASSUME CredentialInv, MirrorInv, NEW t \in Task, Handle(t) \/ TooMany(t) PROVE MirrorInv'
<1>1. TasksShaped /\ warned' = warned
  BY DEF CredentialInv, Handle, TooMany
<1>2. CASE Done(t)
  BY <1>1, <1>2, DoneFollows
<1>3. CASE /\ Handle(t) /\ Len(task[t].left) > 1
  <2>1. PICK ls : ls = Tail(task[t].left)
    OBVIOUS
  <2>2. task' = [task EXCEPT ![t].pc = "charge", ![t].left = ls]
    <3>1. task' = [task EXCEPT ![t].pc = "charge", ![t].left = Tail(@)]
      BY <1>3 DEF Handle
    <3> QED BY <1>1, <2>1, <3>1 DEF TasksShaped, TaskShape
  <2>3. \A u \in Task \ {t} : task'[u] = task[u]
    BY <1>1, <2>2 DEF TasksShaped, TaskShape
  <2>4. task'[t].pc = "charge" /\ task'[t].left = ls
    BY <1>1, <2>2 DEF TasksShaped, TaskShape
  <2>5. task'[t].who = task[t].who /\ task'[t].tool = task[t].tool
    BY <1>1, <2>2 DEF TasksShaped, TaskShape
  <2> QED BY <1>1, <1>3, <2>1, <2>3, <2>4, <2>5, TailFollows
<1>4. CASE /\ TooMany(t) /\ Len(task[t].left) > 1 /\ ~Done(t)
  <2>1. PICK ls : ls = Tail(task[t].left)
    OBVIOUS
  <2>2. task' = [task EXCEPT ![t].left = ls] /\ task[t].pc = "charge"
    <3>1. task' = [task EXCEPT ![t].left = Tail(@)] /\ task[t].pc = "charge"
      BY <1>4 DEF TooMany, OverLimit
    <3> QED BY <1>1, <2>1, <3>1 DEF TasksShaped, TaskShape
  <2>3. \A u \in Task \ {t} : task'[u] = task[u]
    BY <1>1, <2>2 DEF TasksShaped, TaskShape
  <2>4. task'[t].pc = "charge" /\ task'[t].left = ls
    BY <1>1, <2>2 DEF TasksShaped, TaskShape
  <2>5. task'[t].who = task[t].who /\ task'[t].tool = task[t].tool
    BY <1>1, <2>2 DEF TasksShaped, TaskShape
  <2> QED BY <1>1, <1>4, <2>1, <2>3, <2>4, <2>5, TailFollows
<1> QED BY <1>2, <1>3, <1>4 DEF Handle, TooMany

LEMMA CallFollows ==
    ASSUME CredentialInv, MirrorInv, NEW t \in Task, CallTool(t) PROVE MirrorInv'
<1>1. TasksShaped /\ RunsTool(t) /\ RpcOf(t).tool \in DOMAIN catalogue
      /\ (PublicRead \/ task[t].who.credential # "none")
  BY DEF CredentialInv, CallTool, RunsTool
<1>2. PICK name, who, calls, usable :
        /\ name = RpcOf(t).tool /\ who = task[t].who
        /\ calls \in catalogue[name].calls
        /\ \/ /\ ~GateAllows(catalogue[name].gate, who)
              /\ Done(t)
              /\ warned' = warned \cup {[tool |-> name, who |-> who, calls |-> calls]}
           \/ /\ GateAllows(catalogue[name].gate, who) /\ warned' = warned
              /\ \/ Done(t)
                 \/ /\ calls # <<>>
                    /\ task' = [task EXCEPT ![t].pc = "charge", ![t].left = calls, ![t].tool = name]
  <2>1. PICK calls \in catalogue[RpcOf(t).tool].calls, usable \in guard_vocabulary :
             IF ~GateAllows(catalogue[RpcOf(t).tool].gate, task[t].who)
             THEN /\ Done(t)
                  /\ warned' = warned \cup {[tool |-> RpcOf(t).tool, who |-> task[t].who, calls |-> calls]}
             ELSE /\ IF usable /\ calls # <<>>
                     THEN task' = [task EXCEPT ![t].pc = "charge", ![t].left = calls,
                                               ![t].tool = RpcOf(t).tool]
                     ELSE Done(t)
                  /\ UNCHANGED warned
    BY Zenon DEF CallTool
  <2> QED BY <2>1, Zenon
<1>3. /\ calls \in Seq(ToolRoutes)
      /\ GateAllows(catalogue[name].gate, who) => \A n \in DOMAIN calls : Permits(who, calls[n])
      /\ ~GateAllows(catalogue[name].gate, who) =>
            \/ \E n \in DOMAIN calls : ~Permits(who, calls[n])
            \/ name = "declare_capability" /\ ActsForInstance(who, calls[1].of)
  BY <1>1, <1>2, CatalogueIs, CatalogueFits
<1>4. CASE Done(t)
  <2>1. task'[t] = Idle /\ \A u \in Task \ {t} : task'[u] = task[u]
    BY <1>1, <1>4, BecomesIdle
  <2>2. ASSUME NEW u \in Task PROVE StaysAllowed(u)'
    <3>1. CASE u = t
      BY <2>1, <3>1, IdleShape DEF StaysAllowed
    <3>2. CASE u # t
      BY <2>1, <3>2 DEF MirrorInv, StaysAllowed
    <3> QED BY <3>1, <3>2
  <2>3. CASE warned' = warned
    BY <2>2, <2>3 DEF MirrorInv, Warned
  <2>4. CASE /\ ~GateAllows(catalogue[name].gate, who)
             /\ warned' = warned \cup {[tool |-> name, who |-> who, calls |-> calls]}
    <3>1. PICK w : w = [tool |-> name, who |-> who, calls |-> calls]
      OBVIOUS
    <3>2. w.tool = name /\ w.who = who /\ w.calls = calls
      BY <3>1
    <3>3. Warned(w)
      BY <1>3, <2>4, <3>2 DEF Warned
    <3>4. \A x \in warned' : Warned(x)
      BY <2>4, <3>1, <3>3 DEF MirrorInv
    <3> QED BY <2>2, <3>4 DEF MirrorInv, Warned
  <2> QED BY <1>2, <2>3, <2>4
<1>5. CASE /\ GateAllows(catalogue[name].gate, who) /\ warned' = warned /\ calls # <<>>
           /\ task' = [task EXCEPT ![t].pc = "charge", ![t].left = calls, ![t].tool = name]
  <2>1. \A u \in Task \ {t} : task'[u] = task[u]
    BY <1>1, <1>5 DEF TasksShaped, TaskShape
  <2>2. task'[t].pc = "charge" /\ task'[t].left = calls
    BY <1>1, <1>5 DEF TasksShaped, TaskShape
  <2>3. task'[t].who = who
    BY <1>1, <1>2, <1>5 DEF TasksShaped, TaskShape
  <2>4. StaysAllowed(t)'
    BY <1>3, <1>5, <2>2, <2>3 DEF StaysAllowed
  <2> QED BY <1>5, <2>1, <2>4, OneFollows
<1> QED BY <1>2, <1>4, <1>5

LEMMA RetireFollows ==
    ASSUME CredentialInv, MirrorInv, NEW k \in Kid, Retire(k), warned' = warned PROVE MirrorInv'
<1>1. ASSUME NEW u \in Task PROVE StaysAllowed(u)'
  <2>1. TaskShape(task[u])
    BY DEF CredentialInv, TasksShaped
  <2>2. task'[u] = [task[u] EXCEPT !.steady = FALSE] \/ task'[u] = task[u]
    BY DEF Retire
  <2>3. /\ task'[u].pc = task[u].pc /\ task'[u].who = task[u].who
        /\ task'[u].left = task[u].left /\ task'[u].tool = task[u].tool
    BY <2>1, <2>2 DEF TaskShape
  <2> QED BY <2>3 DEF MirrorInv, StaysAllowed
<1> QED BY <1>1 DEF MirrorInv, Warned

LEMMA FreshFollows ==
    ASSUME MirrorInv, FreshMemory PROVE MirrorInv'
<1>1. ASSUME NEW u \in Task PROVE StaysAllowed(u)'
  BY IdleShape DEF FreshMemory, StaysAllowed
<1> QED BY <1>1 DEF FreshMemory, MirrorInv, Warned

LEMMA MirrorSteps ==
    ASSUME CredentialInv, MirrorInv, [ProcessNext]_processVars PROVE MirrorInv'
<1>1. CASE FreshMemory
  BY <1>1, FreshFollows
<1>2. CASE UNCHANGED mcpVars
  BY <1>2, CommonFollows DEF mcpVars, gatewayVars
<1>3. CASE McpNext
  <2>1. ASSUME Tick \/ RetainRecent \/ (\E k \in Token : RevokeToken(k)) \/ (\E k \in Kid : Publish(k))
        PROVE  task' = task
    BY <2>1, Zenon DEF Tick, RetainRecent, RevokeToken, Publish
  <2>2. ASSUME NEW t \in Task, AnswerRpc(t) PROVE Done(t) /\ warned' = warned
    BY <2>2 DEF AnswerRpc
  <2> QED BY <1>3, <2>1, <2>2, CommonFollows, DoneFollows, ArriveFollows, ResolvingFollows,
          AdmitFollows, HandleFollows, CallFollows, RetireFollows
          DEF McpNext
<1> QED BY <1>1, <1>2, <1>3 DEF ProcessNext, Serve, Exit, Maintain, processVars

LEMMA MirrorHolds == ProcessSpec => []MirrorInv
<1>1. ProcessInit => MirrorInv
  BY IdleShape DEF ProcessInit, McpInit, GatewayInit, MirrorInv, StaysAllowed
<1>2. CredentialInv /\ MirrorInv /\ [ProcessNext]_processVars => MirrorInv'
  BY MirrorSteps
<1> QED BY <1>1, <1>2, CredentialsHold, PTL DEF ProcessSpec

(* ToolsMirrorHandlers.  Of every tool in the catalogue, the gate allows a caller     *)
(* whose credential is not bound to a Software                                *)
(* exactly when the handlers of its requests do, but that a deployment may also       *)
(* declare its own capability; and no request of a call changes the caller.          *)
THEOREM ToolsAlwaysMirror == ProcessSpec => []ToolsMirrorHandlers
<1>1. ASSUME MirrorInv, NEW t \in Task, task[t].pc = "serve", task[t].tool # "none"
      PROVE  Permits(task[t].who, Route(t))
  <2>1. task[t].left \in Seq(ToolRoutes) /\ task[t].left # <<>>
        /\ \A n \in DOMAIN task[t].left : Permits(task[t].who, task[t].left[n])
    BY <1>1 DEF MirrorInv, StaysAllowed
  <2>2. 1 \in DOMAIN task[t].left /\ Route(t) = task[t].left[1]
    BY <2>1 DEF Route
  <2> QED BY <2>1, <2>2
<1>2. MirrorInv => ToolsMirrorHandlers
  BY <1>1 DEF MirrorInv, Warned, ToolsMirrorHandlers
<1> QED BY <1>2, MirrorHolds, PTL

-----------------------------------------------------------------------------
(* Failed credentials.                                                       *)

All == Cardinality(Task)
(* Requests of an address that may yet be refused, and those that were and have    *)
(* yet to block it: past the time of its next attempt, or short of it.             *)
Unresolved(a) ==
    {u \in Task : task[u].addr = a /\ task[u].pc \in InRound \cup {"verify", "note"}}
Blocking(a) == {u \in Task : task[u].addr = a /\ task[u].pc = "block"}
FreeTime(a) == FreeAt(AuthBucket(a), AuthFail)
Brief(a) == {u \in Blocking(a) : now + task[u].wait < FreeTime(a)}
Lasting(a) == Blocking(a) \ Brief(a)
Full(a) == FreeTime(a) > now

(* Periods the bucket of an address has been filled by, each by an attempt or by     *)
(* the clock; from the burst on, each may have begun a time of refusals.            *)
Periods(a) == Filled(AuthBucket(a)) \div AuthFail.period
Beyond(a) == Periods(a) - AuthFail.burst
Allowed(a) == Periods(a) + All * All * Beyond(a)

(* While an address has no attempt left: every request short of blocking it for       *)
(* long enough may let in all the others once, and so may the time before a block     *)
(* that lasts.                                                             *)
Counted(a) ==
    /\ block[a] >= FreeTime(a) =>
          judged[a] + All * Cardinality(Brief(a)) + Cardinality(Unresolved(a)) <= Allowed(a) + All
    /\ block[a] < FreeTime(a) =>
          judged[a] + All * Cardinality(Brief(a)) <= Allowed(a) + Cardinality(Lasting(a))
Stamped(a) ==
    \E k \in Nat : /\ k * AuthFail.period <= tat[AuthBucket(a)]
                   /\ tat[AuthBucket(a)] <= k * AuthFail.period + now
JudgedInv(a) ==
    /\ Stamped(a)
    /\ Filled(AuthBucket(a)) <= now + AuthFail.burst * AuthFail.period
    /\ Beyond(a) < 0 => Blocking(a) = {} /\ judged[a] <= Periods(a)
    /\ Beyond(a) >= 0 => judged[a] <= Allowed(a) + All
    /\ Full(a) => Counted(a)
FailureInv ==
    /\ block \in [Address -> Int] /\ judged \in [Address -> Nat]
    /\ \A u \in Task : task[u].pc = "block" => task[u].wait \in Int
    /\ \A a \in Address : JudgedInv(a)

LEMMA AllIs == All \in Nat /\ IsFiniteSet(Task)
BY FS_CardinalityType, GatewayAssumption DEF All

LEMMA PartsOfAll ==
    ASSUME NEW S \in SUBSET Task, NEW T \in SUBSET Task, S \cap T = {}
    PROVE  /\ IsFiniteSet(S) /\ Cardinality(S) \in Nat /\ Cardinality(S) <= All
           /\ Cardinality(T) \in Nat /\ Cardinality(S) + Cardinality(T) <= All
<1>1. IsFiniteSet(S) /\ IsFiniteSet(T) /\ IsFiniteSet(S \cup T)
  BY AllIs, FS_Subset
<1>2. /\ Cardinality(S) <= All /\ Cardinality(S \cup T) <= All
      /\ Cardinality(S) \in Nat /\ Cardinality(T) \in Nat
  BY <1>1, AllIs, FS_Subset, FS_CardinalityType DEF All
<1>3. Cardinality(S \cup T) = Cardinality(S) + Cardinality(T) - Cardinality({})
  BY <1>1, FS_Union
<1> QED BY <1>1, <1>2, <1>3, FS_EmptySet

LEMMA Parts ==
    ASSUME NEW a
    PROVE  /\ Cardinality(Unresolved(a)) \in Nat /\ Cardinality(Brief(a)) \in Nat
           /\ Cardinality(Lasting(a)) \in Nat
           /\ Cardinality(Brief(a)) <= All /\ Cardinality(Lasting(a)) <= All
           /\ Cardinality(Unresolved(a)) <= All
           /\ Cardinality(Unresolved(a)) + Cardinality(Lasting(a)) <= All
           /\ IsFiniteSet(Unresolved(a)) /\ IsFiniteSet(Brief(a)) /\ IsFiniteSet(Lasting(a))
<1>1. /\ Unresolved(a) \in SUBSET Task /\ Brief(a) \in SUBSET Task /\ Lasting(a) \in SUBSET Task
      /\ Unresolved(a) \cap Lasting(a) = {} /\ Brief(a) \cap {} = {} /\ {} \in SUBSET Task
  BY DEF Unresolved, Brief, Lasting, Blocking, InRound
<1> QED BY <1>1, PartsOfAll

LEMMA WholePeriods ==
    ASSUME NEW p \in Nat \ {0}, NEW x \in Int, NEW y \in Int, x <= y
    PROVE  /\ x \div p \in Int /\ x \div p <= y \div p
           /\ (x + p) \div p = x \div p + 1
<1> DEFINE q == x \div p
           r == y \div p
           s == (x + p) \div p
<1>1. q \in Int /\ q * p <= x /\ x < (q + 1) * p
  BY SMT
<1>2. r \in Int /\ r * p <= y /\ y < (r + 1) * p
  BY SMT
<1>3. s \in Int /\ s * p <= x + p /\ x + p < (s + 1) * p
  BY SMT
<1> HIDE DEF q, r, s
<1>4. q <= r
  <2> SUFFICES ASSUME q >= r + 1 PROVE FALSE
    BY <1>1, <1>2
  <2>1. q * p >= (r + 1) * p
    BY <1>1, <1>2
  <2> QED BY <2>1, <1>1, <1>2
<1>5. s = q + 1
  <2>1. (q + 1) * p = q * p + p /\ (q + 2) * p = q * p + p + p /\ q * p \in Int
        /\ (q + 1 + 1) * p = (q + 1) * p + p
    BY <1>1
  <2>2. ASSUME s >= q + 2 PROVE FALSE
    <3>1. s * p >= (q + 2) * p
      BY <1>1, <1>3, <2>2
    <3> QED BY <3>1, <2>1, <1>1, <1>3
  <2>3. ASSUME s <= q PROVE FALSE
    <3>1. (s + 1) * p <= (q + 1) * p
      BY <1>1, <1>3, <2>3
    <3> QED BY <3>1, <2>1, <1>1, <1>3
  <2> QED BY <1>1, <1>3, <2>2, <2>3
<1> QED BY <1>1, <1>4, <1>5 DEF q, r, s

LEMMA FullPeriods ==
    ASSUME NEW p \in Nat \ {0}, NEW b \in Nat, NEW n \in Nat, NEW x \in Int
    PROVE  /\ b * p <= x => b <= x \div p
           /\ x <= n + b * p => x \div p <= b + n \div p
<1> DEFINE q == x \div p
           r == n \div p
<1>1. q \in Int /\ q * p <= x /\ x < (q + 1) * p
  BY SMT
<1>2. r \in Int /\ r * p <= n /\ n < (r + 1) * p
  BY SMT
<1> HIDE DEF q, r
<1>3. ASSUME b * p <= x PROVE b <= q
  <2> SUFFICES ASSUME b >= q + 1 PROVE FALSE
    BY <1>1
  <2>1. b * p >= (q + 1) * p
    BY <1>1
  <2> QED BY <2>1, <1>3, <1>1
<1>4. ASSUME x <= n + b * p PROVE q <= b + r
  <2> SUFFICES ASSUME q >= b + r + 1 PROVE FALSE
    BY <1>1, <1>2
  <2>1. q * p >= (b + r + 1) * p
    BY <1>1, <1>2
  <2>2. (b + r + 1) * p = b * p + (r + 1) * p
    BY <1>2
  <2> QED BY <2>1, <2>2, <1>4, <1>1, <1>2
<1> QED BY <1>3, <1>4 DEF q, r

LEMMA FilledIs ==
    ASSUME NEW b, tat[b] \in Int, now \in Nat
    PROVE  Filled(b) \in Int /\ Filled(b) >= now /\ Filled(b) >= tat[b] /\ Filled(b) \in {tat[b], now}
<1>1. PICK x \in Int, y \in Int : x = tat[b] /\ y = now
  OBVIOUS
<1> QED BY <1>1, MaxOfTwo, Zenon DEF Filled

(* The numbers of an address.                                                   *)
LEMMA Levels ==
    ASSUME NEW a \in Address, tat[AuthBucket(a)] \in Int, now \in Nat
    PROVE  /\ AuthFail.burst \in Nat \ {0} /\ AuthFail.period \in Nat \ {0}
           /\ Filled(AuthBucket(a)) \in Int /\ Filled(AuthBucket(a)) >= now
           /\ Filled(AuthBucket(a)) >= tat[AuthBucket(a)]
           /\ Filled(AuthBucket(a)) \in {tat[AuthBucket(a)], now}
           /\ FreeTime(a) = Filled(AuthBucket(a)) - (AuthFail.burst - 1) * AuthFail.period
           /\ (AuthFail.burst - 1) * AuthFail.period \in Nat
           /\ FreeTime(a) \in Int /\ Periods(a) \in Int /\ Beyond(a) \in Int
           /\ Beyond(a) = Periods(a) - AuthFail.burst
           /\ All * All * Beyond(a) \in Int /\ Allowed(a) \in Int
           /\ Allowed(a) = Periods(a) + All * All * Beyond(a)
           /\ Full(a) <=> ~HasRoom(AuthBucket(a), AuthFail)
<1>1. AuthFail.burst \in Nat \ {0} /\ AuthFail.period \in Nat \ {0}
  BY GatewayAssumption
<1>2. /\ Filled(AuthBucket(a)) \in Int /\ Filled(AuthBucket(a)) >= now
      /\ Filled(AuthBucket(a)) >= tat[AuthBucket(a)]
      /\ Filled(AuthBucket(a)) \in {tat[AuthBucket(a)], now}
  BY FilledIs
<1>3. PICK m \in Nat, p \in Nat \ {0}, x \in Int :
          m = AuthFail.burst - 1 /\ p = AuthFail.period /\ x = Filled(AuthBucket(a))
  BY <1>1, <1>2
<1>4. m * p \in Nat /\ x \div p \in Int
  BY WholePeriods
<1>5. FreeTime(a) = x - m * p /\ FreeTime(a) \in Int
  BY <1>3, <1>4 DEF FreeTime, FreeAt
<1>6. Full(a) <=> ~HasRoom(AuthBucket(a), AuthFail)
  BY <1>5 DEF Full, FreeTime, HasRoom
<1>7. Periods(a) \in Int /\ Beyond(a) \in Int /\ Beyond(a) = Periods(a) - AuthFail.burst
  BY <1>1, <1>3, <1>4 DEF Periods, Beyond
<1>8. All * All * Beyond(a) \in Int
  <2>1. PICK n \in Nat, v \in Int : n = All /\ v = Beyond(a)
    BY <1>7, AllIs
  <2>2. n * n * v \in Int
    OBVIOUS
  <2> QED BY <2>1, <2>2
<1>9. Allowed(a) = Periods(a) + All * All * Beyond(a) /\ Allowed(a) \in Int
  BY <1>7, <1>8 DEF Allowed
<1> QED BY <1>1, <1>2, <1>3, <1>4, <1>5, <1>6, <1>7, <1>8, <1>9

(* No attempt is left only after a burst has been spent.                          *)
LEMMA FullAfterBurst ==
    ASSUME NEW a \in Address, tat[AuthBucket(a)] \in Int, now \in Nat, Stamped(a), Full(a)
    PROVE  Beyond(a) >= 0
<1>1. PICK k \in Nat : /\ k * AuthFail.period <= tat[AuthBucket(a)]
                       /\ tat[AuthBucket(a)] <= k * AuthFail.period + now
  BY DEF Stamped
<1>2. PICK m \in Nat \ {0}, p \in Nat \ {0}, x \in Int, y \in Int, n \in Nat :
          /\ m = AuthFail.burst /\ p = AuthFail.period /\ x = Filled(AuthBucket(a))
          /\ y = tat[AuthBucket(a)] /\ n = now
  BY Levels
<1>3. x \in {y, n} /\ x - (m - 1) * p > n /\ (m - 1) * p \in Nat
  BY <1>2, Levels DEF Full
<1>4. x = y /\ k * p <= y /\ y <= k * p + n /\ k * p \in Nat
  BY <1>1, <1>2, <1>3
<1>5. (m - 1) * p < k * p
  BY <1>3, <1>4
<1>6. k >= m
  <2> SUFFICES ASSUME k <= m - 1 PROVE FALSE
    OBVIOUS
  <2>1. k * p <= (m - 1) * p
    OBVIOUS
  <2> QED BY <2>1, <1>3, <1>4, <1>5
<1>7. m * p <= k * p /\ m * p \in Nat
  BY <1>6
<1>8. m * p <= x
  BY <1>4, <1>7
<1>9. m <= x \div p
  BY <1>8, FullPeriods
<1> QED BY <1>2, <1>9, Levels DEF Periods

(* A step that spends no attempt, refuses nobody and blocks nobody.               *)
LEMMA RestIsCounted ==
    ASSUME NEW a \in Address, JudgedInv(a), judged[a] \in Nat, block[a] \in Int,
           tat[AuthBucket(a)] \in Int, tat'[AuthBucket(a)] \in Int,
           now \in Nat, now' = now, Filled(AuthBucket(a))' = Filled(AuthBucket(a)),
           Stamped(a)', judged'[a] = judged[a],
           block'[a] = block[a] \/ (block[a] <= now /\ block'[a] <= now),
           block'[a] \in Int,
           Blocking(a)' = Blocking(a), \A u \in Blocking(a) : task'[u].wait = task[u].wait,
           Unresolved(a)' \subseteq Unresolved(a) \/ block[a] <= now
    PROVE  JudgedInv(a)'
<1>1. FreeTime(a)' = FreeTime(a) /\ Periods(a)' = Periods(a) /\ Beyond(a)' = Beyond(a)
      /\ Allowed(a)' = Allowed(a) /\ (Full(a)' <=> Full(a))
  BY DEF FreeTime, FreeAt, Periods, Beyond, Allowed, Full, All
<1>2. Brief(a)' = Brief(a) /\ Lasting(a)' = Lasting(a)
  BY <1>1 DEF Brief, Lasting
<1>3. Full(a) => Counted(a)'
  <2> SUFFICES ASSUME Full(a) PROVE Counted(a)'
    OBVIOUS
  <2>1. FreeTime(a) > now /\ FreeTime(a) \in Int /\ Counted(a)
    BY Levels DEF Full, JudgedInv
  <2>2. CASE block[a] >= FreeTime(a)
    <3>1. block'[a] = block[a] /\ Unresolved(a)' \subseteq Unresolved(a)
      BY <2>1, <2>2
    <3>2. Cardinality(Unresolved(a)') <= Cardinality(Unresolved(a))
          /\ Cardinality(Unresolved(a)') \in Nat
      BY <3>1, Parts, FS_Subset, FS_CardinalityType
    <3>3. PICK j \in Nat, e \in Int, u \in Nat, v \in Nat, w \in Int :
              /\ j = judged[a] /\ e = All * Cardinality(Brief(a)) /\ w = Allowed(a) + All
              /\ u = Cardinality(Unresolved(a)) /\ v = Cardinality(Unresolved(a)')
      <4>1. All * Cardinality(Brief(a)) \in Int /\ Allowed(a) + All \in Int
        BY AllIs, Parts, Levels
      <4> QED BY <4>1, <3>2, Parts
    <3>4. j + e + u <= w
      BY <2>1, <2>2, <3>3 DEF Counted
    <3>5. j + e + v <= w
      BY <3>2, <3>3, <3>4
    <3> QED BY <1>1, <1>2, <2>1, <2>2, <3>1, <3>3, <3>5 DEF Counted, All
  <2>3. CASE block[a] < FreeTime(a)
    <3>1. block'[a] < FreeTime(a)
      BY <2>1, <2>3
    <3>2. ~(block'[a] >= FreeTime(a))
      BY <2>1, <3>1
    <3> QED BY <1>1, <1>2, <2>1, <2>3, <3>1, <3>2 DEF Counted, All
  <2> QED BY <2>1, <2>2, <2>3
<1> QED BY <1>1, <1>3 DEF JudgedInv, All

(* What is allowed grows with the periods.                                       *)
LEMMA AllowedGrows ==
    ASSUME NEW n \in Nat, NEW v \in Int, NEW w \in Int, v <= w
    PROVE  /\ n * n * v \in Int /\ n * n * w \in Int /\ n * n * v <= n * n * w
           /\ v >= 0 => n * n * v >= 0
           /\ n * n * (v + 1) = n * n * v + n * n
<1>1. n * n \in Nat
  OBVIOUS
<1>2. PICK m \in Nat : m = n * n
  BY <1>1
<1>3. m * v \in Int /\ m * w \in Int /\ m * v <= m * w /\ (v >= 0 => m * v >= 0)
      /\ m * (v + 1) = m * v + m
  OBVIOUS
<1> QED BY <1>2, <1>3

LEMMA CountedIsAllowed ==
    ASSUME NEW a \in Address, tat[AuthBucket(a)] \in Int, now \in Nat, judged[a] \in Nat,
           block[a] \in Int, Counted(a)
    PROVE  judged[a] <= Allowed(a) + All
<1>1. PICK j \in Nat, n \in Nat, b \in Nat, u \in Nat, l \in Nat, w \in Int :
          /\ j = judged[a] /\ n = All /\ w = Allowed(a) /\ b = Cardinality(Brief(a))
          /\ u = Cardinality(Unresolved(a)) /\ l = Cardinality(Lasting(a)) /\ l <= n
  BY Levels, AllIs, Parts
<1>2. n * b \in Nat
  OBVIOUS
<1>3. j + n * b + u <= w + n \/ j + n * b <= w + l
  BY <1>1, Levels DEF Counted
<1> QED BY <1>1, <1>2, <1>3

LEMMA TickIsCounted ==
    ASSUME NEW a \in Address, JudgedInv(a), judged[a] \in Nat, block[a] \in Int,
           tat[AuthBucket(a)] \in Int, now \in Nat, now' = now + 1,
           UNCHANGED <<tat, block, judged, task>>,
           \A u \in Task : task[u].pc = "block" => task[u].wait \in Int
    PROVE  JudgedInv(a)'
<1> DEFINE b == AuthBucket(a)
<1>1. PICK m \in Nat \ {0}, p \in Nat \ {0}, x \in Int, y \in Int, n \in Nat, d \in Nat :
          /\ m = AuthFail.burst /\ p = AuthFail.period /\ x = Filled(b) /\ y = tat[b] /\ n = now
          /\ d = (m - 1) * p /\ d = (AuthFail.burst - 1) * AuthFail.period
  BY Levels
<1>2. x \in {y, n} /\ x >= y /\ x >= n /\ FreeTime(a) = x - d
  BY <1>1, Levels
<1>3. tat'[b] = y /\ now' = n + 1 /\ now' \in Nat /\ tat'[b] \in Int
  BY <1>1
<1>4. PICK z \in Int : z = Filled(b)' /\ z \in {y, n + 1} /\ z >= y /\ z >= n + 1
  <2>1. PICK i \in Int, j \in Int : i = tat'[b] /\ j = now'
    BY <1>3
  <2>2. Filled(b)' \in {i, j} /\ Filled(b)' >= i /\ Filled(b)' >= j
    BY <2>1, MaxOfTwo, Zenon DEF Filled
  <2> QED BY <1>3, <2>1, <2>2
<1>5. FreeTime(a)' = z - d
  BY <1>1, <1>4 DEF FreeTime, FreeAt
<1>6. Full(a)' => Full(a) /\ z = x
  BY <1>1, <1>2, <1>3, <1>4, <1>5 DEF Full
<1>7. Periods(a) \in Int /\ Periods(a)' \in Int /\ Periods(a) <= Periods(a)'
      /\ Beyond(a) = Periods(a) - m /\ Beyond(a)' = Periods(a)' - m
  <2>1. x <= z
    BY <1>2, <1>4
  <2>2. x \div p \in Int /\ z \div p \in Int /\ x \div p <= z \div p
    BY <2>1, WholePeriods
  <2>3. Periods(a) = x \div p /\ Periods(a)' = z \div p
    BY <1>1, <1>4 DEF Periods
  <2> QED BY <1>1, <2>2, <2>3 DEF Beyond
<1>8. /\ Allowed(a) \in Int /\ Allowed(a)' \in Int /\ Allowed(a) <= Allowed(a)'
      /\ Beyond(a)' >= 0 => Periods(a)' <= Allowed(a)'
  <2>1. PICK k \in Nat, v \in Int, w \in Int : k = All /\ v = Beyond(a) /\ w = Beyond(a)' /\ v <= w
    BY <1>7, AllIs
  <2>2. k * k * v \in Int /\ k * k * w \in Int /\ k * k * v <= k * k * w
        /\ (w >= 0 => k * k * w >= 0)
    BY <2>1, AllowedGrows
  <2>3. Allowed(a) = Periods(a) + k * k * v /\ Allowed(a)' = Periods(a)' + k * k * w
    BY <2>1 DEF Allowed, All
  <2> QED BY <1>7, <2>1, <2>2, <2>3
<1>9. Stamped(a)'
  <2>1. PICK k \in Nat : k * p <= y /\ y <= k * p + n
    BY <1>1 DEF JudgedInv, Stamped
  <2>2. k * p \in Nat
    OBVIOUS
  <2>3. k * p <= y /\ y <= k * p + (n + 1)
    BY <2>1, <2>2
  <2> QED BY <1>1, <1>3, <2>3 DEF Stamped
<1>10. Filled(b)' <= now' + AuthFail.burst * AuthFail.period
  <2>1. PICK c \in Nat : c = m * p
    OBVIOUS
  <2>2. x <= n + c
    BY <1>1, <2>1 DEF JudgedInv
  <2>3. z <= n + 1 + c
    BY <1>2, <1>4, <2>2
  <2> QED BY <1>1, <1>3, <1>4, <2>1, <2>3
<1>11. Blocking(a)' = Blocking(a) /\ Unresolved(a)' = Unresolved(a)
  BY DEF Blocking, Unresolved
<1>12. Beyond(a)' < 0 => Blocking(a)' = {} /\ judged'[a] <= Periods(a)'
  BY <1>1, <1>7, <1>11 DEF JudgedInv
<1>13. Beyond(a)' >= 0 => judged'[a] <= Allowed(a)' + All'
  <2>1. All' = All /\ All \in Nat
    BY AllIs DEF All
  <2>2. CASE Beyond(a) >= 0
    BY <1>8, <2>1, <2>2 DEF JudgedInv
  <2>3. CASE Beyond(a) < 0
    BY <1>1, <1>7, <1>8, <2>1, <2>3 DEF JudgedInv
  <2> QED BY <1>1, <1>7, <2>2, <2>3
<1>14. Full(a)' => Counted(a)'
  <2> SUFFICES ASSUME Full(a)' PROVE Counted(a)'
    OBVIOUS
  <2>1. Full(a) /\ z = x /\ Counted(a) /\ FreeTime(a)' = FreeTime(a) /\ FreeTime(a) \in Int
    BY <1>2, <1>5, <1>6 DEF JudgedInv
  <2>2. Allowed(a)' = Allowed(a)
    BY <1>1, <1>4, <2>1 DEF Allowed, Beyond, Periods, All
  <2>3. Brief(a)' \subseteq Brief(a) /\ Lasting(a) \subseteq Lasting(a)'
    <3>1. ASSUME NEW u \in Blocking(a), now' + task'[u].wait < FreeTime(a)'
          PROVE  now + task[u].wait < FreeTime(a)
      <4>1. task[u].wait \in Int /\ task'[u].wait = task[u].wait
        BY DEF Blocking
      <4> QED BY <2>1, <3>1, <4>1
    <3> QED BY <1>11, <3>1 DEF Brief, Lasting
  <2>4. /\ Cardinality(Brief(a)') <= Cardinality(Brief(a))
        /\ Cardinality(Brief(a)') \in Nat
        /\ Cardinality(Lasting(a)) <= Cardinality(Lasting(a)')
        /\ Cardinality(Lasting(a)') \in Nat
    <3>1. Lasting(a)' \in SUBSET Task
      BY DEF Lasting, Blocking
    <3>2. IsFiniteSet(Lasting(a)')
      BY <3>1, AllIs, FS_Subset
    <3> QED BY <2>3, <3>2, Parts, FS_Subset, FS_CardinalityType
  <2>5. PICK j \in Nat, k \in Nat, e \in Nat, f \in Nat, l \in Nat, g \in Nat, u \in Nat, w \in Int :
            /\ j = judged[a] /\ k = All /\ w = Allowed(a)
            /\ e = Cardinality(Brief(a)) /\ f = Cardinality(Brief(a)') /\ f <= e
            /\ l = Cardinality(Lasting(a)) /\ g = Cardinality(Lasting(a)') /\ l <= g
            /\ u = Cardinality(Unresolved(a))
    BY <1>8, <2>4, AllIs, Parts
  <2>6. k * e \in Nat /\ k * f \in Nat /\ k * f <= k * e
    BY <2>5
  <2>7. /\ block[a] >= FreeTime(a) => j + k * e + u <= w + k
        /\ block[a] < FreeTime(a) => j + k * e <= w + l
    BY <2>1, <2>5 DEF Counted
  <2>8. /\ block[a] >= FreeTime(a) => j + k * f + u <= w + k
        /\ block[a] < FreeTime(a) => j + k * f <= w + g
    BY <2>5, <2>6, <2>7
  <2> QED BY <1>11, <2>1, <2>2, <2>5, <2>8 DEF Counted, All
<1> QED BY <1>9, <1>10, <1>12, <1>13, <1>14 DEF JudgedInv

(* A request that is refused while attempts are left.                             *)
LEMMA SpentIsCounted ==
    ASSUME NEW a \in Address, NEW t \in Task, JudgedInv(a), judged[a] \in Nat, block[a] \in Int,
           tat[AuthBucket(a)] \in Int, now \in Nat, now' = now, block' = block,
           HasRoom(AuthBucket(a), AuthFail),
           tat'[AuthBucket(a)] = Filled(AuthBucket(a)) + AuthFail.period,
           judged'[a] = judged[a] + 1, task[t].pc # "block", task'[t].pc = "charge",
           \A u \in Task \ {t} : task'[u] = task[u]
    PROVE  JudgedInv(a)'
<1> DEFINE b == AuthBucket(a)
<1>1. PICK m \in Nat \ {0}, p \in Nat \ {0}, x \in Int, y \in Int, n \in Nat, d \in Nat :
          /\ m = AuthFail.burst /\ p = AuthFail.period /\ x = Filled(b) /\ y = tat[b] /\ n = now
          /\ d = (m - 1) * p /\ d = (AuthFail.burst - 1) * AuthFail.period
  BY Levels
<1>2. x \in {y, n} /\ x >= y /\ x >= n /\ x - d <= n
  BY <1>1, Levels DEF HasRoom, FreeAt
<1>3. tat'[b] = x + p /\ now' = n /\ x + p > n
  BY <1>1, <1>2
<1>4. Filled(b)' = x + p
  <2>1. PICK i \in Int, j \in Int : i = tat'[b] /\ j = now'
    BY <1>3
  <2>2. Filled(b)' \in {i, j} /\ Filled(b)' >= i /\ Filled(b)' >= j
    BY <2>1, MaxOfTwo, Zenon DEF Filled
  <2> QED BY <1>3, <2>1, <2>2
<1>5. Periods(a) \in Int /\ Periods(a)' = Periods(a) + 1
      /\ Beyond(a) = Periods(a) - m /\ Beyond(a)' = Beyond(a) + 1 /\ Beyond(a) \in Int
  <2>1. x \div p \in Int /\ (x + p) \div p = x \div p + 1
    BY WholePeriods
  <2> QED BY <1>1, <1>4, <2>1 DEF Periods, Beyond
<1>6. PICK k \in Nat, q \in Nat, v \in Int, r \in Int, c \in Int :
          /\ k = All /\ q = k * k /\ v = Beyond(a) /\ r = Periods(a) /\ c = k * k * v
          /\ Allowed(a) = r + c /\ Allowed(a)' = r + 1 + (c + q)
          /\ v >= 0 => c >= 0
          /\ v = -1 => c + q = 0
  <2>1. PICK k \in Nat, q \in Nat, v \in Int, r \in Int, c \in Int :
          /\ k = All /\ q = k * k /\ v = Beyond(a) /\ r = Periods(a) /\ c = k * k * v
    <3>1. PICK k \in Nat, v \in Int, r \in Int : k = All /\ v = Beyond(a) /\ r = Periods(a)
      BY <1>5, AllIs
    <3>2. k * k \in Nat /\ k * k * v \in Int
      BY AllowedGrows
    <3> QED BY <3>1, <3>2
  <2>2. k * k * (v + 1) = c + q /\ (v >= 0 => c >= 0)
    BY <2>1, AllowedGrows
  <2>3. v = -1 => c + q = 0
    <3>1. k * k * 0 = 0
      OBVIOUS
    <3> QED BY <2>2, <3>1
  <2>4. Allowed(a) = r + c
    BY <2>1 DEF Allowed
  <2>5. Allowed(a)' = (r + 1) + k * k * (v + 1)
    BY <1>5, <2>1 DEF Allowed, All
  <2> QED BY <2>1, <2>2, <2>3, <2>4, <2>5
<1>7. Stamped(a)'
  <2>1. PICK h \in Nat : h * p <= y /\ y <= h * p + n
    BY <1>1 DEF JudgedInv, Stamped
  <2>2. PICK f \in Nat : f = h * p /\ (h + 1) * p = f + p /\ 1 * p = p
    OBVIOUS
  <2>3. \/ f + p <= x + p /\ x + p <= f + p + n
        \/ p <= x + p /\ x + p <= p + n
    BY <1>2, <2>1, <2>2
  <2>4. \E g \in Nat : g * p <= x + p /\ x + p <= g * p + n
    <3>1. h + 1 \in Nat /\ 1 \in Nat
      OBVIOUS
    <3> QED BY <2>2, <2>3, <3>1
  <2> QED BY <1>1, <1>3, <2>4 DEF Stamped
<1>8. Filled(b)' <= now' + AuthFail.burst * AuthFail.period
  <2>1. m * p = d + p
    BY <1>1
  <2>2. x + p <= n + (d + p)
    BY <1>2
  <2> QED BY <1>1, <1>3, <1>4, <2>1, <2>2
<1>9. Blocking(a)' = Blocking(a) /\ t \notin Blocking(a)
  BY DEF Blocking
<1>10. \/ v >= 0 /\ judged[a] <= r + c + k
       \/ v < 0 /\ judged[a] <= r /\ Blocking(a) = {}
  BY <1>6 DEF JudgedInv
<1>11. Beyond(a)' < 0 => Blocking(a)' = {} /\ judged'[a] <= Periods(a)'
  BY <1>5, <1>6, <1>9, <1>10
<1>12. k >= 1 /\ k * k >= k
  <2>1. {t} \in SUBSET Task /\ {t} \cap {} = {} /\ {} \in SUBSET Task
    OBVIOUS
  <2>2. k >= 1
    BY <1>6, <2>1, PartsOfAll, FS_Singleton
  <2> QED BY <2>2
<1>13. Beyond(a)' >= 0 => judged'[a] <= Allowed(a)' + All'
  <2>1. All' = k
    BY <1>6 DEF All
  <2> QED BY <1>5, <1>6, <1>10, <1>12, <2>1
<1>14. Full(a)' => Counted(a)'
  <2> SUFFICES ASSUME Full(a)' PROVE Counted(a)'
    OBVIOUS
  <2>1. Beyond(a)' >= 0
    <3>1. tat'[b] \in Int /\ now' \in Nat
      BY <1>3, <1>1
    <3>2. Filled(b)' = tat'[b]
      BY <1>3, <1>4
    <3>3. (x + p) - d > n
      <4>1. FreeTime(a)' = (x + p) - d
        BY <1>1, <1>4 DEF FreeTime, FreeAt
      <4> QED BY <1>3, <4>1 DEF Full
    <3>4. PICK g \in Nat : g * p <= x + p /\ x + p <= g * p + n
      BY <1>1, <1>3, <1>7 DEF Stamped
    <3>5. g * p \in Nat /\ d < g * p
      BY <3>3, <3>4
    <3>6. g >= m
      <4> SUFFICES ASSUME g <= m - 1 PROVE FALSE
        OBVIOUS
      <4>1. g * p <= (m - 1) * p
        OBVIOUS
      <4> QED BY <4>1, <1>1, <3>5
    <3>7. m * p <= g * p /\ m * p \in Nat
      BY <3>6
    <3>8. m * p <= x + p
      BY <3>4, <3>5, <3>7
    <3>9. m <= (x + p) \div p
      BY <3>8, FullPeriods
    <3>10. Beyond(a)' = (x + p) \div p - m
      BY <1>1, <1>4 DEF Beyond, Periods
    <3> QED BY <1>5, <3>9, <3>10
  <2>2. Unresolved(a)' \in SUBSET Task /\ Brief(a)' \in SUBSET Task /\ Lasting(a)' \in SUBSET Task
    BY DEF Unresolved, Brief, Lasting, Blocking
  <2>3. t \notin Brief(a)' /\ Brief(a)' \cap {t} = {}
    BY <1>9 DEF Brief
  <2>4. PICK e \in Nat, l \in Nat, u \in Nat :
            /\ e = Cardinality(Brief(a)') /\ l = Cardinality(Lasting(a)')
            /\ u = Cardinality(Unresolved(a)') /\ e + 1 <= k /\ u <= k
    <3>1. Cardinality(Brief(a)') \in Nat /\ Cardinality(Brief(a)') + Cardinality({t}) <= All
      BY <2>2, <2>3, PartsOfAll
    <3>2. Cardinality(Lasting(a)') \in Nat /\ Cardinality(Unresolved(a)') \in Nat
          /\ Cardinality(Unresolved(a)') <= All
      <4>1. Lasting(a)' \cap {} = {} /\ Unresolved(a)' \cap {} = {} /\ {} \in SUBSET Task
        OBVIOUS
      <4> QED BY <2>2, <4>1, PartsOfAll
    <3> QED BY <1>6, <3>1, <3>2, FS_Singleton
  <2>5. k * e \in Nat /\ k * e <= q - k
    <3>1. k * e <= k * (k - 1) /\ k * (k - 1) = k * k - k
      BY <2>4
    <3> QED BY <1>6, <3>1
  <2>6. CASE v >= 0
    <3>1. judged[a] + 1 + k * e + u <= (r + 1 + (c + q)) + k
      BY <1>10, <2>4, <2>5, <2>6
    <3>2. judged[a] + 1 + k * e <= (r + 1 + (c + q)) + l
      BY <1>10, <2>4, <2>5, <2>6
    <3> QED BY <1>6, <2>4, <3>1, <3>2 DEF Counted, All
  <2>7. CASE v < 0
    <3>1. v = -1 /\ c + q = 0 /\ judged[a] <= r
      BY <1>5, <1>6, <1>10, <2>1, <2>7
    <3>2. e = 0
      <4>1. Blocking(a)' = {}
        BY <1>9, <1>10, <2>7
      <4>2. Brief(a)' = {}
        BY <4>1 DEF Brief
      <4> QED BY <2>4, <4>2, FS_EmptySet
    <3>3. k * e = 0
      BY <3>2
    <3>4. judged[a] + 1 + k * e + u <= (r + 1 + (c + q)) + k
      BY <3>1, <3>3, <2>4
    <3>5. judged[a] + 1 + k * e <= (r + 1 + (c + q)) + l
      BY <3>1, <3>3, <2>4
    <3> QED BY <1>6, <2>4, <3>4, <3>5 DEF Counted, All
  <2> QED BY <2>6, <2>7
<1> QED BY <1>7, <1>8, <1>11, <1>13, <1>14 DEF JudgedInv

(* A request that is refused after the last attempt: it will block its address.     *)
LEMMA RefusedIsCounted ==
    ASSUME NEW a \in Address, NEW t \in Task, JudgedInv(a), judged[a] \in Nat, block[a] \in Int,
           tat[AuthBucket(a)] \in Int, now \in Nat, UNCHANGED <<now, block, tat>>,
           ~HasRoom(AuthBucket(a), AuthFail),
           judged'[a] = judged[a] + 1, task[t].addr = a, task[t].pc = "note",
           task'[t].addr = a, task'[t].pc = "block", task'[t].wait = FreeTime(a) - now,
           \A u \in Task \ {t} : task'[u] = task[u]
    PROVE  JudgedInv(a)'
<1>1. /\ FreeTime(a)' = FreeTime(a) /\ Periods(a)' = Periods(a) /\ Beyond(a)' = Beyond(a)
      /\ Allowed(a)' = Allowed(a) /\ (Full(a)' <=> Full(a)) /\ Stamped(a)'
      /\ Filled(AuthBucket(a))' = Filled(AuthBucket(a)) /\ All' = All
  BY DEF FreeTime, FreeAt, Periods, Beyond, Allowed, Full, All, Filled, JudgedInv, Stamped
<1>2. Full(a) /\ FreeTime(a) \in Int
  BY Levels
<1>3. Counted(a) /\ Beyond(a) >= 0 /\ Beyond(a) \in Int
  BY <1>2, FullAfterBurst, Levels DEF JudgedInv
<1>4. t \in Unresolved(a) /\ Unresolved(a)' = Unresolved(a) \ {t}
  BY DEF Unresolved, InRound
<1>5. t \notin Blocking(a) /\ Blocking(a)' = Blocking(a) \cup {t}
  BY DEF Blocking
<1>6. now' + task'[t].wait = FreeTime(a)
  BY <1>2
<1>7. Brief(a)' = Brief(a)
  <2>1. ASSUME NEW u \in Blocking(a) PROVE u \in Brief(a)' <=> u \in Brief(a)
    BY <1>1, <1>5 DEF Brief, Blocking
  <2>2. t \notin Brief(a)'
    BY <1>1, <1>2, <1>6 DEF Brief
  <2> QED BY <1>5, <2>1, <2>2 DEF Brief
<1>8. Lasting(a)' = Lasting(a) \cup {t} /\ t \notin Lasting(a)
  BY <1>5, <1>7 DEF Lasting, Brief
<1>15. /\ Cardinality(Unresolved(a)') = Cardinality(Unresolved(a)) - 1
       /\ Cardinality(Lasting(a)') = Cardinality(Lasting(a)) + 1
  <2>1. Cardinality(Unresolved(a)') = Cardinality(Unresolved(a)) - 1
    BY <1>4, Parts, FS_RemoveElement
  <2>2. Cardinality(Lasting(a)') = Cardinality(Lasting(a)) + 1
    BY <1>8, Parts, FS_AddElement
  <2> QED BY <2>1, <2>2
<1>9. PICK j \in Nat, e \in Nat, k \in Nat, u \in Nat, l \in Nat, w \in Int :
          /\ j = judged[a] /\ k = All /\ w = Allowed(a) /\ e = Cardinality(Brief(a))
          /\ u = Cardinality(Unresolved(a)) /\ l = Cardinality(Lasting(a))
  BY Parts, AllIs, Levels
<1>10. k * e \in Int
  OBVIOUS
<1>11. /\ block[a] >= FreeTime(a) => j + k * e + u <= w + k
       /\ block[a] < FreeTime(a) => j + k * e <= w + l
  BY <1>3, <1>9 DEF Counted
<1>12. /\ block[a] >= FreeTime(a) => (j + 1) + k * e + (u - 1) <= w + k
       /\ block[a] < FreeTime(a) => (j + 1) + k * e <= w + (l + 1)
  BY <1>10, <1>11
<1>13. Counted(a)'
  BY <1>1, <1>7, <1>15, <1>9, <1>12 DEF Counted
<1>14. judged'[a] <= Allowed(a)' + All'
  <2>1. PICK j2 \in Nat, u2 \in Nat, l2 \in Nat, e2 \in Nat :
            /\ j2 = j + 1 /\ u2 = u - 1 /\ l2 = l + 1 /\ e2 = k * e /\ l2 <= k
    <3>1. u >= 1
      BY <1>4, <1>9, Parts, FS_EmptySet
    <3>2. u + l <= k
      BY <1>9, Parts
    <3>3. k * e \in Nat
      OBVIOUS
    <3> QED BY <3>1, <3>2, <3>3
  <2>2. j2 + e2 + u2 <= w + k \/ j2 + e2 <= w + l2
    BY <1>2, <1>12, <2>1
  <2>3. j2 <= w + k
    BY <2>1, <2>2
  <2> QED BY <1>1, <1>9, <2>1, <2>3
<1> QED BY <1>1, <1>2, <1>3, <1>13, <1>14 DEF JudgedInv

(* A block that falls: one that lasts until the next attempt closes the address; a    *)
(* shorter one may open it.                                                  *)
LEMMA BlockIsCounted ==
    ASSUME NEW a \in Address, NEW t \in Task, JudgedInv(a), judged[a] \in Nat, block[a] \in Int,
           tat[AuthBucket(a)] \in Int, now \in Nat, UNCHANGED <<now, tat, judged>>,
           task[t].addr = a, task[t].pc = "block", task[t].wait \in Int,
           block'[a] = now + task[t].wait, task'[t].pc = "charge",
           \A u \in Task \ {t} : task'[u] = task[u]
    PROVE  JudgedInv(a)'
<1>1. /\ FreeTime(a)' = FreeTime(a) /\ Periods(a)' = Periods(a) /\ Beyond(a)' = Beyond(a)
      /\ Allowed(a)' = Allowed(a) /\ (Full(a)' <=> Full(a)) /\ Stamped(a)'
      /\ Filled(AuthBucket(a))' = Filled(AuthBucket(a)) /\ All' = All
  BY DEF FreeTime, FreeAt, Periods, Beyond, Allowed, Full, All, Filled, JudgedInv, Stamped
<1>2. t \in Blocking(a) /\ Blocking(a)' = Blocking(a) \ {t}
  BY DEF Blocking
<1>3. Unresolved(a)' = Unresolved(a)
  BY DEF Unresolved, InRound
<1>4. Brief(a)' = Brief(a) \ {t} /\ Lasting(a)' = Lasting(a) \ {t}
  <2>1. ASSUME NEW u \in Blocking(a) \ {t} PROVE u \in Brief(a)' <=> u \in Brief(a)
    BY <1>1, <1>2 DEF Brief, Blocking
  <2> QED BY <1>2, <2>1 DEF Brief, Lasting
<1>5. Full(a) => Counted(a)'
  <2> SUFFICES ASSUME Full(a) PROVE Counted(a)'
    OBVIOUS
  <2>1. PICK j \in Nat, e \in Nat, k \in Nat, u \in Nat, l \in Nat, w \in Int, f \in Int, o \in Int :
            /\ j = judged[a] /\ k = All /\ w = Allowed(a) /\ e = Cardinality(Brief(a))
            /\ u = Cardinality(Unresolved(a)) /\ l = Cardinality(Lasting(a)) /\ u + l <= k
            /\ f = FreeTime(a) /\ o = block[a]
    BY Parts, AllIs, Levels
  <2>2. o >= f => j + k * e + u <= w + k
    BY <2>1 DEF Counted, JudgedInv
  <2>3. o < f => j + k * e <= w + l
    BY <2>1 DEF Counted, JudgedInv
  <2>4. k * e \in Int /\ k * (e - 1) = k * e - k
    OBVIOUS
  <2>5. CASE t \in Brief(a)
    <3>1. Cardinality(Brief(a)') = e - 1 /\ Lasting(a)' = Lasting(a)
      BY <1>4, <2>1, <2>5, Parts, FS_RemoveElement DEF Lasting
    <3>2. block'[a] < f
      BY <2>1, <2>5 DEF Brief
    <3>3. j + (k * e - k) <= w + l
      BY <2>1, <2>2, <2>3, <2>4
    <3>4. ~(block'[a] >= f)
      BY <3>2, <2>1
    <3> QED BY <1>1, <2>1, <2>4, <3>1, <3>3, <3>4 DEF Counted
  <2>6. CASE t \notin Brief(a)
    <3>1. t \in Lasting(a) /\ Brief(a)' = Brief(a)
      BY <1>2, <1>4, <2>6 DEF Lasting
    <3>2. block'[a] >= f /\ ~(block'[a] < f)
      BY <1>2, <2>1, <2>6 DEF Brief
    <3>3. j + k * e + u <= w + k
      BY <2>1, <2>2, <2>3, <2>4
    <3> QED BY <1>1, <1>3, <2>1, <3>1, <3>2, <3>3 DEF Counted
  <2> QED BY <2>5, <2>6
<1> QED BY <1>1, <1>2, <1>5 DEF JudgedInv

LEMMA BucketsOf ==
    ASSUME CredentialInv, PaceInv, FailureInv, NEW a \in Address
    PROVE  /\ tat[AuthBucket(a)] \in Int /\ now \in Nat /\ JudgedInv(a)
           /\ judged[a] \in Nat /\ block[a] \in Int /\ AuthBucket(a) \in Buckets
BY CallerBuckets DEF CredentialInv, KeysInv, PaceInv, FailureInv

LEMMA RestKeepsCount ==
    ASSUME CredentialInv, PaceInv, PaceInv', FailureInv, now' = now, judged' = judged,
           block' \in [Address -> Int],
           \A a \in Address :
              /\ tat'[AuthBucket(a)] = tat[AuthBucket(a)]
                 \/ (tat[AuthBucket(a)] <= now /\ tat'[AuthBucket(a)] = Unspent)
              /\ block'[a] = block[a] \/ (block[a] <= now /\ block'[a] <= now)
              /\ Blocking(a)' = Blocking(a)
              /\ Unresolved(a)' \subseteq Unresolved(a) \/ block[a] <= now,
           \A u \in Task :
              task'[u].pc = "block" => task[u].pc = "block" /\ task'[u].wait = task[u].wait
    PROVE  FailureInv'
<1>1. ASSUME NEW a \in Address PROVE JudgedInv(a)'
  <2>1. PICK b : b = AuthBucket(a)
    OBVIOUS
  <2>2. /\ tat[b] \in Int /\ now \in Nat /\ JudgedInv(a) /\ judged[a] \in Nat /\ block[a] \in Int
        /\ b \in Buckets
    BY <2>1, BucketsOf
  <2>3. tat'[b] \in Int
    BY <2>2 DEF PaceInv
  <2>4. /\ tat'[b] = tat[b] \/ (tat[b] <= now /\ tat'[b] = 0)
        /\ block'[a] = block[a] \/ (block[a] <= now /\ block'[a] <= now)
        /\ Blocking(a)' = Blocking(a)
        /\ Unresolved(a)' \subseteq Unresolved(a) \/ block[a] <= now
    BY <2>1 DEF Unspent
  <2>5. Filled(b)' = Filled(b)
    <3>1. PICK x \in Int, y \in Int, z \in Int : x = tat[b] /\ y = now /\ z = tat'[b] /\ y >= 0
      BY <2>2, <2>3
    <3>2. Filled(b)' \in {z, y} /\ Filled(b)' >= z /\ Filled(b)' >= y
      BY <3>1, MaxOfTwo, Zenon DEF Filled
    <3>3. Filled(b) \in {x, y} /\ Filled(b) >= x /\ Filled(b) >= y
      BY <3>1, MaxOfTwo, Zenon DEF Filled
    <3> QED BY <2>4, <3>1, <3>2, <3>3
  <2>6. Stamped(a)'
    <3>1. CASE tat'[b] = tat[b]
      BY <2>1, <2>2, <3>1 DEF JudgedInv, Stamped
    <3>2. CASE tat'[b] = 0
      <4>1. PICK p \in Nat : p = AuthFail.period
        BY GatewayAssumption
      <4>2. 0 * p <= 0 /\ 0 <= 0 * p + now
        BY <2>2
      <4> QED BY <2>1, <3>2, <4>1, <4>2 DEF Stamped
    <3> QED BY <2>4, <3>1, <3>2
  <2>7. \A u \in Blocking(a) : task'[u].wait = task[u].wait
    <3>1. ASSUME NEW u \in Blocking(a) PROVE task'[u].pc = "block" /\ u \in Task
      BY <2>4 DEF Blocking
    <3> QED BY <3>1
  <2>8. judged'[a] = judged[a] /\ block'[a] \in Int
    OBVIOUS
  <2> QED BY <2>1, <2>2, <2>3, <2>4, <2>5, <2>6, <2>7, <2>8, RestIsCounted
<1>2. \A u \in Task : task'[u].pc = "block" => task'[u].wait \in Int
  BY DEF FailureInv
<1> QED BY <1>1, <1>2 DEF FailureInv

(* A request that moves, none of whose steps is about failed credentials.           *)
LEMMA OneKeepsCount ==
    ASSUME CredentialInv, PaceInv, PaceInv', FailureInv, UNCHANGED <<now, judged, block>>,
           \A a \in Address : tat'[AuthBucket(a)] = tat[AuthBucket(a)],
           NEW t \in Task, \A u \in Task \ {t} : task'[u] = task[u],
           task[t].pc # "block", task'[t].pc # "block",
           task'[t].pc \in InRound \cup {"verify", "note"} =>
              \/ task[t].pc \in InRound \cup {"verify", "note"} /\ task'[t].addr = task[t].addr
              \/ block[task'[t].addr] <= now
    PROVE  FailureInv'
<1>1. ASSUME NEW a \in Address
      PROVE  /\ Blocking(a)' = Blocking(a)
             /\ Unresolved(a)' \subseteq Unresolved(a) \/ block[a] <= now
  <2>1. Blocking(a)' = Blocking(a)
    BY DEF Blocking
  <2>2. ASSUME NEW u \in Unresolved(a)', u \notin Unresolved(a) PROVE block[a] <= now
    BY <2>2 DEF Unresolved
  <2> QED BY <2>1, <2>2
<1>2. \A u \in Task :
          task'[u].pc = "block" => task[u].pc = "block" /\ task'[u].wait = task[u].wait
  OBVIOUS
<1>3. block' \in [Address -> Int]
  BY DEF FailureInv
<1> QED BY <1>1, <1>2, <1>3, RestKeepsCount

LEMMA SameRequestsKeepCount ==
    ASSUME CredentialInv, PaceInv, PaceInv', FailureInv, UNCHANGED <<now, judged, block, tat>>,
           \A u \in Task : /\ task'[u].pc = task[u].pc /\ task'[u].addr = task[u].addr
                           /\ task'[u].wait = task[u].wait
    PROVE  FailureInv'
<1>1. \A a \in Address : Blocking(a)' = Blocking(a) /\ Unresolved(a)' = Unresolved(a)
  BY DEF Blocking, Unresolved
<1>2. block' \in [Address -> Int]
  BY DEF FailureInv
<1> QED BY <1>1, <1>2, RestKeepsCount

LEMMA TickKeepsCount ==
    ASSUME CredentialInv, PaceInv, FailureInv, Tick PROVE FailureInv'
<1>1. now' = now + 1 /\ UNCHANGED <<task, tat, block, judged>>
  BY DEF Tick
<1>2. \A u \in Task : task[u].pc = "block" => task[u].wait \in Int
  BY DEF FailureInv
<1>3. ASSUME NEW a \in Address PROVE JudgedInv(a)'
  BY <1>1, <1>2, BucketsOf, TickIsCounted
<1> QED BY <1>1, <1>3 DEF FailureInv

LEMMA SweepKeepsCount ==
    ASSUME CredentialInv, PaceInv, PaceInv', FailureInv, RetainRecent PROVE FailureInv'
<1>1. /\ UNCHANGED <<now, task, judged>> /\ now \in Nat
      /\ DOMAIN tat = Buckets /\ block \in [Address -> Int]
      /\ tat' = [x \in Buckets |-> IF tat[x] > now THEN tat[x] ELSE Unspent]
      /\ block' = [x \in Address |-> IF block[x] > now THEN block[x] ELSE Unspent]
  BY DEF RetainRecent, Swept, CredentialInv, KeysInv, PaceInv, FailureInv
<1>2. block' \in [Address -> Int]
  BY <1>1 DEF Unspent
<1>3. ASSUME NEW a \in Address
      PROVE  /\ tat'[AuthBucket(a)] = tat[AuthBucket(a)]
                \/ (tat[AuthBucket(a)] <= now /\ tat'[AuthBucket(a)] = Unspent)
             /\ block'[a] = block[a] \/ (block[a] <= now /\ block'[a] <= now)
             /\ Blocking(a)' = Blocking(a) /\ Unresolved(a)' = Unresolved(a)
  <2>1. AuthBucket(a) \in Buckets /\ tat[AuthBucket(a)] \in Int
    BY BucketsOf
  <2>2. Blocking(a)' = Blocking(a) /\ Unresolved(a)' = Unresolved(a)
    BY <1>1 DEF Blocking, Unresolved
  <2>3. block'[a] = block[a] \/ (block[a] <= now /\ block'[a] <= now)
    BY <1>1 DEF Unspent
  <2>4. tat'[AuthBucket(a)] = tat[AuthBucket(a)]
        \/ (tat[AuthBucket(a)] <= now /\ tat'[AuthBucket(a)] = Unspent)
    BY <1>1, <2>1
  <2> QED BY <2>2, <2>3, <2>4
<1> QED BY <1>1, <1>2, <1>3, RestKeepsCount

LEMMA FreshKeepsCount ==
    ASSUME now' \in Nat, task' = [t \in Task |-> Idle], tat' = [b \in Buckets |-> Unspent],
           block' = [a \in Address |-> Unspent], judged' = [a \in Address |-> 0]
    PROVE  FailureInv'
<1>1. \A u \in Task : task'[u].pc = "idle"
  BY IdleShape
<1>2. ASSUME NEW a \in Address PROVE JudgedInv(a)'
  <2>1. PICK b : b = AuthBucket(a) /\ b \in Buckets
    BY CallerBuckets
  <2>2. tat'[b] = 0 /\ judged'[a] = 0 /\ block'[a] = 0
    BY <2>1 DEF Unspent
  <2>3. PICK m \in Nat \ {0}, p \in Nat \ {0}, n \in Nat :
            m = AuthFail.burst /\ p = AuthFail.period /\ n = now'
    BY GatewayAssumption
  <2>4. Filled(b)' = n
    <3>1. PICK i \in Int, j \in Int : i = tat'[b] /\ j = now' /\ i = 0 /\ j >= 0
      BY <2>2
    <3>2. Filled(b)' \in {i, j} /\ Filled(b)' >= i /\ Filled(b)' >= j
      BY <3>1, MaxOfTwo, Zenon DEF Filled
    <3> QED BY <2>3, <3>1, <3>2
  <2>5. PICK d \in Nat, c \in Nat : d = (m - 1) * p /\ c = m * p
    OBVIOUS
  <2>6. ~Full(a)'
    <3>1. FreeTime(a)' = n - d
      BY <2>1, <2>3, <2>4, <2>5 DEF FreeTime, FreeAt
    <3> QED BY <2>3, <2>5, <3>1 DEF Full
  <2>7. Stamped(a)'
    <3>1. 0 * p <= 0 /\ 0 <= 0 * p + n /\ 0 \in Nat
      OBVIOUS
    <3> QED BY <2>1, <2>2, <2>3, <3>1 DEF Stamped
  <2>8. Filled(b)' <= now' + AuthFail.burst * AuthFail.period
    BY <2>3, <2>4, <2>5
  <2>9. Blocking(a)' = {}
    BY <1>1 DEF Blocking
  <2>10. Periods(a)' \in Nat /\ Beyond(a)' \in Int
    <3>1. n \div p \in Nat
      BY SMT
    <3>2. Periods(a)' = n \div p /\ Beyond(a)' = n \div p - m
      BY <2>1, <2>3, <2>4 DEF Periods, Beyond
    <3> QED BY <3>1, <3>2
  <2>11. Beyond(a)' >= 0 => judged'[a] <= Allowed(a)' + All'
    <3>1. PICK k \in Nat, v \in Int, r \in Nat : k = All /\ v = Beyond(a)' /\ r = Periods(a)'
      BY <2>10, AllIs
    <3>2. v >= 0 => k * k * v >= 0 /\ k * k * v \in Int
      BY AllowedGrows
    <3>3. Allowed(a)' = r + k * k * v /\ All' = k
      BY <3>1 DEF Allowed, All
    <3> QED BY <2>2, <3>1, <3>2, <3>3
  <2> QED BY <2>1, <2>2, <2>6, <2>7, <2>8, <2>9, <2>10, <2>11 DEF JudgedInv
<1>3. block' \in [Address -> Int] /\ judged' \in [Address -> Nat]
  BY DEF Unspent
<1> QED BY <1>1, <1>2, <1>3 DEF FailureInv

(* A step about the credential of one address leaves the others as they were.         *)
LEMMA OthersAreCounted ==
    ASSUME CredentialInv, PaceInv, FailureInv, NEW a \in Address, NEW t \in Task,
           task[t].addr # a, task'[t].addr = task[t].addr, now' = now,
           \A u \in Task \ {t} : task'[u] = task[u],
           tat'[AuthBucket(a)] = tat[AuthBucket(a)], judged'[a] = judged[a], block'[a] = block[a]
    PROVE  JudgedInv(a)'
<1>1. /\ tat[AuthBucket(a)] \in Int /\ now \in Nat /\ JudgedInv(a)
      /\ judged[a] \in Nat /\ block[a] \in Int
  BY BucketsOf
<1>2. Filled(AuthBucket(a))' = Filled(AuthBucket(a)) /\ Stamped(a)'
  BY <1>1 DEF Filled, JudgedInv, Stamped
<1>3. Blocking(a)' = Blocking(a) /\ Unresolved(a)' = Unresolved(a)
  BY DEF Blocking, Unresolved
<1>4. \A u \in Blocking(a) : task'[u].wait = task[u].wait
  BY DEF Blocking
<1> QED BY <1>1, <1>2, <1>3, <1>4, RestIsCounted

LEMMA NoteKeepsCount ==
    ASSUME CredentialInv, PaceInv, FailureInv, NEW t \in Task, NoteFailure(t) PROVE FailureInv'
<1>0. PICK a \in Address : a = task[t].addr
  BY DEF CredentialInv, KeyTask, Pending, NoteFailure, BlockAddress
<1>1. /\ TasksShaped /\ task[t].pc = "note"
      /\ now' = now /\ block' = block /\ judged' = [judged EXCEPT ![a] = @ + 1]
  BY <1>0 DEF CredentialInv, NoteFailure
<1>2. /\ tat[AuthBucket(a)] \in Int /\ now \in Nat /\ JudgedInv(a)
      /\ judged[a] \in Nat /\ block[a] \in Int /\ AuthBucket(a) \in Buckets
  BY BucketsOf
<1>3. judged' \in [Address -> Nat] /\ judged'[a] = judged[a] + 1
      /\ \A c \in Address : c # a => judged'[c] = judged[c]
  BY <1>0, <1>1, <1>2 DEF FailureInv
<1>4. \A c \in Address : c # a => AuthBucket(c) # AuthBucket(a)
  BY DEF AuthBucket
<1>5. block' \in [Address -> Int]
  BY <1>1 DEF FailureInv
<1>6. CASE HasRoom(AuthBucket(a), AuthFail)
  <2>1. /\ tat' = [tat EXCEPT ![AuthBucket(a)] = Filled(AuthBucket(a)) + AuthFail.period]
        /\ task' = [task EXCEPT ![t].pc = "charge"]
    BY <1>0, <1>6 DEF NoteFailure, Fill, Goto
  <2>2. /\ \A u \in Task \ {t} : task'[u] = task[u]
        /\ task'[t].pc = "charge" /\ task'[t].addr = a
    BY <1>0, <1>1, <2>1, PcChanges
  <2>3. /\ tat'[AuthBucket(a)] = Filled(AuthBucket(a)) + AuthFail.period
        /\ \A c \in Address : c # a => tat'[AuthBucket(c)] = tat[AuthBucket(c)]
    BY <1>2, <1>4, <2>1, CallerBuckets DEF PaceInv
  <2>4. JudgedInv(a)'
    BY <1>0, <1>1, <1>2, <1>3, <1>6, <2>2, <2>3, SpentIsCounted
  <2>5. ASSUME NEW c \in Address, c # a PROVE JudgedInv(c)'
    BY <1>0, <1>1, <1>3, <2>2, <2>3, <2>5, OthersAreCounted
  <2>6. \A u \in Task : task'[u].pc = "block" => task'[u].wait \in Int
    BY <2>2 DEF FailureInv
  <2>7. \A c \in Address : JudgedInv(c)'
    BY <2>4, <2>5
  <2> QED BY <1>3, <1>5, <2>6, <2>7 DEF FailureInv
<1>7. CASE ~HasRoom(AuthBucket(a), AuthFail)
  <2>1. PICK w : w = FreeTime(a) - now
    OBVIOUS
  <2>2. tat' = tat /\ task' = [task EXCEPT ![t].pc = "block", ![t].wait = w]
    BY <1>0, <1>7, <2>1 DEF NoteFailure, FreeTime
  <2>3. \A u \in Task \ {t} : task'[u] = task[u]
    BY <1>0, <1>1, <2>2 DEF TasksShaped, TaskShape
  <2>4. task'[t].pc = "block" /\ task'[t].addr = a /\ task'[t].wait = w
    BY <1>0, <1>1, <2>2 DEF TasksShaped, TaskShape
  <2>5. JudgedInv(a)'
    BY <1>0, <1>1, <1>2, <1>3, <1>7, <2>1, <2>2, <2>3, <2>4, RefusedIsCounted
  <2>6. ASSUME NEW c \in Address, c # a PROVE JudgedInv(c)'
    BY <1>0, <1>1, <1>3, <2>2, <2>3, <2>4, <2>6, OthersAreCounted
  <2>7. w \in Int
    BY <1>1, <1>2, <2>1, Levels
  <2>8. \A u \in Task : task'[u].pc = "block" => task'[u].wait \in Int
    BY <2>3, <2>4, <2>7 DEF FailureInv
  <2>9. \A c \in Address : JudgedInv(c)'
    BY <2>5, <2>6
  <2> QED BY <1>3, <1>5, <2>8, <2>9 DEF FailureInv
<1> QED BY <1>6, <1>7

LEMMA BlockKeepsCount ==
    ASSUME CredentialInv, PaceInv, FailureInv, NEW t \in Task, BlockAddress(t) PROVE FailureInv'
<1>0. PICK a \in Address : a = task[t].addr
  BY DEF CredentialInv, KeyTask, Pending, NoteFailure, BlockAddress
<1>1. /\ TasksShaped /\ task[t].pc = "block" /\ task[t].wait \in Int
      /\ UNCHANGED <<now, tat, judged>> /\ block' = [block EXCEPT ![a] = now + task[t].wait]
      /\ task' = [task EXCEPT ![t].pc = "charge"]
  BY <1>0 DEF CredentialInv, BlockAddress, Goto, FailureInv
<1>2. /\ tat[AuthBucket(a)] \in Int /\ now \in Nat /\ JudgedInv(a)
      /\ judged[a] \in Nat /\ block[a] \in Int
  BY BucketsOf
<1>3. /\ \A u \in Task \ {t} : task'[u] = task[u]
      /\ task'[t].pc = "charge" /\ task'[t].addr = a
  BY <1>0, <1>1, PcChanges
<1>4. block' \in [Address -> Int] /\ block'[a] = now + task[t].wait
      /\ \A c \in Address : c # a => block'[c] = block[c]
  BY <1>0, <1>1, <1>2 DEF FailureInv
<1>5. JudgedInv(a)'
  BY <1>0, <1>1, <1>2, <1>3, <1>4, BlockIsCounted
<1>6. ASSUME NEW c \in Address, c # a PROVE JudgedInv(c)'
  BY <1>0, <1>1, <1>3, <1>4, <1>6, OthersAreCounted
<1>7. \A u \in Task : task'[u].pc = "block" => task'[u].wait \in Int
  BY <1>3 DEF FailureInv
<1> QED BY <1>1, <1>4, <1>5, <1>6, <1>7 DEF FailureInv

LEMMA ArriveKeepsCount ==
    ASSUME CredentialInv, PaceInv, PaceInv', FailureInv, NEW t \in Task, Arrive(t)
    PROVE  FailureInv'
<1>1. /\ TasksShaped /\ UNCHANGED <<now, judged, block, tat>> /\ task[t].pc = "idle" /\ now \in Nat
      /\ setup \in Setup
  BY IdleShape DEF CredentialInv, KeysInv, Arrive
<1>2. CASE UNCHANGED task
  BY <1>1, <1>2, SameRequestsKeepCount
<1>3. CASE ~UNCHANGED task
  <2>1. PICK a \in setup.caller, cred \in setup.credential, r \in setup.request :
            /\ ~(cred # NoCredential /\ Blocked(a))
            /\ task' = [task EXCEPT ![t] = Received(a, cred, r)]
    BY <1>3 DEF Arrive
  <2>2. task'[t] = Received(a, cred, r) /\ \A u \in Task \ {t} : task'[u] = task[u]
    BY <1>1, <2>1 DEF TasksShaped
  <2>3. PICK w, p, b, s, e, x, n :
            /\ p = Resolving(cred)
            /\ Received(a, cred, r) =
               [Idle EXCEPT !.addr = a, !.cred = cred, !.left = e, !.rpc = x, !.at = n,
                            !.who = w, !.pc = p, !.revokedBefore = b, !.steady = s]
    BY Zenon DEF Received
  <2>4. task'[t].pc = p /\ task'[t].addr = a
    BY <2>2, <2>3, Z3 DEF Idle
  <2>5. a \in Address /\ block[a] \in Int
    BY <1>1, CallersAssumption, BucketsOf
  <2>6. CASE cred = NoCredential
    <3>1. p = "charge"
      BY <2>3, <2>6, CallersAssumption DEF Resolving
    <3> QED BY <1>1, <2>2, <2>4, <3>1, OneKeepsCount DEF InRound
  <2>7. CASE cred # NoCredential
    <3>1. block[a] <= now
      BY <1>1, <2>1, <2>5, <2>7 DEF Blocked
    <3>2. p \in {"verify", "decode", "lookup", "charge", "note"}
      BY <2>3 DEF Resolving
    <3> QED BY <1>1, <2>2, <2>4, <3>1, <3>2, OneKeepsCount DEF InRound
  <2> QED BY <2>6, <2>7
<1> QED BY <1>2, <1>3

(* A request whose credential is looked up keeps its address, and blocks nobody.      *)
LEMMA LooksUp ==
    ASSUME CredentialInv, NEW t \in Task,
           VerifyToken(t) \/ DecodePinned(t) \/ LookupKeys(t) \/ IssuerAnswers(t)
           \/ IssuerFails(t) \/ InsertKeys(t)
    PROVE  /\ \A u \in Task \ {t} : task'[u] = task[u]
           /\ task'[t].addr = task[t].addr
           /\ task[t].pc \in InRound \cup {"verify", "note"}
           /\ task[t].pc # "block" /\ task'[t].pc # "block"
           /\ UNCHANGED <<now, judged, block, tat>>
<1>1. TasksShaped
  BY DEF CredentialInv
<1>2. UNCHANGED <<now, judged, block, tat>>
  BY Zenon DEF VerifyToken, DecodePinned, LookupKeys, IssuerAnswers, IssuerFails, InsertKeys
<1>3. task[t].pc \in InRound \cup {"verify", "note"} /\ task[t].pc # "block"
  BY DEF VerifyToken, DecodePinned, LookupKeys, IssuerAnswers, IssuerFails, InsertKeys, InRound
<1>4. SUFFICES /\ \A u \in Task \ {t} : task'[u] = task[u]
               /\ task'[t].addr = task[t].addr /\ task'[t].pc # "block"
  BY <1>2, <1>3
<1>5. ASSUME NEW p, p # "block", task' = [task EXCEPT ![t].pc = p]
      PROVE  /\ \A u \in Task \ {t} : task'[u] = task[u]
             /\ task'[t].addr = task[t].addr /\ task'[t].pc # "block"
  BY <1>1, <1>5, PcChanges
<1>6. ASSUME NEW w, NEW p, p # "block", task' = Become(t, w, p)
      PROVE  /\ \A u \in Task \ {t} : task'[u] = task[u]
             /\ task'[t].addr = task[t].addr /\ task'[t].pc # "block"
  BY <1>1, <1>6, Becomes
<1>7. ASSUME task' = Decode(t, task)
      PROVE  /\ \A u \in Task \ {t} : task'[u] = task[u]
             /\ task'[t].addr = task[t].addr /\ task'[t].pc # "block"
  BY <1>1, <1>7, Decodes
<1>8. ASSUME task' = SecondRound(t)
      PROVE  /\ \A u \in Task \ {t} : task'[u] = task[u]
             /\ task'[t].addr = task[t].addr /\ task'[t].pc # "block"
  BY <1>1, <1>8, GoesToFetch
<1>9. CASE VerifyToken(t)
  BY <1>6, <1>9 DEF VerifyToken
<1>10. CASE DecodePinned(t)
  BY <1>7, <1>10 DEF DecodePinned
<1>11. CASE LookupKeys(t)
  BY <1>5, <1>7, <1>8, <1>11 DEF LookupKeys
<1>12. CASE IssuerAnswers(t)
  <2>1. PICK ks : task' = [task EXCEPT ![t].pc = "insert", ![t].keys = ks]
    BY <1>12 DEF IssuerAnswers
  <2> QED BY <1>1, <2>1 DEF TasksShaped, TaskShape
<1>13. CASE IssuerFails(t)
  <2>1. task' = [task EXCEPT ![t].pc = "note", ![t].who = Refused, ![t].steady = FALSE]
    BY <1>13 DEF IssuerFails
  <2>2. \A u \in Task \ {t} : task'[u] = task[u]
    BY <1>1, <2>1 DEF TasksShaped, TaskShape
  <2>3. task'[t].addr = task[t].addr /\ task'[t].pc = "note"
    BY <1>1, <2>1 DEF TasksShaped, TaskShape
  <2> QED BY <2>2, <2>3
<1>14. CASE InsertKeys(t)
  BY <1>6, <1>7, <1>8, <1>14 DEF InsertKeys
<1> QED BY <1>9, <1>10, <1>11, <1>12, <1>13, <1>14

LEMMA LookingUpKeepsCount ==
    ASSUME CredentialInv, PaceInv, PaceInv', FailureInv, NEW t \in Task,
           VerifyToken(t) \/ DecodePinned(t) \/ LookupKeys(t) \/ IssuerAnswers(t)
           \/ IssuerFails(t) \/ InsertKeys(t)
    PROVE  FailureInv'
<1>1. /\ \A u \in Task \ {t} : task'[u] = task[u]
      /\ task'[t].addr = task[t].addr
      /\ task[t].pc \in InRound \cup {"verify", "note"}
      /\ task[t].pc # "block" /\ task'[t].pc # "block"
      /\ UNCHANGED <<now, judged, block, tat>>
  BY LooksUp
<1> QED BY <1>1, OneKeepsCount

LEMMA AdmitKeepsCount ==
    ASSUME CredentialInv, PaceInv, PaceInv', FailureInv, NEW t \in Task, Admit(t) PROVE FailureInv'
<1>1. /\ TasksShaped /\ UNCHANGED <<now, judged, block>> /\ task[t].pc = "charge"
      /\ task' = [task EXCEPT ![t].pc = "serve"]
  BY DEF CredentialInv, Admit, Goto
<1>2. task'[t].pc = "serve" /\ \A u \in Task \ {t} : task'[u] = task[u]
  BY <1>1, PcChanges
<1>3. ASSUME NEW a \in Address PROVE tat'[AuthBucket(a)] = tat[AuthBucket(a)]
  <2>1. CASE Exempt(t)
    BY <2>1 DEF Admit
  <2>2. CASE ~Exempt(t)
    <3>1. PICK c, x, v : c = Route(t).class /\ x = Charged(t)
                         /\ tat' = [tat EXCEPT ![<<c, x>>] = v]
      BY <2>2 DEF Admit, Fill
    <3>2. c \in Class
      BY <2>2, <3>1 DEF Exempt
    <3>3. AuthBucket(a) # <<c, x>> /\ AuthBucket(a) \in DOMAIN tat
      BY <3>2, CallerBuckets DEF PaceInv
    <3> QED BY <3>1, <3>3
  <2> QED BY <2>1, <2>2
<1> QED BY <1>1, <1>2, <1>3, OneKeepsCount DEF InRound

LEMMA ServingKeepsCount ==
    ASSUME CredentialInv, PaceInv, PaceInv', FailureInv, NEW t \in Task,
           AnswerRpc(t) \/ CallTool(t) \/ Handle(t) \/ TooMany(t)
    PROVE  FailureInv'
<1>1. TasksShaped /\ UNCHANGED <<now, judged, block, tat>>
  <2>1. Unchanged
    BY Zenon DEF AnswerRpc, CallTool, Handle, TooMany
  <2> QED BY <2>1 DEF Unchanged, CredentialInv
<1>2. task[t].pc \in {"serve", "charge"}
  BY DEF AnswerRpc, CallTool, Handle, TooMany, AtEndpoint, OverLimit
<1>3. \/ Done(t)
      \/ \E c, n : task' = [task EXCEPT ![t].pc = "charge", ![t].left = c, ![t].tool = n]
      \/ \E c : task' = [task EXCEPT ![t].pc = "charge", ![t].left = c]
      \/ \E c : task' = [task EXCEPT ![t].left = c]
  <2>1. CASE AnswerRpc(t)
    BY <2>1 DEF AnswerRpc
  <2>2. CASE CallTool(t)
    BY <2>2, Zenon DEF CallTool
  <2>3. CASE Handle(t)
    <3>1. Done(t) \/ task' = [task EXCEPT ![t].pc = "charge", ![t].left = Tail(@)]
      BY <2>3 DEF Handle
    <3>2. PICK c : c = Tail(task[t].left)
      OBVIOUS
    <3> QED BY <1>1, <3>1, <3>2 DEF TasksShaped, TaskShape
  <2>4. CASE TooMany(t)
    <3>1. Done(t) \/ task' = [task EXCEPT ![t].left = Tail(@)]
      BY <2>4 DEF TooMany
    <3> QED BY <1>1, <3>1 DEF TasksShaped, TaskShape
  <2> QED BY <2>1, <2>2, <2>3, <2>4
<1>4. /\ \A u \in Task \ {t} : task'[u] = task[u]
      /\ task'[t].pc \in {"idle", "charge", "serve"}
  <2>1. CASE Done(t)
    BY <1>1, <2>1, BecomesIdle, IdleShape
  <2>2. CASE \E c, n : task' = [task EXCEPT ![t].pc = "charge", ![t].left = c, ![t].tool = n]
    BY <1>1, <2>2 DEF TasksShaped, TaskShape
  <2>3. CASE \E c : task' = [task EXCEPT ![t].pc = "charge", ![t].left = c]
    BY <1>1, <2>3 DEF TasksShaped, TaskShape
  <2>4. CASE \E c : task' = [task EXCEPT ![t].left = c]
    BY <1>1, <1>2, <2>4 DEF TasksShaped, TaskShape
  <2> QED BY <1>3, <2>1, <2>2, <2>3, <2>4
<1> QED BY <1>1, <1>2, <1>4, OneKeepsCount DEF InRound

LEMMA RetireKeepsCount ==
    ASSUME CredentialInv, PaceInv, PaceInv', FailureInv, NEW k \in Kid, Retire(k) PROVE FailureInv'
<1>1. ASSUME NEW u \in Task
      PROVE  /\ task'[u].pc = task[u].pc /\ task'[u].addr = task[u].addr
             /\ task'[u].wait = task[u].wait
  <2>1. TaskShape(task[u])
    BY DEF CredentialInv, TasksShaped
  <2>2. task'[u] = [task[u] EXCEPT !.steady = FALSE] \/ task'[u] = task[u]
    BY DEF Retire
  <2> QED BY <2>1, <2>2 DEF TaskShape
<1>2. UNCHANGED <<now, judged, block, tat>>
  BY DEF Retire
<1> QED BY <1>1, <1>2, SameRequestsKeepCount

LEMMA FailureSteps ==
    ASSUME CredentialInv, CredentialInv', PaceInv, PaceInv', FailureInv,
           [ProcessNext]_processVars
    PROVE  FailureInv'
<1>1. CASE UNCHANGED <<now, judged, block, tat, task>>
  BY <1>1, SameRequestsKeepCount
<1>2. CASE FreshMemory
  BY <1>2, FreshKeepsCount DEF FreshMemory, CredentialInv, KeysInv
<1>3. CASE McpNext
  <2>1. ASSUME (\E k \in Token : RevokeToken(k)) \/ (\E k \in Kid : Publish(k))
        PROVE  UNCHANGED <<now, judged, block, tat, task>>
    BY <2>1, Zenon DEF RevokeToken, Publish
  <2> QED BY <1>1, <1>3, <2>1, ArriveKeepsCount, LookingUpKeepsCount, NoteKeepsCount,
          BlockKeepsCount, AdmitKeepsCount, ServingKeepsCount, TickKeepsCount, SweepKeepsCount,
          RetireKeepsCount
          DEF McpNext
<1>4. CASE UNCHANGED mcpVars
  BY <1>1, <1>4 DEF mcpVars, gatewayVars
<1> QED BY <1>2, <1>3, <1>4 DEF ProcessNext, Serve, Exit, Maintain, processVars

LEMMA StartsUnjudged == CredentialInv /\ ProcessInit => FailureInv
<1> SUFFICES ASSUME CredentialInv, ProcessInit PROVE FailureInv
  OBVIOUS
<1>1. /\ now = 0 /\ task = [t \in Task |-> Idle] /\ tat = [b \in Buckets |-> Unspent]
      /\ block = [a \in Address |-> Unspent] /\ judged = [a \in Address |-> 0]
  BY DEF ProcessInit, McpInit, GatewayInit
<1>2. \A u \in Task : task[u].pc = "idle"
  BY <1>1, IdleShape
<1>3. ASSUME NEW a \in Address PROVE JudgedInv(a)
  <2>1. PICK b : b = AuthBucket(a) /\ b \in Buckets
    BY CallerBuckets
  <2>2. tat[b] = 0 /\ judged[a] = 0 /\ tat[b] \in Int /\ now \in Nat /\ now = 0
    BY <1>1, <2>1 DEF Unspent
  <2>3. PICK m \in Nat \ {0}, p \in Nat \ {0}, d \in Nat, c \in Nat :
            /\ m = AuthFail.burst /\ p = AuthFail.period /\ d = (m - 1) * p /\ c = m * p
    <3>1. PICK m \in Nat \ {0}, p \in Nat \ {0} : m = AuthFail.burst /\ p = AuthFail.period
      BY GatewayAssumption
    <3>2. (m - 1) * p \in Nat /\ m * p \in Nat
      OBVIOUS
    <3> QED BY <3>1, <3>2
  <2>4. Filled(b) = 0
    BY <2>2, FilledIs
  <2>5. ~Full(a)
    <3>1. FreeTime(a) = 0 - d
      BY <2>1, <2>3, <2>4 DEF FreeTime, FreeAt
    <3> QED BY <2>2, <2>3, <3>1 DEF Full
  <2>6. Stamped(a)
    <3>1. 0 * p <= 0 /\ 0 <= 0 * p + 0 /\ 0 \in Nat
      OBVIOUS
    <3> QED BY <2>1, <2>2, <2>3, <3>1 DEF Stamped
  <2>7. Filled(b) <= now + AuthFail.burst * AuthFail.period
    BY <2>2, <2>3, <2>4
  <2>8. Blocking(a) = {}
    BY <1>2 DEF Blocking
  <2>9. Periods(a) = 0 /\ Beyond(a) < 0 /\ Beyond(a) \in Int
    <3>1. 0 \div p = 0
      BY SMT
    <3>2. Periods(a) = 0
      BY <2>1, <2>3, <2>4, <3>1 DEF Periods
    <3> QED BY <2>3, <3>2 DEF Beyond
  <2> QED BY <2>1, <2>2, <2>5, <2>6, <2>7, <2>8, <2>9 DEF JudgedInv
<1>4. block \in [Address -> Int] /\ judged \in [Address -> Nat]
  BY <1>1 DEF Unspent
<1> QED BY <1>2, <1>3, <1>4 DEF FailureInv

LEMMA FailuresHold == ProcessSpec => []FailureInv
<1>1. CredentialInv /\ ProcessInit => FailureInv
  BY StartsUnjudged
<1>2. /\ CredentialInv /\ CredentialInv' /\ PaceInv /\ PaceInv' /\ FailureInv
      /\ [ProcessNext]_processVars
      => FailureInv'
  BY FailureSteps
<1> QED BY <1>1, <1>2, CredentialsHold, PaceHolds, PTL DEF ProcessSpec

(* FailuresBounded.  Each attempt an address is left fills its bucket by a period.     *)
(* While none is left, the requests that may still be refused are those that came       *)
(* before a block that lasts until the next one; only a request that was refused in an    *)
(* earlier such time, and blocks the address late, can cut that block short, and of      *)
(* these there are fewer than requests at once.  So each time without attempts adds       *)
(* at most the square of these, and the first no more than these, as nobody was refused     *)
(* before (note_auth_failure, auth_blocked).                                   *)
THEOREM FailuresAlwaysBounded == ProcessSpec => []FailuresBounded
<1>1. ASSUME CredentialInv, PaceInv, FailureInv, NEW a \in Address
      PROVE  judged[a] <= AuthFail.burst + All + (now \div AuthFail.period) * (1 + All * All)
  <2>1. /\ tat[AuthBucket(a)] \in Int /\ now \in Nat /\ JudgedInv(a) /\ judged[a] \in Nat
    BY <1>1, BucketsOf
  <2>2. PICK m \in Nat \ {0}, p \in Nat \ {0}, x \in Int, n \in Nat, k \in Nat, v \in Int, r \in Int :
            /\ m = AuthFail.burst /\ p = AuthFail.period /\ x = Filled(AuthBucket(a))
            /\ n = now /\ k = All /\ v = Beyond(a) /\ r = Periods(a) /\ r = x \div p /\ v = r - m
    BY <2>1, Levels, AllIs DEF Periods
  <2>3. n \div p \in Nat
    BY SMT
  <2>4. PICK e \in Nat : e = n \div p
    BY <2>3
  <2>5. r <= m + e
    <3>1. x <= n + m * p
      BY <2>1, <2>2 DEF JudgedInv
    <3> QED BY <2>2, <2>4, <3>1, FullPeriods
  <2>6. v <= e
    BY <2>2, <2>5
  <2>7. PICK q \in Nat, c \in Int : q = k * k /\ c = k * k * v /\ c <= q * e /\ q * e \in Nat
    BY <2>6, AllowedGrows
  <2>8. e * (1 + q) = e + q * e
    OBVIOUS
  <2>9. judged[a] <= m + k + (e + q * e)
    <3>1. CASE v >= 0
      <4>1. judged[a] <= (r + c) + k
        BY <2>1, <2>2, <2>7, <3>1 DEF JudgedInv, Allowed
      <4> QED BY <2>1, <2>5, <2>7, <4>1
    <3>2. CASE v < 0
      <4>1. judged[a] <= r
        BY <2>1, <2>2, <3>2 DEF JudgedInv
      <4> QED BY <2>1, <2>2, <2>7, <3>2, <4>1
    <3> QED BY <3>1, <3>2
  <2> QED BY <2>2, <2>4, <2>7, <2>8, <2>9
<1>2. CredentialInv /\ PaceInv /\ FailureInv => FailuresBounded
  BY <1>1 DEF FailuresBounded, All
<1> QED BY <1>2, CredentialsHold, PaceHolds, FailuresHold, PTL
=============================================================================
