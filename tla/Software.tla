------------------------------ MODULE Software ------------------------------
(***************************************************************************)
(* One Software record of this registry: PATCH, withdrawal, its releases,   *)
(* the sync from its GitHub repository, and the poller that keeps the       *)
(* repository's numbers.                                                    *)
(*                                                                         *)
(* The record and its releases are subjects of the local graph; the poller's *)
(* numbers are a SQLite row.  A handler runs one closure per use of the      *)
(* graph store and other requests run in between, so an action is one read   *)
(* or one transaction.                                                      *)
(***************************************************************************)
EXTENDS Naturals, FiniteSets

CONSTANTS
    Curator,        \* request tasks, 1..n; a request goes to the first idle one
    Repo,           \* GitHub repositories, as owner/name
    Version,        \* release versions
    Text,           \* values of a text field
    Cleared,        \* a field without a value
    SoftwareBody,   \* PATCH bodies: functions from some of the fields to values
    Setup,          \* records to start from, and how many of the requests are spent
    MaxReleases,    \* bound: release IRIs minted
    MaxEdits        \* bound: curator requests

Syncable == {"tagline", "releases"}
ConnectionTo(r, fields, on) == [repo |-> r, fields |-> fields, enabled |-> on]
Connection == [repo : Repo, fields : SUBSET Syncable, enabled : BOOLEAN]
SoftwareIn == [tagline : Text \cup {Cleared}, description : Text \cup {Cleared},
               code : Repo \cup {Cleared}, deployable : BOOLEAN,
               sync : Connection \cup {Cleared}]
NoRecord == [tagline |-> Cleared, description |-> Cleared, code |-> Cleared,
             deployable |-> TRUE, sync |-> Cleared]
Field == DOMAIN NoRecord

ASSUME SoftwareAssumption ==
    /\ \A s \in Setup : s.first \in SoftwareIn /\ s.edits \in Nat /\ s.calls \in Nat
    /\ Cleared \notin Text \cup Repo \cup Connection
    /\ \A body \in SoftwareBody : DOMAIN body \subseteq Field
    /\ Curator = 1..Cardinality(Curator)
    /\ {MaxReleases, MaxEdits} \subseteq Nat

VARIABLES
    software,       \* the triples PATCH and sync write
    withdrawn,      \* tar:tombstoned on the record
    syncStatus,     \* tar:syncStatus of the node <record>#sync
    releases,       \* release records
    stats,          \* the row of repository_stats
    edit,           \* curator requests in progress
    pollOf,         \* the repository the poller is asking about
    edits,          \* bound
    revision, wanted, overlapped   \* history

record == <<software, withdrawn, syncStatus>>
editHist == <<edits, revision, wanted, overlapped>>
softwareVars == <<record, releases, stats, edit, pollOf, editHist>>

NoEdit == [pc |-> "idle", input |-> NoRecord, body |-> <<>>, read |-> 0,
           todo |-> {}, added |-> FALSE]
NoStats == [repo |-> Cleared, numbersOf |-> Cleared]

SoftwareInit(s) ==
    /\ software = s.first /\ withdrawn = FALSE /\ syncStatus = "never"
    /\ releases = {} /\ stats = NoStats
    /\ edit = [c \in Curator |-> NoEdit] /\ pollOf = Cleared
    /\ edits = s.edits /\ revision = 0 /\ wanted = s.first
    /\ overlapped = FALSE

(***************************************************************************)
(* merge_json: what the body names replaces, everything else stands.         *)
(***************************************************************************)
Merge(base, body) ==
    [f \in DOMAIN base |-> IF f \in DOMAIN body THEN body[f] ELSE base[f]]

(* Fault: a field is forgotten on the way back into the input shape.         *)
SoftwareInWithoutText(s) == [s EXCEPT !.sync = Cleared, !.description = Cleared]

(* software_in_from: the connection to a repository is left out.             *)
SoftwareInFrom(s) == [s EXCEPT !.sync = Cleared]

(* replace_software: the subject and the nodes it owns go, then the input is *)
(* written.  Neither a tombstone nor a sync status is part of the input.     *)
ReplaceSoftware(input) ==
    /\ software' = input
    /\ withdrawn' = FALSE
    /\ syncStatus' = IF software.sync # Cleared THEN "never" ELSE syncStatus
    /\ revision' = revision + 1

Done(c) == edit' = [edit EXCEPT ![c] = NoEdit]
Begin(c) ==
    /\ edit[c] = NoEdit /\ \A d \in 1..(c - 1) : edit[d] # NoEdit
    /\ edits < MaxEdits
    /\ edits' = edits + 1

(***************************************************************************)
(* PATCH /software/{id}                                                     *)
(***************************************************************************)
LoadSoftware(c, body) ==
    /\ Begin(c)
    /\ edit' = [edit EXCEPT ![c] = [NoEdit EXCEPT !.pc = "apply", !.body = body, !.read = revision,
                                    !.input = Merge(SoftwareInFrom(software), body)]]
    /\ UNCHANGED <<record, releases, stats, pollOf, revision, wanted, overlapped>>

ApplySoftware(c) ==
    /\ edit[c].pc = "apply"
    /\ ReplaceSoftware(edit[c].input)
    /\ wanted' = Merge(wanted, edit[c].body)
    /\ overlapped' = (overlapped \/ edit[c].read # revision)
    /\ Done(c)
    /\ UNCHANGED <<releases, stats, pollOf, edits>>

(* DELETE /software/{id}: a tombstone is added, nothing is removed.          *)
WithdrawSoftware(c) ==
    /\ Begin(c)
    /\ withdrawn' = TRUE
    /\ UNCHANGED <<software, syncStatus, releases, stats, edit, pollOf,
                   revision, wanted, overlapped>>

(***************************************************************************)
(* Releases.                                                               *)
(***************************************************************************)
Offered == {r \in releases : ~r.withdrawn}
Listed == {r.version : r \in Offered}
AddRelease(v, by) ==
    /\ Cardinality(releases) < MaxReleases
    /\ releases' = releases \cup
         {[id |-> Cardinality(releases) + 1, version |-> v, by |-> by, withdrawn |-> FALSE]}

CreateRelease(c, v) ==
    /\ Begin(c)
    /\ AddRelease(v, "curator")
    /\ UNCHANGED <<record, stats, edit, pollOf, revision, wanted, overlapped>>

WithdrawRelease(c, r) ==
    /\ Begin(c)
    /\ r \in Offered
    /\ releases' = (releases \ {r}) \cup {[r EXCEPT !.withdrawn = TRUE]}
    /\ UNCHANGED <<record, stats, edit, pollOf, revision, wanted, overlapped>>

(***************************************************************************)
(* POST /software/{id}/sync: the record is read, GitHub is asked, and the    *)
(* record is replaced by what was read with the managed fields set.          *)
(***************************************************************************)
BeginSync(c) ==
    /\ Begin(c)
    /\ software.sync # Cleared /\ software.sync.enabled
    /\ edit' = [edit EXCEPT ![c] = [NoEdit EXCEPT !.pc = "forge", !.read = revision,
                                    !.input = software]]
    /\ UNCHANGED <<record, releases, stats, pollOf, revision, wanted, overlapped>>

Manages(c, field) == field \in edit[c].input.sync.fields

(* sync_into: a managed field is set when GitHub has a value for it.         *)
SyncInto(c, tagline) ==
    IF Manages(c, "tagline") /\ tagline # Cleared
    THEN [edit[c].input EXCEPT !.tagline = tagline] ELSE edit[c].input

ForgeAnswers(c, tagline, found) ==
    /\ edit[c].pc = "forge"
    /\ ReplaceSoftware(SyncInto(c, tagline))
    /\ edit' = [edit EXCEPT ![c].pc = "status",
                            ![c].todo = IF Manages(c, "releases") THEN found ELSE {}]
    /\ wanted' = IF SyncInto(c, tagline) = edit[c].input THEN wanted
                 ELSE [wanted EXCEPT !.tagline = tagline]
    /\ overlapped' = (overlapped \/ edit[c].read # revision)
    /\ UNCHANGED <<releases, stats, pollOf, edits>>

ForgeFails(c) ==
    /\ edit[c].pc = "forge"
    /\ syncStatus' = "error"
    /\ Done(c)
    /\ UNCHANGED <<software, withdrawn, releases, stats, pollOf, editHist>>

WriteSyncStatus(c) ==
    /\ edit[c].pc = "status"
    /\ syncStatus' = "ok"
    /\ IF edit[c].todo = {} THEN Done(c) ELSE edit' = [edit EXCEPT ![c].pc = "list"]
    /\ UNCHANGED <<software, withdrawn, releases, stats, pollOf, editHist>>

(* Versions that are listed already are left alone.                          *)
NewVersions(found) == found \ Listed

ListKnown(c) ==
    /\ edit[c].pc = "list"
    /\ edit' = [edit EXCEPT ![c].pc = "add", ![c].todo = NewVersions(@)]
    /\ UNCHANGED <<record, releases, stats, pollOf, editHist>>

SyncRelease(c) ==
    /\ edit[c].pc = "add"
    /\ \E v \in edit[c].todo :
         /\ AddRelease(v, "sync")
         /\ edit' = [edit EXCEPT ![c].todo = @ \ {v}, ![c].added = TRUE]
    /\ UNCHANGED <<record, stats, pollOf, editHist>>

FinishSync(c) ==
    /\ edit[c].pc = "add" /\ edit[c].todo = {}
    /\ syncStatus' = IF edit[c].added THEN "ok" ELSE syncStatus
    /\ Done(c)
    /\ UNCHANGED <<software, withdrawn, releases, stats, pollOf, editHist>>

(***************************************************************************)
(* The poller.  repo_of: the repository the record syncs from, else the one  *)
(* its code link names.                                                     *)
(***************************************************************************)
RepoOf(s) == IF s.sync # Cleared THEN s.sync.repo ELSE s.code

(* A pass takes the record when it is due: never polled, polled for another  *)
(* repository, or polled more than the interval ago.                         *)
(* Fault: once it was polled it is fresh.                                    *)
DueOnce(r, expired) == stats.repo = Cleared

Due(r, expired) == stats.repo # r \/ expired

PollTarget ==
    /\ pollOf = Cleared
    /\ \E expired \in BOOLEAN : Due(RepoOf(software), expired)
    /\ ~withdrawn
    /\ RepoOf(software) # Cleared
    /\ pollOf' = RepoOf(software)
    /\ UNCHANGED <<record, releases, stats, edit, editHist>>

PollSucceeds ==
    /\ pollOf # Cleared
    /\ stats' = [repo |-> pollOf, numbersOf |-> pollOf]
    /\ pollOf' = Cleared
    /\ UNCHANGED <<record, releases, edit, editHist>>

(* record_repository_error keeps the numbers of the repository asked about.  *)
(* Fault: it keeps whatever numbers there are.                               *)
KeptNumbersOfAny(r) == stats.numbersOf

KeptNumbers(r) == IF stats.repo = r THEN stats.numbersOf ELSE Cleared

PollFails ==
    /\ pollOf # Cleared
    /\ stats' = [repo |-> pollOf, numbersOf |-> KeptNumbers(pollOf)]
    /\ pollOf' = Cleared
    /\ UNCHANGED <<record, releases, edit, editHist>>

(* GET /software/{id} shows the numbers of a successful fetch, and only when *)
(* the row is about the repository the record names now.                     *)
ShownNumbersOf == IF stats.repo = RepoOf(software) THEN stats.numbersOf ELSE Cleared

(***************************************************************************)
(* The component.                                                          *)
(***************************************************************************)
EditSoftware(c) == \E body \in SoftwareBody : LoadSoftware(c, body)
EditReleases(c) ==
    \/ \E v \in Version : CreateRelease(c, v)
    \/ \E r \in Offered : WithdrawRelease(c, r)
AskForge(c) ==
    \/ \E tagline \in Text \cup {Cleared}, found \in SUBSET Version : ForgeAnswers(c, tagline, found)
    \/ ForgeFails(c)
Continue(c) ==
    ApplySoftware(c) \/ WriteSyncStatus(c) \/ ListKnown(c) \/ SyncRelease(c) \/ FinishSync(c)
Poll == PollTarget \/ PollSucceeds \/ PollFails

SoftwareNext ==
    \/ \E c \in Curator :
         \/ EditSoftware(c) \/ EditReleases(c) \/ WithdrawSoftware(c)
         \/ BeginSync(c) \/ AskForge(c) \/ Continue(c)
    \/ Poll

SoftwareSpec == (\E s \in Setup : SoftwareInit(s)) /\ [][SoftwareNext]_softwareVars

(***************************************************************************)
(* Properties.                                                             *)
(***************************************************************************)
(* As long as no two writers of the record overlapped - each read it after   *)
(* the other's transaction - every field a PATCH named has the value it was  *)
(* given, unless a later PATCH or a sync that manages it gave it another.    *)
(* The connection to a repository is not among them: a PATCH that does not   *)
(* name it drops it.                                                         *)
EditsStand ==
    ~overlapped => \A f \in Field \ {"sync"} : software[f] = wanted[f]

(* The numbers a reader sees were fetched from the repository the record     *)
(* names, whichever answers of the forge arrive after the link was changed.  *)
NumbersAreOfTheRepo == ShownNumbersOf \in {Cleared, RepoOf(software)}
=============================================================================
