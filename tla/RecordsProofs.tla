---------------------------- MODULE RecordsProofs ----------------------------
(***************************************************************************)
(* Theorems about Software and Instances, for any number of requests, records, *)
(* repositories, deployments and bodies.                                     *)
(***************************************************************************)
EXTENDS Instances, FiniteSetTheorems, TLAPS

-----------------------------------------------------------------------------
(* The numbers of the repository.                                            *)

NumbersInv == stats.numbersOf \in {Cleared, stats.repo}

LEMMA NumbersInit == ASSUME NEW s, SoftwareInit(s) PROVE NumbersInv
BY DEF SoftwareInit, NoStats, NumbersInv

LEMMA NumbersStep == NumbersInv /\ [SoftwareNext]_softwareVars => NumbersInv'
<1> SUFFICES ASSUME NumbersInv, [SoftwareNext]_softwareVars PROVE NumbersInv'
  OBVIOUS
<1>1. CASE UNCHANGED stats
  BY <1>1 DEF NumbersInv
<1>2. CASE PollSucceeds
  BY <1>2 DEF PollSucceeds, NumbersInv
<1>3. CASE PollFails
  BY <1>3 DEF PollFails, KeptNumbers, NumbersInv
<1>4. UNCHANGED stats \/ PollSucceeds \/ PollFails
  BY DEF SoftwareNext, EditSoftware, EditReleases, AskForge, Continue, Poll, LoadSoftware,
         CreateRelease, WithdrawRelease, WithdrawSoftware, BeginSync, ForgeAnswers, ForgeFails,
         ApplySoftware, WriteSyncStatus, ListKnown, SyncRelease, FinishSync, PollTarget,
         softwareVars
<1> QED BY <1>1, <1>2, <1>3, <1>4

LEMMA NumbersGoal == NumbersInv => NumbersAreOfTheRepo
BY DEF NumbersInv, NumbersAreOfTheRepo, ShownNumbersOf

-----------------------------------------------------------------------------
(* Edits of the software record.                                             *)

EditFields == {"pc", "input", "body", "read", "todo", "added"}
Plain == Field \ {"sync"}

EditsTyped ==
    /\ revision \in Nat
    /\ DOMAIN software = Field /\ DOMAIN wanted = Field
    /\ DOMAIN edit = Curator
    /\ \A c \in Curator :
          /\ DOMAIN edit[c] = EditFields
          /\ edit[c].read \in Nat /\ edit[c].read <= revision
          /\ edit[c].pc \in {"apply", "forge"} => DOMAIN edit[c].input = Field

(* What a request is about to write is what the record should say after it, as    *)
(* long as nobody has written the record since the request read it.          *)
UpToDate(c) ==
    edit[c].read = revision =>
      /\ edit[c].pc = "apply" =>
            \A f \in Plain : edit[c].input[f] = Merge(wanted, edit[c].body)[f]
      /\ edit[c].pc = "forge" => \A f \in Plain : edit[c].input[f] = wanted[f]

EditsInv ==
    /\ EditsTyped
    /\ ~overlapped => EditsStand /\ \A c \in Curator : UpToDate(c)

LEMMA EditsInit == ASSUME NEW s \in Setup, SoftwareInit(s) PROVE EditsInv
<1>1. DOMAIN s.first = Field
  BY SoftwareAssumption DEF SoftwareIn, Field, NoRecord
<1> QED BY <1>1 DEF SoftwareInit, EditsInv, EditsTyped, EditsStand, UpToDate, NoEdit, EditFields

(* A step of one request that does not write the record keeps what holds of the   *)
(* others.                                                                 *)
LEMMA EditsOneAside ==
    ASSUME EditsInv, NEW c \in Curator, NEW e,
           edit' = [edit EXCEPT ![c] = e],
           UNCHANGED <<software, revision, wanted, overlapped>>,
           DOMAIN e = EditFields, e.read \in Nat, e.read <= revision,
           \/ e.pc \notin {"apply", "forge"}
           \/ /\ DOMAIN e.input = Field
              /\ e.pc = "apply" /\ ~overlapped =>
                    \A f \in Plain : e.input[f] = Merge(wanted, e.body)[f]
              /\ e.pc = "forge" /\ ~overlapped => \A f \in Plain : e.input[f] = wanted[f]
    PROVE  EditsInv'
<1>1. edit'[c] = e /\ \A d \in Curator \ {c} : edit'[d] = edit[d]
  BY DEF EditsInv, EditsTyped
<1>2. EditsTyped'
  <2>1. /\ revision' \in Nat
        /\ DOMAIN software' = Field /\ DOMAIN wanted' = Field
        /\ DOMAIN edit' = Curator
    BY DEF EditsInv, EditsTyped
  <2>2. ASSUME NEW d \in Curator
        PROVE  /\ DOMAIN edit'[d] = EditFields
               /\ edit'[d].read \in Nat /\ edit'[d].read <= revision'
               /\ edit'[d].pc \in {"apply", "forge"} => DOMAIN edit'[d].input = Field
    BY <1>1 DEF EditsInv, EditsTyped
  <2> QED BY <2>1, <2>2 DEF EditsTyped
<1>3. ~overlapped' => EditsStand'
  BY DEF EditsInv, EditsStand
<1>4. ASSUME ~overlapped', NEW d \in Curator PROVE UpToDate(d)'
  <2>1. CASE d = c
    BY <1>1, <1>4, <2>1 DEF UpToDate, Merge
  <2>2. CASE d # c
    BY <1>1, <1>4, <2>2 DEF EditsInv, UpToDate, Merge
  <2> QED BY <2>1, <2>2
<1> QED BY <1>2, <1>3, <1>4 DEF EditsInv

(* A step that writes the record leaves every other request behind.           *)
LEMMA EditsOneWrites ==
    ASSUME EditsInv, NEW c \in Curator, NEW e,
           edit' = [edit EXCEPT ![c] = e],
           revision' = revision + 1,
           DOMAIN e = EditFields, e.read \in Nat, e.read <= revision,
           e.pc \notin {"apply", "forge"},
           DOMAIN software' = Field, DOMAIN wanted' = Field,
           ~overlapped' => ~overlapped /\ EditsStand'
    PROVE  EditsInv'
<1>1. edit'[c] = e /\ \A d \in Curator \ {c} : edit'[d] = edit[d]
  BY DEF EditsInv, EditsTyped
<1>2. EditsTyped'
  <2>1. revision' \in Nat /\ DOMAIN edit' = Curator
    BY DEF EditsInv, EditsTyped
  <2>2. ASSUME NEW d \in Curator
        PROVE  /\ DOMAIN edit'[d] = EditFields
               /\ edit'[d].read \in Nat /\ edit'[d].read <= revision'
               /\ edit'[d].pc \in {"apply", "forge"} => DOMAIN edit'[d].input = Field
    BY <1>1 DEF EditsInv, EditsTyped
  <2> QED BY <2>1, <2>2 DEF EditsTyped
<1>3. ASSUME NEW d \in Curator PROVE UpToDate(d)'
  <2>1. CASE d = c
    BY <1>1, <2>1 DEF UpToDate
  <2>2. CASE d # c
    <3>1. edit'[d].read # revision'
      BY <1>1, <2>2 DEF EditsInv, EditsTyped
    <3> QED BY <3>1 DEF UpToDate
  <2> QED BY <2>1, <2>2
<1> QED BY <1>2, <1>3 DEF EditsInv

LEMMA EditsUntouched ==
    ASSUME EditsInv, UNCHANGED <<software, edit, revision, wanted, overlapped>>
    PROVE  EditsInv'
BY DEF EditsInv, EditsTyped, EditsStand, UpToDate, Merge

LEMMA NoEditShape ==
    ASSUME EditsTyped
    PROVE  /\ DOMAIN NoEdit = EditFields /\ NoEdit.read \in Nat /\ NoEdit.read <= revision
           /\ NoEdit.pc \notin {"apply", "forge"}
BY DEF NoEdit, EditFields, EditsTyped

LEMMA LoadKeepsEdits ==
    ASSUME EditsInv, NEW c \in Curator, NEW body \in SoftwareBody, LoadSoftware(c, body)
    PROVE  EditsInv'
<1> DEFINE e == [NoEdit EXCEPT !.pc = "apply", !.body = body, !.read = revision,
                               !.input = Merge(SoftwareInFrom(software), body)]
<1>1. edit' = [edit EXCEPT ![c] = e] /\ UNCHANGED <<software, revision, wanted, overlapped>>
  BY DEF LoadSoftware, record
<1>2. /\ DOMAIN e = EditFields /\ e.pc = "apply" /\ e.body = body /\ e.read = revision
      /\ e.input = Merge(SoftwareInFrom(software), body)
  BY DEF NoEdit, EditFields
<1>3. revision \in Nat /\ DOMAIN software = Field /\ DOMAIN wanted = Field
  BY DEF EditsInv, EditsTyped
<1>4. DOMAIN SoftwareInFrom(software) = Field
      /\ \A f \in Plain : SoftwareInFrom(software)[f] = software[f]
  BY <1>3 DEF SoftwareInFrom, Plain
<1>5. DOMAIN e.input = Field
  BY <1>2, <1>4 DEF Merge
<1>6. ASSUME ~overlapped, NEW f \in Plain PROVE e.input[f] = Merge(wanted, body)[f]
  <2>1. software[f] = wanted[f] /\ f \in Field
    BY <1>6 DEF EditsInv, EditsStand, Plain
  <2> QED BY <1>2, <1>3, <1>4, <2>1 DEF Merge
<1>7. /\ e.read \in Nat /\ e.read <= revision
      /\ e.pc = "apply" /\ ~overlapped => \A f \in Plain : e.input[f] = Merge(wanted, e.body)[f]
      /\ e.pc # "forge"
  BY <1>2, <1>3, <1>6
<1> HIDE DEF e
<1> QED BY <1>1, <1>2, <1>5, <1>7, EditsOneAside

LEMMA BeginSyncKeepsEdits ==
    ASSUME EditsInv, NEW c \in Curator, BeginSync(c) PROVE EditsInv'
<1> DEFINE e == [NoEdit EXCEPT !.pc = "forge", !.read = revision, !.input = software]
<1>1. edit' = [edit EXCEPT ![c] = e] /\ UNCHANGED <<software, revision, wanted, overlapped>>
  BY DEF BeginSync, record
<1>2. DOMAIN e = EditFields /\ e.pc = "forge" /\ e.read = revision /\ e.input = software
  BY DEF NoEdit, EditFields
<1>3. revision \in Nat /\ DOMAIN software = Field
  BY DEF EditsInv, EditsTyped
<1>4. ASSUME ~overlapped PROVE \A f \in Plain : e.input[f] = wanted[f]
  BY <1>2, <1>4 DEF EditsInv, EditsStand, Plain
<1>5. /\ e.read \in Nat /\ e.read <= revision /\ DOMAIN e.input = Field
      /\ e.pc = "forge" /\ ~overlapped => \A f \in Plain : e.input[f] = wanted[f]
      /\ e.pc # "apply"
  BY <1>2, <1>3, <1>4
<1> HIDE DEF e
<1> QED BY <1>1, <1>2, <1>5, EditsOneAside

LEMMA ApplyKeepsEdits ==
    ASSUME EditsInv, NEW c \in Curator, ApplySoftware(c) PROVE EditsInv'
<1>1. /\ edit[c].pc = "apply" /\ software' = edit[c].input /\ revision' = revision + 1
      /\ wanted' = Merge(wanted, edit[c].body) /\ edit' = [edit EXCEPT ![c] = NoEdit]
      /\ overlapped' = (overlapped \/ edit[c].read # revision)
  BY DEF ApplySoftware, ReplaceSoftware, Done
<1>2. DOMAIN software' = Field /\ DOMAIN wanted' = Field /\ revision \in Nat
  BY <1>1 DEF EditsInv, EditsTyped, Merge
<1>3. ASSUME ~overlapped' PROVE ~overlapped /\ EditsStand'
  <2>1. ~overlapped /\ edit[c].read = revision
    BY <1>1, <1>3
  <2>2. \A f \in Plain : edit[c].input[f] = Merge(wanted, edit[c].body)[f]
    BY <1>1, <2>1 DEF EditsInv, UpToDate
  <2> QED BY <1>1, <2>1, <2>2 DEF EditsStand, Plain
<1> QED BY <1>1, <1>2, <1>3, NoEditShape, EditsOneWrites DEF EditsInv

LEMMA ForgeKeepsEdits ==
    ASSUME EditsInv, NEW c \in Curator, NEW tagline \in Text \cup {Cleared}, NEW found,
           ForgeAnswers(c, tagline, found)
    PROVE  EditsInv'
<1> DEFINE e == [edit[c] EXCEPT !.pc = "status",
                                !.todo = IF Manages(c, "releases") THEN found ELSE {}]
<1>1. /\ edit[c].pc = "forge" /\ software' = SyncInto(c, tagline) /\ revision' = revision + 1
      /\ wanted' = IF SyncInto(c, tagline) = edit[c].input THEN wanted
                   ELSE [wanted EXCEPT !.tagline = tagline]
      /\ overlapped' = (overlapped \/ edit[c].read # revision)
  BY DEF ForgeAnswers, ReplaceSoftware
<1>2. edit' = [edit EXCEPT ![c] = e]
  BY DEF ForgeAnswers
<1>3. /\ DOMAIN edit[c] = EditFields /\ edit[c].read \in Nat /\ edit[c].read <= revision
      /\ DOMAIN edit[c].input = Field /\ DOMAIN wanted = Field /\ DOMAIN software = Field
  BY <1>1 DEF EditsInv, EditsTyped
<1>4. DOMAIN e = EditFields /\ e.pc = "status" /\ e.read = edit[c].read
  BY <1>3 DEF EditFields
<1>5. DOMAIN software' = Field /\ DOMAIN wanted' = Field
  BY <1>1, <1>3 DEF SyncInto
<1>6. ASSUME ~overlapped' PROVE ~overlapped /\ EditsStand'
  <2>1. ~overlapped /\ edit[c].read = revision
    BY <1>1, <1>6
  <2>2. \A f \in Plain : edit[c].input[f] = wanted[f]
    BY <1>1, <2>1 DEF EditsInv, UpToDate
  <2>3. CASE SyncInto(c, tagline) = edit[c].input
    BY <1>1, <2>1, <2>2, <2>3 DEF EditsStand, Plain
  <2>4. CASE SyncInto(c, tagline) # edit[c].input
    <3>1. software' = [edit[c].input EXCEPT !.tagline = tagline]
          /\ wanted' = [wanted EXCEPT !.tagline = tagline]
      BY <1>1, <2>4 DEF SyncInto
    <3>2. ASSUME NEW f \in Plain PROVE software'[f] = wanted'[f]
      BY <1>3, <2>2, <3>1 DEF Plain
    <3> QED BY <2>1, <3>2 DEF EditsStand, Plain
  <2> QED BY <2>3, <2>4
<1> HIDE DEF e
<1> QED BY <1>1, <1>2, <1>3, <1>4, <1>5, <1>6, EditsOneWrites

(* The other steps of a sync change only what the request itself remembers.      *)
LEMMA SyncKeepsEdits ==
    ASSUME EditsInv, NEW c \in Curator,
           ForgeFails(c) \/ WriteSyncStatus(c) \/ ListKnown(c) \/ SyncRelease(c) \/ FinishSync(c)
    PROVE  EditsInv'
<1>1. /\ DOMAIN edit[c] = EditFields /\ edit[c].read \in Nat /\ edit[c].read <= revision
      /\ revision \in Nat
  BY DEF EditsInv, EditsTyped
<1>2. UNCHANGED <<software, revision, wanted, overlapped>>
  BY DEF ForgeFails, WriteSyncStatus, ListKnown, SyncRelease, FinishSync, record, editHist
<1>3. CASE edit' = [edit EXCEPT ![c] = NoEdit]
  BY <1>1, <1>2, <1>3, NoEditShape, EditsOneAside DEF EditsInv
<1>4. ASSUME NEW pc \in {"list", "add"}, NEW todo, NEW added,
             edit' = [edit EXCEPT ![c] = [edit[c] EXCEPT !.pc = pc, !.todo = todo, !.added = added]]
      PROVE  EditsInv'
  <2> DEFINE e == [edit[c] EXCEPT !.pc = pc, !.todo = todo, !.added = added]
  <2>1. DOMAIN e = EditFields /\ e.pc = pc /\ e.read = edit[c].read
    BY <1>1 DEF EditFields
  <2>2. edit' = [edit EXCEPT ![c] = e]
    BY <1>4
  <2> HIDE DEF e
  <2> QED BY <1>1, <1>2, <2>1, <2>2, EditsOneAside
<1>5. CASE ForgeFails(c) \/ FinishSync(c)
  BY <1>3, <1>5 DEF ForgeFails, FinishSync, Done
<1>6. CASE WriteSyncStatus(c)
  <2>1. CASE edit' = [edit EXCEPT ![c].pc = "list"]
    <3>1. edit' = [edit EXCEPT ![c] = [edit[c] EXCEPT !.pc = "list", !.todo = edit[c].todo,
                                                      !.added = edit[c].added]]
      BY <1>1, <2>1 DEF EditFields
    <3> QED BY <1>4, <3>1
  <2> QED BY <1>3, <1>6, <2>1 DEF WriteSyncStatus, Done
<1>7. CASE ListKnown(c)
  <2>1. edit' = [edit EXCEPT ![c] = [edit[c] EXCEPT !.pc = "add", !.todo = NewVersions(edit[c].todo),
                                                    !.added = edit[c].added]]
    BY <1>1, <1>7 DEF ListKnown, EditFields
  <2> QED BY <1>4, <2>1
<1>8. CASE SyncRelease(c)
  <2>1. edit[c].pc = "add"
    BY <1>8 DEF SyncRelease
  <2>2. PICK v \in edit[c].todo :
          edit' = [edit EXCEPT ![c].todo = @ \ {v}, ![c].added = TRUE]
    BY <1>8 DEF SyncRelease
  <2>3. edit' = [edit EXCEPT ![c] = [edit[c] EXCEPT !.pc = "add", !.todo = edit[c].todo \ {v},
                                                    !.added = TRUE]]
    BY <1>1, <2>1, <2>2 DEF EditFields
  <2> QED BY <1>4, <2>3
<1> QED BY <1>5, <1>6, <1>7, <1>8

LEMMA EditsStep == EditsInv /\ [SoftwareNext]_softwareVars => EditsInv'
<1> SUFFICES ASSUME EditsInv, [SoftwareNext]_softwareVars PROVE EditsInv'
  OBVIOUS
<1>1. CASE UNCHANGED <<software, edit, revision, wanted, overlapped>>
  BY <1>1, EditsUntouched
<1>2. ASSUME NEW c \in Curator, EditSoftware(c) PROVE EditsInv'
  BY <1>2, LoadKeepsEdits DEF EditSoftware
<1>3. ASSUME NEW c \in Curator, EditReleases(c) \/ WithdrawSoftware(c) PROVE EditsInv'
  BY <1>1, <1>3 DEF EditReleases, CreateRelease, WithdrawRelease, WithdrawSoftware, record
<1>4. ASSUME NEW c \in Curator, BeginSync(c) \/ AskForge(c) \/ Continue(c) PROVE EditsInv'
  BY <1>4, BeginSyncKeepsEdits, ForgeKeepsEdits, SyncKeepsEdits, ApplyKeepsEdits
  DEF AskForge, Continue
<1>5. CASE Poll
  BY <1>1, <1>5 DEF Poll, PollTarget, PollSucceeds, PollFails, record, editHist
<1>6. CASE UNCHANGED softwareVars
  BY <1>1, <1>6 DEF softwareVars, record, editHist
<1> QED BY <1>2, <1>3, <1>4, <1>5, <1>6 DEF SoftwareNext

-----------------------------------------------------------------------------
(* Beside its deployments.                                                   *)

LEMMA SoftwareSteps == [RecordsNext]_recordsVars => [SoftwareNext]_softwareVars
BY DEF RecordsNext, recordsVars

(* The numbers a reader sees are of the repository the record names, whichever    *)
(* answers of the forge arrive after the link was changed (repo_of,             *)
(* record_repository_error, RecordsSpec).                                    *)
THEOREM NumbersAlwaysOfTheRepo == RecordsSpec => []NumbersAreOfTheRepo
<1>1. RecordsInit => NumbersInv
  BY NumbersInit DEF RecordsInit
<1>2. NumbersInv /\ [RecordsNext]_recordsVars => NumbersInv'
  BY NumbersStep, SoftwareSteps
<1> QED BY <1>1, <1>2, NumbersGoal, PTL DEF RecordsSpec

(* As long as no two writers of the record overlapped, no edit is lost, whatever    *)
(* is synced, withdrawn, released or polled in between (software_in_from,        *)
(* sync_into, replace_software).                                             *)
THEOREM EditsAlwaysStand == RecordsSpec => []EditsStand
<1>1. RecordsInit => EditsInv
  BY EditsInit DEF RecordsInit
<1>2. EditsInv /\ [RecordsNext]_recordsVars => EditsInv'
  BY EditsStep, SoftwareSteps
<1>3. EditsInv => EditsStand
  BY DEF EditsInv, EditsStand
<1> QED BY <1>1, <1>2, <1>3, PTL DEF RecordsSpec

-----------------------------------------------------------------------------
(* The deployments.                                                          *)

CallFields == DOMAIN NoCall
RecordFields == DOMAIN Blank
Same(a, b) == a.owner = b.owner /\ a.key = b.key
Writing(c) == c.pc \in {"check", "write"}

RecordsTyped ==
    /\ existing \subseteq Inst
    /\ DOMAIN instance = Inst /\ DOMAIN stated = Inst /\ DOMAIN turn = Inst
    /\ DOMAIN call = Caller
    /\ \A i \in Inst :
          /\ turn[i] \in Nat /\ (turn[i] = 0 <=> i \notin existing)
          /\ DOMAIN instance[i] = RecordFields /\ DOMAIN stated[i] = RecordFields

CallTyped(c) ==
    /\ DOMAIN c = CallFields /\ c.read \in Nat
    /\ c.pc \in {"find", "load"} => DOMAIN c.body \subseteq Shown
    /\ c.pc = "find" => c.bound \in existing \cup {0} /\ c.read = 0 /\ c.announces
    /\ c.pc \in {"load", "capability"} => c.iri \in existing
    /\ Writing(c) => c.iri \in Inst /\ DOMAIN c.input = RecordFields
    /\ Writing(c) \/ c.pc = "capability" => c.read <= turn[c.iri]

(* What is stated of a record stands in it, and one capability is linked.       *)
AtMostOne(x) == x = {} \/ \E y : x = {y}
RecordTrue(i) ==
    /\ \A f \in Shown : instance[i][f] = stated[i][f]
    /\ AtMostOne(instance[i].capability)

(* A request writes back what it read, as long as nobody wrote in between.      *)
Faithful(c) ==
    c.iri \in existing \ crossed /\ c.read = turn[c.iri] =>
      /\ Writing(c) =>
            /\ \A f \in Shown : c.input[f] = Merge(stated[c.iri], c.body)[f]
            /\ Same(c.input, instance[c.iri])
      /\ c.pc = "capability" => c.input.capability = instance[c.iri].capability

(* An announcement on its way to create a record found none like it; one that     *)
(* was created since, or is about to be, was looked for at the same time.       *)
Creating(c) == Writing(c) /\ c.iri \notin existing /\ c.input.owner # Cleared
Alone(c) ==
    Creating(c) =>
      /\ c.announces
      /\ \A j \in Live :
            Same(instance[j], c.input) => {c.iri, j} \subseteq raced \/ j \in crossed
Abreast(c, d) ==
    Creating(c) /\ Creating(d) /\ Same(c.input, d.input) => {c.iri, d.iri} \subseteq raced

DeploymentsInv ==
    /\ RecordsTyped
    /\ \A i \in existing \ crossed : RecordTrue(i)
    /\ OneRecordPerDeployment
    /\ \A w \in Caller : CallTyped(call[w]) /\ Faithful(call[w]) /\ Alone(call[w])
    /\ \A u, x \in Caller : u # x => Abreast(call[u], call[x])

LEMMA Fields ==
    /\ CallFields = {"pc", "iri", "input", "body", "read", "cred", "key", "bound", "announces"}
    /\ RecordFields = {"label", "endpoint", "client", "owner", "key", "capability"}
    /\ NoCall.pc = "idle" /\ NoCall.read = 0 /\ NoCall.iri = 0
    /\ Shown \subseteq RecordFields
    /\ Blank.owner = Cleared
    /\ 0 \notin Inst
<1>1. 0 \notin Inst
  BY InstancesAssumption
<1> QED BY <1>1 DEF CallFields, RecordFields, NoCall, Blank, Shown

LEMMA DeploymentsInit == InstancesInit => DeploymentsInv
<1> SUFFICES ASSUME InstancesInit PROVE DeploymentsInv
  OBVIOUS
<1> USE DEF InstancesInit
<1>1. RecordsTyped /\ \A i \in existing \ crossed : RecordTrue(i)
  BY DEF RecordsTyped, RecordFields
<1>2. OneRecordPerDeployment
  BY DEF OneRecordPerDeployment, Live
<1>3. ASSUME NEW w \in Caller
      PROVE  CallTyped(call[w]) /\ Faithful(call[w]) /\ Alone(call[w]) /\ ~Creating(call[w])
  BY Fields DEF CallTyped, Faithful, Alone, Creating, Writing, CallFields
<1> QED BY <1>1, <1>2, <1>3 DEF DeploymentsInv, Abreast

(* A step of one request that does not write a record.                        *)
LEMMA OneCallAside ==
    ASSUME DeploymentsInv, NEW w \in Caller, NEW c,
           call' = [call EXCEPT ![w] = c],
           UNCHANGED <<instance, existing, turn, stated, crossed>>,
           gone \subseteq gone', raced \subseteq raced',
           CallTyped(c), Faithful(c),
           Creating(c) =>
             /\ c.announces
             /\ \A j \in Live :
                   Same(instance[j], c.input) => {c.iri, j} \subseteq raced' \/ j \in crossed
             /\ \A x \in Caller \ {w} : Creating(call[x]) /\ Same(c.input, call[x].input)
                    => {c.iri, call[x].iri} \subseteq raced'
    PROVE  DeploymentsInv'
<1>1. call'[w] = c /\ \A x \in Caller \ {w} : call'[x] = call[x]
  BY DEF DeploymentsInv, RecordsTyped
<1>2. RecordsTyped' /\ \A i \in (existing \ crossed)' : RecordTrue(i)'
  BY DEF DeploymentsInv, RecordsTyped, RecordTrue
<1>3. Live' \subseteq Live
  BY DEF Live
<1>4. OneRecordPerDeployment'
  BY <1>3 DEF DeploymentsInv, OneRecordPerDeployment
<1>5. ASSUME NEW x \in Caller PROVE CallTyped(call[x])' /\ Faithful(call[x])'
  <2>1. CallTyped(call'[x]) /\ Faithful(call'[x])
    BY <1>1 DEF DeploymentsInv
  <2> QED BY <2>1 DEF CallTyped, Faithful, Writing
<1>6. ASSUME NEW x \in Caller PROVE Alone(call[x])'
  <2>1. CASE x = w
    BY <1>1, <1>3, <2>1 DEF Alone, Creating, Writing
  <2>2. CASE x # w
    BY <1>1, <1>3, <2>2 DEF DeploymentsInv, Alone, Creating, Writing
  <2> QED BY <2>1, <2>2
<1>7. ASSUME NEW u \in Caller, NEW x \in Caller, u # x PROVE Abreast(call[u], call[x])'
  <2>1. CASE u = w
    BY <1>1, <1>7, <2>1 DEF Abreast, Creating, Writing, Same
  <2>2. CASE x = w
    BY <1>1, <1>7, <2>2 DEF Abreast, Creating, Writing, Same
  <2>3. CASE u # w /\ x # w
    BY <1>1, <1>7, <2>3 DEF DeploymentsInv, Abreast, Creating, Writing
  <2> QED BY <2>1, <2>2, <2>3
<1> QED BY <1>2, <1>4, <1>5, <1>6, <1>7 DEF DeploymentsInv

(* A step that writes the record of one request and ends it.                   *)
LEMMA OneCallWrites ==
    ASSUME DeploymentsInv, NEW w \in Caller, NEW i \in Inst, NEW r, NEW s,
           call' = [call EXCEPT ![w] = NoCall],
           instance' = [instance EXCEPT ![i] = r],
           DOMAIN stated' = Inst, stated'[i] = s,
           \A j \in Inst \ {i} : stated'[j] = stated[j],
           turn' = [turn EXCEPT ![i] = @ + 1],
           existing' = existing \cup {i}, gone' \in {gone, gone \ {i}},
           crossed \subseteq crossed', raced' = raced,
           DOMAIN r = RecordFields, DOMAIN s = RecordFields,
           i \notin crossed' =>
             /\ \A f \in Shown : r[f] = s[f]
             /\ AtMostOne(r.capability)
             /\ i \in existing => i \notin gone \/ i \in gone'
             /\ i \in existing => Same(r, instance[i])
             /\ i \notin existing /\ r.owner # Cleared =>
                   /\ Creating(call[w]) /\ call[w].iri = i /\ Same(r, call[w].input)
    PROVE  DeploymentsInv'
<1>1. call'[w] = NoCall /\ \A x \in Caller \ {w} : call'[x] = call[x]
  BY DEF DeploymentsInv, RecordsTyped
<1>2. /\ instance'[i] = r /\ stated'[i] = s /\ turn'[i] = turn[i] + 1
      /\ \A j \in Inst \ {i} : instance'[j] = instance[j] /\ stated'[j] = stated[j]
                                 /\ turn'[j] = turn[j]
      /\ turn[i] \in Nat
  BY DEF DeploymentsInv, RecordsTyped
<1>3. RecordsTyped'
  <2>1. /\ existing' \subseteq Inst
        /\ DOMAIN instance' = Inst /\ DOMAIN stated' = Inst /\ DOMAIN turn' = Inst
        /\ DOMAIN call' = Caller
    BY DEF DeploymentsInv, RecordsTyped
  <2>2. ASSUME NEW j \in Inst
        PROVE  /\ turn'[j] \in Nat /\ (turn'[j] = 0 <=> j \notin existing')
               /\ DOMAIN instance'[j] = RecordFields /\ DOMAIN stated'[j] = RecordFields
    <3>1. CASE j = i
      BY <1>2, <3>1
    <3>2. CASE j # i
      BY <1>2, <3>2 DEF DeploymentsInv, RecordsTyped
    <3> QED BY <3>1, <3>2
  <2> QED BY <2>1, <2>2 DEF RecordsTyped
<1>4. ASSUME NEW j \in existing', j \notin crossed' PROVE RecordTrue(j)'
  <2>1. CASE j = i
    BY <1>2, <1>4, <2>1 DEF RecordTrue
  <2>2. CASE j # i
    <3>1. j \in existing \ crossed /\ j \in Inst
      BY <1>4, <2>2 DEF DeploymentsInv, RecordsTyped
    <3>2. RecordTrue(j)
      BY <3>1 DEF DeploymentsInv
    <3> QED BY <1>2, <2>2, <3>1, <3>2 DEF RecordTrue
  <2> QED BY <2>1, <2>2
<1>5. /\ Live' \subseteq Live \cup {i}
      /\ i \notin crossed' /\ i \in existing /\ i \in Live' => i \in Live
      /\ Live \subseteq Inst
  BY DEF Live, DeploymentsInv, RecordsTyped
<1>6. ASSUME NEW j \in Live', j # i, i \in Live', r.owner # Cleared, Same(r, instance'[j])
      PROVE  {i, j} \subseteq raced \/ {i, j} \cap crossed' # {}
  <2>0. j \in Live /\ instance'[j] = instance[j]
    BY <1>2, <1>5, <1>6
  <2>1. CASE i \in crossed'
    BY <2>1
  <2>2. CASE i \notin crossed' /\ i \in existing
    <3>1. i \in Live /\ Same(instance[i], instance[j]) /\ instance[i].owner # Cleared
      BY <1>5, <1>6, <2>0, <2>2 DEF Same
    <3>2. {i, j} \subseteq raced \/ {i, j} \cap crossed # {}
      BY <1>6, <2>0, <3>1 DEF DeploymentsInv, OneRecordPerDeployment, Same
    <3> QED BY <3>2
  <2>3. CASE i \notin crossed' /\ i \notin existing
    <3>1. Creating(call[w]) /\ call[w].iri = i /\ Same(instance[j], call[w].input)
      BY <1>6, <2>0, <2>3 DEF Same
    <3>2. {i, j} \subseteq raced \/ j \in crossed
      BY <2>0, <3>1 DEF DeploymentsInv, Alone
    <3> QED BY <3>2
  <2> QED BY <2>1, <2>2, <2>3
<1>7. OneRecordPerDeployment'
  <2> SUFFICES ASSUME NEW j \in Live', NEW k \in Live', j # k, instance'[j].owner # Cleared,
                      Same(instance'[j], instance'[k])
               PROVE  {j, k} \subseteq raced' \/ {j, k} \cap crossed' # {}
    BY DEF OneRecordPerDeployment, Same
  <2>1. CASE j = i
    BY <1>2, <1>6, <2>1
  <2>2. CASE k = i
    BY <1>2, <1>6, <2>2 DEF Same
  <2>3. CASE j # i /\ k # i
    <3>1. /\ j \in Live /\ k \in Live
          /\ instance'[j] = instance[j] /\ instance'[k] = instance[k]
      BY <1>2, <1>5, <2>3
    <3> QED BY <3>1 DEF DeploymentsInv, OneRecordPerDeployment, Same
  <2> QED BY <2>1, <2>2, <2>3
<1>8. CallTyped(NoCall)' /\ Faithful(NoCall)' /\ ~Creating(NoCall)'
  BY Fields, <1>3 DEF CallTyped, Faithful, Creating, Writing, CallFields, RecordsTyped
<1>9. ASSUME NEW x \in Caller \ {w} PROVE CallTyped(call[x])' /\ Faithful(call[x])'
  <2>0. call'[x] = call[x] /\ CallTyped(call[x]) /\ Faithful(call[x])
    BY <1>1 DEF DeploymentsInv
  <2>1. CASE call[x].iri = i
    <3>1. Writing(call[x]) \/ call[x].pc = "capability" =>
            call[x].read <= turn'[i] /\ call[x].read # turn'[i]
      BY <1>2, <2>0, <2>1 DEF CallTyped
    <3> QED BY <2>0, <2>1, <3>1 DEF CallTyped, Faithful, Writing
  <2>2. CASE call[x].iri # i
    <3>1. Writing(call[x]) \/ call[x].pc = "capability" \/ call[x].iri \in existing'
            => call[x].iri \in Inst \ {i}
      BY <2>0, <2>2 DEF CallTyped, DeploymentsInv, RecordsTyped
    <3> QED BY <1>2, <2>0, <2>2, <3>1 DEF CallTyped, Faithful, Writing
  <2> QED BY <2>1, <2>2
<1>10. ASSUME NEW x \in Caller \ {w}, Creating(call[x])'
       PROVE  /\ Creating(call[x]) /\ call[x].iri # i
              /\ call'[x] = call[x]
  BY <1>1, <1>10 DEF Creating, Writing
<1>11. ASSUME NEW x \in Caller \ {w} PROVE Alone(call[x])'
  <2> SUFFICES ASSUME Creating(call[x])', NEW j \in Live', Same(instance'[j], call[x].input)
               PROVE  {call[x].iri, j} \subseteq raced \/ j \in crossed'
    <3>1. Creating(call[x])' => call[x].announces /\ call'[x] = call[x]
      BY <1>10 DEF DeploymentsInv, Alone
    <3> QED BY <3>1 DEF Alone
  <2>1. Creating(call[x]) /\ call[x].iri # i /\ Alone(call[x])
    BY <1>10 DEF DeploymentsInv
  <2>2. CASE j # i \/ (i \notin crossed' /\ i \in existing)
    <3>1. j \in Live /\ Same(instance[j], call[x].input)
      BY <1>2, <1>5, <2>2 DEF Same
    <3> QED BY <2>1, <3>1 DEF Alone
  <2>3. CASE j = i /\ i \in crossed'
    BY <2>3
  <2>4. CASE j = i /\ i \notin crossed' /\ i \notin existing
    <3>1. r.owner # Cleared
      BY <1>2, <2>1, <2>4 DEF Creating, Same
    <3>2. Creating(call[w]) /\ call[w].iri = i /\ Same(call[x].input, call[w].input)
      BY <1>2, <2>4, <3>1 DEF Same
    <3> QED BY <2>1, <2>4, <3>2 DEF DeploymentsInv, Abreast
  <2> QED BY <2>2, <2>3, <2>4
<1>12. ASSUME NEW u \in Caller, NEW x \in Caller, u # x PROVE Abreast(call[u], call[x])'
  <2>1. CASE u = w \/ x = w
    BY <1>1, <1>8, <2>1 DEF Abreast, Creating, Writing
  <2>2. CASE u # w /\ x # w
    BY <1>10, <1>12, <2>2 DEF DeploymentsInv, Abreast
  <2> QED BY <2>1, <2>2
<1>13. ASSUME NEW x \in Caller PROVE CallTyped(call[x])' /\ Faithful(call[x])' /\ Alone(call[x])'
  <2>1. CASE x = w
    BY <1>1, <1>8, <2>1 DEF CallTyped, Faithful, Alone, Creating, Writing
  <2> QED BY <1>9, <1>11, <2>1
<1> QED BY <1>3, <1>4, <1>7, <1>12, <1>13 DEF DeploymentsInv

(* A request that starts, or goes on, without looking for a record to create.    *)
LEMMA StartKeeps ==
    ASSUME DeploymentsInv, NEW w \in Caller, NEW c,
           call' = [call EXCEPT ![w] = c],
           UNCHANGED <<instance, existing, turn, stated, crossed, raced>>,
           gone \subseteq gone', CallTyped(c), Faithful(c), ~Creating(c)
    PROVE  DeploymentsInv'
BY OneCallAside

(* What a body states of a record changes what is shown of it, not whose it is.    *)
LEMMA MergedFields ==
    ASSUME RecordsTyped, NEW i \in Inst, NEW body, DOMAIN body \subseteq Shown
    PROVE  /\ DOMAIN Merged(i, body) = RecordFields
           /\ Same(Merged(i, body), instance[i])
           /\ RecordTrue(i) => \A f \in Shown : Merged(i, body)[f] = Merge(stated[i], body)[f]
<1>1. DOMAIN instance[i] = RecordFields /\ DOMAIN stated[i] = RecordFields
  BY DEF RecordsTyped
<1>2. Same(Merged(i, body), instance[i])
  BY <1>1, Fields DEF Merged, Merge, Same, Shown
<1> QED BY <1>1, <1>2, Fields DEF Merged, Merge, RecordTrue

LEMMA BodyStates == \A body \in InstanceBody : DOMAIN body \subseteq Shown
BY InstancesAssumption

LEMMA CreateKeeps ==
    ASSUME DeploymentsInv, NEW w \in Caller, NEW body \in InstanceBody, NEW client,
           CreateInstance(w, body, client)
    PROVE  DeploymentsInv'
<1>1. PICK i \in NewIri :
        call' = [call EXCEPT ![w] =
          Checking(i, [Merge(Blank, body) EXCEPT !.client = client], body, FALSE)]
  BY DEF CreateInstance, Start
<1> DEFINE input == [Merge(Blank, body) EXCEPT !.client = client]
<1> DEFINE c == Checking(i, input, body, FALSE)
<1>2. i \in Inst \ existing /\ turn[i] = 0
  BY DEF NewIri, Unminted, DeploymentsInv, RecordsTyped
<1>3. DOMAIN input = RecordFields /\ input.owner = Cleared
  BY Fields, BodyStates DEF Merge, Shown, RecordFields
<1>4. /\ DOMAIN c = CallFields /\ c.pc = "check" /\ c.iri = i /\ c.input = input
      /\ c.read = turn[i]
  BY DEF Checking, CallFields, NoCall
<1>5. CallTyped(c) /\ Faithful(c) /\ ~Creating(c)
  <2> HIDE DEF c, input
  <2> QED BY <1>2, <1>3, <1>4 DEF CallTyped, Faithful, Creating, Writing
<1>6. call' = [call EXCEPT ![w] = c]
      /\ UNCHANGED <<instance, existing, turn, stated, crossed, raced, gone>>
  BY <1>1 DEF CreateInstance, instanceRecord
<1> HIDE DEF c, input
<1> QED BY <1>5, <1>6, StartKeeps

LEMMA PatchKeeps ==
    ASSUME DeploymentsInv, NEW w \in Caller, NEW i \in Inst, NEW body \in InstanceBody,
           NEW itself \in BOOLEAN, PatchInstance(w, i, body, itself)
    PROVE  DeploymentsInv'
<1> DEFINE c == Checking(i, Merged(i, body), body, FALSE)
<1>1. i \in existing /\ call' = [call EXCEPT ![w] = c]
      /\ UNCHANGED <<instance, existing, turn, stated, crossed, raced, gone>>
  BY DEF PatchInstance, Start, instanceRecord
<1>2. /\ DOMAIN c = CallFields /\ c.pc = "check" /\ c.iri = i /\ c.input = Merged(i, body)
      /\ c.body = body /\ c.read = turn[i]
  BY DEF Checking, CallFields, NoCall
<1>3. /\ DOMAIN Merged(i, body) = RecordFields /\ Same(Merged(i, body), instance[i])
      /\ RecordTrue(i) => \A f \in Shown : Merged(i, body)[f] = Merge(stated[i], body)[f]
  BY MergedFields, BodyStates DEF DeploymentsInv
<1>4. turn[i] \in Nat /\ (i \notin crossed => RecordTrue(i))
  BY <1>1 DEF DeploymentsInv, RecordsTyped
<1>5. CallTyped(c) /\ Faithful(c) /\ ~Creating(c)
  <2> HIDE DEF c
  <2> QED BY <1>1, <1>2, <1>3, <1>4 DEF CallTyped, Faithful, Creating, Writing
<1> HIDE DEF c
<1> QED BY <1>1, <1>5, StartKeeps

LEMMA WithdrawKeeps ==
    ASSUME DeploymentsInv, NEW w \in Caller, NEW i \in Inst, WithdrawInstance(w, i)
    PROVE  DeploymentsInv'
<1>1. /\ call' = [call EXCEPT ![w] = NoCall] /\ gone \subseteq gone'
      /\ UNCHANGED <<instance, existing, turn, stated, crossed, raced>>
  BY DEF WithdrawInstance, Start
<1>2. CallTyped(NoCall) /\ Faithful(NoCall) /\ ~Creating(NoCall)
  BY Fields DEF CallTyped, Faithful, Creating, Writing, CallFields, DeploymentsInv, RecordsTyped
<1> QED BY <1>1, <1>2, StartKeeps

LEMMA ReadCapabilityKeeps ==
    ASSUME DeploymentsInv, NEW w \in Caller, NEW i \in Inst, ReadCapability(w, i)
    PROVE  DeploymentsInv'
<1> DEFINE c == [NoCall EXCEPT !.pc = "capability", !.iri = i, !.read = turn[i],
                               !.input = instance[i]]
<1>1. i \in existing /\ call' = [call EXCEPT ![w] = c]
      /\ UNCHANGED <<instance, existing, turn, stated, crossed, raced, gone>>
  BY DEF ReadCapability, Start, instanceRecord
<1>2. /\ DOMAIN c = CallFields /\ c.pc = "capability" /\ c.iri = i /\ c.read = turn[i]
      /\ c.input = instance[i]
  BY DEF NoCall, CallFields
<1>3. turn[i] \in Nat
  BY DEF DeploymentsInv, RecordsTyped
<1>4. CallTyped(c) /\ Faithful(c) /\ ~Creating(c)
  <2> HIDE DEF c
  <2> QED BY <1>1, <1>2, <1>3 DEF CallTyped, Faithful, Creating, Writing
<1> HIDE DEF c
<1> QED BY <1>1, <1>4, StartKeeps

LEMMA AnnounceKeeps ==
    ASSUME DeploymentsInv, NEW w \in Caller, NEW o \in Cred, NEW key,
           NEW body \in InstanceBody, Announce(w, o, key, body)
    PROVE  DeploymentsInv'
<1>1. PICK b \in Binding(o) :
        call' = [call EXCEPT ![w] =
          [NoCall EXCEPT !.pc = "find", !.cred = o, !.key = key, !.bound = b,
                         !.body = body, !.announces = TRUE]]
  BY DEF Announce, Start
<1> DEFINE c == [NoCall EXCEPT !.pc = "find", !.cred = o, !.key = key, !.bound = b,
                               !.body = body, !.announces = TRUE]
<1>2. /\ DOMAIN c = CallFields /\ c.pc = "find" /\ c.read = 0 /\ c.bound = b
      /\ c.body = body /\ c.iri = 0 /\ c.announces
  BY DEF NoCall, CallFields
<1>3. b \in existing \cup {0} /\ 0 \notin existing
  BY Fields DEF Binding, Naming, RegisteredBy, Live, DeploymentsInv, RecordsTyped
<1>4. CallTyped(c) /\ Faithful(c) /\ ~Creating(c)
  <2> HIDE DEF c
  <2> QED BY <1>2, <1>3, BodyStates DEF CallTyped, Faithful, Creating, Writing
<1>5. call' = [call EXCEPT ![w] = c]
      /\ UNCHANGED <<instance, existing, turn, stated, crossed, raced, gone>>
  BY <1>1 DEF Announce, instanceRecord
<1> HIDE DEF c
<1> QED BY <1>4, <1>5, StartKeeps

(* A request that is refused.                                                *)
LEMMA EndKeeps ==
    ASSUME DeploymentsInv, NEW w \in Caller, call' = [call EXCEPT ![w] = NoCall],
           UNCHANGED <<instance, existing, turn, stated, crossed, gone>>, raced \subseteq raced'
    PROVE  DeploymentsInv'
<1>1. CallTyped(NoCall) /\ Faithful(NoCall) /\ ~Creating(NoCall)
  BY Fields DEF CallTyped, Faithful, Creating, Writing, CallFields, DeploymentsInv, RecordsTyped
<1> QED BY <1>1, OneCallAside

LEMMA CheckKeeps ==
    ASSUME DeploymentsInv, NEW w \in Caller, CheckDeployable(w) PROVE DeploymentsInv'
<1>1. UNCHANGED <<instance, existing, turn, stated, crossed, raced, gone>> /\ call[w].pc = "check"
  BY DEF CheckDeployable, instanceRecord, callHist
<1>2. CASE End(w)
  BY <1>1, <1>2, EndKeeps DEF End
<1>3. CASE call' = [call EXCEPT ![w].pc = "write"]
  <2> DEFINE c == [call[w] EXCEPT !.pc = "write"]
  <2>1. CallTyped(call[w]) /\ Faithful(call[w]) /\ Alone(call[w])
        /\ \A x \in Caller \ {w} : Abreast(call[w], call[x])
    BY DEF DeploymentsInv
  <2>2. /\ DOMAIN c = CallFields /\ c.pc = "write" /\ c.read = call[w].read
        /\ c.iri = call[w].iri /\ c.input = call[w].input /\ c.body = call[w].body
        /\ c.announces = call[w].announces
    BY <2>1, Fields DEF CallTyped
  <2>3. CallTyped(c) /\ Faithful(c)
    <3> HIDE DEF c
    <3> QED BY <1>1, <2>1, <2>2 DEF CallTyped, Faithful, Writing
  <2>4. Creating(c) =>
          /\ c.announces
          /\ \A j \in Live :
                Same(instance[j], c.input) => {c.iri, j} \subseteq raced' \/ j \in crossed
          /\ \A x \in Caller \ {w} : Creating(call[x]) /\ Same(c.input, call[x].input)
                 => {c.iri, call[x].iri} \subseteq raced'
    <3> HIDE DEF c
    <3> QED BY <1>1, <2>1, <2>2 DEF Alone, Abreast, Creating, Writing
  <2>5. call' = [call EXCEPT ![w] = c]
    BY <1>3
  <2> HIDE DEF c
  <2> QED BY <1>1, <2>3, <2>4, <2>5, OneCallAside
<1> QED BY <1>2, <1>3 DEF CheckDeployable

LEMMA LoadKeeps ==
    ASSUME DeploymentsInv, NEW w \in Caller, LoadSelf(w) PROVE DeploymentsInv'
<1> DEFINE i == call[w].iri
           body == call[w].body
           c == [call[w] EXCEPT !.pc = "check", !.read = turn[i], !.input = Merged(i, body)]
<1>1. /\ call[w].pc = "load" /\ call' = [call EXCEPT ![w] = c]
      /\ UNCHANGED <<instance, existing, turn, stated, crossed, raced, gone>>
  BY DEF LoadSelf, instanceRecord, callHist
<1>2. DOMAIN call[w] = CallFields /\ i \in existing /\ i \in Inst /\ DOMAIN body \subseteq Shown
  BY <1>1 DEF DeploymentsInv, CallTyped, RecordsTyped
<1>3. /\ DOMAIN c = CallFields /\ c.pc = "check" /\ c.iri = i /\ c.input = Merged(i, body)
      /\ c.body = body /\ c.read = turn[i]
  BY <1>2, Fields
<1>4. /\ DOMAIN Merged(i, body) = RecordFields /\ Same(Merged(i, body), instance[i])
      /\ RecordTrue(i) => \A f \in Shown : Merged(i, body)[f] = Merge(stated[i], body)[f]
  BY <1>2, MergedFields DEF DeploymentsInv
<1>5. turn[i] \in Nat /\ (i \notin crossed => RecordTrue(i))
  BY <1>2 DEF DeploymentsInv, RecordsTyped
<1>6. CallTyped(c) /\ Faithful(c) /\ ~Creating(c)
  <2> HIDE DEF c
  <2> QED BY <1>2, <1>3, <1>4, <1>5 DEF CallTyped, Faithful, Creating, Writing
<1> HIDE DEF c
<1> QED BY <1>1, <1>6, StartKeeps

(* An announcement that decides which record it is about.                     *)
LEMMA FindKeeps ==
    ASSUME DeploymentsInv, NEW w \in Caller, FindSelf(w) PROVE DeploymentsInv'
<1>1. /\ call[w].pc = "find" /\ raced \subseteq raced'
      /\ UNCHANGED <<instance, existing, turn, stated, crossed, gone>>
  BY DEF FindSelf, instanceRecord
<1>2. /\ DOMAIN call[w] = CallFields /\ DOMAIN call[w].body \subseteq Shown
      /\ call[w].bound \in existing \cup {0} /\ call[w].read = 0 /\ call[w].announces
      /\ 0 \notin existing /\ DOMAIN call = Caller
  BY <1>1, Fields DEF DeploymentsInv, CallTyped, RecordsTyped
<1>3. Found(w) \subseteq existing /\ Found(w) \subseteq Live
  BY DEF Found, RegisteredBy, Live
<1>4. PICK i \in About(w) :
         IF i # 0 THEN call' = [call EXCEPT ![w].pc = "load", ![w].iri = i]
         ELSE IF ~MayRegister(call[w].cred) THEN End(w)
         ELSE \E new \in NewIri :
                call' = [call EXCEPT ![w].pc = "check", ![w].iri = new,
                   ![w].input = [Merge([Blank EXCEPT !.label = call[w].cred], call[w].body) EXCEPT
                     !.client = IF call[w].cred \in Shared THEN Cleared ELSE call[w].cred,
                     !.owner = call[w].cred, !.key = SelfKey(w)]]
  BY DEF FindSelf
<1>5. CASE i # 0
  <2> DEFINE c == [call[w] EXCEPT !.pc = "load", !.iri = i]
  <2>1. i \in existing
    BY <1>2, <1>3, <1>5 DEF About
  <2>2. /\ DOMAIN c = CallFields /\ c.pc = "load" /\ c.iri = i /\ c.read = 0
        /\ c.body = call[w].body
    BY <1>2, Fields
  <2>3. turn[i] \in Nat
    BY <2>1 DEF DeploymentsInv, RecordsTyped
  <2>4. CallTyped(c) /\ Faithful(c) /\ ~Creating(c)
    <3> HIDE DEF c
    <3> QED BY <1>2, <2>1, <2>2, <2>3 DEF CallTyped, Faithful, Creating, Writing
  <2>5. call' = [call EXCEPT ![w] = c]
    BY <1>4, <1>5
  <2> HIDE DEF c
  <2> QED BY <1>1, <2>4, <2>5, OneCallAside
<1>6. CASE i = 0 /\ End(w)
  BY <1>1, <1>6, EndKeeps DEF End
<1>7. CASE i = 0 /\ ~End(w)
  <2> DEFINE input == [Merge([Blank EXCEPT !.label = call[w].cred], call[w].body) EXCEPT
                         !.client = IF call[w].cred \in Shared THEN Cleared ELSE call[w].cred,
                         !.owner = call[w].cred, !.key = SelfKey(w)]
  <2>1. PICK new \in NewIri :
           call' = [call EXCEPT ![w].pc = "check", ![w].iri = new, ![w].input = input]
    BY <1>4, <1>7
  <2> DEFINE c == [call[w] EXCEPT !.pc = "check", !.iri = new, !.input = input]
  <2>2. new \in Inst \ existing /\ turn[new] = 0
    BY DEF NewIri, Unminted, DeploymentsInv, RecordsTyped
  <2>3. DOMAIN input = RecordFields /\ input.owner = call[w].cred /\ input.key = SelfKey(w)
    BY Fields DEF Merge, RecordFields
  <2>4. /\ DOMAIN c = CallFields /\ c.pc = "check" /\ c.iri = new /\ c.read = 0
        /\ c.input = input /\ c.announces
    <3> HIDE DEF input
    <3> QED BY <1>2, Fields
  <2>5. CallTyped(c) /\ Faithful(c)
    <3> HIDE DEF c, input
    <3> QED BY <2>2, <2>3, <2>4 DEF CallTyped, Faithful, Writing
  <2>6. Found(w) = {}
    BY <1>2, <1>3, <1>7 DEF About
  <2>7. \A j \in Live : ~Same(instance[j], input)
    <3> HIDE DEF input
    <3> QED BY <2>3, <2>6 DEF Found, RegisteredBy, Same
  <2>8. call' = [call EXCEPT ![w] = c]
    BY <2>1
  <2>9. call'[w] = c /\ \A x \in Caller \ {w} : call'[x] = call[x]
    <3> HIDE DEF c
    <3> QED BY <1>2, <2>8
  <2>10. ASSUME NEW x \in Caller \ {w}, Creating(call[x]), Same(c.input, call[x].input)
         PROVE  {c.iri, call[x].iri} \subseteq raced'
    <3> HIDE DEF c, input
    <3>1. call[x].announces /\ call[x].pc \in {"check", "write"} /\ call[x].iri \notin existing
      BY <2>10 DEF DeploymentsInv, Alone, Creating, Writing
    <3> DEFINE Beside(u, v) ==
                 /\ call'[u].announces /\ call'[v].announces
                 /\ {call'[u].pc, call'[v].pc} \subseteq {"check", "write"}
                 /\ {call'[u].iri, call'[v].iri} \cap existing = {}
                 /\ call'[u].input.owner = call'[v].input.owner
                 /\ call'[u].input.key = call'[v].input.key
    <3>2. Beside(w, x) /\ Beside(x, w)
      BY <2>2, <2>4, <2>9, <2>10, <3>1 DEF Same
    <3>3. raced' = raced \cup {call'[v].iri : v \in {u \in Caller :
                                 \E y \in Caller \ {u} : Beside(u, y)}}
      BY DEF FindSelf
    <3> HIDE DEF Beside
    <3>4. call'[w].iri \in raced' /\ call'[x].iri \in raced'
      BY <3>2, <3>3
    <3> QED BY <2>9, <3>4
  <2> HIDE DEF c, input
  <2> QED BY <1>1, <2>4, <2>5, <2>7, <2>8, <2>10, OneCallAside
<1> QED BY <1>5, <1>6, <1>7

LEMMA ApplyInstanceKeeps ==
    ASSUME DeploymentsInv, NEW w \in Caller, ApplyInstance(w) PROVE DeploymentsInv'
<1> DEFINE i == call[w].iri
           in == call[w].input
           cap == IF in.capability = {} THEN {} ELSE {NewCap}
           r == [in EXCEPT !.capability = cap]
           s == IF i \in existing THEN Merge(stated[i], call[w].body) ELSE in
<1>1. /\ call[w].pc = "write" /\ call' = [call EXCEPT ![w] = NoCall] /\ raced' = raced
      /\ instance' = [instance EXCEPT ![i] = r]
      /\ existing' = existing \cup {i} /\ gone' = gone \ {i}
      /\ turn' = [turn EXCEPT ![i] = @ + 1]
      /\ stated' = [stated EXCEPT ![i] = s]
      /\ crossed' = IF i \in existing /\ (call[w].read # turn[i] \/ i \in gone)
                    THEN crossed \cup {i} ELSE crossed
  BY DEF ApplyInstance, WriteInstance, End
<1>2. /\ Writing(call[w]) /\ i \in Inst /\ DOMAIN in = RecordFields
      /\ DOMAIN stated = Inst /\ DOMAIN stated[i] = RecordFields
  BY <1>1 DEF DeploymentsInv, CallTyped, RecordsTyped, Writing
<1>3. /\ DOMAIN r = RecordFields /\ r.capability = cap /\ AtMostOne(cap)
      /\ \A f \in Shown : r[f] = in[f]
      /\ Same(r, in)
  <2>1. AtMostOne(cap)
    BY DEF AtMostOne
  <2> HIDE DEF cap, in
  <2> QED BY <1>2, <2>1, Fields DEF Same, Shown
<1>4. DOMAIN s = RecordFields
  BY <1>2 DEF Merge
<1>5. ASSUME i \notin crossed'
      PROVE  /\ \A f \in Shown : r[f] = s[f]
             /\ i \in existing => i \notin gone \/ i \in gone'
             /\ i \in existing => Same(r, instance[i])
             /\ i \notin existing /\ r.owner # Cleared =>
                   /\ Creating(call[w]) /\ call[w].iri = i /\ Same(r, call[w].input)
  <2> HIDE DEF r
  <2>1. CASE i \in existing
    <3>1. i \notin gone /\ call[w].read = turn[i] /\ i \notin crossed
      BY <1>1, <1>5, <2>1
    <3>2. /\ \A f \in Shown : in[f] = Merge(stated[i], call[w].body)[f]
          /\ Same(in, instance[i])
      BY <1>2, <2>1, <3>1 DEF DeploymentsInv, Faithful
    <3> QED BY <1>3, <2>1, <3>1, <3>2 DEF Same
  <2>2. CASE i \notin existing
    BY <1>2, <1>3, <2>2 DEF Creating, Same
  <2> QED BY <2>1, <2>2
<1>6. /\ DOMAIN stated' = Inst /\ stated'[i] = s
      /\ \A j \in Inst \ {i} : stated'[j] = stated[j]
      /\ crossed \subseteq crossed'
  <2> HIDE DEF s
  <2> QED BY <1>1, <1>2
<1>7. i \notin crossed' =>
             /\ \A f \in Shown : r[f] = s[f]
             /\ AtMostOne(r.capability)
             /\ i \in existing => i \notin gone \/ i \in gone'
             /\ i \in existing => Same(r, instance[i])
             /\ i \notin existing /\ r.owner # Cleared =>
                   /\ Creating(call[w]) /\ call[w].iri = i /\ Same(r, call[w].input)
  <2> HIDE DEF r, s, cap
  <2> QED BY <1>3, <1>5
<1>8. gone' \in {gone, gone \ {i}} /\ DOMAIN r = RecordFields
  BY <1>1, <1>3
<1> HIDE DEF r, s, i
<1> QED BY <1>1, <1>2, <1>4, <1>6, <1>7, <1>8, OneCallWrites

LEMMA LinkKeeps ==
    ASSUME DeploymentsInv, NEW w \in Caller, LinkCapability(w) PROVE DeploymentsInv'
<1> DEFINE i == call[w].iri
           known == call[w].input.capability
           cap == IF known = {} THEN instance[i].capability \cup {NewCap}
                  ELSE instance[i].capability \cup {CHOOSE x \in known : TRUE}
           r == [instance[i] EXCEPT !.capability = cap]
<1>1. /\ call[w].pc = "capability" /\ call' = [call EXCEPT ![w] = NoCall] /\ raced' = raced
      /\ gone' = gone /\ existing' = existing /\ stated' = stated
      /\ turn' = [turn EXCEPT ![i] = @ + 1]
      /\ crossed' = IF call[w].read # turn[i] THEN crossed \cup {i} ELSE crossed
  BY DEF LinkCapability, End
<1>2. /\ i \in existing /\ i \in Inst /\ DOMAIN instance = Inst /\ DOMAIN stated = Inst
      /\ DOMAIN instance[i] = RecordFields /\ DOMAIN stated[i] = RecordFields
  BY <1>1 DEF DeploymentsInv, CallTyped, RecordsTyped
<1>3. instance' = [instance EXCEPT ![i] = r]
  BY <1>2 DEF LinkCapability
<1>4. /\ DOMAIN r = RecordFields /\ r.capability = cap
      /\ \A f \in Shown : r[f] = instance[i][f]
      /\ Same(r, instance[i])
  <2> HIDE DEF cap
  <2> QED BY <1>2, Fields DEF Same, Shown
<1>5. ASSUME i \notin crossed' PROVE (\A f \in Shown : r[f] = stated[i][f]) /\ AtMostOne(cap)
  <2>1. i \notin crossed /\ call[w].read = turn[i]
    BY <1>1, <1>5
  <2>2. known = instance[i].capability /\ RecordTrue(i)
    BY <1>1, <1>2, <2>1 DEF DeploymentsInv, Faithful
  <2>3. AtMostOne(cap)
    <3>1. CASE known = {}
      BY <2>2, <3>1 DEF AtMostOne
    <3>2. CASE known # {}
      <4>1. PICK y : known = {y}
        BY <2>2, <3>2 DEF RecordTrue, AtMostOne
      <4>2. (CHOOSE x \in known : TRUE) = y
        BY <4>1
      <4> QED BY <2>2, <3>2, <4>1, <4>2 DEF AtMostOne
    <3> QED BY <3>1, <3>2
  <2> QED BY <1>4, <2>2, <2>3 DEF RecordTrue
<1>6. existing' = existing \cup {i} /\ crossed \subseteq crossed'
  BY <1>1, <1>2
<1> DEFINE s == stated[i]
<1>7. i \notin crossed' =>
             /\ \A f \in Shown : r[f] = s[f]
             /\ AtMostOne(r.capability)
             /\ i \in existing => i \notin gone \/ i \in gone'
             /\ i \in existing => Same(r, instance[i])
             /\ i \notin existing /\ r.owner # Cleared =>
                   /\ Creating(call[w]) /\ call[w].iri = i /\ Same(r, call[w].input)
  <2> HIDE DEF r, cap
  <2> QED BY <1>1, <1>2, <1>4, <1>5
<1>8. /\ gone' \in {gone, gone \ {i}} /\ DOMAIN r = RecordFields /\ DOMAIN s = RecordFields
      /\ DOMAIN stated' = Inst /\ stated'[i] = s
      /\ \A j \in Inst \ {i} : stated'[j] = stated[j]
  BY <1>1, <1>2, <1>4
<1> HIDE DEF r, s, i
<1> QED BY <1>1, <1>2, <1>3, <1>6, <1>7, <1>8, OneCallWrites

LEMMA DeploymentsStep == DeploymentsInv /\ [InstancesNext]_instanceVars => DeploymentsInv'
<1> SUFFICES ASSUME DeploymentsInv, [InstancesNext]_instanceVars PROVE DeploymentsInv'
  OBVIOUS
<1>1. CASE UNCHANGED <<instance, existing, gone, call, turn, stated, crossed, raced>>
  BY <1>1 DEF DeploymentsInv, RecordsTyped, RecordTrue, OneRecordPerDeployment, Live,
              CallTyped, Faithful, Alone, Abreast, Creating, Writing
<1>2. ASSUME NEW w \in Caller, NewRequest(w) PROVE DeploymentsInv'
  BY <1>2, CreateKeeps, PatchKeeps, WithdrawKeeps, ReadCapabilityKeeps, AnnounceKeeps
  DEF NewRequest
<1>3. ASSUME NEW w \in Caller, Proceed(w) PROVE DeploymentsInv'
  BY <1>3, CheckKeeps, ApplyInstanceKeeps, LinkKeeps, FindKeeps, LoadKeeps DEF Proceed
<1>4. CASE HealthPass \/ UNCHANGED instanceVars
  BY <1>1, <1>4 DEF HealthPass, ReadTargets, RecordHealth, instanceVars, instanceRecord, callHist
<1> QED BY <1>2, <1>3, <1>4 DEF InstancesNext

LEMMA InstanceSteps == [RecordsNext]_recordsVars => [InstancesNext]_instanceVars
BY DEF RecordsNext, recordsVars

LEMMA DeploymentsAlways == RecordsSpec => []DeploymentsInv
<1>1. RecordsInit => DeploymentsInv
  BY DeploymentsInit DEF RecordsInit
<1>2. DeploymentsInv /\ [RecordsNext]_recordsVars => DeploymentsInv'
  BY DeploymentsStep, InstanceSteps
<1> QED BY <1>1, <1>2, PTL DEF RecordsSpec

(* As long as no two writers of a deployment's record overlapped, what PATCHes and  *)
(* announcements stated of it stands, and one capability is linked, however it     *)
(* was withdrawn, probed and asked for in between (patch, register_self,         *)
(* put_capability).                                                          *)
THEOREM StatementsAlwaysStand == RecordsSpec => []StatementsStand
<1>1. DeploymentsInv => StatementsStand
  <2> SUFFICES ASSUME DeploymentsInv, NEW i \in existing \ crossed
               PROVE  /\ \A f \in Shown : instance[i][f] = stated[i][f]
                      /\ Cardinality(instance[i].capability) <= 1
    BY DEF StatementsStand
  <2>1. RecordTrue(i)
    BY DEF DeploymentsInv
  <2>2. Cardinality(instance[i].capability) \in {0, 1}
    BY <2>1, FS_EmptySet, FS_Singleton DEF RecordTrue, AtMostOne
  <2> QED BY <2>1, <2>2 DEF RecordTrue
<1> QED BY <1>1, DeploymentsAlways, PTL

(* A deployment that announces itself has one record, unless announcements that     *)
(* created two had both looked before either wrote, or a record was written back     *)
(* that had been withdrawn or changed since it was read (register_self,          *)
(* find_self_registered).                                                    *)
THEOREM AlwaysOneRecord == RecordsSpec => []OneRecordPerDeployment
<1>1. DeploymentsInv => OneRecordPerDeployment
  BY DEF DeploymentsInv
<1> QED BY <1>1, DeploymentsAlways, PTL

=============================================================================
