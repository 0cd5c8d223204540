------------------------------ MODULE LiveRun ------------------------------
(***************************************************************************)
(* scripts/run-live.sh from the installation of its traps: two provider    *)
(* resources made under one unique name, reviewed, used for one job and    *)
(* removed by the EXIT trap, with a provider whose create may be ambiguous *)
(* and whose listings lag behind.  The shell runs its traps between two    *)
(* commands, so a signal or a kill may fall between any two steps.         *)
(***************************************************************************)
EXTENDS ProviderReadback

CONSTANTS
  SeenLag,     \* listings in a row that may omit a live resource once seen ...
  UnseenLag    \* ... and before anyone has seen it

CLEANUP_LIST_ATTEMPTS == 12
CLEANUP_ABSENCE_SNAPSHOTS == 3
CLEANUP_UNVERIFIED_ABSENCE_SNAPSHOTS == 8
CLEANUP_DELETE_ATTEMPTS == 2

\* None is neither an identifier nor a status.
ASSUME NoneAssumption == None \notin {"own", "unrelated", "theirs"} /\ None \notin Nat

\* The provider settles within the horizons the script chose.
ASSUME LagAssumption ==
  /\ SeenLag \in 0 .. CLEANUP_ABSENCE_SNAPSHOTS - 1
  /\ UnseenLag \in 0 .. CLEANUP_UNVERIFIED_ABSENCE_SNAPSHOTS - 1

VARIABLES
  pc,                \* the next step of the script
  kind,              \* the resource it is at
  create_attempted, id, id_verified,   \* the script's variables, per kind
  original_status,   \* $? when the trap runs; 0 or 1
  cleanup_failed, compose_touched,
  loop,              \* the locals of cleanup_resource
  late,              \* SECONDS has reached cleanup_deadline
  resource,          \* provider: per kind "none", "live" or "gone"
  taken,             \* provider: kinds whose unique name somebody else has
  seen, missed,      \* provider: was it ever shown; listings that omitted it since
  deviant, since,    \* a field not as requested; documents read before it changed
  containers,        \* the local compose project is up
  private,           \* state_dir exists
  jobs,              \* jobs submitted
  deleted,           \* what a delete command was sent for
  finalized, recovery, cleanup_status, manifest   \* evidence files; recovery is "absent",
                     \* "whole" or "lost": its last write failed or was cut short

script   == <<create_attempted, id, id_verified>>
cleaning == <<cleanup_failed, compose_touched, loop, late>>
provider == <<resource, taken, seen, missed>>
review   == <<deviant, since>>
files    == <<finalized, recovery, cleanup_status, manifest>>
vars     == <<pc, kind, script, original_status, cleaning, provider, review, containers, private,
              jobs, deleted, files>>

Kinds == {"template", "endpoint"}

\* The configuration under review, and the fields each document reports:
\* template read-back, endpoint create response, endpoint read-back
Emptied == TemplateEmpty \cup EndpointEmpty \cup {"readme"}
Fields ==
  TemplateFields \cup TemplateEmpty \cup PolicyFields \cup ComputeFields
    \cup EndpointEmpty \cup {"flashBoot"}
Reports ==
  <<TemplateFields \cup TemplateEmpty,
    PolicyFields \cup ComputeFields \cup EndpointEmpty \cup {"flashBoot"},
    PolicyFields \cup EndpointEmpty \cup {"flashBoot"} \cup NestedFields
      \cup {"containerRegistryAuthId"}>>

IdleLoop == [iteration |-> 0, absent |-> 0, deletes |-> 0, required |-> 0,
             target |-> None]

Body ==
  {"preflight", "compose", "prepare", "compose_down",
   "precreate", "create", "id", "get",
   "run", "finalize", "billing"}
Cleanup ==
  {"recovery", "down", "resource", "list", "delete", "state", "retract", "status", "manifest"}

Init ==
  /\ pc = "preflight" /\ kind = "template"
  /\ create_attempted = {} /\ id = [k \in Kinds |-> None] /\ id_verified = {}
  /\ original_status = 0 /\ cleanup_failed = FALSE /\ compose_touched = FALSE
  /\ loop = IdleLoop /\ late = FALSE
  /\ resource = [k \in Kinds |-> "none"] /\ taken \in SUBSET Kinds
  /\ seen = {} /\ missed = [k \in Kinds |-> 0]
  /\ deviant = None /\ since = 0
  /\ containers = FALSE /\ private = TRUE
  /\ jobs = 0 /\ deleted = {}
  /\ finalized = FALSE /\ recovery = "absent" /\ cleanup_status = None /\ manifest = None

\* fail, set -e, a handled signal or the last line: exit runs the EXIT trap.
\* From here on nothing reads the configuration.
Exit(status) ==
  /\ pc' = "trap" /\ kind' = "endpoint" /\ original_status' = status
  /\ deviant' = None /\ since' = 0

Go(l) == pc' = l /\ UNCHANGED <<kind, original_status, review>>

\* A command without effect of its own: it succeeds or ends the body.
Command(l) == Go(l) \/ Exit(1)

\* write_recovery truncates the note before it writes it, so that a write that
\* fails may leave it empty, torn or as it was.
NoteWritten == recovery' \in {"whole", "lost"}

(***************************************************************************)
(* The provider (external)                                                 *)
(***************************************************************************)
Lag(k) == IF k \in seen THEN SeenLag ELSE UnseenLag

\* Whether a listing shows the run's resource.  A deleted one may linger.
Shows(k) ==
  CASE resource[k] = "none" -> {FALSE}
    [] resource[k] = "live" -> IF missed[k] < Lag(k) THEN BOOLEAN ELSE {TRUE}
    [] resource[k] = "gone" -> BOOLEAN

Listing(k, shown) ==
  {[id |-> "unrelated", name |-> "another"]}
    \cup (IF shown THEN {[id |-> "own", name |-> "unique"]} ELSE {})
    \cup (IF k \in taken THEN {[id |-> "theirs", name |-> "unique"]} ELSE {})

Listed(k, shown) ==
  /\ seen' = IF shown THEN seen \cup {k} ELSE seen
  /\ missed' = [missed EXCEPT ![k] = IF resource[k] = "live" /\ ~shown THEN @ + 1 ELSE 0]
  /\ UNCHANGED <<resource, taken>>

\* The document with one field left out (never one that deviates) or one added
Forms(document, aliases) ==
  {document}
    \cup {[f \in DOMAIN document \ {g} |-> document[f]] :
            g \in {h \in DOMAIN document : document[h] # "other"}}
    \cup {With(document, [f \in {a} |-> "other"]) : a \in aliases \ DOMAIN document}

\* The fields as document n reports them
Reported(n, fields, flash) ==
  [f \in fields |->
     IF since < n /\ (f = deviant \/ (f = flash /\ deviant = "flashBoot")) THEN "other"
     ELSE IF f \in Emptied THEN "empty" ELSE "requested"]

NameOf(i) == IF i = "own" THEN "unique" ELSE "another"

TemplateDocument ==
  With(Identity(id["template"], NameOf(id["template"])),
       Reported(1, TemplateFields \cup TemplateEmpty, None))
CreateDocument ==
  With(Endpoint(id["endpoint"], NameOf(id["endpoint"]), id["template"]),
       Reported(2, PolicyFields \cup ComputeFields \cup EndpointEmpty \cup {"flashBootType"},
                "flashBootType"))
GetDocument ==
  With(Endpoint(id["endpoint"], NameOf(id["endpoint"]), id["template"]),
       Reported(3, PolicyFields \cup EndpointEmpty \cup {"flashboot"}, "flashboot"))
NestedDocument ==
  With(Identity(id["template"], NameOf(id["template"])),
       Reported(3, NestedFields \cup {"containerRegistryAuthId", "readme", "startJupyter",
                                      "startSsh", "config"}, None))

DocumentsRead ==
  IF kind = "template" THEN 0
  ELSE IF pc \in {"precreate", "create"} THEN 1 ELSE IF pc \in {"id", "get"} THEN 2 ELSE 3

\* A resource is made with, or comes to have, a field nobody asked for.
Drift(f) ==
  /\ pc \in {"id", "get", "run"} \/ (pc \in {"precreate", "create"} /\ kind = "endpoint")
  /\ deviant = None
  /\ deviant' = f /\ since' = DocumentsRead
  /\ UNCHANGED <<pc, kind, script, original_status, cleaning, provider, containers, private, jobs,
                 deleted, files>>

(***************************************************************************)
(* The body of the script                                                  *)
(***************************************************************************)
ImageIndexes ==
  [digest : {"requested", "requested-with-lf", "other"}, mediaType : {"index", "manifest"},
   members : SUBSET [platform : {"linux/amd64", "other"}, variant : BOOLEAN,
                     wellFormed : BOOLEAN]]

\* Tool versions, authentication, the image index and its runtime self test,
\* the pricing sources
Preflight ==
  /\ pc = "preflight"
  /\ \E index \in ImageIndexes : IF ValidateImage(index) THEN Command("compose") ELSE Exit(1)
  /\ UNCHANGED <<script, cleaning, provider, containers, private, jobs, deleted, files>>

\* compose build and up
ComposeUp ==
  /\ pc = "compose"
  /\ compose_touched' = TRUE /\ containers' \in BOOLEAN
  /\ (containers' /\ Go("prepare")) \/ Exit(1)
  /\ UNCHANGED <<script, cleanup_failed, loop, late, provider, private, jobs, deleted, files>>

\* lab.live_cli prepare, in a container
Prepare ==
  /\ pc = "prepare" /\ Command("compose_down")
  /\ UNCHANGED <<script, cleaning, provider, containers, private, jobs, deleted, files>>

ComposeDown ==
  /\ pc = "compose_down"
  /\ \/ containers' = FALSE /\ compose_touched' = FALSE /\ Go("precreate")
     \/ containers' \in BOOLEAN /\ Exit(1) /\ UNCHANGED compose_touched
  /\ UNCHANGED <<script, cleanup_failed, loop, late, provider, private, jobs, deleted, files>>

\* The unique name must not be taken before the resource is created.
Precreate ==
  /\ pc = "precreate"
  /\ IF InspectListing(Listing(kind, FALSE), "unique", None).exact_name_id = None
     THEN Command("create") ELSE Exit(1)
  /\ UNCHANGED <<script, cleaning, provider, containers, private, jobs, deleted, files>>

\* The create command, under set +e: what the provider did, what it said and
\* how the command ended need not agree.
Create ==
  /\ pc = "create"
  /\ create_attempted' = create_attempted \cup {kind}
  /\ \E made \in BOOLEAN, ids \in SUBSET {"own", "unrelated"}, ok \in BOOLEAN :
       /\ resource' = [resource EXCEPT ![kind] = IF made THEN "live" ELSE "none"]
       /\ id' = [id EXCEPT ![kind] = ExtractCreatedId(ids)]
       /\ IF ok /\ ExtractCreatedId(ids) # None THEN Go("id") ELSE Exit(1)
  /\ UNCHANGED <<id_verified, cleaning, taken, seen, missed, containers, private, jobs,
                 deleted, files>>

\* The identifier is well formed, and the recovery note is written.
CreatedId ==
  /\ pc = "id"
  /\ \/ Go("get") /\ recovery' = "whole"
     \/ Exit(1) /\ (UNCHANGED recovery \/ NoteWritten)
  /\ UNCHANGED <<script, cleaning, provider, containers, private, jobs, deleted, finalized,
                 cleanup_status, manifest>>

\* The resource the get command finds under the identifier, if any
Found == id[kind] = "own" => resource[kind] = "live"
Shown == seen' = IF id[kind] = "own" THEN seen \cup {kind} ELSE seen

\* Some document passes: the identifier is the run's own.  The note is written
\* again, under set -e.
Verified(l, k) ==
  /\ id_verified' = id_verified \cup {kind}
  /\ \/ /\ pc' = l /\ kind' = k /\ recovery' = "whole"
        /\ UNCHANGED <<original_status, review>>
     \/ Exit(1) /\ NoteWritten

\* The get command or the review fails.
Rejected == Exit(1) /\ UNCHANGED <<id_verified, recovery>>

TemplatePasses(document) == ValidateTemplate(document, id["template"], "unique")

EndpointPasses(create, document, nested) ==
  ValidateEndpoint(create, document, nested, id["endpoint"], "unique", id["template"], "unique")

GetTemplate ==
  /\ pc = "get" /\ kind = "template"
  /\ \/ /\ Found /\ Shown
        /\ \E document \in Forms(TemplateDocument, {}) :
             IF TemplatePasses(document) THEN Verified("precreate", "endpoint") ELSE Rejected
     \/ Rejected /\ UNCHANGED seen
  /\ UNCHANGED <<create_attempted, id, cleaning, resource, taken, missed, containers, private,
                 jobs, deleted, finalized, cleanup_status, manifest>>

\* One of the three documents may be irregular.
GetEndpoint ==
  /\ pc = "get" /\ kind = "endpoint"
  /\ \/ /\ Found /\ Shown
        /\ \/ \E d \in Forms(CreateDocument, {"flashboot", "flashBoot", "template", "workers"}) :
                IF EndpointPasses(d, GetDocument, NestedDocument)
                THEN Verified("run", kind) ELSE Rejected
           \/ \E d \in Forms(GetDocument, ComputeFields \cup {"flashBootType", "flashBoot"}) :
                IF EndpointPasses(CreateDocument, d, NestedDocument)
                THEN Verified("run", kind) ELSE Rejected
           \/ \E d \in Forms(NestedDocument, TemplateEmpty \cup {"imageName", "volumeMountPath"})
                        \cup {None} :
                IF EndpointPasses(CreateDocument, GetDocument, d)
                THEN Verified("run", kind) ELSE Rejected
     \/ Rejected /\ UNCHANGED seen
  /\ UNCHANGED <<create_attempted, id, cleaning, resource, taken, missed, containers, private,
                 jobs, deleted, finalized, cleanup_status, manifest>>

\* The one job.  A timeout says nothing about the provider.
Run ==
  /\ pc = "run" /\ jobs' = jobs + 1 /\ Command("finalize")
  /\ UNCHANGED <<script, cleaning, provider, containers, private, deleted, files>>

\* lab.live_cli finalize, with its deadline
Finalize ==
  /\ pc = "finalize"
  /\ \/ finalized' = TRUE /\ Go("billing")
     \/ finalized' \in BOOLEAN /\ Exit(1)
  /\ UNCHANGED <<script, cleaning, provider, containers, private, jobs, deleted, recovery,
                 cleanup_status, manifest>>

\* The billing query may fail; its observation must be written.
Billing ==
  /\ pc = "billing" /\ (Exit(0) \/ Exit(1))
  /\ UNCHANGED <<script, cleaning, provider, containers, private, jobs, deleted, files>>

(***************************************************************************)
(* The EXIT trap                                                           *)
(***************************************************************************)

\* trap - EXIT: from here on a signal ends the script.
EnterCleanup ==
  /\ pc = "trap" /\ Go("recovery")
  /\ UNCHANGED <<script, cleaning, provider, containers, private, jobs, deleted, files>>

\* The cleanup goes on whether or not the note could be written: set +e.
WriteRecovery ==
  /\ pc = "recovery" /\ NoteWritten /\ Go("down")
  /\ UNCHANGED <<script, cleaning, provider, containers, private, jobs, deleted, finalized,
                 cleanup_status, manifest>>

\* A compose project that may be up is taken down; a failure is remembered.
CleanupCompose ==
  /\ pc = "down" /\ Go("resource")
  /\ \/ ~compose_touched /\ UNCHANGED <<containers, cleanup_failed>>
     \/ compose_touched /\ containers' = FALSE /\ UNCHANGED cleanup_failed
     \/ compose_touched /\ containers' \in {containers, FALSE} /\ cleanup_failed' = TRUE
  /\ UNCHANGED <<script, compose_touched, loop, late, provider, private, jobs, deleted, files>>

\* Mutant: cleanup acts on the identifier the create command returned.
ReturnedId == id[kind]

\* The identifier cleanup may act on
VerifiedId == IF kind \in id_verified THEN id[kind] ELSE None

\* cleanup_resource returns: the endpoint first, then the template
Returns(ok) ==
  /\ cleanup_failed' = (cleanup_failed \/ ~ok)
  /\ loop' = IdleLoop
  /\ IF kind = "endpoint" THEN pc' = "resource" /\ kind' = "template"
     ELSE pc' = "state" /\ kind' = kind
  /\ UNCHANGED <<original_status, review>>

\* Mutant: the short horizon, whatever is known of the resource
RequiredAbsentShort == CLEANUP_ABSENCE_SNAPSHOTS

\* An ambiguous create may become visible late.
RequiredAbsent ==
  IF VerifiedId = None THEN CLEANUP_UNVERIFIED_ABSENCE_SNAPSHOTS ELSE CLEANUP_ABSENCE_SNAPSHOTS

CleanupResource ==
  /\ pc = "resource"
  /\ IF kind \in create_attempted
     THEN /\ loop' = [IdleLoop EXCEPT !.iteration = 1, !.required = RequiredAbsent]
          /\ Go("list") /\ UNCHANGED cleanup_failed
     ELSE Returns(TRUE)
  /\ UNCHANGED <<script, compose_touched, late, provider, containers, private, jobs, deleted,
                 files>>

\* The sleep between two iterations, and the bound on their number
NextIteration(l) ==
  IF loop.iteration = CLEANUP_LIST_ATTEMPTS THEN Returns(FALSE)
  ELSE /\ loop' = [l EXCEPT !.iteration = @ + 1, !.target = None]
       /\ Go("list") /\ UNCHANGED cleanup_failed

Target(observation) ==
  CASE observation.exact_name_id # None -> observation.exact_name_id
    [] observation.exact_name_id = None /\ VerifiedId # None
         /\ observation.requested_id_present -> VerifiedId
    [] OTHER -> None

\* One listing and what follows from it
Decide(observation) ==
  LET target == Target(observation)
  IN CASE observation.exact_name_id # None /\ VerifiedId # None
            /\ observation.exact_name_id # VerifiedId -> Returns(FALSE)
       [] target = None /\ loop.absent + 1 >= loop.required -> Returns(TRUE)
       [] target = None /\ loop.absent + 1 < loop.required ->
            NextIteration([loop EXCEPT !.absent = @ + 1])
       [] target # None /\ loop.deletes >= CLEANUP_DELETE_ATTEMPTS -> Returns(FALSE)
       [] OTHER -> /\ loop' = [loop EXCEPT !.absent = 0, !.required = CLEANUP_ABSENCE_SNAPSHOTS,
                                           !.deletes = @ + 1, !.target = target]
                   /\ Go("delete") /\ UNCHANGED cleanup_failed

Snapshot ==
  /\ pc = "list" /\ ~late
  /\ \E shown \in Shows(kind) :
       LET observation == InspectListing(Listing(kind, shown), "unique", VerifiedId)
       IN /\ Listed(kind, shown)
          /\ IF observation = None THEN Returns(FALSE) ELSE Decide(observation)
  /\ UNCHANGED <<script, compose_touched, late, containers, private, jobs, deleted, files>>

\* Mutant: a listing that fails is asked for again.
SnapshotRetries ==
  /\ pc = "list"
  /\ loop' = [loop EXCEPT !.absent = 0] /\ Go("list") /\ UNCHANGED cleanup_failed
  /\ UNCHANGED <<script, compose_touched, late, provider, containers, private, jobs, deleted,
                 files>>

\* The deadline has passed, or the listing was incomplete.
SnapshotFails ==
  /\ pc = "list" /\ Returns(FALSE)
  /\ UNCHANGED <<script, compose_touched, late, provider, containers, private, jobs, deleted,
                 files>>

\* The delete command: only the next listings tell whether it worked.
DeleteResource ==
  /\ pc = "delete"
  /\ deleted' = deleted \cup {loop.target}
  /\ resource' \in IF loop.target = "own" /\ resource[kind] = "live"
                   THEN {resource, [resource EXCEPT ![kind] = "gone"]} ELSE {resource}
  /\ NextIteration(loop)
  /\ UNCHANGED <<script, compose_touched, late, taken, seen, missed, containers, private, jobs, files>>

DeadlinePasses ==
  /\ pc \in Cleanup \ {"recovery"} /\ ~late /\ late' = TRUE
  /\ UNCHANGED <<pc, kind, script, original_status, cleanup_failed, compose_touched, loop,
                 provider, review, containers, private, jobs, deleted, files>>

\* The private state; a failure to delete it is written to the recovery note.
DeleteState ==
  /\ pc = "state" /\ Go("retract")
  /\ \/ private' = FALSE /\ UNCHANGED <<cleanup_failed, recovery>>
     \/ cleanup_failed' = TRUE /\ NoteWritten /\ UNCHANGED private
  /\ UNCHANGED <<script, compose_touched, loop, late, provider, containers, jobs, deleted,
                 finalized, cleanup_status, manifest>>

\* Mutant: the note goes whatever cleanup found.
RetractAlways ==
  /\ pc = "retract" /\ recovery' = "absent"
  /\ Go("status")
  /\ UNCHANGED <<script, cleaning, provider, containers, private, jobs, deleted, finalized,
                 cleanup_status, manifest>>

\* The recovery note is removed only after a complete cleanup.
RetractRecovery ==
  /\ pc = "retract"
  /\ IF cleanup_failed
     THEN original_status' = 1 /\ UNCHANGED recovery
     ELSE recovery' \in {recovery, "absent"} /\ UNCHANGED original_status
  /\ pc' = "status"
  /\ UNCHANGED <<kind, script, cleaning, provider, review, containers, private, jobs, deleted,
                 finalized, cleanup_status, manifest>>

\* Nothing checks that the status was written.
WriteStatus ==
  /\ pc = "status" /\ cleanup_status' \in {IF cleanup_failed THEN 0 ELSE 1, None}
  /\ Go("manifest")
  /\ UNCHANGED <<script, cleaning, provider, containers, private, jobs, deleted, finalized,
                 recovery, manifest>>

\* evidence_manifest.py, the last step, with the cleanup status it records
WriteManifest ==
  /\ pc = "manifest" /\ Go("ended")
  /\ manifest' = IF cleanup_failed THEN 0 ELSE 1
  /\ UNCHANGED <<script, cleaning, provider, containers, private, jobs, deleted, finalized,
                 recovery, cleanup_status>>

ManifestFails ==
  /\ pc = "manifest"
  /\ cleanup_failed' = TRUE /\ NoteWritten /\ cleanup_status' \in {0, None, cleanup_status}
  /\ original_status' = 1 /\ pc' = "ended"
  /\ UNCHANGED <<kind, script, compose_touched, loop, late, provider, review, containers,
                 private, jobs, deleted, finalized, manifest>>

(***************************************************************************)
(* INT, TERM and HUP exit; KILL ends the script at once                    *)
(***************************************************************************)
Signal ==
  /\ \/ pc \in Body \cup {"trap"} /\ Exit(1)
     \/ /\ pc \in Cleanup /\ pc' = "ended" /\ original_status' = 1
        /\ UNCHANGED <<kind, review>>
  /\ UNCHANGED <<script, cleaning, provider, containers, private, jobs, deleted, files>>

Kill ==
  /\ pc # "ended" /\ pc' = "ended" /\ original_status' = 1
  /\ UNCHANGED <<kind, script, cleaning, provider, review, containers, private, jobs, deleted,
                 files>>

BodyStep ==
  \/ Preflight \/ ComposeUp \/ Prepare \/ ComposeDown
  \/ Precreate \/ Create \/ CreatedId \/ GetTemplate \/ GetEndpoint
  \/ Run \/ Finalize \/ Billing

CleanupStep ==
  \/ EnterCleanup \/ WriteRecovery \/ CleanupCompose
  \/ CleanupResource \/ Snapshot \/ SnapshotFails \/ DeleteResource
  \/ DeleteState \/ RetractRecovery \/ WriteStatus \/ WriteManifest \/ ManifestFails

Next ==
  \/ BodyStep \/ CleanupStep
  \/ \E f \in Fields : Drift(f)
  \/ DeadlinePasses \/ Signal \/ Kill

Spec == Init /\ [][Next]_vars

\* Every command of the script has a timeout, so each step ends.
FairSpec == Spec /\ WF_vars(BodyStep \/ CleanupStep)

(***************************************************************************)
(* Properties                                                              *)
(***************************************************************************)

NothingLeft ==
  /\ \A k \in Kinds : resource[k] # "live"
  /\ ~containers /\ ~private

\* cleanup-status.txt and the manifest claim a complete cleanup only when no
\* endpoint, no template, no container and no private state is left, however late
\* an ambiguous create became visible and whatever step failed or was cut short.
CompleteMeansNothingLeft ==
  cleanup_status = 1 \/ manifest = 1 => NothingLeft

\* RECOVERY.txt stands beside every incomplete result, and beside a verified
\* resource for as long as it lives, whenever the script is killed: it is unusable
\* only where its last write failed.  No job is submitted before it was written.
RecoveryIsKept ==
  /\ cleanup_status = 0 => recovery # "absent"
  /\ \A k \in id_verified : resource[k] = "live" => recovery # "absent"
  /\ pc = "run" => recovery = "whole"

\* The script deletes nothing but what it created: neither a resource whose
\* identifier a create response made up nor one that has its name by accident.
OnlyOwnDeleted == deleted \subseteq {"own"}

\* The job is submitted only on the run's own endpoint, and only if every field
\* of its configuration was as requested in each document read after it was set.
JobOnReviewedConfiguration ==
  jobs = 1 =>
    /\ \A k \in Kinds : id[k] = "own" /\ k \in id_verified
    /\ deviant # None => since > 0 /\ \A n \in since + 1 .. 3 : deviant \notin Reports[n]

\* A run that exits with status 0 has finalized its one job, left nothing behind
\* and recorded so in the manifest; cleanup-status.txt says nothing else.
SuccessIsComplete ==
  pc = "ended" /\ original_status = 0 =>
    jobs = 1 /\ finalized /\ NothingLeft /\ cleanup_status # 0 /\ manifest = 1

\* The script ends, whatever the provider answers.
ScriptEnds == <>(pc = "ended")
=============================================================================
