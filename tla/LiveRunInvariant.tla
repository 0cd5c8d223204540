-------------------------- MODULE LiveRunInvariant --------------------------
(***************************************************************************)
(* The inductive invariant behind the theorems on LiveRun.  What the       *)
(* evidence files may claim rests on cleanup_failed remembering, phase by  *)
(* phase, everything that is not yet known to be gone; that a resource is  *)
(* gone rests on the listings in a row that omitted it being more than the *)
(* provider's lag allows, for a resource seen before and for one never     *)
(* seen.                                                                   *)
(***************************************************************************)
EXTENDS LiveRun

LoopType ==
  [iteration : Nat, absent : Nat, deletes : Nat, required : Nat, target : {None, "own"}]

TypeOK ==
  /\ pc \in Body \cup Cleanup \cup {"trap", "ended"} /\ kind \in Kinds
  /\ create_attempted \in SUBSET Kinds /\ id_verified \in SUBSET Kinds
  /\ id \in [Kinds -> {None, "own", "unrelated"}]
  /\ original_status \in {0, 1}
  /\ cleanup_failed \in BOOLEAN /\ compose_touched \in BOOLEAN
  /\ loop \in LoopType
  /\ resource \in [Kinds -> {"none", "live", "gone"}]
  /\ seen \in SUBSET Kinds /\ missed \in [Kinds -> Nat]
  /\ deviant \in Fields \cup {None} /\ since \in 0 .. 3
  /\ containers \in BOOLEAN /\ private \in BOOLEAN
  /\ jobs \in Nat
  /\ finalized \in BOOLEAN /\ recovery \in {"absent", "whole", "lost"}
  /\ cleanup_status \in {None, 0, 1} /\ manifest \in {None, 0, 1}

Making  == {"precreate", "create", "id", "get"}
Working == {"run", "finalize", "billing"}
Looping == {"resource", "list", "delete"}
Closing == {"status", "manifest"}

\* The run makes and verifies one resource after the other, under a name that
\* was free, and verifies only its own.
OwnResources ==
  /\ create_attempted \cap taken = {}
  /\ pc = "create" => kind \notin taken
  /\ \A k \in Kinds : resource[k] # "none" => k \in create_attempted
  /\ \A k \in id_verified : id[k] = "own" /\ k \in seen /\ k \in create_attempted
  /\ pc \in {"id", "get", "list", "delete"} => kind \in create_attempted
  /\ pc \in Body \ (Making \cup Working) => id_verified = {} /\ kind = "template"
  /\ pc \in Making => id_verified = {"template"} \ {kind}
  /\ pc \in Working => id_verified = Kinds /\ kind = "endpoint"
  /\ deleted \subseteq {"own"}

\* A live resource has been missing from at least as many listings as cleanup
\* counted, and the short horizon is used only for a resource seen before.
Absence ==
  /\ pc = "list" =>
       /\ loop.required \in {CLEANUP_ABSENCE_SNAPSHOTS, CLEANUP_UNVERIFIED_ABSENCE_SNAPSHOTS}
       /\ kind \in seen \/ loop.required = CLEANUP_UNVERIFIED_ABSENCE_SNAPSHOTS
       /\ resource[kind] = "live" => loop.absent <= missed[kind]
  /\ pc = "delete" =>
       /\ loop.required = CLEANUP_ABSENCE_SNAPSHOTS /\ loop.absent = 0
       /\ kind \in seen /\ loop.target = "own"

\* What is gone by each phase of the cleanup, unless cleanup_failed says not
Cleaned ==
  /\ containers => compose_touched
  /\ pc \in {"prepare", "compose_down"} => compose_touched
  /\ pc \in {"trap", "recovery", "down"} => kind = "endpoint"
  /\ pc \in Looping \cup {"state", "retract"} \cup Closing /\ ~cleanup_failed =>
       /\ ~containers
       /\ kind = "template" => resource["endpoint"] # "live"
  /\ pc \in {"state", "retract"} \cup Closing =>
       kind = "template" /\ (~cleanup_failed => resource["template"] # "live")
  /\ pc \in {"retract"} \cup Closing /\ ~cleanup_failed => ~private

\* When the recovery note is there, and what the evidence files say
Evidence ==
  /\ pc \in {"get", "down", "state", "retract"} \cup Looping => recovery # "absent"
  /\ pc \in Closing /\ cleanup_failed => recovery # "absent" /\ original_status = 1
  /\ \A k \in id_verified : resource[k] = "live" => recovery # "absent"
  /\ pc = "run" => recovery = "whole"
  /\ cleanup_status # None => pc \in {"manifest", "ended"}
  /\ pc = "manifest" => cleanup_status \in {IF cleanup_failed THEN 0 ELSE 1, None}
  /\ cleanup_status = 0 => recovery # "absent"
  /\ manifest # None => pc = "ended"
  /\ cleanup_status = 1 \/ manifest = 1 => NothingLeft

\* One job, finalized before the script may exit with status 0
OneJob ==
  /\ pc \in Body \ {"finalize", "billing"} => jobs = 0
  /\ pc \in {"finalize", "billing"} => jobs = 1
  /\ pc = "billing" => finalized
  /\ jobs # 0 => id_verified = Kinds
  /\ pc \notin Body /\ original_status = 0 => jobs = 1 /\ finalized
  /\ pc = "ended" /\ original_status = 0 => cleanup_status # 0 /\ manifest = 1

\* A deviation that the documents from n on report came after the first of them.
Unreported(n) == \A m \in since + 1 .. n : deviant \notin Reports[m]

\* The documents read so far reported no deviation.
Reviewed ==
  /\ pc \in Making /\ kind = "endpoint" /\ deviant # None => Unreported(1)
  /\ pc \in Working \/ jobs # 0 => (deviant # None => since > 0 /\ Unreported(3))

\* The inductive invariant
LInv ==
  /\ TypeOK
  /\ OwnResources
  /\ Absence
  /\ Cleaned
  /\ Evidence
  /\ OneJob
  /\ Reviewed
=============================================================================
