--------------------------- MODULE WorkerProtocol ---------------------------
(***************************************************************************)
(* The lab's cases, what the remote worker answers to each prepared        *)
(* request, and what the controller accepts: lab/worker.py, worker_wire.py *)
(* and the validation half of lab/controller.py.                           *)
(*                                                                         *)
(* A request is determined by its run id <<variant, index>>: the case's    *)
(* own credential, a challenge of its own and a record id of its own.      *)
(* Signatures are ideal: the record of the key and of what it signed.      *)
(***************************************************************************)
EXTENDS Naturals, Sequences, FiniteSets

CONSTANT Concurrency      \* requests of the concurrent case (the CLI's is 8)

ASSUME ConcurrencyAssumption == Concurrency \in Nat /\ Concurrency >= 2

\* Mutant: the concurrent case runs before the replay.
CaseSpecsReordered ==
  <<"valid", "concurrent", "replay", "argument-substitution", "record-substitution",
    "wrong-holder", "malformed">>

\* _case_specs: the fixed case matrix, in its order
CaseSpecs ==
  <<"valid", "replay", "argument-substitution", "record-substitution",
    "wrong-holder", "malformed", "concurrent">>

Variants == {"valid", "replay", "argument-substitution", "record-substitution",
             "wrong-holder", "malformed", "concurrent"}

\* The cases whose first redemption is allowed
AllowPath == {"valid", "replay", "concurrent"}

Count(v) == IF v = "concurrent" THEN Concurrency ELSE 1

Runs(v) == {<<v, i>> : i \in 1 .. Count(v)}

RunIds == UNION {Runs(v) : v \in Variants}

(***************************************************************************)
(* The worker                                                              *)
(***************************************************************************)

\* Keys: the disposable holder's, and the one a wrong-holder proof is made with.
\* Sku and record are the request's or its "-substituted" form.
\* build_holder_proof over the challenge of run r, as variant v prescribes
ProofSignature(r, v) ==
  IF v = "malformed" THEN [sentinel |-> 7]
  ELSE [key |-> IF v = "wrong-holder" THEN "fresh" ELSE "holder",
        credential |-> r[1], challenge |-> r,
        sku |-> IF v = "argument-substitution" THEN "substituted" ELSE "requested",
        record |-> IF v = "record-substitution" THEN "substituted" ELSE "requested"]

\* generate: the response to the request of run r, were its variant v
Generate(r, v) ==
  [case_id |-> r[1], run_id |-> r, request_sha256 |-> r,
   worker_public_key |-> "holder", worker_image |-> "pinned", worker_code_digest |-> "pinned",
   proof_subject |-> IF v = "wrong-holder" THEN "fresh" ELSE "holder",
   holder_proof |-> [challenge |-> r, signature |-> ProofSignature(r, v)],
   holder_signature |-> "holder"]

\* process_payload: one response per request of the payload
ProcessPayload(runs) == {Generate(r, r[1]) : r \in runs}

(***************************************************************************)
(* The controller's verdict on what came back                              *)
(***************************************************************************)

\* _verify_worker_response: the answer is bound to the request, the key, the
\* image and the code digest that were prepared, and signed by the holder
WorkerResponseBound(r, resp) ==
  /\ resp.case_id = r[1] /\ resp.run_id = r
  /\ resp.request_sha256 = r
  /\ resp.worker_public_key = "holder"
  /\ resp.worker_image = "pinned"
  /\ resp.worker_code_digest = "pinned"
  /\ resp.holder_signature = "holder"

\* _proof_verifies: verify_holder_proof for this subject, record and SKU
ProofVerifies(r, resp, subject, record, sku) ==
  resp.holder_proof.signature =
    [key |-> subject, credential |-> r[1], challenge |-> resp.holder_proof.challenge,
     sku |-> sku, record |-> record]

\* What inventoryd will find: the proof holds for the call it is redeemed with
VerifiesOriginal(r, resp) == ProofVerifies(r, resp, "holder", "requested", "requested")

\* _preappraise_prescribed_proof: the proof is the very one the variant asks for
ProofAsPrescribed(r, resp) ==
  /\ resp.holder_proof.challenge = r
  /\ (resp.proof_subject = "holder") <=> (r[1] # "wrong-holder")
  /\ VerifiesOriginal(r, resp) <=> (r[1] \in AllowPath)
  /\ CASE r[1] \in AllowPath -> TRUE
       [] r[1] = "argument-substitution" -> ProofVerifies(r, resp, "holder", "requested", "substituted")
       [] r[1] = "record-substitution" -> ProofVerifies(r, resp, "holder", "substituted", "requested")
       [] r[1] = "wrong-holder" -> ProofVerifies(r, resp, resp.proof_subject, "requested", "requested")
       [] r[1] = "malformed" -> resp.holder_proof.signature = [sentinel |-> 7]

\* _validate_case_inputs: exactly one acceptable response per prepared request
CaseAccepted(v, responses) ==
  /\ Cardinality(responses) = Count(v)
  /\ {resp.run_id : resp \in responses} = Runs(v)
  /\ \A resp \in responses :
       WorkerResponseBound(resp.run_id, resp) /\ ProofAsPrescribed(resp.run_id, resp)

\* WorkerResponseBundle: no two responses share a run id
UniqueRunIds(bundle) == Cardinality({resp.run_id : resp \in bundle}) = Cardinality(bundle)

\* Mutant: a case is validated when its turn comes, so only the first counts.
BundleAcceptedFirstCaseOnly(specs, bundle) ==
  /\ UniqueRunIds(bundle)
  /\ {resp.run_id : resp \in bundle} = UNION {Runs(specs[n]) : n \in 1 .. Len(specs)}
  /\ CaseAccepted(specs[1], {resp \in bundle : resp.case_id = specs[1]})

\* finalize and finalize_cases up to the first redemption: the run ids are the
\* prepared ones and every case is acceptable
BundleAccepted(specs, bundle) ==
  /\ UniqueRunIds(bundle)
  /\ {resp.run_id : resp \in bundle} = UNION {Runs(specs[n]) : n \in 1 .. Len(specs)}
  /\ \A n \in 1 .. Len(specs) :
       CaseAccepted(specs[n], {resp \in bundle : resp.case_id = specs[n]})
=============================================================================
