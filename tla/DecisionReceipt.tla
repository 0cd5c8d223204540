-------------------------- MODULE DecisionReceipt --------------------------
(***************************************************************************)
(* The signed decision receipts of src/atcap/receipt.py, shared by the     *)
(* broker and by inventoryd: the closed set of reasons and the semantic    *)
(* validator that every payload passes before it is signed and again after *)
(* its signature is verified.  Hashes, identifiers and wire encodings are  *)
(* the values they stand for; a required string is present or None.        *)
(***************************************************************************)
EXTENDS Naturals

CONSTANT None            \* Python's None: an absent row, field or identifier

\* errors.Reason
Reasons ==
  {"ALLOW", "UNAUTHENTICATED", "CHALLENGE_INVALID", "CHALLENGE_STALE",
   "CHALLENGE_CONSUMED", "TPM_INVALID", "TPM_UNTRUSTED", "PCR_POLICY",
   "MANIFEST_INVALID", "MANIFEST_POLICY", "IDENTITY_UNAUTHORIZED",
   "IDENTITY_SIGNATURE", "REQUEST_BINDING", "CREDENTIAL_INVALID",
   "CREDENTIAL_EXPIRED", "SCOPE_DENIED", "HOLDER_PROOF_INVALID",
   "CREDENTIAL_SPENT", "RECEIPT_INVALID", "HANDLER_FAILED", "INTERNAL_ERROR"}

\* Reasons of the allow path of inventoryd
AllowReasons == {"ALLOW", "HANDLER_FAILED"}

\* Mutant: every broker receipt must name a challenge and a manifest.
BrokerConsistentAllBound(p) ==
  /\ (p.decision = "allow") <=> (p.reason = "ALLOW")
  /\ (p.decision = "allow") <=> (p.credential_id # None)
  /\ None \notin {p.manifest_digest, p.challenge_token_hash}

\* The broker's half of _consistent_decision_state
BrokerConsistent(p) ==
  /\ ~p.handler_invoked /\ p.business_result = "not_applicable"
  /\ p.handler_count_snapshot = 0
  /\ p.reason # "HANDLER_FAILED"
  /\ (p.decision = "allow") <=> (p.reason = "ALLOW")
  /\ (p.decision = "allow") <=> (p.credential_id # None)
  /\ p.decision = "allow" => None \notin {p.manifest_digest, p.challenge_token_hash}

\* Mutant: denials too must name a credential.
InventoryConsistentAllBound(p) ==
  /\ (p.decision = "allow") <=> (p.reason \in AllowReasons)
  /\ p.credential_id # None

\* inventoryd's half of _consistent_decision_state.  Scope, method, audience
\* and arguments digest come from the policy and the parsed call: never None.
InventoryConsistent(p) ==
  \/ /\ p.decision = "deny"
     /\ p.reason \notin AllowReasons
     /\ ~p.handler_invoked /\ p.business_result = "not_invoked"
  \/ /\ p.decision = "allow"
     /\ p.handler_invoked
     /\ None \notin {p.credential_id, p.challenge_token_hash, p.record_id}
     /\ <<p.reason, p.business_result>> \in
          {<<"ALLOW", "completed">>, <<"HANDLER_FAILED", "failed">>}

\* DecisionReceiptPayload's validators: the payload may be signed
ConsistentDecisionState(p) ==
  /\ p.reason \in Reasons
  /\ p.handler_invoked <=> (p.invocation_id # None)
  /\ p.invocation_id # None => p.handler_count_snapshot >= p.invocation_id
  /\ IF p.deciding_service = "broker" THEN BrokerConsistent(p)
                                      ELSE InventoryConsistent(p)
=============================================================================
