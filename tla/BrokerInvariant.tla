-------------------------- MODULE BrokerInvariant --------------------------
(***************************************************************************)
(* The inductive invariant behind the theorems on CapabilityBroker.  That  *)
(* a challenge yields one credential rests on the lock discipline, on what *)
(* a transaction staged staying true until it commits, and on every        *)
(* committed consumption owning its row; that the credential is backed     *)
(* rests on the appraisal having passed before the lock was asked for.     *)
(***************************************************************************)
EXTENDS CapabilityBroker

\* The appraisal found nothing to object to, at some reading of its clock.
Passed(s) == \E t \in 0 .. MaxTime : AppraisalRefusals(s, t) = {}

\* The configured anchors are CAs, without which every quote is TPM_UNTRUSTED.
RootsAreIssuers ==
  Len(Policy.roots) >= 1 /\ \A n \in DOMAIN Policy.roots : IsIssuer(Policy.roots[n])

\* The arguments were of the right types when issue began.
Typed(s) == s \in Submissions /\ s.request # None /\ s.evidence # None

\* The write lock belongs to the call inside its transaction, and to no other.
LockHeldInTransaction ==
  \A k \in Calls : (writer = k) <=> pc[k] \in {"locked", "commit"}

\* Where in issue a call has arguments, an appraisal, a consumption, a credential
InPhase(k) ==
  /\ pc[k] = "idle" => /\ submission[k] = None /\ consumedAt[k] = None
                       /\ credential[k] = None /\ reason[k] = None
  /\ pc[k] # "idle" => submission[k] \in Submissions
  /\ pc[k] \in InTry \/ consumedAt[k] # None => Typed(submission[k])
  /\ pc[k] \in InTry \ {"appraise"} \/ consumedAt[k] # None => Passed(submission[k])
  /\ pc[k] \in {"commit", "mint", "sign"} => consumedAt[k] # None
  /\ consumedAt[k] # None => pc[k] \in {"commit", "mint", "sign", "deny", "done", "lost"}
  /\ pc[k] = "sign" => credential[k] # None
  /\ credential[k] # None => Consumed(k) /\ pc[k] # "mint"
  /\ credential[k] # None => credential[k].subject = Holder(k)

\* What the transaction read is still so when it commits.
StagedIsCurrent(k) ==
  pc[k] = "commit" =>
    /\ broker_challenges[Token(k)] # None
    /\ broker_challenges[Token(k)].consumed_at = None
    /\ consumedAt[k] < broker_challenges[Token(k)].expires_at

\* A committed consumption is in the table, made in time.
ConsumerOwns(k) ==
  Consumed(k) =>
    /\ broker_challenges[Token(k)] # None
    /\ broker_challenges[Token(k)].consumed_at = consumedAt[k]
    /\ consumedAt[k] < broker_challenges[Token(k)].expires_at

\* Why a call is being, or was, refused
RefusalFits(k) ==
  /\ pc[k] = "deny" => reason[k] \in Reasons \ AllowReasons
  /\ reason[k] # None =>
       /\ pc[k] \in {"deny", "done", "lost"}
       /\ \/ reason[k] \in {"CHALLENGE_INVALID", "CHALLENGE_STALE", "CHALLENGE_CONSUMED",
                            "INTERNAL_ERROR"}
          \/ ~Typed(submission[k])
          \/ \E t \in 0 .. MaxTime : AppraisalRefusals(submission[k], t) # {}
       /\ Consumed(k) => reason[k] = "INTERNAL_ERROR"
       /\ reason[k] = "CHALLENGE_CONSUMED" =>
            /\ Typed(submission[k])
            /\ broker_challenges[Token(k)] # None
            /\ broker_challenges[Token(k)].consumed_at # None

\* What issue returned repeats the call's own locals.
Returned(k) ==
  decision[k] # None =>
    /\ pc[k] = "done"
    /\ decision[k].credential # None =>
         /\ decision[k].credential = credential[k]
         /\ decision[k].receipt.credential_id = credential[k].credential_id
         /\ decision[k].receipt.challenge_token_hash = Token(k)
    /\ decision[k].kind = "decision" => decision[k].receipt.reason \in {"ALLOW", reason[k]} \ {None}

CallInv(k) ==
  /\ InPhase(k)
  /\ StagedIsCurrent(k)
  /\ ConsumerOwns(k)
  /\ RefusalFits(k)
  /\ Returned(k)

\* No two calls consumed the same challenge.
OneConsumer ==
  \A j, k \in Calls : Consumed(j) /\ Consumed(k) /\ Token(j) = Token(k) => j = k

\* Every consumed challenge was consumed by a call.
ConsumersExist ==
  \A t \in Tokens :
    broker_challenges[t] # None /\ broker_challenges[t].consumed_at # None =>
      \E k \in Calls : Consumed(k) /\ Token(k) = t

DistinctIds ==
  \A j, k \in Calls :
    credential[j] # None /\ credential[k] # None
      /\ credential[j].credential_id = credential[k].credential_id => j = k

\* The inductive invariant
BInv ==
  /\ TypeOK
  /\ decision = [k \in Calls |-> decision[k]]
  /\ LockHeldInTransaction
  /\ OneConsumer
  /\ ConsumersExist
  /\ DistinctIds
  /\ \A k \in Calls : CallInv(k)
=============================================================================
