------------------------ MODULE InventoryInvariant ------------------------
(***************************************************************************)
(* The inductive invariants behind the theorems on InventoryApplication:   *)
(* IInv for the store and the handler, RInv for what the callers are told. *)
(* AtMostOneInvocation is not inductive by itself: what makes it hold is   *)
(* that the write lock is held exactly during a transaction, that what a   *)
(* transaction staged stays true of the tables until it commits, and that  *)
(* every committed first spend owns its credential's redemption row.       *)
(***************************************************************************)
EXTENDS InventoryApplication

\* Steps a call takes only after it won the credential
Winning == {"invoke", "handler", "completed", "failed"}

\* The call committed the first spend of its credential.
Won(k) == Committed(k) /\ spend[k].first_spend

\* The write lock belongs to the call inside its transaction, and to no other.
LockHeldInTransaction ==
  \A k \in Calls : (writer = k) <=> pc[k] \in {"locked", "commit"}

\* A call with a token presented a credential of the broker with a legal id.
TokenMeansCredential ==
  \A k \in Calls : tokenHash[k] # None =>
    /\ request[k] \in Requests
    /\ Cid(k) \in CredentialIds
    /\ request[k].credential.signer = BrokerKey

\* Where in redeem a call has a token, a proof that verified, a spend result
InPhase(k) ==
  /\ pc[k] = "idle" => tokenHash[k] = None
  /\ pc[k] \in PreHandler \cup Winning \/ spend[k] # None => tokenHash[k] # None
  /\ pc[k] \in {"begin", "locked", "commit"} \/ spend[k] # None =>
       /\ request[k].holder_proof.signature.key = request[k].credential.subject
       /\ request[k].holder_proof.signature.sku = request[k].sku
  /\ spend[k] # None => pc[k] \in {"commit", "spent", "deny", "done", "lost"} \cup Winning
  /\ pc[k] \in {"commit", "spent"} => spend[k] # None
  /\ pc[k] \in Winning \/ Invoked(k) => Won(k)

Progress == \A k \in Calls : InPhase(k)

\* What the transaction read is still so when it commits.
StagedIsCurrent ==
  \A k \in Calls : pc[k] = "commit" =>
    /\ spend[k].first_spend <=> credential_redemptions[Cid(k)] = None
    /\ resource_challenges[tokenHash[k]] # None
    /\ resource_challenges[tokenHash[k]].consumed_at = None
    /\ ContextMatches(resource_challenges[tokenHash[k]], request[k])
    /\ spend[k].committed_at < resource_challenges[tokenHash[k]].expires_at
    /\ InWindow(request[k].credential, spend[k].committed_at)

\* The call's rows are in the tables: its redemption and its consumed challenge.
Owns(k) ==
  /\ credential_redemptions[Cid(k)] =
       [token |-> tokenHash[k], record_id |-> request[k].record_id,
        redeemed_at |-> spend[k].committed_at]
  /\ resource_challenges[tokenHash[k]] # None
  /\ resource_challenges[tokenHash[k]].consumed_at = spend[k].committed_at
  /\ ContextMatches(resource_challenges[tokenHash[k]], request[k])
  /\ spend[k].committed_at < resource_challenges[tokenHash[k]].expires_at
  /\ InWindow(request[k].credential, spend[k].committed_at)

WinnersOwn == \A k \in Calls : Won(k) => Owns(k)

\* No two calls won the same credential.
OneWinner == \A j, k \in Calls : Won(j) /\ Won(k) /\ Cid(j) = Cid(k) => j = k

\* The inductive invariant: the lock discipline, the phases of redeem, the
\* staged transaction, and the ownership of committed rows
IInv ==
  /\ TypeOK
  /\ LockHeldInTransaction
  /\ TokenMeansCredential
  /\ Progress
  /\ StagedIsCurrent
  /\ WinnersOwn
  /\ OneWinner
  /\ SpendIsAtomic

(***************************************************************************)
(* What the callers are told.  A receipt is built from locals that were    *)
(* set steps earlier, so its truth rests on how each of them was reached.  *)
(***************************************************************************)

\* Steps of a call whose handler has been invoked and that is not answered
InHandler == {"handler", "completed", "failed"}

\* An invocation number is drawn once, in the boot that is running, and the
\* counter of that boot never falls behind it.
Numbered(k) ==
  /\ pc[k] \in InHandler => Invoked(k) /\ bootOf[k] = boot
  /\ Invoked(k) => /\ pc[k] \in InHandler \cup {"done", "lost"}
                   /\ bootOf[k] \in Nat /\ bootOf[k] <= boot
                   /\ bootOf[k] = boot => invocation[k] <= invocation_count

\* No two invocations of one boot share a number.
DistinctNumbers ==
  \A j, k \in Calls :
    Invoked(j) /\ Invoked(k) /\ bootOf[j] = bootOf[k] /\ invocation[j] = invocation[k]
      => j = k

\* The reason about to be reported fits the branch that reports it, and a call
\* that got as far as a token has a credential to report.
Reasoned(k) ==
  /\ tokenHash[k] # None => request[k].credential # None
  /\ pc[k] = "deny" => reason[k] \in Reasons \ AllowReasons
  /\ pc[k] = "completed" => reason[k] = "ALLOW" /\ LookupSucceeds(request[k].sku)
  /\ pc[k] = "failed" => reason[k] = "HANDLER_FAILED" /\ ~LookupSucceeds(request[k].sku)

\* What a call read before locking was committed, and commits are final.
ReadIsPast(k) ==
  pc[k] = "check" /\ stored[k] # None =>
    /\ resource_challenges[tokenHash[k]] # None
    /\ stored[k].consumed_at # None => resource_challenges[tokenHash[k]].consumed_at # None

\* A call that lost the credential burnt its own token; another token holds
\* the redemption.
LoserBurnt(k) ==
  Committed(k) /\ ~spend[k].first_spend =>
    /\ credential_redemptions[Cid(k)] # None
    /\ credential_redemptions[Cid(k)].token # tokenHash[k]
    /\ resource_challenges[tokenHash[k]] # None
    /\ resource_challenges[tokenHash[k]].consumed_at # None

\* The call is being denied, or has been.
Denied(k) == pc[k] = "deny" \/ (pc[k] = "done" /\ ~Invoked(k))

\* A denial's reason fits what the call did to the store.
DenialFits(k) ==
  Denied(k) =>
    /\ reason[k] = "CREDENTIAL_SPENT" => Committed(k) /\ ~spend[k].first_spend
    /\ reason[k] = "CHALLENGE_CONSUMED" =>
         /\ spend[k] = None
         /\ tokenHash[k] # None
         /\ resource_challenges[tokenHash[k]] # None
         /\ resource_challenges[tokenHash[k]].consumed_at # None
    /\ Committed(k) =>
         reason[k] \in {"CREDENTIAL_SPENT", "CHALLENGE_STALE", "CREDENTIAL_EXPIRED", "INTERNAL_ERROR"}

\* The CallToolResult of a call that is over repeats the call's own locals.
Reported(k) ==
  mcp[k] # None =>
    /\ pc[k] = "done"
    /\ mcp[k].kind \in {"decision", "unsigned", "exception"}
    /\ mcp[k].kind = "exception" => ~Invoked(k)
    /\ mcp[k].kind = "unsigned" =>
         /\ Invoked(k)
         /\ mcp[k].invocation_id = invocation[k]
         /\ mcp[k].handler_completed = LookupSucceeds(request[k].sku)
    /\ mcp[k].kind = "decision" =>
         /\ mcp[k].receipt.reason = reason[k]
         /\ mcp[k].receipt.handler_invoked <=> Invoked(k)
         /\ mcp[k].receipt.decision = "deny" => ~Invoked(k)
         /\ Invoked(k) =>
              /\ mcp[k].receipt.invocation_id = invocation[k]
              /\ mcp[k].receipt.handler_count_snapshot >= invocation[k]
              /\ mcp[k].is_error <=> ~LookupSucceeds(request[k].sku)

CallInv(k) ==
  /\ Numbered(k)
  /\ Reasoned(k)
  /\ ReadIsPast(k)
  /\ LoserBurnt(k)
  /\ DenialFits(k)
  /\ Reported(k)

\* Every consumed challenge was consumed by a call that committed with it.
ConsumersCommitted ==
  \A t \in Tokens :
    resource_challenges[t] # None /\ resource_challenges[t].consumed_at # None =>
      \E k \in Calls : Committed(k) /\ tokenHash[k] = t

\* The inductive invariant on receipts, relative to IInv
RInv ==
  /\ mcp = [k \in Calls |-> mcp[k]]
  /\ DistinctNumbers
  /\ ConsumersCommitted
  /\ \A k \in Calls : CallInv(k)
=============================================================================
