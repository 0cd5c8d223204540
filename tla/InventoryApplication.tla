------------------------ MODULE InventoryApplication ------------------------
(***************************************************************************)
(* inventoryd: src/atcap/inventory.py with the resource half of the        *)
(* SQLite store, src/atcap/storage.py.                                     *)
(*                                                                         *)
(* Every MCP lookup runs InventoryApplication.redeem in a worker thread    *)
(* (asyncio.to_thread), so several calls interleave between their reads of *)
(* the clock, of the committed tables and of the invocation counter.  One  *)
(* step of a call is the code between two such accesses.  SQLite runs in   *)
(* WAL mode: readers see the last commit and never wait; BEGIN IMMEDIATE   *)
(* takes the one write lock.  The process may die at any point and restart *)
(* on the same database file.                                              *)
(*                                                                         *)
(* Signatures are ideal: a signature is the record of who signed what.     *)
(* The method and the audience are the policy's in every row and in every  *)
(* proof that verifies, so neither is a field.  The random part of a token *)
(* is unguessable: a token names one issuance.                             *)
(***************************************************************************)
EXTENDS DecisionReceipt, Integers

CONSTANTS
  Calls,             \* MCP tool calls, each made once
  Tokens,            \* resource challenge tokens, each drawn at most once
  CredentialIds,     \* identifiers that match _CREDENTIAL_ID_RE
  Skus, RecordIds,   \* the business argument and the record id of a call
  ChallengeInputs,   \* the (credential_id, sku, record_id) challenges asked for
  Requests,          \* the LookupInputs that arrive
  BrokerKey,         \* policy.trusted_broker_public_hex
  QualifiedScope,    \* policy.qualified_scope
  Catalog,           \* Skus -> quantity, for the SKUs the catalogue holds
  ChallengeTTL,      \* policy.challenge_ttl_seconds
  MaxLifetime,       \* policy.max_credential_lifetime_seconds
  MaxTime,           \* bound: the clock reads 0 .. MaxTime
  MaxBoots           \* bound: restarts of the process

VARIABLES
  now,                      \* what self.clock() returns
  resource_challenges,      \* committed table, by token
  credential_redemptions,   \* committed table, by credential id
  writer,                   \* the call that holds SQLite's write lock
  invocation_count,         \* self._invocation_count
  boot,                     \* restarts so far
  pc,                       \* where each call is
  request,                  \* the LookupInput of each call
  tokenHash,                \* redeem's local token_hash
  stored,                   \* redeem's local: the row it read before locking
  spend,                    \* redeem's local CredentialSpendResult
  invocation,               \* redeem's local invocation_number
  bootOf,                   \* the boot in which the handler was invoked
  reason,                   \* the reason of the decision being reported
  mcp                       \* the CallToolResult handed to the MCP layer

store  == <<resource_challenges, credential_redemptions>>
locals == <<request, tokenHash, stored, spend, invocation, bootOf, reason>>
vars   == <<now, store, writer, invocation_count, boot, pc, locals, mcp>>

(***************************************************************************)
(* Data                                                                    *)
(***************************************************************************)

\* A row of resource_challenges.  issued_at is written and never read.
ChallengeRow ==
  [credential_id : CredentialIds, sku : Skus, record_id : RecordIds,
   expires_at : Nat, consumed_at : Nat \cup {None}]

\* A row of credential_redemptions, keyed by credential_id
RedemptionRow == [token : Tokens, record_id : RecordIds, redeemed_at : Nat]

\* CredentialSpendResult
SpendResult == [first_spend : BOOLEAN, committed_at : Nat, challenge_expires_at : Nat]

Steps == {"idle", "lookup", "check", "proof", "begin", "locked", "commit",
          "spent", "invoke", "handler", "deny", "completed", "failed",
          "done", "lost"}

\* Steps inside redeem's try block, before the handler may run
PreHandler == {"lookup", "check", "proof", "begin", "locked", "commit", "spent"}

Idle(k) == pc[k] = "idle"
Over(k) == pc[k] \in {"done", "lost"}

\* The credential id a call presents
Cid(k) == request[k].credential.credential_id

ASSUME ConstantsAssumption ==
  /\ ChallengeTTL \in Nat \ {0}
  /\ MaxLifetime \in Nat \ {0}
  /\ MaxTime \in Nat
  /\ MaxBoots \in Nat
  /\ ChallengeInputs \subseteq
       [credential_id : CredentialIds, sku : Skus, record_id : RecordIds]
  /\ \A r \in Requests : r.sku \in Skus /\ r.record_id \in RecordIds
  /\ \A r \in Requests : r.holder_proof # None => r.holder_proof.challenge \in Tokens

\* None is the absence of a value, never a value
ASSUME NoneAssumption ==
  /\ None \notin Calls \cup Tokens \cup Nat \cup Requests \cup Reasons
  /\ None \notin CredentialIds \cup RecordIds
  /\ None \notin ChallengeRow \cup RedemptionRow \cup SpendResult

(***************************************************************************)
(* The checks of redeem, as functions of what they read                    *)
(***************************************************************************)

\* A credential valid at instant t, both bounds included
InWindow(c, t) == c.not_before <= t /\ t <= c.not_after

\* What verify_chain of the delegation library can object to.  Its order is
\* its own: a credential with two defects may be refused for either.
ChainErrors(c, t) ==
  (IF c.signer # c.issuer \/ c.issuer # BrokerKey THEN {"CREDENTIAL_INVALID"} ELSE {})
    \cup (IF InWindow(c, t) THEN {} ELSE {"CREDENTIAL_EXPIRED"})

\* The credential is parsed, has a 256-bit id, both bounds and a bounded lifetime
CredentialWellFormed(c) ==
  /\ c # None
  /\ c.credential_id \in CredentialIds
  /\ None \notin {c.not_before, c.not_after}
  /\ c.not_after - c.not_before <= MaxLifetime

\* The reasons for which redeem refuses r at instant t before it knows a token
CredentialRefusals(r, t) ==
  LET c == r.credential
  IN IF ~CredentialWellFormed(c) THEN {"CREDENTIAL_INVALID"}
     ELSE IF ChainErrors(c, t) # {} THEN ChainErrors(c, t)
     ELSE IF c.scope # {QualifiedScope} THEN {"SCOPE_DENIED"}
     ELSE IF r.holder_proof = None THEN {"HOLDER_PROOF_INVALID"}
     ELSE {}

\* Mutant: the SKU is left out of the comparison.
ContextMatchesAnySku(row, r) ==
  <<row.credential_id, row.record_id>> = <<r.credential.credential_id, r.record_id>>

\* The challenge row was issued for exactly this call
ContextMatches(row, r) ==
  <<row.credential_id, row.sku, row.record_id>> =
    <<r.credential.credential_id, r.sku, r.record_id>>

\* Mutant: an expired row taken for a used one.
StoredRefusalStaleAsConsumed(row, r, t) ==
  IF row = None                              THEN "CHALLENGE_INVALID"
  ELSE IF ~ContextMatches(row, r)            THEN "HOLDER_PROOF_INVALID"
  ELSE IF row.consumed_at # None \/ t >= row.expires_at THEN "CHALLENGE_CONSUMED"
  ELSE None

\* The verdict on the row read before locking, at instant t; None accepts it
StoredRefusal(row, r, t) ==
  IF row = None                     THEN "CHALLENGE_INVALID"
  ELSE IF ~ContextMatches(row, r)   THEN "HOLDER_PROOF_INVALID"
  ELSE IF row.consumed_at # None    THEN "CHALLENGE_CONSUMED"
  ELSE IF t >= row.expires_at       THEN "CHALLENGE_STALE"
  ELSE None

\* verify_holder_proof: the credential's subject signed this very call over a
\* token that is still live
HolderProofVerifies(r, row, t) ==
  /\ r.holder_proof.signature =
       [credential_id |-> r.credential.credential_id, key |-> r.credential.subject,
        sku |-> r.sku, record_id |-> r.record_id,
        challenge |-> r.holder_proof.challenge]
  /\ t < row.expires_at

\* Mutants: the transaction trusts the checks made before it waited for the lock,
\* for the expiry or for the consumption.
LockedRefusalNoExpiry(row, r, t) ==
  IF row = None                          THEN "CHALLENGE_INVALID"
  ELSE IF row.consumed_at # None         THEN "CHALLENGE_CONSUMED"
  ELSE IF ~ContextMatches(row, r)        THEN "HOLDER_PROOF_INVALID"
  ELSE None

LockedRefusalNoConsumed(row, r, t) ==
  IF row = None                          THEN "CHALLENGE_INVALID"
  ELSE IF t >= row.expires_at            THEN "CHALLENGE_STALE"
  ELSE IF ~InWindow(r.credential, t)     THEN "CREDENTIAL_EXPIRED"
  ELSE IF ~ContextMatches(row, r)        THEN "HOLDER_PROOF_INVALID"
  ELSE None

\* The verdict of the spend transaction on the row it reads under the lock
LockedRefusal(row, r, t) ==
  IF row = None                          THEN "CHALLENGE_INVALID"
  ELSE IF row.consumed_at # None         THEN "CHALLENGE_CONSUMED"
  ELSE IF t >= row.expires_at            THEN "CHALLENGE_STALE"
  ELSE IF ~InWindow(r.credential, t)     THEN "CREDENTIAL_EXPIRED"
  ELSE IF ~ContextMatches(row, r)        THEN "HOLDER_PROOF_INVALID"
  ELSE None

\* Mutant: first_spend is not looked at.
PreHandlerRefusalAnySpend(s, r, t) ==
  IF t >= s.challenge_expires_at         THEN "CHALLENGE_STALE"
  ELSE IF ~InWindow(r.credential, t)     THEN "CREDENTIAL_EXPIRED"
  ELSE None

\* The verdict after the spend commit, before the handler
PreHandlerRefusal(s, r, t) ==
  IF ~s.first_spend                      THEN "CREDENTIAL_SPENT"
  ELSE IF t >= s.challenge_expires_at    THEN "CHALLENGE_STALE"
  ELSE IF ~InWindow(r.credential, t)     THEN "CREDENTIAL_EXPIRED"
  ELSE None

\* _inventory_lookup and the validation of its result: quantity >= 0
LookupSucceeds(sku) == sku \in DOMAIN Catalog => Catalog[sku] >= 0

(***************************************************************************)
(* Initial state and actions                                               *)
(***************************************************************************)

Init ==
  /\ now = 0
  /\ resource_challenges = [t \in Tokens |-> None]
  /\ credential_redemptions = [c \in CredentialIds |-> None]
  /\ writer = None
  /\ invocation_count = 0
  /\ boot = 0
  /\ pc = [k \in Calls |-> "idle"]
  /\ request = [k \in Calls |-> None]
  /\ tokenHash = [k \in Calls |-> None]
  /\ stored = [k \in Calls |-> None]
  /\ spend = [k \in Calls |-> None]
  /\ invocation = [k \in Calls |-> None]
  /\ bootOf = [k \in Calls |-> None]
  /\ reason = [k \in Calls |-> None]
  /\ mcp = [k \in Calls |-> None]

Goto(k, step) == pc' = [pc EXCEPT ![k] = step]

\* DecisionError: leave the try block towards a denial receipt
Deny(k, why) == Goto(k, "deny") /\ reason' = [reason EXCEPT ![k] = why]

\* The injected clock is any function: it may jump ahead or be set back.
ClockStep ==
  /\ \E t \in 0 .. MaxTime : t # now /\ now' = t
  /\ UNCHANGED <<store, writer, invocation_count, boot, pc, locals, mcp>>

\* issue_resource_challenge: one autocommitted INSERT, so the write lock must
\* be free.  Time spent waiting for it only ages the challenge.
IssueResourceChallenge(t, i) ==
  /\ writer = None
  /\ resource_challenges[t] = None
  /\ resource_challenges' =
       [resource_challenges EXCEPT ![t] =
          [credential_id |-> i.credential_id, sku |-> i.sku, record_id |-> i.record_id,
           consumed_at |-> None, expires_at |-> now + ChallengeTTL]]
  /\ UNCHANGED <<now, credential_redemptions, writer, invocation_count, boot, pc, locals, mcp>>

\* A call that is no LookupInput (or asks for a malformed challenge, or for an
\* unknown tool) reaches only direct_lookup_attempt.
DirectLookupAttempt(k) ==
  /\ Idle(k)
  /\ Deny(k, "UNAUTHENTICATED")
  /\ UNCHANGED <<now, store, writer, invocation_count, boot, request, tokenHash,
                 stored, spend, invocation, bootOf, mcp>>

\* redeem begins: the request alone, at this reading of the clock, is refused
\* (or a dependency raises something unexpected).
RedeemRefused(k, r) ==
  /\ Idle(k)
  /\ request' = [request EXCEPT ![k] = r]
  /\ \E why \in CredentialRefusals(r, now) \cup {"INTERNAL_ERROR"} : Deny(k, why)
  /\ UNCHANGED <<now, store, writer, invocation_count, boot, tokenHash,
                 stored, spend, invocation, bootOf, mcp>>

\* redeem begins and the request passes every check that needs no row.
RedeemAccepted(k, r) ==
  /\ Idle(k)
  /\ CredentialRefusals(r, now) = {}
  /\ request' = [request EXCEPT ![k] = r]
  /\ tokenHash' = [tokenHash EXCEPT ![k] = r.holder_proof.challenge]
  /\ Goto(k, "lookup")
  /\ UNCHANGED <<now, store, writer, invocation_count, boot,
                 stored, spend, invocation, bootOf, reason, mcp>>

\* get_resource_challenge: a plain read of the last commit
GetResourceChallenge(k) ==
  /\ pc[k] = "lookup"
  /\ stored' = [stored EXCEPT ![k] = resource_challenges[tokenHash[k]]]
  /\ Goto(k, "check")
  /\ UNCHANGED <<now, store, writer, invocation_count, boot, request, tokenHash,
                 spend, invocation, bootOf, reason, mcp>>

\* The checks on the row that was read, with a fresh reading of the clock
CheckStored(k) ==
  /\ pc[k] = "check"
  /\ LET why == StoredRefusal(stored[k], request[k], now)
     IN \/ why # None /\ Deny(k, why)
        \/ why = None /\ Goto(k, "proof") /\ UNCHANGED reason
  /\ UNCHANGED <<now, store, writer, invocation_count, boot, request, tokenHash,
                 stored, spend, invocation, bootOf, mcp>>

\* verify_holder_proof, which reads the time for itself
VerifyHolderProof(k) ==
  /\ pc[k] = "proof"
  /\ \/ /\ HolderProofVerifies(request[k], stored[k], now)
        /\ Goto(k, "begin") /\ UNCHANGED reason
     \/ /\ ~HolderProofVerifies(request[k], stored[k], now)
        /\ Deny(k, "HOLDER_PROOF_INVALID")
  /\ UNCHANGED <<now, store, writer, invocation_count, boot, request, tokenHash,
                 stored, spend, invocation, bootOf, mcp>>

\* BEGIN IMMEDIATE takes the free write lock ...
BeginImmediate(k) ==
  /\ pc[k] = "begin"
  /\ writer = None
  /\ writer' = k
  /\ Goto(k, "locked")
  /\ UNCHANGED <<now, store, invocation_count, boot, locals, mcp>>

\* ... or gives up after the busy timeout: "database is locked"
BusyTimeout(k) ==
  /\ pc[k] = "begin"
  /\ writer # None
  /\ Deny(k, "INTERNAL_ERROR")
  /\ UNCHANGED <<now, store, writer, invocation_count, boot, request, tokenHash,
                 stored, spend, invocation, bootOf, mcp>>

\* Mutant: the connection of a refused transaction stays open.
SpendRefusedKeepsLock(k) ==
  /\ pc[k] = "locked"
  /\ LET why == LockedRefusal(resource_challenges[tokenHash[k]], request[k], now)
     IN why # None /\ Deny(k, why)
  /\ UNCHANGED <<now, store, writer, invocation_count, boot, request, tokenHash,
                 stored, spend, invocation, bootOf, mcp>>

\* The transaction refuses under the lock: rollback, close, raise.
SpendRefused(k) ==
  /\ pc[k] = "locked"
  /\ LET why == LockedRefusal(resource_challenges[tokenHash[k]], request[k], now)
     IN why # None /\ Deny(k, why)
  /\ writer' = None
  /\ UNCHANGED <<now, store, invocation_count, boot, request, tokenHash,
                 stored, spend, invocation, bootOf, mcp>>

\* INSERT OR IGNORE and UPDATE, not yet visible to anyone else.  Under the lock
\* the UPDATE always finds its row unconsumed, so "lost a race" cannot happen.
SpendStaged(k) ==
  /\ pc[k] = "locked"
  /\ LET row == resource_challenges[tokenHash[k]]
     IN /\ LockedRefusal(row, request[k], now) = None
        /\ spend' = [spend EXCEPT ![k] =
             [first_spend |-> credential_redemptions[Cid(k)] = None,
              committed_at |-> now, challenge_expires_at |-> row.expires_at]]
  /\ Goto(k, "commit")
  /\ UNCHANGED <<now, store, writer, invocation_count, boot, request, tokenHash,
                 stored, invocation, bootOf, reason, mcp>>

\* COMMIT: both tables change at once and the lock is released.
Commit(k) ==
  /\ pc[k] = "commit"
  /\ resource_challenges' =
       [resource_challenges EXCEPT ![tokenHash[k]].consumed_at = spend[k].committed_at]
  /\ credential_redemptions' =
       IF spend[k].first_spend
       THEN [credential_redemptions EXCEPT ![Cid(k)] =
               [record_id |-> request[k].record_id, token |-> tokenHash[k],
                redeemed_at |-> spend[k].committed_at]]
       ELSE credential_redemptions
  /\ writer' = None
  /\ Goto(k, "spent")
  /\ UNCHANGED <<now, invocation_count, boot, locals, mcp>>

\* After the commit: the first spender, still in time, goes on to the handler.
AfterSpend(k) ==
  /\ pc[k] = "spent"
  /\ LET why == PreHandlerRefusal(spend[k], request[k], now)
     IN \/ why # None /\ Deny(k, why)
        \/ why = None /\ Goto(k, "invoke") /\ UNCHANGED reason
  /\ UNCHANGED <<now, store, writer, invocation_count, boot, request, tokenHash,
                 stored, spend, invocation, bootOf, mcp>>

\* Any other exception inside the try block; SQLite rolls back what was staged.
DependencyFails(k) ==
  /\ pc[k] \in PreHandler
  /\ Deny(k, "INTERNAL_ERROR")
  /\ writer' = IF writer = k THEN None ELSE writer
  /\ spend' = IF pc[k] = "commit" THEN [spend EXCEPT ![k] = None] ELSE spend
  /\ UNCHANGED <<now, store, invocation_count, boot, request, tokenHash,
                 stored, invocation, bootOf, mcp>>

\* _record_invocation, under the counter's own lock
RecordInvocation(k) ==
  /\ pc[k] = "invoke"
  /\ invocation_count' = invocation_count + 1
  /\ invocation' = [invocation EXCEPT ![k] = invocation_count + 1]
  /\ bootOf' = [bootOf EXCEPT ![k] = boot]
  /\ Goto(k, "handler")
  /\ UNCHANGED <<now, store, writer, boot, request, tokenHash, stored, spend, reason, mcp>>

\* The private handler runs and its result is validated.
InventoryLookup(k) ==
  /\ pc[k] = "handler"
  /\ IF LookupSucceeds(request[k].sku)
     THEN Goto(k, "completed") /\ reason' = [reason EXCEPT ![k] = "ALLOW"]
     ELSE Goto(k, "failed") /\ reason' = [reason EXCEPT ![k] = "HANDLER_FAILED"]
  /\ UNCHANGED <<now, store, writer, invocation_count, boot, request, tokenHash,
                 stored, spend, invocation, bootOf, mcp>>

\* The payload _receipt builds; its snapshot is the counter at that moment.
Receipt(k) ==
  LET r == request[k]
      invoked == pc[k] # "deny"
  IN [credential_id |-> IF r = None THEN None
                        ELSE IF r.credential = None THEN None
                        ELSE r.credential.credential_id,
      record_id |-> IF r = None THEN None ELSE r.record_id,
      reason |-> reason[k],
      deciding_service |-> "inventoryd",
      decision |-> IF invoked THEN "allow" ELSE "deny",
      challenge_token_hash |-> tokenHash[k],
      invocation_id |-> IF invoked THEN invocation[k] ELSE None,
      handler_count_snapshot |-> invocation_count,
      handler_invoked |-> invoked,
      business_result |-> IF invoked THEN pc[k] ELSE "not_invoked"]

\* The CallToolResult of a signed decision
SignedResult(p) ==
  [kind |-> "decision", receipt |-> p, is_error |-> p.reason # "ALLOW"]

\* Mutant: the counter is reported in place of the call's own number.
UnsignedResultByCounter(k) ==
  IF pc[k] = "deny" THEN [kind |-> "exception"]
  ELSE [kind |-> "unsigned", invocation_id |-> invocation_count,
        handler_completed |-> pc[k] = "completed"]

\* What the MCP layer returns when no receipt could be made: an unsigned
\* statement after an invocation, an uncaught exception before one
UnsignedResult(k) ==
  IF pc[k] = "deny" THEN [kind |-> "exception"]
  ELSE [kind |-> "unsigned", invocation_id |-> invocation[k],
        handler_completed |-> pc[k] = "completed"]

\* _receipt: the payload is validated, then signed; a payload that does not
\* validate raises like a signer that fails.
SignReceipt(k) ==
  /\ pc[k] \in {"deny", "completed", "failed"}
  /\ mcp' = [mcp EXCEPT ![k] = IF ConsistentDecisionState(Receipt(k))
                                THEN SignedResult(Receipt(k)) ELSE UnsignedResult(k)]
  /\ Goto(k, "done")
  /\ UNCHANGED <<now, store, writer, invocation_count, boot, locals>>

\* _receipt raises: the signer is unavailable.
SignerFails(k) ==
  /\ pc[k] \in {"deny", "completed", "failed"}
  /\ mcp' = [mcp EXCEPT ![k] = UnsignedResult(k)]
  /\ Goto(k, "done")
  /\ UNCHANGED <<now, store, writer, invocation_count, boot, locals>>

\* The process dies and restarts on the same file: calls in flight are lost,
\* an open transaction is rolled back, the counter starts again from zero.
Crash ==
  /\ boot < MaxBoots
  /\ boot' = boot + 1
  /\ pc' = [k \in Calls |-> IF Idle(k) \/ Over(k) THEN pc[k] ELSE "lost"]
  /\ spend' = [k \in Calls |-> IF pc[k] = "commit" THEN None ELSE spend[k]]
  /\ writer' = None
  /\ invocation_count' = 0
  /\ UNCHANGED <<now, store, request, tokenHash, stored, invocation, bootOf, reason, mcp>>

\* What the thread of a running call does next, failures apart
CallStep(k) ==
  \/ GetResourceChallenge(k) \/ CheckStored(k) \/ VerifyHolderProof(k)
  \/ BeginImmediate(k) \/ BusyTimeout(k) \/ SpendRefused(k) \/ SpendStaged(k)
  \/ Commit(k) \/ AfterSpend(k) \/ RecordInvocation(k) \/ InventoryLookup(k)
  \/ SignReceipt(k)

Next ==
  \/ ClockStep
  \/ \E t \in Tokens, i \in ChallengeInputs : IssueResourceChallenge(t, i)
  \/ \E k \in Calls :
       \/ DirectLookupAttempt(k)
       \/ \E r \in Requests : RedeemRefused(k, r) \/ RedeemAccepted(k, r)
       \/ CallStep(k) \/ DependencyFails(k) \/ SignerFails(k)
  \/ Crash

Spec == Init /\ [][Next]_vars

\* A thread that can run does run: nothing in redeem waits without a timeout.
Fairness == \A k \in Calls : WF_vars(CallStep(k))

FairSpec == Spec /\ Fairness

(***************************************************************************)
(* Properties                                                              *)
(***************************************************************************)

\* The call's spend transaction has committed.
Committed(k) == spend[k] # None /\ pc[k] # "commit"

\* The call's handler has been invoked.
Invoked(k) == invocation[k] # None

\* A call was answered with a signed receipt.
Answered(k) == mcp[k] # None /\ mcp[k].kind = "decision"

\* Type invariant: the tables and the locals of redeem hold what their columns
\* and annotations say, and a token is known to every call past its parsing.
TypeOK ==
  /\ now \in Nat
  /\ resource_challenges \in [Tokens -> ChallengeRow \cup {None}]
  /\ credential_redemptions \in [CredentialIds -> RedemptionRow \cup {None}]
  /\ writer \in Calls \cup {None}
  /\ invocation_count \in Nat
  /\ boot \in Nat
  /\ pc \in [Calls -> Steps]
  /\ request \in [Calls -> Requests \cup {None}]
  /\ tokenHash \in [Calls -> Tokens \cup {None}]
  /\ stored \in [Calls -> ChallengeRow \cup {None}]
  /\ spend \in [Calls -> SpendResult \cup {None}]
  /\ invocation \in [Calls -> Nat \cup {None}]
  /\ bootOf \in [Calls -> Nat \cup {None}]
  /\ reason \in [Calls -> Reasons \cup {None}]

\* A credential reaches the private handler at most once, over all calls,
\* tokens, proofs, interleavings and restarts (README, "At-most-once boundary").
AtMostOneInvocation ==
  \A j, k \in Calls : Invoked(j) /\ Invoked(k) /\ Cid(j) = Cid(k) => j = k

\* The handler runs only for the call that owns the credential's redemption
\* row, under a challenge issued for exactly that credential, SKU and record,
\* with a proof by the key the broker bound, inside both validity windows.
InvocationAuthorised ==
  \A k \in Calls : Invoked(k) =>
    LET r == request[k]
        row == resource_challenges[tokenHash[k]]
        red == credential_redemptions[Cid(k)]
    IN /\ red # None /\ red.token = tokenHash[k] /\ red.record_id = r.record_id
       /\ row # None /\ row.consumed_at = red.redeemed_at
       /\ <<row.credential_id, row.sku, row.record_id>> = <<Cid(k), r.sku, r.record_id>>
       /\ r.credential.signer = BrokerKey
       /\ r.holder_proof.signature.key = r.credential.subject
       /\ r.holder_proof.signature.sku = r.sku
       /\ red.redeemed_at < row.expires_at
       /\ r.credential.not_before <= red.redeemed_at
       /\ red.redeemed_at <= r.credential.not_after

\* One transaction covers both tables: a redemption names a challenge consumed
\* at the same instant for the same credential, and no challenge is consumed
\* without its credential being spent, whatever crashed or rolled back.
SpendIsAtomic ==
  /\ \A c \in CredentialIds : credential_redemptions[c] # None =>
       LET red == credential_redemptions[c]
           row == resource_challenges[red.token]
       IN /\ row # None
          /\ row.credential_id = c
          /\ row.record_id = red.record_id
          /\ row.consumed_at = red.redeemed_at
          /\ red.redeemed_at < row.expires_at
  /\ \A t \in Tokens :
       LET row == resource_challenges[t]
       IN row # None =>
            (row.consumed_at # None => credential_redemptions[row.credential_id] # None)

\* A signed denial tells the truth about the stored state.  CREDENTIAL_SPENT:
\* another token holds the redemption and this fresh token is burnt.
\* CHALLENGE_CONSUMED: another call consumed this very token.  A denial that
\* blames the caller's material leaves nothing spent by this call; only an
\* expiry or an internal error may follow this call's own first spend.
DenialsAreHonest ==
  \A k \in Calls : Answered(k) /\ mcp[k].receipt.decision = "deny" =>
    LET why == mcp[k].receipt.reason
        row == resource_challenges[tokenHash[k]]
    IN /\ ~Invoked(k)
       /\ why = "CREDENTIAL_SPENT" =>
            /\ credential_redemptions[Cid(k)] # None
            /\ credential_redemptions[Cid(k)].token # tokenHash[k]
            /\ row.consumed_at # None
       /\ why = "CHALLENGE_CONSUMED" =>
            /\ row.consumed_at # None
            /\ \E j \in Calls \ {k} : Committed(j) /\ tokenHash[j] = tokenHash[k]
       /\ Committed(k) =>
            why \in {"CREDENTIAL_SPENT", "CHALLENGE_STALE", "CREDENTIAL_EXPIRED", "INTERNAL_ERROR"}

\* Receipts identify executions: every invoked call that is answered, signed or
\* not, reports its own invocation number and outcome, no two calls of one boot
\* share a number, and the signed snapshot counts at least that invocation.
ReceiptsIdentifyInvocations ==
  /\ \A j, k \in Calls :
       Invoked(j) /\ Invoked(k) /\ bootOf[j] = bootOf[k] /\ invocation[j] = invocation[k]
         => j = k
  /\ \A k \in Calls : mcp[k] # None =>
       LET m == mcp[k]
       IN /\ Invoked(k) <=> (m.kind = "unsigned" \/ (m.kind = "decision" /\ m.receipt.handler_invoked))
          /\ m.kind = "unsigned" => /\ m.invocation_id = invocation[k]
                                    /\ m.handler_completed = LookupSucceeds(request[k].sku)
          /\ m.kind = "decision" /\ Invoked(k) =>
               /\ m.receipt.invocation_id = invocation[k]
               /\ m.receipt.handler_count_snapshot >= invocation[k]
               /\ m.is_error <=> ~LookupSucceeds(request[k].sku)

\* What a thread has decided to report always passes the receipt validator, so
\* a decision is left unsigned only when the signer itself fails.
ReceiptsValidate ==
  \A k \in Calls : pc[k] \in {"deny", "completed", "failed"} =>
    ConsistentDecisionState(Receipt(k))

\* Action property: what the store has consumed stays consumed.  No step, a
\* crash included, changes or removes a redemption, or a challenge's context,
\* expiry or consumption instant.
StoreIsWriteOnce ==
  [][/\ \A c \in CredentialIds : credential_redemptions[c] # None =>
          credential_redemptions'[c] = credential_redemptions[c]
     /\ \A t \in Tokens : resource_challenges[t] # None =>
          LET was == resource_challenges[t]
              is  == resource_challenges'[t]
          IN is = was \/ (was.consumed_at = None /\ is = [was EXCEPT !.consumed_at = is.consumed_at])
    ]_vars

\* Liveness: every call that arrives is answered, or lost in a crash, and holds
\* no lock then: nobody waits forever for the write lock, and every path out of
\* the spend transaction closes its connection.
EveryCallEnds == \A k \in Calls : ~Idle(k) ~> Over(k) /\ writer # k
=============================================================================
