-------------------------- MODULE CapabilityBroker --------------------------
(***************************************************************************)
(* The issuing side: src/atcap/broker.py with the manifest, identity and   *)
(* TPM appraisals it composes and the broker half of the SQLite store.     *)
(*                                                                         *)
(* Calls of CapabilityBroker.issue interleave between their reads of the   *)
(* clock and of the store; one step of a call is the code between two such *)
(* accesses.  As in InventoryApplication, signatures are ideal, the write  *)
(* lock is BEGIN IMMEDIATE's, and the process may die and restart on the   *)
(* same database file.                                                     *)
(***************************************************************************)
EXTENDS DecisionReceipt, TpmAppraisal

CONSTANTS
  Calls,             \* calls of issue, each made once
  Tokens,            \* broker challenge tokens, each drawn at most once
  CredentialIds,     \* the 256-bit identifiers secrets.token_hex(32) can draw
  Holders,           \* well-formed Ed25519 holder keys
  Submissions,       \* what callers submit: request, manifest and TPM evidence
  Policy,            \* BrokerPolicy with its manifest and TPM policies
  ChallengeTTL,      \* policy.challenge_ttl_seconds
  CredentialTTL,     \* policy.credential_ttl_seconds
  MaxTime,           \* bound: the clock reads 0 .. MaxTime
  MaxBoots           \* bound: restarts of the process

VARIABLES
  now,                  \* what self.clock() returns
  broker_challenges,    \* committed table, by token
  writer,               \* the call that holds SQLite's write lock
  boot,                 \* restarts so far
  pc,                   \* where each call is
  submission,           \* the arguments of each call
  consumedAt,           \* locked_now of the call's consume transaction
  credential,           \* the DelegationCredential the call minted
  reason,               \* the reason of the decision being reported
  decision              \* what issue returned (or that it raised)

locals == <<submission, consumedAt, credential, reason>>
vars   == <<now, broker_challenges, writer, boot, pc, locals, decision>>

\* A row of broker_challenges.  issued_at is written and never read.
ChallengeRow == [expires_at : Nat, consumed_at : Nat \cup {None}]

\* The credential minted: issuer and scope are the policy's, depth is 0.
Credential ==
  [credential_id : CredentialIds, subject : Holders, not_before : Nat, not_after : Nat]

Steps == {"idle", "appraise", "begin", "locked", "commit", "mint", "sign",
          "deny", "done", "lost"}

\* Steps inside issue's try block
InTry == {"appraise", "begin", "locked", "commit", "mint", "sign"}

Idle(k) == pc[k] = "idle"
Over(k) == pc[k] \in {"done", "lost"}

\* The challenge and the holder key a call presents
Token(k)  == submission[k].request.body.challenge
Holder(k) == submission[k].request.body.holder_key

ASSUME ConstantsAssumption ==
  /\ ChallengeTTL \in Nat \ {0}
  /\ CredentialTTL \in Nat \ {0}
  /\ MaxTime \in Nat
  /\ MaxBoots \in Nat
  /\ \A s \in Submissions : s.request # None => s.request.body.challenge \in Tokens

\* What the closed models and parsers let through: a manifest and a request body
\* have exactly their fields, a certificate and a PCR selection are well typed.
ASSUME SubmissionAssumption ==
  \A s \in Submissions :
    /\ s.manifest # None =>
         /\ s.manifest.verified \in BOOLEAN
         /\ s.manifest = [issuer |-> s.manifest.issuer, digest |-> s.manifest.digest,
                          verified |-> s.manifest.verified]
    /\ s.request # None =>
         LET b == s.request.body
         IN /\ b.manifest_digest # None
            /\ b = [version |-> b.version, broker_id |-> b.broker_id, challenge |-> b.challenge,
                    manifest_digest |-> b.manifest_digest, identity_key |-> b.identity_key,
                    holder_key |-> b.holder_key, resource_issuer |-> b.resource_issuer,
                    requested_scope |-> b.requested_scope]
    /\ s.evidence # None =>
         /\ s.evidence.chain_verified \in BOOLEAN
         /\ s.evidence.chain \in Seq(Certificate)
         /\ s.evidence.selections # None => s.evidence.selections \in Seq(PcrSelection)

\* TpmPolicy.expected_selection: one entry per bank, with its PCR indices
ASSUME PolicyAssumption == Policy.selection \in Seq(STRING \X SUBSET Nat)

\* None is the absence of a value, never a value
ASSUME NoneAssumption ==
  /\ None \notin Calls \cup Tokens \cup CredentialIds \cup Nat \cup Submissions \cup Reasons
  /\ None \notin ChallengeRow \cup Credential
  /\ None # [issuer |-> Policy.manifest_issuer, digest |-> Policy.manifest_digest,
             verified |-> TRUE]

(***************************************************************************)
(* The checks of issue, as functions of what they read.  A request or an   *)
(* evidence object of the wrong runtime type is None.                      *)
(***************************************************************************)

\* Runtime types and the keyed, expiring token, at instant t.  row is the row
\* of a token this broker minted; a token it did not mint fails its MAC.
EntryRefusal(s, row, t) ==
  IF s.request = None        THEN "REQUEST_BINDING"
  ELSE IF s.evidence = None  THEN "TPM_INVALID"
  ELSE IF row = None         THEN "CHALLENGE_INVALID"
  ELSE IF t >= row.expires_at THEN "CHALLENGE_STALE"
  ELSE None

\* verify_signed_manifest
ManifestRefusal(m) ==
  IF m = None                                THEN "MANIFEST_INVALID"
  ELSE IF m.issuer # Policy.manifest_issuer  THEN "MANIFEST_POLICY"
  ELSE IF m.digest # Policy.manifest_digest  THEN "MANIFEST_POLICY"
  ELSE IF ~m.verified                        THEN "MANIFEST_INVALID"
  ELSE None

\* verify_identity_endorsement: field by field, then the signature over them all
IdentityRefusal(q) ==
  LET b == q.body
  IN IF b.version # Policy.version                   THEN "REQUEST_BINDING"
     ELSE IF b.identity_key # Policy.identity_key    THEN "IDENTITY_UNAUTHORIZED"
     ELSE IF b.manifest_digest # Policy.manifest_digest THEN "MANIFEST_POLICY"
     ELSE IF b.broker_id # Policy.broker_id          THEN "REQUEST_BINDING"
     ELSE IF b.requested_scope # Policy.scope        THEN "SCOPE_DENIED"
     ELSE IF b.resource_issuer # Policy.resource_issuer THEN "REQUEST_BINDING"
     ELSE IF b.holder_key \notin Holders             THEN "REQUEST_BINDING"
     ELSE IF q.identity_signature # [key |-> Policy.identity_key, over |-> b]
                                                     THEN "IDENTITY_SIGNATURE"
     ELSE None

\* Mutant: any quote of the approved PCR state will do, whatever it binds.
TpmRefusalsUnbound(e, q, t) ==
  IF e.selections = None \/ ~AkCertificatePolicy(e.chain, Policy.roots, t) \/ e.quote = None
  THEN {"TPM_UNTRUSTED"}
  ELSE IF e.quote.pcr_digest # Policy.pcr_digest THEN {"TPM_INVALID"} ELSE {}

\* ReleasedTpmAppraiser.appraise, at instant t of its own clock.  The quote
\* verifier names a chain fault or another one first as it pleases: the set
\* holds every reason it may give.
TpmRefusals(e, q, t) ==
  IF e.selections = None                                     THEN {"TPM_INVALID"}
  ELSE IF ReadSelection(e.selections) # Policy.selection     THEN {"PCR_POLICY"}
  ELSE IF ~AkCertificatePolicy(e.chain, Policy.roots, t)     THEN {"TPM_UNTRUSTED"}
  ELSE (IF e.chain_verified THEN {} ELSE {"TPM_UNTRUSTED"})
         \cup (IF e.quote = [qualifying |-> q, pcr_digest |-> Policy.pcr_digest]
               THEN {} ELSE {"TPM_INVALID"})

\* Mutant: one appraisal is left out.
AppraisalWithoutTpm(s, t) ==
  {ManifestRefusal(s.manifest), IdentityRefusal(s.request)} \ {None}

\* Manifest, then identity, then TPM: the first that objects decides
AppraisalRefusals(s, t) ==
  IF ManifestRefusal(s.manifest) # None     THEN {ManifestRefusal(s.manifest)}
  ELSE IF IdentityRefusal(s.request) # None THEN {IdentityRefusal(s.request)}
  ELSE TpmRefusals(s.evidence, s.request, t)

\* Mutants: no look at consumed_at under the lock; an expired row taken for a
\* used one.
LockedRefusalNoConsumed(row, t) ==
  IF row = None THEN "CHALLENGE_INVALID"
  ELSE IF t >= row.expires_at THEN "CHALLENGE_STALE" ELSE None

LockedRefusalStaleAsConsumed(row, t) ==
  IF row = None THEN "CHALLENGE_INVALID"
  ELSE IF row.consumed_at # None \/ t >= row.expires_at THEN "CHALLENGE_CONSUMED" ELSE None

\* The verdict of the consume transaction on the row it reads under the lock
LockedRefusal(row, t) ==
  IF row = None                   THEN "CHALLENGE_INVALID"
  ELSE IF row.consumed_at # None  THEN "CHALLENGE_CONSUMED"
  ELSE IF t >= row.expires_at     THEN "CHALLENGE_STALE"
  ELSE None

(***************************************************************************)
(* Initial state and actions                                               *)
(***************************************************************************)

Init ==
  /\ now = 0
  /\ broker_challenges = [t \in Tokens |-> None]
  /\ writer = None
  /\ boot = 0
  /\ pc = [k \in Calls |-> "idle"]
  /\ submission = [k \in Calls |-> None]
  /\ consumedAt = [k \in Calls |-> None]
  /\ credential = [k \in Calls |-> None]
  /\ reason = [k \in Calls |-> None]
  /\ decision = [k \in Calls |-> None]

Goto(k, step) == pc' = [pc EXCEPT ![k] = step]

\* Leave the try block towards a denial receipt
Deny(k, why) == Goto(k, "deny") /\ reason' = [reason EXCEPT ![k] = why]

\* The injected clock is any function: it may jump ahead or be set back.
ClockStep ==
  /\ \E t \in 0 .. MaxTime : t # now /\ now' = t
  /\ UNCHANGED <<broker_challenges, writer, boot, pc, locals, decision>>

\* new_challenge: one autocommitted INSERT, so the write lock must be free
NewChallenge(t) ==
  /\ writer = None
  /\ broker_challenges[t] = None
  /\ broker_challenges' = [broker_challenges EXCEPT ![t] =
       [expires_at |-> now + ChallengeTTL, consumed_at |-> None]]
  /\ UNCHANGED <<now, writer, boot, pc, locals, decision>>

\* issue begins and refuses the types or the token (or hits the unexpected).
IssueRefused(k, s) ==
  /\ Idle(k)
  /\ submission' = [submission EXCEPT ![k] = s]
  /\ LET row == IF s.request = None THEN None
                ELSE broker_challenges[s.request.body.challenge]
     IN \E why \in {EntryRefusal(s, row, now), "INTERNAL_ERROR"} \ {None} : Deny(k, why)
  /\ UNCHANGED <<now, broker_challenges, writer, boot, consumedAt, credential, decision>>

\* issue begins with well-typed arguments and a live token.
IssueAccepted(k, s) ==
  /\ Idle(k)
  /\ s.request # None
  /\ EntryRefusal(s, broker_challenges[s.request.body.challenge], now) = None
  /\ submission' = [submission EXCEPT ![k] = s]
  /\ Goto(k, "appraise")
  /\ UNCHANGED <<now, broker_challenges, writer, boot, consumedAt, credential, reason, decision>>

\* Manifest, identity and TPM appraisal: reads the submission and nothing else
Appraise(k) ==
  /\ pc[k] = "appraise"
  /\ \E t \in 0 .. MaxTime : LET whys == AppraisalRefusals(submission[k], t)
     IN \/ \E why \in whys : Deny(k, why)
        \/ whys = {} /\ Goto(k, "begin") /\ UNCHANGED reason
  /\ UNCHANGED <<now, broker_challenges, writer, boot, submission, consumedAt,
                 credential, decision>>

\* BEGIN IMMEDIATE takes the free write lock ...
BeginImmediate(k) ==
  /\ pc[k] = "begin"
  /\ writer = None
  /\ writer' = k
  /\ Goto(k, "locked")
  /\ UNCHANGED <<now, broker_challenges, boot, locals, decision>>

\* ... or gives up after the busy timeout.
BusyTimeout(k) ==
  /\ pc[k] = "begin"
  /\ writer # None
  /\ Deny(k, "INTERNAL_ERROR")
  /\ UNCHANGED <<now, broker_challenges, writer, boot, submission, consumedAt,
                 credential, decision>>

\* Mutant: the connection of a refused transaction stays open.
ConsumeRefusedKeepsLock(k) ==
  /\ pc[k] = "locked"
  /\ LET why == LockedRefusal(broker_challenges[Token(k)], now)
     IN why # None /\ Deny(k, why)
  /\ UNCHANGED <<now, broker_challenges, writer, boot, submission, consumedAt,
                 credential, decision>>

\* The transaction refuses under the lock: rollback, close, raise.
ConsumeRefused(k) ==
  /\ pc[k] = "locked"
  /\ LET why == LockedRefusal(broker_challenges[Token(k)], now)
     IN why # None /\ Deny(k, why)
  /\ writer' = None
  /\ UNCHANGED <<now, broker_challenges, boot, submission, consumedAt, credential, decision>>

\* The UPDATE, not yet visible to anyone else
ConsumeStaged(k) ==
  /\ pc[k] = "locked"
  /\ LockedRefusal(broker_challenges[Token(k)], now) = None
  /\ consumedAt' = [consumedAt EXCEPT ![k] = now]
  /\ Goto(k, "commit")
  /\ UNCHANGED <<now, broker_challenges, writer, boot, submission, credential, reason, decision>>

\* COMMIT: the challenge is consumed and the lock released.
Commit(k) ==
  /\ pc[k] = "commit"
  /\ broker_challenges' =
       [broker_challenges EXCEPT ![Token(k)].consumed_at = consumedAt[k]]
  /\ writer' = None
  /\ Goto(k, "mint")
  /\ UNCHANGED <<now, boot, locals, decision>>

\* Identifiers drawn so far; a 256-bit draw never repeats one
DrawnIds == {credential[j].credential_id : j \in {i \in Calls : credential[i] # None}}

\* Build and sign the credential, valid from a fresh reading of the clock.
Mint(k) ==
  /\ pc[k] = "mint"
  /\ \E id \in CredentialIds \ DrawnIds :
       credential' = [credential EXCEPT ![k] =
         [credential_id |-> id, subject |-> Holder(k),
          not_before |-> now, not_after |-> now + CredentialTTL]]
  /\ Goto(k, "sign")
  /\ UNCHANGED <<now, broker_challenges, writer, boot, submission, consumedAt, reason, decision>>

\* Any other exception inside the try block, the allow receipt's signer
\* included; SQLite rolls back what was staged.
DependencyFails(k) ==
  /\ pc[k] \in InTry
  /\ Deny(k, "INTERNAL_ERROR")
  /\ writer' = IF writer = k THEN None ELSE writer
  /\ consumedAt' = IF pc[k] = "commit" THEN [consumedAt EXCEPT ![k] = None] ELSE consumedAt
  /\ UNCHANGED <<now, broker_challenges, boot, submission, credential, decision>>

\* The payload _receipt builds
Receipt(k) ==
  LET q == submission[k].request
      allow == pc[k] = "sign"
  IN [manifest_digest |-> IF q = None THEN None ELSE q.body.manifest_digest,
      reason |-> IF allow THEN "ALLOW" ELSE reason[k],
      decision |-> IF allow THEN "allow" ELSE "deny",
      credential_id |-> IF allow THEN credential[k].credential_id ELSE None,
      deciding_service |-> "broker",
      challenge_token_hash |-> IF q = None THEN None ELSE q.body.challenge,
      invocation_id |-> None,
      handler_count_snapshot |-> 0,
      handler_invoked |-> FALSE,
      business_result |-> "not_applicable"]

\* The allow receipt is signed and the credential handed out with it.
Grant(k) ==
  /\ pc[k] = "sign"
  /\ ConsistentDecisionState(Receipt(k))
  /\ decision' = [decision EXCEPT ![k] =
       [credential |-> credential[k], kind |-> "decision", receipt |-> Receipt(k)]]
  /\ Goto(k, "done")
  /\ UNCHANGED <<now, broker_challenges, writer, boot, locals>>

\* The denial receipt is validated and signed ...
Refuse(k) ==
  /\ pc[k] = "deny"
  /\ decision' = [decision EXCEPT ![k] =
       IF ConsistentDecisionState(Receipt(k))
       THEN [credential |-> None, kind |-> "decision", receipt |-> Receipt(k)]
       ELSE [credential |-> None, kind |-> "exception"]]
  /\ Goto(k, "done")
  /\ UNCHANGED <<now, broker_challenges, writer, boot, locals>>

\* ... or the signer fails again and issue raises.
SignerFails(k) ==
  /\ pc[k] = "deny"
  /\ decision' = [decision EXCEPT ![k] = [credential |-> None, kind |-> "exception"]]
  /\ Goto(k, "done")
  /\ UNCHANGED <<now, broker_challenges, writer, boot, locals>>

\* The process dies and restarts on the same file.
Crash ==
  /\ boot < MaxBoots
  /\ boot' = boot + 1
  /\ pc' = [k \in Calls |-> IF Idle(k) \/ Over(k) THEN pc[k] ELSE "lost"]
  /\ consumedAt' = [k \in Calls |-> IF pc[k] = "commit" THEN None ELSE consumedAt[k]]
  /\ writer' = None
  /\ UNCHANGED <<now, broker_challenges, submission, credential, reason, decision>>

\* What the thread of a running call does next, failures apart
CallStep(k) ==
  \/ Appraise(k) \/ BeginImmediate(k) \/ BusyTimeout(k) \/ ConsumeRefused(k)
  \/ ConsumeStaged(k) \/ Commit(k) \/ Mint(k) \/ Grant(k) \/ Refuse(k)

Next ==
  \/ ClockStep
  \/ \E t \in Tokens : NewChallenge(t)
  \/ \E k \in Calls :
       \/ \E s \in Submissions : IssueRefused(k, s) \/ IssueAccepted(k, s)
       \/ CallStep(k) \/ DependencyFails(k) \/ SignerFails(k)
  \/ Crash

Spec == Init /\ [][Next]_vars

\* A thread that can run does run: nothing in issue waits without a timeout.
Fairness == \A k \in Calls : WF_vars(CallStep(k))

FairSpec == Spec /\ Fairness

(***************************************************************************)
(* Properties                                                              *)
(***************************************************************************)

\* The call's consume transaction has committed.
Consumed(k) == consumedAt[k] # None /\ pc[k] # "commit"

\* The call handed a credential to its caller.
Granted(k) == decision[k] # None /\ decision[k].credential # None

\* What an approved submission is, said once for the whole submission: the one
\* manifest, endorsed in full by the one identity, quoted in full by a trusted
\* TPM in the one PCR state, for this broker, scope and resource issuer.
Approved(s) ==
  /\ s.request # None /\ s.evidence # None
  /\ s.manifest = [issuer |-> Policy.manifest_issuer, digest |-> Policy.manifest_digest,
                   verified |-> TRUE]
  /\ \E t \in Tokens, h \in Holders :
       s.request.body =
         [version |-> Policy.version, broker_id |-> Policy.broker_id, challenge |-> t,
          manifest_digest |-> Policy.manifest_digest, identity_key |-> Policy.identity_key,
          holder_key |-> h, resource_issuer |-> Policy.resource_issuer,
          requested_scope |-> Policy.scope]
  /\ s.request.identity_signature = [key |-> Policy.identity_key, over |-> s.request.body]
  /\ s.evidence.chain_verified
  /\ s.evidence.quote = [qualifying |-> s.request, pcr_digest |-> Policy.pcr_digest]

\* A path of certificates as X.509 means it: one end entity that signs but does
\* not certify, then CAs that certify, none with more CAs below it than it allows.
SoundPath(chain) ==
  LET CAs == {n \in DOMAIN chain : chain[n].basic = "ca"}
  IN /\ CAs # {} /\ DOMAIN chain \ CAs = {1} /\ chain[1].basic = "end"
     /\ {n \in DOMAIN chain : "key_cert_sign" \in chain[n].key_usage} = CAs
     /\ "digital_signature" \in chain[1].key_usage
     /\ \A n \in CAs : \A limit \in chain[n].path_length :
          Cardinality({m \in CAs : m < n}) <= limit

\* The instants at which no certificate below the root is out of its window
ValidAt(chain, t) ==
  \A n \in 1 .. Len(chain) - 1 : t \in chain[n].not_before .. chain[n].not_after - 1

\* PCR p is in the quote's selection of the bank: bit p % 8 of byte p \div 8
Covers(selection, p) ==
  p \div 8 < Len(selection.select)
    /\ (selection.select[p \div 8 + 1] \div 2 ^ (p % 8)) % 2 = 1

\* The quote covers the PCRs the policy names, bank by bank, and no others.
CoversPolicy(selections) ==
  /\ selections # None
  /\ Len(selections) = Len(Policy.selection)
  /\ \A n \in DOMAIN selections :
       /\ selections[n].hash = Policy.selection[n][1]
       /\ \A p \in 0 .. 8 * Len(selections[n].select) - 1 \cup Policy.selection[n][2] :
            Covers(selections[n], p) <=> p \in Policy.selection[n][2]

\* A submission nobody may object to, whatever the appraiser's clock reads
AlwaysApproved(s) ==
  /\ Approved(s)
  /\ CoversPolicy(s.evidence.selections)
  /\ SoundPath(s.evidence.chain) /\ \A t \in 0 .. MaxTime : ValidAt(s.evidence.chain, t)

\* Type invariant: the table and the locals of issue hold what their columns
\* and annotations say.
TypeOK ==
  /\ now \in Nat
  /\ broker_challenges \in [Tokens -> ChallengeRow \cup {None}]
  /\ writer \in Calls \cup {None}
  /\ boot \in Nat
  /\ pc \in [Calls -> Steps]
  /\ submission \in [Calls -> Submissions \cup {None}]
  /\ consumedAt \in [Calls -> Nat \cup {None}]
  /\ credential \in [Calls -> Credential \cup {None}]
  /\ reason \in [Calls -> Reasons \cup {None}]

\* One broker challenge yields at most one credential, over all racing calls
\* and restarts: "concurrent requests cannot both issue" (issue's comment).  No
\* two credentials share an identifier, by which inventoryd spends them.
OneCredentialPerChallenge ==
  \A j, k \in Calls :
    /\ credential[j] # None /\ credential[k] # None
    /\ Token(j) = Token(k) \/ credential[j].credential_id = credential[k].credential_id
    => j = k

\* A minted credential is one appraised submission's: its subject is the holder
\* key that the identity endorsed and the quote binds, its challenge was
\* consumed in time by this very call, and the receipt names it.
CredentialsAreBacked ==
  \A k \in Calls : credential[k] # None =>
    /\ Approved(submission[k])
    /\ credential[k].subject = Holder(k)
    /\ LET row == broker_challenges[Token(k)]
       IN row # None /\ row.consumed_at = consumedAt[k] /\ row.consumed_at < row.expires_at
    /\ Granted(k) => /\ decision[k].credential = credential[k]
                     /\ decision[k].receipt.credential_id = credential[k].credential_id
                     /\ decision[k].receipt.challenge_token_hash = Token(k)

\* A credential rests on an attestation key whose certificates form a sound path
\* that was current at some instant.  A path length counts the CAs below, so an
\* off-by-one admits a CA nobody authorised or refuses a good path.
AttestationPathIsSound ==
  \A k \in Calls : credential[k] # None =>
    LET chain == submission[k].evidence.chain
    IN SoundPath(chain) /\ \E t \in 0 .. MaxTime : ValidAt(chain, t)

\* A credential rests on a quote over exactly the PCRs the policy names: a quote
\* of fewer, more or other registers has a digest that proves something else.
AttestedPcrsAreApproved ==
  \A k \in Calls : credential[k] # None => CoversPolicy(submission[k].evidence.selections)

\* "Invalid evidence cannot burn another holder's bearer challenge": whoever
\* consumed a challenge had passed the whole appraisal for it, and a call
\* refused for any reason but INTERNAL_ERROR has consumed nothing.
RefusalsBurnNothing ==
  /\ \A t \in Tokens :
       LET row == broker_challenges[t]
       IN row # None => (row.consumed_at # None =>
            \E k \in Calls : Consumed(k) /\ Token(k) = t /\ Approved(submission[k]))
  /\ \A k \in Calls : decision[k] # None =>
       (decision[k].kind = "decision" =>
          (Consumed(k) => decision[k].receipt.reason \in {"ALLOW", "INTERNAL_ERROR"}))

\* An approved submission, sound path included, is turned away only for the
\* state of its challenge or for an internal error; CHALLENGE_CONSUMED means
\* another call consumed it.
ApprovedIsRefusedForChallengeOnly ==
  \A k \in Calls : reason[k] # None /\ AlwaysApproved(submission[k]) =>
    /\ reason[k] \in {"CHALLENGE_INVALID", "CHALLENGE_STALE", "CHALLENGE_CONSUMED",
                      "INTERNAL_ERROR"}
    /\ reason[k] = "CHALLENGE_CONSUMED" =>
         \E j \in Calls \ {k} : Consumed(j) /\ Token(j) = Token(k)

\* Every payload issue builds passes the receipt validator, so a credential is
\* withheld after its challenge is burnt only when signing itself fails.
ReceiptsValidate ==
  \A k \in Calls : pc[k] \in {"sign", "deny"} => ConsistentDecisionState(Receipt(k))

\* Liveness: every issuance that arrives is answered, or lost in a crash, and
\* holds no lock then: every path out of the consume transaction releases it.
EveryCallEnds == \A k \in Calls : ~Idle(k) ~> Over(k) /\ writer # k
=============================================================================
