-------------------------- MODULE InventoryProofs --------------------------
(***************************************************************************)
(* Theorems on InventoryApplication, for any sets of calls, tokens,        *)
(* credentials and requests and any bounds.                                *)
(***************************************************************************)
EXTENDS InventoryInvariant, TLAPS

\* A verdict of one of redeem's checks is a reason, or None.
LEMMA VerdictType ==
  ASSUME NEW row, NEW r, NEW s, NEW t
  PROVE  /\ CredentialRefusals(r, t) \subseteq Reasons
         /\ StoredRefusal(row, r, t) \in Reasons \cup {None}
         /\ LockedRefusal(row, r, t) \in Reasons \cup {None}
         /\ PreHandlerRefusal(s, r, t) \in Reasons \cup {None}
<1>1. CredentialRefusals(r, t) \subseteq Reasons
  BY DEF CredentialRefusals, ChainErrors, Reasons
<1>2. StoredRefusal(row, r, t) \in Reasons \cup {None}
  BY DEF StoredRefusal, Reasons
<1>3. LockedRefusal(row, r, t) \in Reasons \cup {None}
  BY DEF LockedRefusal, Reasons
<1>4. PreHandlerRefusal(s, r, t) \in Reasons \cup {None}
  BY DEF PreHandlerRefusal, Reasons
<1> QED BY <1>1, <1>2, <1>3, <1>4

\* A request that redeem does not refuse at once carries a credential of the
\* broker with a legal identifier, and a proof.
LEMMA AcceptedRequest ==
  ASSUME NEW r, NEW t, CredentialRefusals(r, t) = {}
  PROVE  /\ r.credential.credential_id \in CredentialIds
         /\ r.credential.signer = BrokerKey
         /\ r.holder_proof # None
<1>1. /\ CredentialWellFormed(r.credential)
      /\ ChainErrors(r.credential, t) = {}
      /\ r.holder_proof # None
  BY DEF CredentialRefusals
<1> QED BY <1>1 DEF CredentialWellFormed, ChainErrors

\* The initial state satisfies the inductive invariant.
LEMMA InitIInv == Init => IInv
<1> SUFFICES ASSUME Init PROVE IInv OBVIOUS
<1> USE DEF Init
<1>1. TypeOK BY ConstantsAssumption DEF TypeOK, Steps
<1>2. LockHeldInTransaction BY NoneAssumption DEF LockHeldInTransaction
<1>3. TokenMeansCredential BY DEF TokenMeansCredential
<1>4. Progress BY DEF Progress, InPhase, PreHandler, Winning, Invoked
<1>5. StagedIsCurrent BY DEF StagedIsCurrent
<1>6. WinnersOwn /\ OneWinner BY DEF WinnersOwn, OneWinner, Won, Committed
<1>7. SpendIsAtomic BY DEF SpendIsAtomic
<1> QED BY <1>1, <1>2, <1>3, <1>4, <1>5, <1>6, <1>7 DEF IInv

\* What a transaction that goes through has read and staged
LEMMA StagedSpend ==
  ASSUME IInv, NEW k \in Calls, SpendStaged(k)
  PROVE  /\ resource_challenges[tokenHash[k]] \in ChallengeRow
         /\ resource_challenges[tokenHash[k]].consumed_at = None
         /\ now < resource_challenges[tokenHash[k]].expires_at
         /\ ContextMatches(resource_challenges[tokenHash[k]], request[k])
         /\ InWindow(request[k].credential, now)
         /\ spend'[k] \in SpendResult
         /\ spend' = [spend EXCEPT ![k] = spend'[k]]
         /\ spend'[k].first_spend <=> credential_redemptions[Cid(k)] = None
         /\ spend'[k].committed_at = now
<1> USE DEF IInv
<1> DEFINE row == resource_challenges[tokenHash[k]]
<1>1. LockedRefusal(row, request[k], now) = None /\ tokenHash[k] \in Tokens
  BY DEF SpendStaged, TypeOK, Progress, InPhase, PreHandler
<1>2. /\ row # None /\ row.consumed_at = None /\ ~(now >= row.expires_at)
      /\ ContextMatches(row, request[k]) /\ InWindow(request[k].credential, now)
  BY <1>1, NoneAssumption DEF LockedRefusal, Reasons
<1>3. row \in ChallengeRow
  BY <1>1, <1>2 DEF TypeOK
<1>4. now < row.expires_at
  BY <1>2, <1>3 DEF ChallengeRow, TypeOK
<1>5. /\ spend'[k] \in SpendResult
      /\ spend' = [spend EXCEPT ![k] = spend'[k]]
      /\ spend'[k].first_spend <=> credential_redemptions[Cid(k)] = None
      /\ spend'[k].committed_at = now
  BY <1>3 DEF SpendStaged, TypeOK, SpendResult, ChallengeRow
<1> QED BY <1>2, <1>3, <1>4, <1>5

\* Every step keeps the type invariant.  Only Commit needs more than TypeOK:
\* the challenge row it updates exists, by Progress and StagedIsCurrent.
LEMMA NextTypeOK ==
  ASSUME IInv, [Next]_vars
  PROVE  TypeOK'
<1> USE DEF IInv
<1>1. CASE ClockStep
  BY <1>1, ConstantsAssumption DEF TypeOK, ClockStep, store, locals
<1>2. ASSUME NEW t \in Tokens, NEW i \in ChallengeInputs, IssueResourceChallenge(t, i)
      PROVE  TypeOK'
  BY <1>2, ConstantsAssumption DEF TypeOK, IssueResourceChallenge, ChallengeRow, locals
<1>3. ASSUME NEW k \in Calls, DirectLookupAttempt(k)
      PROVE  TypeOK'
  BY <1>3 DEF TypeOK, DirectLookupAttempt, Deny, Goto, store, Steps, Reasons
<1>4. ASSUME NEW k \in Calls, NEW r \in Requests, RedeemRefused(k, r)
      PROVE  TypeOK'
  <2>1. PICK why \in Reasons : Deny(k, why)
    <3>1. CredentialRefusals(r, now) \subseteq Reasons
      BY VerdictType
    <3>2. "INTERNAL_ERROR" \in Reasons
      BY DEF Reasons
    <3> QED BY <1>4, <3>1, <3>2 DEF RedeemRefused
  <2> QED BY <1>4, <2>1 DEF TypeOK, RedeemRefused, Deny, Goto, store, Steps
<1>5. ASSUME NEW k \in Calls, NEW r \in Requests, RedeemAccepted(k, r)
      PROVE  TypeOK'
  <2>1. r.holder_proof.challenge \in Tokens
    BY <1>5, AcceptedRequest, ConstantsAssumption DEF RedeemAccepted
  <2> QED BY <1>5, <2>1 DEF TypeOK, RedeemAccepted, Goto, store, Steps
<1>6. ASSUME NEW k \in Calls, CallStep(k)
      PROVE  TypeOK'
  <2>1. CASE GetResourceChallenge(k)
    BY <2>1 DEF TypeOK, GetResourceChallenge, Goto, store, Steps, Progress, InPhase, PreHandler
  <2>2. CASE CheckStored(k)
    <3>1. StoredRefusal(stored[k], request[k], now) \in Reasons \cup {None}
      BY VerdictType
    <3> QED BY <2>2, <3>1 DEF TypeOK, CheckStored, Deny, Goto, store, Steps
  <2>3. CASE VerifyHolderProof(k)
    BY <2>3 DEF TypeOK, VerifyHolderProof, Deny, Goto, store, Steps, Reasons
  <2>4. CASE BeginImmediate(k)
    BY <2>4 DEF TypeOK, BeginImmediate, Goto, store, locals, Steps
  <2>5. CASE BusyTimeout(k)
    BY <2>5 DEF TypeOK, BusyTimeout, Deny, Goto, store, Steps, Reasons
  <2>6. CASE SpendRefused(k)
    <3>1. LockedRefusal(resource_challenges[tokenHash[k]], request[k], now) \in Reasons \cup {None}
      BY VerdictType
    <3> QED BY <2>6, <3>1 DEF TypeOK, SpendRefused, Deny, Goto, store, Steps
  <2>7. CASE SpendStaged(k)
    <3>1. spend'[k] \in SpendResult /\ spend' = [spend EXCEPT ![k] = spend'[k]]
      BY <2>7, StagedSpend
    <3> QED BY <2>7, <3>1 DEF TypeOK, SpendStaged, Goto, store, Steps
  <2>8. CASE Commit(k)
    <3>1. spend[k] \in SpendResult /\ tokenHash[k] \in Tokens /\ Cid(k) \in CredentialIds
      BY <2>8 DEF Commit, TypeOK, Progress, InPhase, TokenMeansCredential, PreHandler
    <3>2. resource_challenges[tokenHash[k]] \in ChallengeRow
      BY <2>8, <3>1 DEF Commit, TypeOK, StagedIsCurrent
    <3>3. request[k].record_id \in RecordIds
      BY <2>8, ConstantsAssumption DEF Commit, TypeOK, Progress, InPhase, TokenMeansCredential, PreHandler
    <3>4. resource_challenges' \in [Tokens -> ChallengeRow \cup {None}]
      BY <2>8, <3>1, <3>2 DEF Commit, TypeOK, ChallengeRow, SpendResult
    <3>5. credential_redemptions' \in [CredentialIds -> RedemptionRow \cup {None}]
      BY <2>8, <3>1, <3>3 DEF Commit, TypeOK, RedemptionRow, SpendResult
    <3> QED BY <2>8, <3>4, <3>5 DEF TypeOK, Commit, Goto, locals, Steps
  <2>9. CASE AfterSpend(k)
    <3>1. PreHandlerRefusal(spend[k], request[k], now) \in Reasons \cup {None}
      BY VerdictType
    <3> QED BY <2>9, <3>1 DEF TypeOK, AfterSpend, Deny, Goto, store, Steps
  <2>10. CASE RecordInvocation(k)
    BY <2>10 DEF TypeOK, RecordInvocation, Goto, store, Steps
  <2>11. CASE InventoryLookup(k)
    BY <2>11 DEF TypeOK, InventoryLookup, Goto, store, Steps, Reasons
  <2>12. CASE SignReceipt(k)
    BY <2>12 DEF TypeOK, SignReceipt, Goto, store, locals, Steps
  <2> QED BY <1>6, <2>1, <2>2, <2>3, <2>4, <2>5, <2>6, <2>7, <2>8, <2>9, <2>10, <2>11, <2>12
          DEF CallStep
<1>7. ASSUME NEW k \in Calls, DependencyFails(k)
      PROVE  TypeOK'
  BY <1>7 DEF TypeOK, DependencyFails, Deny, Goto, store, Steps, Reasons
<1>8. ASSUME NEW k \in Calls, SignerFails(k)
      PROVE  TypeOK'
  BY <1>8 DEF TypeOK, SignerFails, Goto, store, locals, Steps
<1>9. CASE Crash
  BY <1>9 DEF TypeOK, Crash, store, Steps
<1>10. CASE UNCHANGED vars
  BY <1>10 DEF TypeOK, vars, store, locals
<1> QED BY <1>1, <1>2, <1>3, <1>4, <1>5, <1>6, <1>7, <1>8, <1>9, <1>10 DEF Next

\* The steps by which a call only moves on, outside its transaction: tables,
\* lock, request and spend stay as they are.
LocalMove(k, step) ==
  /\ pc[k] \notin {"locked", "commit"}
  /\ step \in {"lookup", "check", "proof", "begin", "deny", "done"} \cup Winning
  /\ pc' = [pc EXCEPT ![k] = step]
  /\ UNCHANGED <<resource_challenges, credential_redemptions, writer, request,
                 tokenHash, spend>>

\* Such a move keeps the invariant if the call has what its new step needs.
LEMMA LocalMoveIInv ==
  ASSUME IInv, TypeOK', NEW k \in Calls, NEW step, LocalMove(k, step),
         step \in PreHandler \cup Winning => tokenHash[k] # None,
         step = "begin" =>
           /\ request[k].holder_proof.signature.key = request[k].credential.subject
           /\ request[k].holder_proof.signature.sku = request[k].sku,
         spend[k] # None => step \in {"deny", "done"} \cup Winning,
         step \in Winning => Won(k),
         \A j \in Calls : Invoked(j)' => Invoked(j) \/ (j = k /\ Won(k))
  PROVE  IInv'
<1> USE DEF IInv, LocalMove
<1>0. \A j \in Calls : /\ pc'[j] = "commit" <=> pc[j] = "commit"
                       /\ Won(j)' <=> Won(j)
                       /\ Cid(j)' = Cid(j)
  BY DEF TypeOK, Won, Committed, Cid, Winning
<1>1. LockHeldInTransaction'
  BY DEF LockHeldInTransaction, TypeOK, Winning
<1>2. TokenMeansCredential'
  BY <1>0 DEF TokenMeansCredential
<1>3. Progress'
  <2> SUFFICES ASSUME NEW j \in Calls
               PROVE  /\ pc'[j] = "idle" => tokenHash[j] = None
                      /\ pc'[j] \in PreHandler \cup Winning \/ spend[j] # None => tokenHash[j] # None
                      /\ pc'[j] \in {"begin", "locked", "commit"} \/ spend[j] # None =>
                           /\ request[j].holder_proof.signature.key = request[j].credential.subject
                           /\ request[j].holder_proof.signature.sku = request[j].sku
                      /\ spend[j] # None => pc'[j] \in {"commit", "spent", "deny", "done", "lost"} \cup Winning
                      /\ pc'[j] \in {"commit", "spent"} => spend[j] # None
                      /\ pc'[j] \in Winning \/ Invoked(j)' => Won(j)
    BY <1>0 DEF Progress, InPhase
  <2>1. CASE j = k
    BY <2>1 DEF Progress, InPhase, TypeOK, PreHandler, Winning
  <2>2. CASE j # k
    <3>1. pc'[j] = pc[j]
      BY <2>2 DEF TypeOK
    <3> QED BY <2>2, <3>1 DEF Progress, InPhase
  <2> QED BY <2>1, <2>2
<1>4. StagedIsCurrent'
  BY <1>0 DEF StagedIsCurrent
<1>5. WinnersOwn'
  BY <1>0 DEF WinnersOwn, Owns
<1>6. OneWinner'
  BY <1>0 DEF OneWinner
<1>7. SpendIsAtomic'
  BY DEF SpendIsAtomic
<1> QED BY <1>1, <1>2, <1>3, <1>4, <1>5, <1>6, <1>7

\* Every step of one call that stays outside the transaction keeps the invariant.
LEMMA LocalActionsIInv ==
  ASSUME IInv, TypeOK', NEW k \in Calls,
         \/ DirectLookupAttempt(k) \/ GetResourceChallenge(k) \/ CheckStored(k)
         \/ VerifyHolderProof(k) \/ BusyTimeout(k) \/ AfterSpend(k)
         \/ RecordInvocation(k) \/ InventoryLookup(k) \/ SignReceipt(k) \/ SignerFails(k)
  PROVE  IInv'
<1> USE DEF IInv
<1>0. invocation' = invocation => \A j \in Calls : Invoked(j)' => Invoked(j)
  BY DEF Invoked
<1>1. CASE DirectLookupAttempt(k)
  <2>1. LocalMove(k, "deny") /\ pc[k] = "idle" /\ invocation' = invocation
    BY <1>1 DEF DirectLookupAttempt, Idle, Deny, Goto, store, LocalMove
  <2> QED BY <1>0, <2>1, LocalMoveIInv DEF PreHandler, Winning
<1>2. CASE GetResourceChallenge(k)
  <2>1. LocalMove(k, "check") /\ pc[k] = "lookup" /\ invocation' = invocation
    BY <1>2 DEF GetResourceChallenge, Goto, store, LocalMove
  <2> QED BY <1>0, <2>1, LocalMoveIInv DEF PreHandler, Winning, Progress, InPhase
<1>3. CASE CheckStored(k)
  <2>1. PICK step \in {"proof", "deny"} : LocalMove(k, step)
    BY <1>3 DEF CheckStored, Deny, Goto, store, LocalMove
  <2>2. pc[k] = "check" /\ invocation' = invocation
    BY <1>3 DEF CheckStored
  <2> QED BY <1>0, <2>1, <2>2, LocalMoveIInv DEF PreHandler, Winning, Progress, InPhase
<1>4. CASE VerifyHolderProof(k)
  <2>1. pc[k] = "proof" /\ invocation' = invocation
    BY <1>4 DEF VerifyHolderProof
  <2>2. CASE HolderProofVerifies(request[k], stored[k], now)
    <3>1. LocalMove(k, "begin")
      BY <1>4, <2>2 DEF VerifyHolderProof, Goto, store, LocalMove
    <3>2. /\ request[k].holder_proof.signature.key = request[k].credential.subject
          /\ request[k].holder_proof.signature.sku = request[k].sku
      BY <2>2 DEF HolderProofVerifies
    <3> QED BY <1>0, <2>1, <3>1, <3>2, LocalMoveIInv DEF PreHandler, Winning, Progress, InPhase
  <2>3. CASE ~HolderProofVerifies(request[k], stored[k], now)
    <3>1. LocalMove(k, "deny")
      BY <1>4, <2>3 DEF VerifyHolderProof, Deny, Goto, store, LocalMove
    <3> QED BY <1>0, <2>1, <3>1, LocalMoveIInv DEF PreHandler, Winning, Progress, InPhase
  <2> QED BY <2>2, <2>3
<1>5. CASE BusyTimeout(k)
  <2>1. LocalMove(k, "deny") /\ pc[k] = "begin" /\ invocation' = invocation
    BY <1>5 DEF BusyTimeout, Deny, Goto, store, LocalMove
  <2> QED BY <1>0, <2>1, LocalMoveIInv DEF PreHandler, Winning
<1>6. CASE AfterSpend(k)
  <2>1. pc[k] = "spent" /\ invocation' = invocation
    BY <1>6 DEF AfterSpend
  <2>2. CASE PreHandlerRefusal(spend[k], request[k], now) = None
    <3>1. LocalMove(k, "invoke")
      BY <1>6, <2>2 DEF AfterSpend, Goto, store, LocalMove, Winning
    <3>2. spend[k].first_spend
      BY <2>2, NoneAssumption DEF PreHandlerRefusal, Reasons
    <3>3. Won(k) /\ tokenHash[k] # None
      BY <2>1, <3>2 DEF Won, Committed, Progress, InPhase, PreHandler
    <3> QED BY <1>0, <2>1, <3>1, <3>3, LocalMoveIInv DEF Winning
  <2>3. CASE PreHandlerRefusal(spend[k], request[k], now) # None
    <3>1. LocalMove(k, "deny")
      BY <1>6, <2>3 DEF AfterSpend, Deny, Goto, store, LocalMove
    <3> QED BY <1>0, <2>1, <3>1, LocalMoveIInv DEF PreHandler, Winning
  <2> QED BY <2>2, <2>3
<1>7. CASE RecordInvocation(k)
  <2>1. LocalMove(k, "handler") /\ pc[k] = "invoke"
    BY <1>7 DEF RecordInvocation, Goto, store, LocalMove, Winning
  <2>2. Won(k) /\ tokenHash[k] # None
    BY <2>1 DEF Progress, InPhase, Winning
  <2>3. \A j \in Calls : Invoked(j)' => Invoked(j) \/ (j = k /\ Won(k))
    BY <1>7, <2>2 DEF RecordInvocation, Invoked, TypeOK
  <2> QED BY <2>1, <2>2, <2>3, LocalMoveIInv DEF Winning
<1>8. CASE InventoryLookup(k)
  <2>1. PICK step \in {"completed", "failed"} : LocalMove(k, step)
    BY <1>8 DEF InventoryLookup, Goto, store, LocalMove, Winning
  <2>2. pc[k] = "handler" /\ invocation' = invocation
    BY <1>8 DEF InventoryLookup
  <2>3. Won(k) /\ tokenHash[k] # None
    BY <2>2 DEF Progress, InPhase, Winning
  <2> QED BY <1>0, <2>1, <2>2, <2>3, LocalMoveIInv DEF Winning
<1>9. CASE SignReceipt(k) \/ SignerFails(k)
  <2>1. LocalMove(k, "done") /\ invocation' = invocation
    BY <1>9 DEF SignReceipt, SignerFails, Goto, store, locals, LocalMove
  <2> QED BY <1>0, <2>1, LocalMoveIInv DEF PreHandler, Winning
<1> QED BY <1>1, <1>2, <1>3, <1>4, <1>5, <1>6, <1>7, <1>8, <1>9

\* The arrival of a request keeps the invariant: the call had nothing before.
LEMMA ArrivalIInv ==
  ASSUME IInv, TypeOK', NEW k \in Calls, NEW r \in Requests,
         RedeemRefused(k, r) \/ RedeemAccepted(k, r)
  PROVE  IInv'
<1> USE DEF IInv
<1>1. /\ pc[k] = "idle" /\ tokenHash[k] = None /\ spend[k] = None
      /\ pc' \in {[pc EXCEPT ![k] = "deny"], [pc EXCEPT ![k] = "lookup"]}
      /\ request' = [request EXCEPT ![k] = r]
      /\ \A j \in Calls \ {k} : tokenHash'[j] = tokenHash[j]
      /\ UNCHANGED <<resource_challenges, credential_redemptions, writer, spend, invocation>>
  BY DEF RedeemRefused, RedeemAccepted, Idle, Deny, Goto, store, TypeOK, Progress, InPhase, Winning
<1>2. /\ tokenHash'[k] # None => CredentialRefusals(r, now) = {}
      /\ pc'[k] = "lookup" => tokenHash'[k] # None
  <2>1. CASE RedeemRefused(k, r)
    BY <2>1, <1>1 DEF RedeemRefused, Deny, Goto, TypeOK
  <2>2. CASE RedeemAccepted(k, r)
    <3>1. r.holder_proof.challenge \in Tokens
      BY <2>2, AcceptedRequest, ConstantsAssumption DEF RedeemAccepted
    <3> QED BY <2>2, <3>1, NoneAssumption DEF RedeemAccepted, TypeOK
  <2> QED BY <2>1, <2>2
<1>3. \A j \in Calls \ {k} : pc'[j] = pc[j] /\ request'[j] = request[j] /\ Cid(j)' = Cid(j)
  BY <1>1 DEF TypeOK, Cid
<1>4. /\ \A j \in Calls : Won(j)' <=> Won(j)
      /\ ~Won(k)
      /\ pc'[k] \in {"deny", "lookup"}
  BY <1>1, <1>3 DEF Won, Committed, TypeOK
<1>5. LockHeldInTransaction'
  BY <1>1, <1>3, <1>4 DEF LockHeldInTransaction
<1>6. TokenMeansCredential'
  <2>1. tokenHash'[k] # None =>
          /\ request'[k] \in Requests
          /\ Cid(k)' \in CredentialIds
          /\ request'[k].credential.signer = BrokerKey
    BY <1>1, <1>2, AcceptedRequest DEF Cid, TypeOK
  <2> QED BY <1>1, <1>3, <2>1 DEF TokenMeansCredential
<1>7. Progress'
  BY <1>1, <1>2, <1>3, <1>4 DEF Progress, InPhase, PreHandler, Winning, Invoked
<1>8. StagedIsCurrent'
  BY <1>1, <1>3, <1>4 DEF StagedIsCurrent
<1>9. WinnersOwn' /\ OneWinner'
  BY <1>1, <1>3, <1>4 DEF WinnersOwn, OneWinner, Owns
<1>10. SpendIsAtomic'
  BY <1>1 DEF SpendIsAtomic
<1> QED BY <1>5, <1>6, <1>7, <1>8, <1>9, <1>10

\* The steps of the transaction keep the invariant.
LEMMA TransactionIInv ==
  ASSUME IInv, TypeOK', NEW k \in Calls,
         BeginImmediate(k) \/ SpendRefused(k) \/ SpendStaged(k) \/ DependencyFails(k)
  PROVE  IInv'
<1> USE DEF IInv
<1>0. /\ UNCHANGED <<resource_challenges, credential_redemptions, request, tokenHash, invocation>>
      /\ pc[k] \in PreHandler
      /\ pc'[k] \in {"locked", "commit", "deny"}
      /\ \A j \in Calls \ {k} : pc'[j] = pc[j] /\ spend'[j] = spend[j]
      /\ pc'[k] = "commit" <=> SpendStaged(k)
      /\ pc'[k] = "locked" <=> BeginImmediate(k)
  BY DEF BeginImmediate, SpendRefused, SpendStaged, DependencyFails, Deny, Goto,
         store, locals, TypeOK, PreHandler
<1>1. \A j \in Calls : Cid(j)' = Cid(j) /\ (Invoked(j)' <=> Invoked(j))
  BY <1>0 DEF Cid, Invoked
<1>2. ~Invoked(k) \/ pc[k] = "spent"
  BY <1>0 DEF Progress, InPhase, Won, Committed, PreHandler, Winning
<1>3. \A j \in Calls : Won(j)' => Won(j) /\ spend'[j] = spend[j]
  BY <1>0 DEF Won, Committed, BeginImmediate, SpendRefused, SpendStaged, DependencyFails,
              locals, TypeOK, Progress, InPhase, PreHandler, Winning
<1>4. \A j \in Calls : Invoked(j) => Won(j)'
  BY <1>0, <1>2 DEF Won, Committed, BeginImmediate, SpendRefused, SpendStaged, DependencyFails,
              locals, TypeOK, Progress, InPhase, PreHandler, Winning
<1>5. LockHeldInTransaction'
  BY <1>0, NoneAssumption DEF LockHeldInTransaction, BeginImmediate, SpendRefused, SpendStaged,
              DependencyFails, TypeOK, PreHandler, Deny, Goto
<1>6. TokenMeansCredential'
  BY <1>0, <1>1 DEF TokenMeansCredential
<1>7. Progress'
  <2>1. /\ tokenHash[k] # None
        /\ pc[k] \in {"begin", "locked", "commit", "spent"} \/ spend[k] # None =>
             /\ request[k].holder_proof.signature.key = request[k].credential.subject
             /\ request[k].holder_proof.signature.sku = request[k].sku
    BY <1>0 DEF Progress, InPhase
  <2>2. pc'[k] = "commit" => spend'[k] # None
    BY <1>0, StagedSpend, NoneAssumption
  <2>3. spend'[k] # None =>
          /\ pc'[k] \in {"commit", "deny"}
          /\ pc[k] = "locked" \/ spend[k] # None
    BY <1>0 DEF BeginImmediate, SpendRefused, SpendStaged, DependencyFails, locals, TypeOK,
                Progress, InPhase, Winning
  <2>4. pc'[k] \in {"locked", "commit"} => pc[k] \in {"begin", "locked"}
    BY <1>0 DEF BeginImmediate, SpendStaged
  <2>5. pc'[k] \notin {"idle", "spent"} \cup Winning /\ (Invoked(k)' => Won(k)')
    BY <1>0, <1>1, <1>4 DEF Winning
  <2>6. \A j \in Calls \ {k} : pc[j] \in Winning \/ Invoked(j) => Won(j)'
    BY <1>0 DEF Progress, InPhase, Won, Committed
  <2>7. InPhase(k)'
    <3>1. tokenHash'[k] # None /\ request'[k] = request[k]
      BY <1>0, <2>1
    <3>2. pc'[k] \in {"begin", "locked", "commit"} \/ spend'[k] # None =>
            pc[k] \in {"begin", "locked", "commit", "spent"} \/ spend[k] # None
      BY <1>0, <2>3, <2>4
    <3>3. spend'[k] # None => pc'[k] \in {"commit", "spent", "deny", "done", "lost"} \cup Winning
      BY <2>3 DEF Winning
    <3> QED BY <2>1, <2>2, <2>5, <3>1, <3>2, <3>3 DEF InPhase
  <2>8. ASSUME NEW j \in Calls \ {k} PROVE InPhase(j)'
    <3>1. InPhase(j)
      BY DEF Progress
    <3> QED BY <1>0, <1>1, <2>6, <3>1 DEF InPhase
  <2> QED BY <2>7, <2>8 DEF Progress
<1>8. StagedIsCurrent'
  <2>1. CASE SpendStaged(k)
    <3>1. \A j \in Calls \ {k} : pc'[j] # "commit"
      BY <1>0, <2>1 DEF SpendStaged, LockHeldInTransaction
    <3> QED BY <1>0, <1>1, <2>1, <3>1, StagedSpend, NoneAssumption DEF StagedIsCurrent
  <2>2. CASE ~SpendStaged(k)
    BY <1>0, <1>1, <2>2 DEF StagedIsCurrent
  <2> QED BY <2>1, <2>2
<1>9. WinnersOwn'
  BY <1>0, <1>1, <1>3 DEF WinnersOwn, Owns
<1>10. OneWinner'
  BY <1>1, <1>3 DEF OneWinner
<1>11. SpendIsAtomic'
  BY <1>0 DEF SpendIsAtomic
<1> QED BY <1>5, <1>6, <1>7, <1>8, <1>9, <1>10, <1>11

\* The commit keeps the invariant: the staged rows become the call's own, and
\* the rows of earlier winners are other rows.
LEMMA CommitIInv ==
  ASSUME IInv, TypeOK', NEW k \in Calls, Commit(k)
  PROVE  IInv'
<1> USE DEF IInv
<1> DEFINE tok == tokenHash[k]
           was == resource_challenges[tok]
           at == spend[k].committed_at
<1>0. /\ pc[k] = "commit" /\ pc' = [pc EXCEPT ![k] = "spent"] /\ writer' = None
      /\ UNCHANGED <<request, tokenHash, spend, invocation>>
      /\ resource_challenges' = [resource_challenges EXCEPT ![tok] = [was EXCEPT !.consumed_at = at]]
      /\ spend[k].first_spend => credential_redemptions' =
           [credential_redemptions EXCEPT ![Cid(k)] =
              [token |-> tok, record_id |-> request[k].record_id, redeemed_at |-> at]]
      /\ ~spend[k].first_spend => credential_redemptions' = credential_redemptions
  BY DEF Commit, Goto, locals
<1>1. /\ spend[k] \in SpendResult /\ tok \in Tokens /\ Cid(k) \in CredentialIds
      /\ was \in ChallengeRow /\ was.consumed_at = None
      /\ ContextMatches(was, request[k]) /\ at < was.expires_at
      /\ InWindow(request[k].credential, at)
      /\ spend[k].first_spend <=> credential_redemptions[Cid(k)] = None
      /\ at \in Nat /\ at # None
  <2>1. /\ spend[k] \in SpendResult /\ tok \in Tokens /\ Cid(k) \in CredentialIds
    BY <1>0 DEF TypeOK, Progress, InPhase, PreHandler, TokenMeansCredential
  <2>2. at \in Nat /\ at # None
    BY <2>1, NoneAssumption DEF SpendResult
  <2> QED BY <1>0, <2>1, <2>2 DEF StagedIsCurrent, TypeOK
<1>2. /\ \A j \in Calls : Cid(j)' = Cid(j) /\ (Invoked(j)' <=> Invoked(j))
      /\ \A j \in Calls \ {k} : pc'[j] = pc[j] /\ pc[j] # "commit"
      /\ pc'[k] = "spent"
  BY <1>0 DEF Cid, Invoked, TypeOK, LockHeldInTransaction
<1>3. /\ \A j \in Calls \ {k} : Won(j)' <=> Won(j)
      /\ Won(k)' <=> spend[k].first_spend
      /\ ~Won(k)
  BY <1>0, <1>1, <1>2, NoneAssumption DEF Won, Committed
\* The row that was updated, seen from outside
<1>4. LET is == resource_challenges'[tok]
      IN /\ is # None /\ is.consumed_at = at /\ is.expires_at = was.expires_at
         /\ is.credential_id = was.credential_id /\ is.sku = was.sku
         /\ is.record_id = was.record_id /\ ContextMatches(is, request[k])
  <2>1. resource_challenges'[tok] = [was EXCEPT !.consumed_at = at]
    BY <1>0, <1>1 DEF TypeOK
  <2>2. resource_challenges'[tok] \in ChallengeRow
    BY <1>1, <2>1 DEF ChallengeRow
  <2> QED BY <1>1, <2>1, <2>2, NoneAssumption DEF ChallengeRow, ContextMatches
<1>5. \A t \in Tokens \ {tok} : resource_challenges'[t] = resource_challenges[t]
  BY <1>0, <1>1 DEF TypeOK
\* An earlier winner neither holds this token nor, if this call is first, this credential.
<1>6. ASSUME NEW j \in Calls, Won(j)
      PROVE  /\ tokenHash[j] \in Tokens \ {tok}
             /\ credential_redemptions'[Cid(j)] = credential_redemptions[Cid(j)]
             /\ credential_redemptions[Cid(j)] # None
  <2>1. Owns(j) /\ tokenHash[j] \in Tokens /\ Cid(j) \in CredentialIds /\ spend[j] \in SpendResult
    BY <1>6 DEF WinnersOwn, Won, Committed, Progress, InPhase, TokenMeansCredential, TypeOK
  <2>2. tokenHash[j] # tok
    BY <1>1, <2>1, NoneAssumption DEF Owns, SpendResult
  <2>3. credential_redemptions[Cid(j)] # None
    <3>1. request[j].record_id \in RecordIds /\ spend[j].committed_at \in Nat
      BY <1>6, <2>1, ConstantsAssumption
         DEF Won, Committed, Progress, InPhase, TokenMeansCredential, SpendResult
    <3>2. credential_redemptions[Cid(j)] \in RedemptionRow
      BY <2>1, <3>1 DEF Owns, RedemptionRow
    <3> QED BY <3>2, NoneAssumption
  <2>4. credential_redemptions'[Cid(j)] = credential_redemptions[Cid(j)]
    BY <1>0, <1>1, <2>1, <2>3 DEF TypeOK
  <2> QED BY <2>1, <2>2, <2>3, <2>4
<1>7. LockHeldInTransaction'
  BY <1>0, <1>2, NoneAssumption DEF LockHeldInTransaction
<1>8. TokenMeansCredential'
  BY <1>0, <1>2 DEF TokenMeansCredential
<1>9. Progress'
  <2>1. InPhase(k)'
    BY <1>0, <1>1, <1>2, <1>3, NoneAssumption DEF Progress, InPhase, PreHandler, Winning, Won, Committed
  <2>2. ASSUME NEW j \in Calls \ {k} PROVE InPhase(j)'
    <3>1. InPhase(j)
      BY DEF Progress
    <3> QED BY <1>0, <1>2, <1>3, <3>1 DEF InPhase
  <2> QED BY <2>1, <2>2 DEF Progress
<1>10. StagedIsCurrent'
  BY <1>2 DEF StagedIsCurrent
<1>11. WinnersOwn'
  <2>1. Won(k)' => Owns(k)'
    BY <1>0, <1>1, <1>2, <1>3, <1>4 DEF Owns, TypeOK
  <2>2. ASSUME NEW j \in Calls \ {k}, Won(j)' PROVE Owns(j)'
    <3>1. Won(j) /\ Owns(j)
      BY <1>3, <2>2 DEF WinnersOwn
    <3> QED BY <1>0, <1>2, <1>5, <1>6, <3>1 DEF Owns
  <2> QED BY <2>1, <2>2 DEF WinnersOwn
<1>12. OneWinner'
  <2>1. ASSUME NEW j \in Calls \ {k}, Won(j)', Won(k)' PROVE Cid(j)' # Cid(k)'
    BY <1>1, <1>2, <1>3, <1>6, <2>1
  <2> QED BY <1>2, <1>3, <2>1 DEF OneWinner
<1>13. SpendIsAtomic'
  <2>1. ASSUME NEW c \in CredentialIds, credential_redemptions'[c] # None
        PROVE  LET red == credential_redemptions'[c]
                   row == resource_challenges'[red.token]
               IN /\ row # None /\ row.credential_id = c /\ row.record_id = red.record_id
                  /\ row.consumed_at = red.redeemed_at /\ red.redeemed_at < row.expires_at
    <3>1. CASE c = Cid(k) /\ spend[k].first_spend
      <4>1. credential_redemptions'[c] =
              [token |-> tok, record_id |-> request[k].record_id, redeemed_at |-> at]
        BY <1>0, <1>1, <3>1 DEF TypeOK
      <4>2. was.credential_id = c /\ was.record_id = request[k].record_id
        BY <1>1, <3>1 DEF ContextMatches, Cid
      <4> QED BY <1>1, <1>4, <4>1, <4>2
    <3>2. CASE ~(c = Cid(k) /\ spend[k].first_spend)
      <4> DEFINE red == credential_redemptions[c]
      <4>1. credential_redemptions'[c] = red /\ red # None
        BY <1>0, <1>1, <2>1, <3>2 DEF TypeOK
      <4>2. /\ resource_challenges[red.token] # None
            /\ resource_challenges[red.token].credential_id = c
            /\ resource_challenges[red.token].record_id = red.record_id
            /\ resource_challenges[red.token].consumed_at = red.redeemed_at
            /\ red.redeemed_at < resource_challenges[red.token].expires_at
        BY <4>1 DEF SpendIsAtomic
      <4>3. red.token \in Tokens /\ red.redeemed_at # None
        BY <4>1, NoneAssumption DEF TypeOK, RedemptionRow
      <4>4. red.token # tok
        BY <1>1, <4>2, <4>3
      <4> QED BY <1>5, <4>1, <4>2, <4>3, <4>4
    <3> QED BY <3>1, <3>2
  <2>2. spend[k].first_spend => credential_redemptions'[Cid(k)] # None
    <3>1. request[k].record_id \in RecordIds
      BY <1>0, ConstantsAssumption DEF Progress, InPhase, PreHandler, TokenMeansCredential
    <3>2. spend[k].first_spend => credential_redemptions'[Cid(k)] \in RedemptionRow
      BY <1>0, <1>1, <3>1 DEF RedemptionRow, TypeOK
    <3> QED BY <3>2, NoneAssumption
  <2>3. /\ \A c \in CredentialIds : credential_redemptions[c] # None => credential_redemptions'[c] # None
        /\ credential_redemptions'[Cid(k)] # None
    BY <1>0, <1>1, <2>2 DEF TypeOK
  <2>4. ASSUME NEW t \in Tokens, resource_challenges'[t] # None,
               resource_challenges'[t].consumed_at # None
        PROVE  credential_redemptions'[resource_challenges'[t].credential_id] # None
    <3>1. CASE t = tok
      BY <1>1, <1>4, <2>3, <3>1 DEF ContextMatches, Cid
    <3>2. CASE t # tok
      <4>1. resource_challenges'[t] = resource_challenges[t] /\ resource_challenges[t] \in ChallengeRow
        BY <1>5, <2>4, <3>2 DEF TypeOK
      <4> QED BY <2>3, <2>4, <4>1 DEF SpendIsAtomic, ChallengeRow
    <3> QED BY <3>1, <3>2
  <2> QED BY <2>1, <2>4 DEF SpendIsAtomic
<1> QED BY <1>7, <1>8, <1>9, <1>10, <1>11, <1>12, <1>13

\* A new challenge row keeps the invariant: its token was in nobody's tables,
\* and no transaction is open while it is inserted.
LEMMA IssueIInv ==
  ASSUME IInv, TypeOK', NEW t \in Tokens, NEW i \in ChallengeInputs,
         IssueResourceChallenge(t, i)
  PROVE  IInv'
<1> USE DEF IInv
<1>1. /\ writer = None /\ resource_challenges[t] = None
      /\ UNCHANGED <<credential_redemptions, writer, pc, request, tokenHash, spend, invocation>>
      /\ resource_challenges'[t].consumed_at = None
      /\ \A u \in Tokens \ {t} : resource_challenges'[u] = resource_challenges[u]
  BY DEF IssueResourceChallenge, locals, TypeOK
<1>2. \A j \in Calls : /\ Cid(j)' = Cid(j)
                       /\ Won(j)' <=> Won(j)
                       /\ Invoked(j)' <=> Invoked(j)
                       /\ pc[j] # "commit"
  BY <1>1, NoneAssumption DEF Cid, Won, Committed, Invoked, LockHeldInTransaction
<1>3. LockHeldInTransaction'
  BY <1>1 DEF LockHeldInTransaction
<1>4. TokenMeansCredential'
  BY <1>1, <1>2 DEF TokenMeansCredential
<1>5. Progress'
  BY <1>1, <1>2 DEF Progress, InPhase
<1>6. StagedIsCurrent'
  BY <1>1, <1>2 DEF StagedIsCurrent
<1>7. WinnersOwn'
  <2> SUFFICES ASSUME NEW j \in Calls, Won(j) PROVE Owns(j)'
    BY <1>2 DEF WinnersOwn
  <2>1. Owns(j) /\ tokenHash[j] \in Tokens \ {t}
    BY <1>1 DEF WinnersOwn, Owns, Won, Committed, Progress, InPhase, TypeOK
  <2> QED BY <1>1, <1>2, <2>1 DEF Owns
<1>8. OneWinner'
  BY <1>2 DEF OneWinner
<1>9. SpendIsAtomic'
  <2>1. \A c \in CredentialIds : credential_redemptions[c] # None =>
          credential_redemptions[c].token \in Tokens \ {t}
    BY <1>1 DEF SpendIsAtomic, TypeOK, RedemptionRow
  <2> QED BY <1>1, <2>1 DEF SpendIsAtomic
<1> QED BY <1>3, <1>4, <1>5, <1>6, <1>7, <1>8, <1>9

\* A crash keeps the invariant: it only rolls back and forgets.
LEMMA CrashIInv ==
  ASSUME IInv, TypeOK', Crash
  PROVE  IInv'
<1> USE DEF IInv
<1>1. /\ UNCHANGED <<resource_challenges, credential_redemptions, request, tokenHash, invocation>>
      /\ writer' = None
      /\ \A j \in Calls : /\ pc'[j] \in {pc[j], "lost"}
                          /\ pc'[j] \in {"idle", "done", "lost"}
                          /\ pc'[j] = "idle" <=> pc[j] = "idle"
                          /\ pc[j] = "commit" => spend'[j] = None
                          /\ pc[j] # "commit" => spend'[j] = spend[j]
  BY DEF Crash, store, Idle, Over, TypeOK
<1>2. \A j \in Calls : /\ Cid(j)' = Cid(j)
                       /\ Won(j)' <=> Won(j)
                       /\ Won(j)' => spend'[j] = spend[j]
                       /\ Invoked(j)' <=> Invoked(j)
  BY <1>1 DEF Cid, Won, Committed, Invoked
<1>3. LockHeldInTransaction' /\ StagedIsCurrent'
  BY <1>1, NoneAssumption DEF LockHeldInTransaction, StagedIsCurrent
<1>4. TokenMeansCredential'
  BY <1>1, <1>2 DEF TokenMeansCredential
<1>5. Progress'
  BY <1>1, <1>2 DEF Progress, InPhase, PreHandler, Winning
<1>6. WinnersOwn'
  BY <1>1, <1>2 DEF WinnersOwn, Owns
<1>7. OneWinner'
  BY <1>2 DEF OneWinner
<1>8. SpendIsAtomic'
  BY <1>1 DEF SpendIsAtomic
<1> QED BY <1>3, <1>4, <1>5, <1>6, <1>7, <1>8

\* The clock and stuttering steps change nothing the invariant speaks of,
\* apart from the type of now.
LEMMA ClockIInv ==
  ASSUME IInv, TypeOK', ClockStep \/ UNCHANGED vars
  PROVE  IInv'
<1>1. UNCHANGED <<resource_challenges, credential_redemptions, writer, pc, request,
                  tokenHash, spend, invocation>>
  BY DEF ClockStep, vars, store, locals
<1> QED BY <1>1 DEF IInv, LockHeldInTransaction, TokenMeansCredential, Progress, InPhase,
             StagedIsCurrent, WinnersOwn, OneWinner, SpendIsAtomic, Owns, Won, Committed,
             Invoked, Cid

\* The invariant is inductive.
LEMMA NextIInv == IInv /\ [Next]_vars => IInv'
<1> SUFFICES ASSUME IInv, [Next]_vars PROVE IInv'
  OBVIOUS
<1>1. TypeOK'
  BY NextTypeOK
<1>2. CASE ClockStep \/ UNCHANGED vars
  BY <1>1, <1>2, ClockIInv
<1>3. CASE \E t \in Tokens, i \in ChallengeInputs : IssueResourceChallenge(t, i)
  BY <1>1, <1>3, IssueIInv
<1>4. CASE \E k \in Calls : DirectLookupAttempt(k) \/ SignerFails(k)
  BY <1>1, <1>4, LocalActionsIInv
<1>5. CASE \E k \in Calls, r \in Requests : RedeemRefused(k, r) \/ RedeemAccepted(k, r)
  BY <1>1, <1>5, ArrivalIInv
<1>6. ASSUME NEW k \in Calls, CallStep(k) PROVE IInv'
  <2>1. CASE Commit(k)
    BY <1>1, <2>1, CommitIInv
  <2>2. CASE BeginImmediate(k) \/ SpendRefused(k) \/ SpendStaged(k)
    BY <1>1, <2>2, TransactionIInv
  <2>3. CASE \/ GetResourceChallenge(k) \/ CheckStored(k) \/ VerifyHolderProof(k)
             \/ BusyTimeout(k) \/ AfterSpend(k) \/ RecordInvocation(k)
             \/ InventoryLookup(k) \/ SignReceipt(k)
    BY <1>1, <2>3, LocalActionsIInv
  <2> QED BY <1>6, <2>1, <2>2, <2>3 DEF CallStep
<1>7. CASE \E k \in Calls : DependencyFails(k)
  BY <1>1, <1>7, TransactionIInv
<1>8. CASE Crash
  BY <1>1, <1>8, CrashIInv
<1> QED BY <1>2, <1>3, <1>4, <1>5, <1>6, <1>7, <1>8 DEF Next

\* The tables and the locals of redeem are always well typed.
THEOREM TypeCorrect == Spec => []TypeOK
<1>1. IInv => TypeOK
  BY DEF IInv
<1> QED BY InitIInv, NextIInv, <1>1, PTL DEF Spec

\* However many calls race with however many fresh challenges, and however often
\* the process crashes, a credential reaches the handler at most once.
THEOREM InvokesAtMostOnce == Spec => []AtMostOneInvocation
<1>1. IInv => AtMostOneInvocation
  BY DEF IInv, Progress, InPhase, OneWinner, AtMostOneInvocation
<1> QED BY InitIInv, NextIInv, <1>1, PTL DEF Spec

\* The redemption and the consumption of its challenge are one transaction.
THEOREM SpendsAtomically == Spec => []SpendIsAtomic
<1>1. IInv => SpendIsAtomic
  BY DEF IInv
<1> QED BY InitIInv, NextIInv, <1>1, PTL DEF Spec

\* The handler runs only for an exactly matching, live, broker-signed and
\* holder-proved call that owns its redemption row.
THEOREM InvokesOnlyAuthorised == Spec => []InvocationAuthorised
<1>1. IInv => InvocationAuthorised
  <2> SUFFICES ASSUME IInv, NEW k \in Calls, Invoked(k)
               PROVE  /\ credential_redemptions[Cid(k)] # None
                      /\ credential_redemptions[Cid(k)].token = tokenHash[k]
                      /\ credential_redemptions[Cid(k)].record_id = request[k].record_id
                      /\ resource_challenges[tokenHash[k]] # None
                      /\ resource_challenges[tokenHash[k]].consumed_at
                           = credential_redemptions[Cid(k)].redeemed_at
                      /\ ContextMatches(resource_challenges[tokenHash[k]], request[k])
                      /\ request[k].credential.signer = BrokerKey
                      /\ request[k].holder_proof.signature.key = request[k].credential.subject
                      /\ request[k].holder_proof.signature.sku = request[k].sku
                      /\ credential_redemptions[Cid(k)].redeemed_at
                           < resource_challenges[tokenHash[k]].expires_at
                      /\ InWindow(request[k].credential, credential_redemptions[Cid(k)].redeemed_at)
    BY DEF InvocationAuthorised, ContextMatches, InWindow, Cid
  <2>1. Won(k) /\ spend[k] \in SpendResult /\ tokenHash[k] # None
    BY DEF IInv, Progress, InPhase, Won, Committed, TypeOK
  <2>2. Owns(k) /\ request[k] \in Requests /\ request[k].credential.signer = BrokerKey
    BY <2>1 DEF IInv, WinnersOwn, TokenMeansCredential
  <2>3. credential_redemptions[Cid(k)] # None
    <3>1. credential_redemptions[Cid(k)] \in RedemptionRow
      BY <2>1, <2>2, ConstantsAssumption DEF IInv, TypeOK, Owns, RedemptionRow, SpendResult
    <3> QED BY <3>1, NoneAssumption
  <2>4. /\ request[k].holder_proof.signature.key = request[k].credential.subject
        /\ request[k].holder_proof.signature.sku = request[k].sku
    BY <2>1, NoneAssumption DEF IInv, Progress, InPhase, Won, Committed
  <2> QED BY <2>2, <2>3, <2>4 DEF Owns
<1> QED BY InitIInv, NextIInv, <1>1, PTL DEF Spec
=============================================================================
