--------------------- MODULE InventoryRefinementProofs ---------------------
(***************************************************************************)
(* inventoryd implements CapabilityStore, for every instance: an issue, a  *)
(* commit and an invocation are the store's steps, and everything else,    *)
(* crashes included, leaves the store as it was.                           *)
(***************************************************************************)
EXTENDS InventoryRefinement, InventoryReceiptProofs, FiniteSetTheorems

\* The calls that present a credential and have reached the handler
InvokedWith(c) == {k \in Calls : Invoked(k) /\ Cid(k) = c}

\* A credential has no more than one invocation to count.
LEMMA InvokedCount ==
  ASSUME IInv, NEW c \in CredentialIds
  PROVE  /\ InvokedWith(c) = {} => invokedBar[c] = 0
         /\ \A k \in InvokedWith(c) : InvokedWith(c) = {k} /\ invokedBar[c] = 1
<1>1. invokedBar[c] = Cardinality(InvokedWith(c))
  BY DEF invokedBar, InvokedWith
<1>2. \A k \in InvokedWith(c) : InvokedWith(c) = {k}
  BY DEF InvokedWith, IInv, OneWinner, Progress, InPhase
<1>3. Cardinality({}) = 0 /\ \A k \in Calls : Cardinality({k}) = 1
  BY FS_EmptySet, FS_Singleton
<1> QED BY <1>1, <1>2, <1>3 DEF InvokedWith

\* The initial tables are the empty store.
LEMMA InitStore == Init => Store!Init
<1> SUFFICES ASSUME Init PROVE Store!Init OBVIOUS
<1>1. IInv
  BY InitIInv
<1>2. /\ issuedBar = [t \in Tokens |-> None] /\ consumedBar = {}
      /\ redeemedBar = [c \in CredentialIds |-> None]
  BY DEF Init, issuedBar, consumedBar, redeemedBar
<1>3. \A c \in CredentialIds : invokedBar[c] = 0
  BY <1>1, InvokedCount DEF Init, InvokedWith, Invoked
<1>4. invokedBar = [c \in CredentialIds |-> 0]
  BY <1>3 DEF invokedBar
<1> QED BY <1>2, <1>4 DEF Store!Init

\* Calls that are neither invoked nor change their request leave invokedBar alone.
LEMMA InvokedBarKept ==
  ASSUME \A k \in Calls : /\ Invoked(k)' <=> Invoked(k)
                          /\ Invoked(k) => Cid(k)' = Cid(k)
  PROVE  invokedBar' = invokedBar
<1>1. \A c \in CredentialIds : InvokedWith(c)' = InvokedWith(c)
  BY DEF InvokedWith
<1> QED BY <1>1 DEF invokedBar, InvokedWith

\* A step that leaves the tables alone and invokes nothing is a stutter.
LEMMA StoreStutters ==
  ASSUME UNCHANGED store,
         \A k \in Calls : /\ Invoked(k)' <=> Invoked(k)
                          /\ Invoked(k) => Cid(k)' = Cid(k)
  PROVE  UNCHANGED Store!vars
<1>1. UNCHANGED <<issuedBar, consumedBar, redeemedBar>>
  BY DEF store, issuedBar, consumedBar, redeemedBar
<1>2. invokedBar' = invokedBar
  BY InvokedBarKept
<1> QED BY <1>1, <1>2 DEF Store!vars

\* issue_resource_challenge is Issue.
LEMMA IssueImplements ==
  ASSUME IInv, TypeOK', NEW t \in Tokens, NEW i \in ChallengeInputs, IssueResourceChallenge(t, i)
  PROVE  Store!Issue(t, i.credential_id)
<1> DEFINE row == resource_challenges'[t]
<1>1. /\ resource_challenges[t] = None
      /\ row = [credential_id |-> i.credential_id, sku |-> i.sku, record_id |-> i.record_id,
                consumed_at |-> None, expires_at |-> now + ChallengeTTL]
      /\ \A u \in Tokens \ {t} : resource_challenges'[u] = resource_challenges[u]
      /\ UNCHANGED <<credential_redemptions, request, invocation>>
  BY DEF IssueResourceChallenge, locals, IInv, TypeOK
<1>2. row \in ChallengeRow
  BY <1>1, ConstantsAssumption DEF ChallengeRow, IInv, TypeOK
<1>3. row # None /\ row.credential_id = i.credential_id /\ row.consumed_at = None
  BY <1>1, <1>2, NoneAssumption
<1> HIDE DEF row
<1>4. issuedBar[t] = None /\ issuedBar' = [issuedBar EXCEPT ![t] = i.credential_id]
  BY <1>1, <1>3 DEF issuedBar, row
<1>5. consumedBar' = consumedBar
  BY <1>1, <1>3 DEF consumedBar, row
<1>6. redeemedBar' = redeemedBar
  BY <1>1 DEF redeemedBar
<1>7. invokedBar' = invokedBar
  BY <1>1, InvokedBarKept DEF Invoked, Cid
<1> QED BY <1>4, <1>5, <1>6, <1>7 DEF Store!Issue

\* The commit of the spend transaction is Spend, of the call's token.
LEMMA CommitImplements ==
  ASSUME IInv, TypeOK', NEW k \in Calls, Commit(k)
  PROVE  Store!Spend(tokenHash[k])
<1> DEFINE tok == tokenHash[k]
           was == resource_challenges[tok]
           is == resource_challenges'[tok]
           at == spend[k].committed_at
<1>1. /\ pc[k] = "commit" /\ spend[k] \in SpendResult /\ tok \in Tokens
      /\ Cid(k) \in CredentialIds /\ request[k] \in Requests
  BY DEF Commit, IInv, TypeOK, Progress, InPhase, PreHandler, TokenMeansCredential
<1>2. /\ was \in ChallengeRow /\ was # None /\ was.consumed_at = None
      /\ was.credential_id = Cid(k)
      /\ spend[k].first_spend <=> credential_redemptions[Cid(k)] = None
      /\ at \in Nat /\ at # None
  BY <1>1, NoneAssumption DEF IInv, StagedIsCurrent, TypeOK, ContextMatches, Cid, SpendResult
<1>3. /\ is = [was EXCEPT !.consumed_at = at]
      /\ \A t \in Tokens \ {tok} : resource_challenges'[t] = resource_challenges[t]
      /\ UNCHANGED <<request, invocation>>
  BY <1>1 DEF Commit, locals, IInv, TypeOK
<1>4. is # None /\ is.consumed_at = at /\ is.credential_id = was.credential_id
  <2>1. is \in ChallengeRow /\ is.consumed_at = at /\ is.credential_id = was.credential_id
    BY <1>2, <1>3 DEF ChallengeRow
  <2> QED BY <2>1, NoneAssumption
<1> HIDE DEF was, is, at
<1>5. issuedBar[tok] = Cid(k) /\ issuedBar' = issuedBar
  BY <1>1, <1>2, <1>3, <1>4 DEF issuedBar, was, is
<1>6. tok \notin consumedBar /\ consumedBar' = consumedBar \cup {tok}
  <2>1. tok \notin consumedBar
    BY <1>2 DEF consumedBar, was
  <2>2. tok \in consumedBar'
    BY <1>1, <1>2, <1>4 DEF consumedBar, is
  <2>3. \A t \in Tokens \ {tok} : t \in consumedBar' <=> t \in consumedBar
    BY <1>3 DEF consumedBar
  <2>4. consumedBar \subseteq Tokens /\ consumedBar' \subseteq Tokens
    BY DEF consumedBar
  <2> HIDE DEF tok
  <2> QED BY <1>1, <2>1, <2>2, <2>3, <2>4
<1>7. redeemedBar' = IF redeemedBar[Cid(k)] = None
                     THEN [redeemedBar EXCEPT ![Cid(k)] = tok] ELSE redeemedBar
  <2>1. CASE spend[k].first_spend
    <3>1. /\ credential_redemptions[Cid(k)] = None
          /\ credential_redemptions'[Cid(k)] =
               [record_id |-> request[k].record_id, token |-> tok, redeemed_at |-> at]
          /\ \A c \in CredentialIds \ {Cid(k)} : credential_redemptions'[c] = credential_redemptions[c]
      BY <1>1, <1>2, <2>1 DEF Commit, IInv, TypeOK, at
    <3>2. credential_redemptions'[Cid(k)] \in RedemptionRow /\ credential_redemptions'[Cid(k)].token = tok
      BY <1>1, <1>2, <3>1, ConstantsAssumption DEF RedemptionRow
    <3>3. credential_redemptions'[Cid(k)] # None
      BY <3>2, NoneAssumption
    <3>4. redeemedBar[Cid(k)] = None /\ redeemedBar' = [redeemedBar EXCEPT ![Cid(k)] = tok]
      BY <1>1, <3>1, <3>2, <3>3 DEF redeemedBar
    <3> QED BY <3>4
  <2>2. CASE ~spend[k].first_spend
    <3>1. credential_redemptions' = credential_redemptions /\ credential_redemptions[Cid(k)] # None
      BY <1>2, <2>2 DEF Commit
    <3>2. redeemedBar' = redeemedBar /\ redeemedBar[Cid(k)] # None
      BY <1>1, <3>1, NoneAssumption DEF redeemedBar, IInv, TypeOK, RedemptionRow
    <3> QED BY <3>2
  <2> QED BY <2>1, <2>2
<1>8. invokedBar' = invokedBar
  BY <1>3, InvokedBarKept DEF Invoked, Cid
<1> QED BY <1>1, <1>5, <1>6, <1>7, <1>8 DEF Store!Spend

\* _record_invocation is Invoke: by RInv the call has no number yet, by OneWinner
\* no other call with its credential has.
LEMMA InvocationImplements ==
  ASSUME IInv, IInv', RInv, NEW k \in Calls, RecordInvocation(k)
  PROVE  Cid(k) \in CredentialIds /\ Store!Invoke(Cid(k))
<1> DEFINE c == Cid(k)
<1>1. /\ pc[k] = "invoke" /\ invocation_count \in Nat
      /\ invocation'[k] = invocation_count + 1
      /\ \A j \in Calls \ {k} : invocation'[j] = invocation[j]
      /\ UNCHANGED <<resource_challenges, credential_redemptions, request>>
  BY DEF RecordInvocation, store, IInv, TypeOK
<1>2. /\ Won(k) /\ tokenHash[k] # None
      /\ c \in CredentialIds /\ request[k] \in Requests
      /\ spend[k] \in SpendResult /\ tokenHash[k] \in Tokens
  BY <1>1 DEF IInv, Progress, InPhase, Winning, TokenMeansCredential, TypeOK, Won, Committed
<1>3. redeemedBar[c] # None
  <2>0. /\ credential_redemptions[c] =
             [token |-> tokenHash[k], record_id |-> request[k].record_id,
              redeemed_at |-> spend[k].committed_at]
        /\ request[k].record_id \in RecordIds /\ spend[k].committed_at \in Nat
    BY <1>2, ConstantsAssumption DEF IInv, WinnersOwn, Owns, SpendResult
  <2>1. credential_redemptions[c] \in RedemptionRow /\ credential_redemptions[c].token = tokenHash[k]
    BY <1>2, <2>0 DEF RedemptionRow
  <2> QED BY <1>2, <2>1, NoneAssumption DEF redeemedBar
<1>4. InvokedWith(c) = {}
  <2>1. ~Invoked(k)
    BY <1>1, Early DEF RInv
  <2> QED BY <1>2, <2>1 DEF InvokedWith, IInv, Progress, InPhase, OneWinner
<1>5. /\ \A j \in Calls : Cid(j)' = Cid(j)
      /\ \A j \in Calls : Invoked(j)' <=> Invoked(j) \/ j = k
  BY <1>1, NoneAssumption DEF Invoked, Cid
<1>6. InvokedWith(c)' = {k} /\ \A d \in CredentialIds \ {c} : InvokedWith(d)' = InvokedWith(d)
  BY <1>4, <1>5 DEF InvokedWith
<1>7. invokedBar[c] = 0 /\ invokedBar'[c] = 1
  <2>1. invokedBar[c] = 0
    BY <1>2, <1>4, InvokedCount
  <2>2. invokedBar'[c] = Cardinality(InvokedWith(c)')
    BY <1>2, <1>5 DEF invokedBar, InvokedWith
  <2>3. Cardinality({k}) = 1
    BY FS_Singleton
  <2> QED BY <1>6, <2>1, <2>2, <2>3
<1>8. \A d \in CredentialIds \ {c} : invokedBar'[d] = invokedBar[d]
  BY <1>6 DEF invokedBar, InvokedWith
<1>9. invokedBar' = [invokedBar EXCEPT ![c] = 1]
  <2>1. \A d \in CredentialIds : invokedBar'[d] = [invokedBar EXCEPT ![c] = 1][d]
    BY <1>2, <1>7, <1>8 DEF invokedBar
  <2> QED BY <1>2, <2>1 DEF invokedBar
<1>10. UNCHANGED <<issuedBar, consumedBar, redeemedBar>>
  BY <1>1 DEF issuedBar, consumedBar, redeemedBar
<1> QED BY <1>2, <1>3, <1>7, <1>9, <1>10 DEF Store!Invoke

\* Every step of inventoryd is a step of the store or a stutter.
LEMMA StepImplements ==
  ASSUME IInv, IInv', RInv, [Next]_vars
  PROVE  [Store!Next]_(Store!vars)
<1>0. TypeOK'
  BY DEF IInv
<1>1. ASSUME NEW t \in Tokens, NEW i \in ChallengeInputs, IssueResourceChallenge(t, i)
      PROVE  Store!Next
  BY <1>0, <1>1, IssueImplements, ConstantsAssumption DEF Store!Next
<1>2. ASSUME NEW k \in Calls, Commit(k)
      PROVE  Store!Next
  <2>1. tokenHash[k] \in Tokens
    BY <1>2 DEF Commit, IInv, TypeOK, Progress, InPhase, PreHandler
  <2> QED BY <1>0, <1>2, <2>1, CommitImplements DEF Store!Next
<1>3. ASSUME NEW k \in Calls, RecordInvocation(k)
      PROVE  Store!Next
  BY <1>3, InvocationImplements DEF Store!Next
<1>4. ASSUME UNCHANGED <<store, request, invocation>>
      PROVE  UNCHANGED Store!vars
  BY <1>4, StoreStutters DEF Invoked, Cid
<1>5. CASE ClockStep \/ Crash \/ UNCHANGED vars
  BY <1>4, <1>5 DEF ClockStep, Crash, vars, locals
<1>6. ASSUME NEW k \in Calls, NEW r \in Requests, RedeemRefused(k, r) \/ RedeemAccepted(k, r)
      PROVE  UNCHANGED Store!vars
  <2>1. /\ pc[k] = "idle" /\ UNCHANGED <<store, invocation>>
        /\ \A j \in Calls \ {k} : request'[j] = request[j]
    BY <1>6 DEF RedeemRefused, RedeemAccepted, Idle, IInv, TypeOK
  <2>2. ~Invoked(k)
    BY <2>1, Early DEF RInv
  <2> QED BY <2>1, <2>2, StoreStutters DEF Invoked, Cid
<1>7. ASSUME NEW k \in Calls,
             \/ DirectLookupAttempt(k) \/ DependencyFails(k) \/ SignerFails(k)
             \/ CallStep(k) /\ ~Commit(k) /\ ~RecordInvocation(k)
      PROVE  UNCHANGED Store!vars
  BY <1>4, <1>7 DEF DirectLookupAttempt, DependencyFails, SignerFails, CallStep,
       GetResourceChallenge, CheckStored, VerifyHolderProof, BeginImmediate, BusyTimeout,
       SpendRefused, SpendStaged, AfterSpend, InventoryLookup, SignReceipt, locals
<1> QED BY <1>1, <1>2, <1>3, <1>5, <1>6, <1>7 DEF Next, CallStep

\* Refinement: every behaviour of inventoryd, with any number of threads, any
\* interleaving of their transactions and any restarts, is on the tables and the
\* handler a behaviour of CapabilityStore.
THEOREM InventoryImplementsStore == Spec => ImplementsStore
<1>1. IInv /\ IInv' /\ RInv /\ [Next]_vars => [Store!Next]_(Store!vars)
  BY StepImplements
<1> QED BY InitStore, Invariants, <1>1, PTL DEF Spec, ImplementsStore, Store!Spec
=============================================================================
