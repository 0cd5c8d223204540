----------------------- MODULE InventoryReceiptProofs -----------------------
(***************************************************************************)
(* Theorems on what inventoryd tells its callers: the store never takes a  *)
(* consumption back, a signed denial stays true, and every answer after an *)
(* invocation names that invocation.  They rest on IInv, proved inductive  *)
(* in InventoryProofs, and on RInv, proved inductive here.                 *)
(***************************************************************************)
EXTENDS InventoryProofs

(***************************************************************************)
(* The store                                                               *)
(***************************************************************************)

\* A step may add rows and consume unconsumed ones, and nothing else.
StoreGrows ==
  /\ \A c \in CredentialIds : credential_redemptions[c] # None =>
       credential_redemptions'[c] = credential_redemptions[c]
  /\ \A t \in Tokens : resource_challenges[t] # None =>
       /\ resource_challenges'[t] # None
       /\ \/ resource_challenges'[t] = resource_challenges[t]
          \/ /\ resource_challenges[t].consumed_at = None
             /\ resource_challenges'[t] =
                  [resource_challenges[t] EXCEPT !.consumed_at = resource_challenges'[t].consumed_at]

\* Every step grows the store: the only step that updates rows is a commit, and
\* what it updates was, under the lock, an unconsumed row.
LEMMA StepGrowsStore ==
  ASSUME IInv, TypeOK', [Next]_vars
  PROVE  StoreGrows
<1> USE DEF IInv
<1>1. ASSUME NEW t \in Tokens, NEW i \in ChallengeInputs, IssueResourceChallenge(t, i)
      PROVE  StoreGrows
  BY <1>1 DEF IssueResourceChallenge, StoreGrows, TypeOK
<1>2. ASSUME NEW k \in Calls, Commit(k)
      PROVE  StoreGrows
  <2> DEFINE tok == tokenHash[k]
             was == resource_challenges[tok]
             at == spend[k].committed_at
  <2>1. /\ pc[k] = "commit" /\ spend[k] \in SpendResult /\ tok \in Tokens
        /\ Cid(k) \in CredentialIds
    BY <1>2 DEF Commit, TypeOK, Progress, InPhase, PreHandler, TokenMeansCredential
  <2>2. /\ was \in ChallengeRow /\ was.consumed_at = None
        /\ spend[k].first_spend <=> credential_redemptions[Cid(k)] = None
    BY <2>1 DEF StagedIsCurrent, TypeOK
  <2>3. /\ resource_challenges' = [resource_challenges EXCEPT ![tok] = [was EXCEPT !.consumed_at = at]]
        /\ \A c \in CredentialIds : credential_redemptions[c] # None =>
             credential_redemptions'[c] = credential_redemptions[c]
    BY <1>2, <2>1, <2>2 DEF Commit, TypeOK
  <2>4. resource_challenges'[tok] = [was EXCEPT !.consumed_at = at]
    BY <2>1, <2>3 DEF TypeOK
  <2>5. at \in Nat
    BY <2>1 DEF SpendResult
  <2>6. resource_challenges'[tok] \in ChallengeRow /\ resource_challenges'[tok].consumed_at = at
    BY <2>2, <2>4, <2>5 DEF ChallengeRow
  <2>7. resource_challenges'[tok] # None
    BY <2>6, NoneAssumption
  <2>8. \A t \in Tokens \ {tok} : resource_challenges'[t] = resource_challenges[t]
    BY <2>3 DEF TypeOK
  <2> QED BY <2>2, <2>3, <2>4, <2>6, <2>7, <2>8 DEF StoreGrows
<1>3. CASE UNCHANGED store
  BY <1>3 DEF store, StoreGrows
<1>4. CASE ClockStep \/ Crash \/ UNCHANGED vars
  BY <1>3, <1>4 DEF ClockStep, Crash, vars
<1>5. ASSUME NEW k \in Calls,
             \/ DirectLookupAttempt(k)
             \/ \E r \in Requests : RedeemRefused(k, r) \/ RedeemAccepted(k, r)
             \/ DependencyFails(k) \/ SignerFails(k)
      PROVE  StoreGrows
  BY <1>3, <1>5 DEF DirectLookupAttempt, RedeemRefused, RedeemAccepted, DependencyFails, SignerFails
<1>6. ASSUME NEW k \in Calls, CallStep(k)
      PROVE  StoreGrows
  BY <1>2, <1>3, <1>6 DEF CallStep, GetResourceChallenge, CheckStored, VerifyHolderProof,
       BeginImmediate, BusyTimeout, SpendRefused, SpendStaged, AfterSpend, RecordInvocation,
       InventoryLookup, SignReceipt
<1> QED BY <1>1, <1>4, <1>5, <1>6 DEF Next

\* Consumptions and redemptions are never changed or removed, by any step of
\* any call and by no crash.
THEOREM StoreWritesOnce == Spec => StoreIsWriteOnce
<1>1. IInv /\ IInv' /\ [Next]_vars =>
        [/\ \A c \in CredentialIds : credential_redemptions[c] # None =>
              credential_redemptions'[c] = credential_redemptions[c]
         /\ \A t \in Tokens : resource_challenges[t] # None =>
              LET was == resource_challenges[t]
                  is  == resource_challenges'[t]
              IN is = was \/ (was.consumed_at = None /\ is = [was EXCEPT !.consumed_at = is.consumed_at])
        ]_vars
  <2> SUFFICES ASSUME IInv, IInv', [Next]_vars PROVE StoreGrows
    BY DEF StoreGrows
  <2> QED BY StepGrowsStore DEF IInv
<1> QED BY InitIInv, NextIInv, <1>1, PTL DEF Spec, StoreIsWriteOnce

(***************************************************************************)
(* Whose step it is                                                        *)
(***************************************************************************)

\* Nothing that belongs to call j changes.
CallKept(j) ==
  /\ pc'[j] = pc[j] /\ request'[j] = request[j] /\ tokenHash'[j] = tokenHash[j]
  /\ stored'[j] = stored[j] /\ spend'[j] = spend[j] /\ reason'[j] = reason[j]
  /\ invocation'[j] = invocation[j] /\ bootOf'[j] = bootOf[j] /\ mcp'[j] = mcp[j]

\* A step of call k touches no other call; the counter does not fall.
ActsAlone(k) ==
  /\ \A j \in Calls \ {k} : CallKept(j)
  /\ mcp' = [j \in Calls |-> mcp'[j]]
  /\ boot' = boot
  /\ invocation_count' >= invocation_count

\* The steps of one call
ActionOf(k) ==
  \/ DirectLookupAttempt(k)
  \/ \E r \in Requests : RedeemRefused(k, r) \/ RedeemAccepted(k, r)
  \/ CallStep(k) \/ DependencyFails(k) \/ SignerFails(k)

\* Every action of a call is its own.
LEMMA ActionsAreOwn ==
  ASSUME IInv, RInv, NEW k \in Calls, ActionOf(k)
  PROVE  ActsAlone(k)
<1> USE DEF IInv, RInv, TypeOK
<1>0. invocation_count >= invocation_count /\ invocation_count + 1 >= invocation_count
  OBVIOUS
<1>1. CASE DirectLookupAttempt(k)
  BY <1>0, <1>1 DEF DirectLookupAttempt, Deny, Goto, ActsAlone, CallKept
<1>2. ASSUME NEW r \in Requests, RedeemRefused(k, r) PROVE ActsAlone(k)
  BY <1>0, <1>2 DEF RedeemRefused, Deny, Goto, ActsAlone, CallKept
<1>3. ASSUME NEW r \in Requests, RedeemAccepted(k, r) PROVE ActsAlone(k)
  BY <1>0, <1>3 DEF RedeemAccepted, Goto, ActsAlone, CallKept
<1>4. CASE GetResourceChallenge(k)
  BY <1>0, <1>4 DEF GetResourceChallenge, Goto, ActsAlone, CallKept
<1>5. CASE CheckStored(k)
  BY <1>0, <1>5 DEF CheckStored, Deny, Goto, ActsAlone, CallKept
<1>6. CASE VerifyHolderProof(k)
  BY <1>0, <1>6 DEF VerifyHolderProof, Deny, Goto, ActsAlone, CallKept
<1>7. CASE BeginImmediate(k) \/ BusyTimeout(k)
  BY <1>0, <1>7 DEF BeginImmediate, BusyTimeout, Deny, Goto, locals, ActsAlone, CallKept
<1>8. CASE SpendRefused(k)
  BY <1>0, <1>8 DEF SpendRefused, Deny, Goto, ActsAlone, CallKept
<1>9. CASE SpendStaged(k)
  BY <1>0, <1>9 DEF SpendStaged, Goto, ActsAlone, CallKept
<1>10. CASE Commit(k)
  BY <1>0, <1>10 DEF Commit, Goto, locals, ActsAlone, CallKept
<1>11. CASE AfterSpend(k)
  BY <1>0, <1>11 DEF AfterSpend, Deny, Goto, ActsAlone, CallKept
<1>12. CASE RecordInvocation(k)
  BY <1>0, <1>12 DEF RecordInvocation, Goto, ActsAlone, CallKept
<1>13. CASE InventoryLookup(k)
  BY <1>0, <1>13 DEF InventoryLookup, Goto, ActsAlone, CallKept
<1>14. CASE SignReceipt(k)
  BY <1>0, <1>14 DEF SignReceipt, Goto, locals, ActsAlone, CallKept
<1>15. CASE SignerFails(k)
  BY <1>0, <1>15 DEF SignerFails, Goto, locals, ActsAlone, CallKept
<1>16. CASE DependencyFails(k)
  BY <1>0, <1>16 DEF DependencyFails, Deny, Goto, ActsAlone, CallKept
<1> QED BY <1>1, <1>2, <1>3, <1>4, <1>5, <1>6, <1>7, <1>8, <1>9, <1>10, <1>11, <1>12,
           <1>13, <1>14, <1>15, <1>16 DEF ActionOf, CallStep

\* What a call's part of the invariant says of the tables survives every step
\* of the others, because the store only grows.
LEMMA KeptCallInv ==
  ASSUME IInv, TypeOK', StoreGrows, NEW j \in Calls, CallInv(j), CallKept(j),
         boot' = boot, invocation_count' >= invocation_count
  PROVE  CallInv(j)'
<1> USE DEF CallKept
<1>0. /\ Invoked(j)' <=> Invoked(j)
      /\ Committed(j)' <=> Committed(j)
      /\ Cid(j)' = Cid(j)
      /\ Denied(j)' <=> Denied(j)
  BY DEF Invoked, Committed, Cid, Denied
<1>1. pc[j] = "check" \/ spend[j] # None => tokenHash[j] # None
  BY DEF IInv, Progress, InPhase, PreHandler
<1>2. tokenHash[j] # None => tokenHash[j] \in Tokens /\ Cid(j) \in CredentialIds
  BY DEF IInv, TypeOK, TokenMeansCredential
<1>3. tokenHash[j] # None /\ resource_challenges[tokenHash[j]] # None =>
        /\ resource_challenges'[tokenHash[j]] # None
        /\ resource_challenges[tokenHash[j]].consumed_at # None =>
             resource_challenges'[tokenHash[j]].consumed_at # None
  BY <1>2 DEF StoreGrows
<1>4. Numbered(j)'
  <2>1. Invoked(j) => invocation[j] \in Nat
    BY DEF IInv, TypeOK, Invoked
  <2> QED BY <1>0, <2>1 DEF CallInv, Numbered, IInv, TypeOK
<1>5. Reasoned(j)'
  BY DEF CallInv, Reasoned
<1>6. ReadIsPast(j)'
  BY <1>1, <1>3 DEF CallInv, ReadIsPast
<1>7. LoserBurnt(j)'
  <2>1. Committed(j) => spend[j] # None
    BY DEF Committed
  <2> QED BY <1>0, <1>1, <1>2, <1>3, <2>1 DEF CallInv, LoserBurnt, StoreGrows
<1>8. DenialFits(j)'
  BY <1>0, <1>3 DEF CallInv, DenialFits
<1>9. Reported(j)'
  BY <1>0 DEF CallInv, Reported
<1> QED BY <1>4, <1>5, <1>6, <1>7, <1>8, <1>9 DEF CallInv

(***************************************************************************)
(* The steps of a call keep its own part                                   *)
(***************************************************************************)

\* Before its handler a call has neither a number nor an answer.
LEMMA Early ==
  ASSUME NEW k \in Calls, CallInv(k), pc[k] \in PreHandler \cup {"idle", "invoke"}
  PROVE  ~Invoked(k) /\ mcp[k] = None
BY DEF CallInv, Numbered, Reported, PreHandler, InHandler

\* A denial keeps it if its reason is one a denial may have and fits the store.
LEMMA DenyCallInv ==
  ASSUME IInv, RInv, TypeOK', NEW k \in Calls, NEW why, Deny(k, why),
         pc[k] \in PreHandler \cup {"idle"},
         why \in Reasons \ AllowReasons,
         UNCHANGED <<invocation, mcp>>,
         tokenHash'[k] # None => request'[k].credential # None,
         LoserBurnt(k)',
         why = "CREDENTIAL_SPENT" => spend'[k] # None /\ ~spend'[k].first_spend,
         why = "CHALLENGE_CONSUMED" =>
           /\ spend'[k] = None
           /\ tokenHash'[k] # None
           /\ resource_challenges'[tokenHash'[k]] # None
           /\ resource_challenges'[tokenHash'[k]].consumed_at # None,
         spend'[k] # None =>
           why \in {"CREDENTIAL_SPENT", "CHALLENGE_STALE", "CREDENTIAL_EXPIRED", "INTERNAL_ERROR"}
  PROVE  CallInv(k)'
<1>1. pc'[k] = "deny" /\ reason'[k] = why
  BY DEF Deny, Goto, IInv, TypeOK
<1>2. ~Invoked(k)' /\ mcp'[k] = None
  BY Early DEF RInv, Invoked
<1>3. Numbered(k)' /\ Reported(k)' /\ ReadIsPast(k)'
  BY <1>1, <1>2 DEF Numbered, Reported, ReadIsPast, InHandler
<1>4. Reasoned(k)'
  BY <1>1 DEF Reasoned
<1>5. DenialFits(k)'
  BY <1>1 DEF DenialFits, Committed
<1> QED BY <1>3, <1>4, <1>5 DEF CallInv

\* A step towards the handler keeps it if what was read and lost is in the store.
LEMMA ForwardCallInv ==
  ASSUME IInv, RInv, TypeOK', NEW k \in Calls, NEW step,
         pc[k] \in PreHandler \cup {"idle"}, Goto(k, step),
         step \in {"lookup", "check", "proof", "begin", "locked", "commit", "spent", "invoke"},
         UNCHANGED <<invocation, mcp>>,
         tokenHash'[k] # None => request'[k].credential # None,
         ReadIsPast(k)', LoserBurnt(k)'
  PROVE  CallInv(k)'
<1>1. pc'[k] = step
  BY DEF Goto, IInv, TypeOK
<1>2. ~Invoked(k)' /\ mcp'[k] = None
  BY Early DEF RInv, Invoked
<1>3. Numbered(k)' /\ Reported(k)' /\ Reasoned(k)' /\ DenialFits(k)'
  BY <1>1, <1>2 DEF Numbered, Reported, Reasoned, DenialFits, Denied, InHandler
<1> QED BY <1>3 DEF CallInv

\* What the verdicts of redeem's checks may blame: only a consumed row makes
\* CHALLENGE_CONSUMED, only a lost spend makes CREDENTIAL_SPENT.
LEMMA VerdictBlames ==
  ASSUME NEW row, NEW r, NEW s, NEW t
  PROVE  /\ CredentialRefusals(r, t) \cup {"INTERNAL_ERROR"} \subseteq
              (Reasons \ AllowReasons) \ {"CREDENTIAL_SPENT", "CHALLENGE_CONSUMED"}
         /\ StoredRefusal(row, r, t) # None =>
              StoredRefusal(row, r, t) \in (Reasons \ AllowReasons) \ {"CREDENTIAL_SPENT"}
         /\ StoredRefusal(row, r, t) = "CHALLENGE_CONSUMED" => row # None /\ row.consumed_at # None
         /\ LockedRefusal(row, r, t) # None =>
              LockedRefusal(row, r, t) \in (Reasons \ AllowReasons) \ {"CREDENTIAL_SPENT"}
         /\ LockedRefusal(row, r, t) = "CHALLENGE_CONSUMED" => row # None /\ row.consumed_at # None
         /\ PreHandlerRefusal(s, r, t) # None =>
              PreHandlerRefusal(s, r, t) \in {"CREDENTIAL_SPENT", "CHALLENGE_STALE", "CREDENTIAL_EXPIRED"}
         /\ PreHandlerRefusal(s, r, t) = "CREDENTIAL_SPENT" => ~s.first_spend
<1>0. None \notin Reasons
  BY NoneAssumption
<1>1. CredentialRefusals(r, t) \cup {"INTERNAL_ERROR"} \subseteq
        (Reasons \ AllowReasons) \ {"CREDENTIAL_SPENT", "CHALLENGE_CONSUMED"}
  BY DEF CredentialRefusals, ChainErrors, Reasons, AllowReasons
<1>2. /\ StoredRefusal(row, r, t) # None =>
           StoredRefusal(row, r, t) \in (Reasons \ AllowReasons) \ {"CREDENTIAL_SPENT"}
      /\ StoredRefusal(row, r, t) = "CHALLENGE_CONSUMED" => row # None /\ row.consumed_at # None
  BY <1>0 DEF StoredRefusal, Reasons, AllowReasons
<1>3. /\ LockedRefusal(row, r, t) # None =>
           LockedRefusal(row, r, t) \in (Reasons \ AllowReasons) \ {"CREDENTIAL_SPENT"}
      /\ LockedRefusal(row, r, t) = "CHALLENGE_CONSUMED" => row # None /\ row.consumed_at # None
  BY <1>0 DEF LockedRefusal, Reasons, AllowReasons
<1>4. /\ PreHandlerRefusal(s, r, t) # None =>
           PreHandlerRefusal(s, r, t) \in {"CREDENTIAL_SPENT", "CHALLENGE_STALE", "CREDENTIAL_EXPIRED"}
      /\ PreHandlerRefusal(s, r, t) = "CREDENTIAL_SPENT" => ~s.first_spend
  BY <1>0 DEF PreHandlerRefusal, Reasons
<1> QED BY <1>1, <1>2, <1>3, <1>4

\* The arrival of a call, refused or not, keeps its part.
LEMMA ArrivalCallInv ==
  ASSUME IInv, RInv, TypeOK', NEW k \in Calls,
         \/ DirectLookupAttempt(k)
         \/ \E r \in Requests : RedeemRefused(k, r) \/ RedeemAccepted(k, r)
  PROVE  CallInv(k)'
<1>1. /\ pc[k] = "idle" /\ tokenHash[k] = None /\ spend[k] = None
      /\ UNCHANGED <<spend, invocation, mcp>>
  BY DEF DirectLookupAttempt, RedeemRefused, RedeemAccepted, Idle, IInv, Progress, InPhase, Winning
<1>2. LoserBurnt(k)'
  BY <1>1 DEF LoserBurnt, Committed
<1>3. CASE DirectLookupAttempt(k)
  <2>1. Deny(k, "UNAUTHENTICATED") /\ tokenHash'[k] = None
    BY <1>1, <1>3 DEF DirectLookupAttempt
  <2>2. "UNAUTHENTICATED" \in Reasons \ AllowReasons
    BY DEF Reasons, AllowReasons
  <2> QED BY <1>1, <1>2, <2>1, <2>2, DenyCallInv
<1>4. ASSUME NEW r \in Requests, RedeemRefused(k, r) PROVE CallInv(k)'
  <2>1. PICK why \in CredentialRefusals(r, now) \cup {"INTERNAL_ERROR"} : Deny(k, why)
    BY <1>4 DEF RedeemRefused
  <2>2. tokenHash'[k] = None
    BY <1>1, <1>4 DEF RedeemRefused
  <2>3. why \in (Reasons \ AllowReasons) \ {"CREDENTIAL_SPENT", "CHALLENGE_CONSUMED"}
    BY <2>1, VerdictBlames
  <2> QED BY <1>1, <1>2, <2>1, <2>2, <2>3, DenyCallInv
<1>5. ASSUME NEW r \in Requests, RedeemAccepted(k, r) PROVE CallInv(k)'
  <2>1. r.credential # None
    BY <1>5 DEF RedeemAccepted, CredentialRefusals, CredentialWellFormed
  <2>2. Goto(k, "lookup") /\ request'[k] = r
    BY <1>5 DEF RedeemAccepted, IInv, TypeOK
  <2>3. ReadIsPast(k)'
    BY <2>2 DEF ReadIsPast, Goto, IInv, TypeOK
  <2> QED BY <1>1, <1>2, <2>1, <2>2, <2>3, ForwardCallInv
<1> QED BY <1>3, <1>4, <1>5

\* The steps before the transaction keep the call's part.
LEMMA PreSpendCallInv ==
  ASSUME IInv, RInv, TypeOK', NEW k \in Calls,
         \/ GetResourceChallenge(k) \/ CheckStored(k) \/ VerifyHolderProof(k)
         \/ BeginImmediate(k) \/ BusyTimeout(k) \/ SpendRefused(k)
  PROVE  CallInv(k)'
<1>1. /\ pc[k] \in {"lookup", "check", "proof", "begin", "locked"}
      /\ UNCHANGED <<resource_challenges, request, tokenHash, spend, invocation, mcp>>
  BY DEF GetResourceChallenge, CheckStored, VerifyHolderProof, BeginImmediate, BusyTimeout,
         SpendRefused, store, locals
<1>2. /\ spend[k] = None /\ tokenHash[k] # None /\ tokenHash[k] \in Tokens
      /\ pc[k] \in PreHandler
  BY <1>1 DEF IInv, TypeOK, Progress, InPhase, PreHandler, Winning
<1>3. LoserBurnt(k)' /\ request'[k].credential # None
  BY <1>1, <1>2 DEF LoserBurnt, Committed, RInv, CallInv, Reasoned
<1>4. ASSUME NEW why \in (Reasons \ AllowReasons) \ {"CREDENTIAL_SPENT"}, Deny(k, why),
             why = "CHALLENGE_CONSUMED" =>
               /\ resource_challenges[tokenHash[k]] # None
               /\ resource_challenges[tokenHash[k]].consumed_at # None
      PROVE  CallInv(k)'
  BY <1>1, <1>2, <1>3, <1>4, DenyCallInv
<1>5. ASSUME NEW step \in {"check", "proof", "begin", "locked"}, Goto(k, step), ReadIsPast(k)'
      PROVE  CallInv(k)'
  BY <1>1, <1>2, <1>3, <1>5, ForwardCallInv
<1>6. ASSUME NEW step \in {"proof", "begin", "locked"}, Goto(k, step)
      PROVE  CallInv(k)'
  <2>1. ReadIsPast(k)'
    BY <1>6 DEF ReadIsPast, Goto, IInv, TypeOK
  <2> QED BY <1>5, <1>6, <2>1
<1>7. CASE GetResourceChallenge(k)
  <2>1. Goto(k, "check") /\ stored'[k] = resource_challenges[tokenHash[k]]
    BY <1>7 DEF GetResourceChallenge, IInv, TypeOK
  <2>2. ReadIsPast(k)'
    BY <1>1, <2>1 DEF ReadIsPast
  <2> QED BY <1>5, <2>1, <2>2
<1>8. CASE CheckStored(k)
  <2> DEFINE why == StoredRefusal(stored[k], request[k], now)
  <2>1. CASE why = None
    BY <1>6, <1>8, <2>1 DEF CheckStored
  <2>2. CASE why # None
    <3>1. Deny(k, why) /\ pc[k] = "check"
      BY <1>8, <2>2 DEF CheckStored
    <3>2. ReadIsPast(k)
      BY DEF RInv, CallInv
    <3>3. why = "CHALLENGE_CONSUMED" => stored[k] # None /\ stored[k].consumed_at # None
      BY VerdictBlames
    <3>4. why \in (Reasons \ AllowReasons) \ {"CREDENTIAL_SPENT"}
      BY <2>2, VerdictBlames
    <3> HIDE DEF why
    <3> QED BY <1>4, <3>1, <3>2, <3>3, <3>4 DEF ReadIsPast
  <2> QED BY <2>1, <2>2
<1>9. CASE VerifyHolderProof(k)
  <2>1. Goto(k, "begin") \/ Deny(k, "HOLDER_PROOF_INVALID")
    BY <1>9 DEF VerifyHolderProof
  <2>2. "HOLDER_PROOF_INVALID" \in (Reasons \ AllowReasons) \ {"CREDENTIAL_SPENT"}
    BY DEF Reasons, AllowReasons
  <2> QED BY <1>4, <1>6, <2>1, <2>2
<1>10. CASE BeginImmediate(k) \/ BusyTimeout(k)
  <2>1. Goto(k, "locked") \/ Deny(k, "INTERNAL_ERROR")
    BY <1>10 DEF BeginImmediate, BusyTimeout
  <2>2. "INTERNAL_ERROR" \in (Reasons \ AllowReasons) \ {"CREDENTIAL_SPENT"}
    BY DEF Reasons, AllowReasons
  <2> QED BY <1>4, <1>6, <2>1, <2>2
<1>11. CASE SpendRefused(k)
  <2> DEFINE why == LockedRefusal(resource_challenges[tokenHash[k]], request[k], now)
  <2>1. why # None /\ Deny(k, why)
    BY <1>11 DEF SpendRefused
  <2>2. /\ why \in (Reasons \ AllowReasons) \ {"CREDENTIAL_SPENT"}
        /\ why = "CHALLENGE_CONSUMED" =>
             /\ resource_challenges[tokenHash[k]] # None
             /\ resource_challenges[tokenHash[k]].consumed_at # None
    BY <2>1, VerdictBlames
  <2> HIDE DEF why
  <2> QED BY <1>4, <2>1, <2>2
<1> QED BY <1>7, <1>8, <1>9, <1>10, <1>11

\* The spend keeps the call's part.  A commit that is not the first finds a
\* redemption whose token is consumed, so not its own.
LEMMA SpendCallInv ==
  ASSUME IInv, RInv, TypeOK', StoreGrows, NEW k \in Calls,
         SpendStaged(k) \/ Commit(k) \/ AfterSpend(k) \/ DependencyFails(k)
  PROVE  CallInv(k)'
<1>1. /\ pc[k] \in PreHandler
      /\ UNCHANGED <<request, tokenHash, invocation, mcp>>
  BY DEF SpendStaged, Commit, AfterSpend, DependencyFails, locals, PreHandler
<1>2. /\ tokenHash[k] # None /\ tokenHash[k] \in Tokens
      /\ Cid(k) \in CredentialIds /\ Cid(k)' = Cid(k)
      /\ request'[k].credential # None
  BY <1>1 DEF IInv, TypeOK, Progress, InPhase, TokenMeansCredential, Cid, RInv, CallInv, Reasoned
<1>3. CASE SpendStaged(k)
  <2>1. Goto(k, "commit") /\ pc'[k] = "commit"
    BY <1>3 DEF SpendStaged, Goto, IInv, TypeOK
  <2>2. ReadIsPast(k)' /\ LoserBurnt(k)'
    BY <2>1 DEF ReadIsPast, LoserBurnt, Committed
  <2> QED BY <1>1, <1>2, <2>1, <2>2, ForwardCallInv
<1>4. CASE Commit(k)
  <2>1. Goto(k, "spent") /\ pc'[k] = "spent" /\ pc[k] = "commit" /\ spend' = spend
    BY <1>4 DEF Commit, Goto, locals, IInv, TypeOK
  <2>2. ReadIsPast(k)'
    BY <2>1 DEF ReadIsPast
  <2>3. LoserBurnt(k)'
    <3> SUFFICES ASSUME ~spend[k].first_spend
                 PROVE  /\ credential_redemptions'[Cid(k)] # None
                        /\ credential_redemptions'[Cid(k)].token # tokenHash[k]
                        /\ resource_challenges'[tokenHash[k]] # None
                        /\ resource_challenges'[tokenHash[k]].consumed_at # None
      BY <1>1, <1>2, <2>1 DEF LoserBurnt
    <3> DEFINE red == credential_redemptions[Cid(k)]
               was == resource_challenges[tokenHash[k]]
    <3>1. /\ red # None /\ was # None /\ was.consumed_at = None
          /\ spend[k] \in SpendResult
      BY <2>1 DEF IInv, StagedIsCurrent, Progress, InPhase, TypeOK
    <3>2. /\ resource_challenges[red.token].consumed_at = red.redeemed_at
          /\ red.redeemed_at # None
      BY <1>2, <3>1, NoneAssumption DEF IInv, SpendIsAtomic, TypeOK, RedemptionRow
    <3>3. credential_redemptions'[Cid(k)] = red /\ red.token # tokenHash[k]
      BY <1>2, <3>1, <3>2 DEF StoreGrows
    <3>4. /\ was \in ChallengeRow
          /\ resource_challenges'[tokenHash[k]] = [was EXCEPT !.consumed_at = spend[k].committed_at]
      BY <1>2, <1>4, <3>1 DEF Commit, IInv, TypeOK
    <3>5. spend[k].committed_at # None
      BY <3>1, NoneAssumption DEF SpendResult
    <3>6. resource_challenges'[tokenHash[k]].consumed_at = spend[k].committed_at
      BY <3>4 DEF ChallengeRow
    <3> QED BY <1>2, <3>1, <3>3, <3>5, <3>6 DEF StoreGrows
  <2> QED BY <1>1, <1>2, <2>1, <2>2, <2>3, ForwardCallInv
<1>5. CASE AfterSpend(k)
  <2> DEFINE why == PreHandlerRefusal(spend[k], request[k], now)
  <2>1. /\ pc[k] = "spent" /\ UNCHANGED <<spend, credential_redemptions, resource_challenges>>
        /\ LoserBurnt(k) /\ spend[k] # None
    BY <1>5 DEF AfterSpend, store, RInv, CallInv, IInv, Progress, InPhase
  <2>2. pc'[k] \in {"deny", "invoke"}
    BY <1>5 DEF AfterSpend, Deny, Goto, IInv, TypeOK
  <2>3. LoserBurnt(k)' /\ ReadIsPast(k)'
    BY <1>1, <1>2, <2>1, <2>2 DEF LoserBurnt, Committed, ReadIsPast
  <2>4. CASE why = None
    <3>1. Goto(k, "invoke")
      BY <1>5, <2>4 DEF AfterSpend
    <3> QED BY <1>1, <1>2, <2>3, <3>1, ForwardCallInv
  <2>5. CASE why # None
    <3>1. Deny(k, why)
      BY <1>5, <2>5 DEF AfterSpend
    <3>2. /\ why \in {"CREDENTIAL_SPENT", "CHALLENGE_STALE", "CREDENTIAL_EXPIRED"}
          /\ why = "CREDENTIAL_SPENT" => ~spend[k].first_spend
      BY <2>5, VerdictBlames
    <3>3. why \in Reasons \ AllowReasons
      BY <3>2 DEF Reasons, AllowReasons
    <3> HIDE DEF why
    <3> QED BY <1>1, <1>2, <2>1, <2>3, <3>1, <3>2, <3>3, DenyCallInv
  <2> QED BY <2>4, <2>5
<1>6. CASE DependencyFails(k)
  <2>1. /\ Deny(k, "INTERNAL_ERROR") /\ pc'[k] = "deny"
        /\ UNCHANGED <<credential_redemptions, resource_challenges>>
        /\ pc[k] = "commit" => spend'[k] = None
        /\ pc[k] # "commit" => spend'[k] = spend[k]
    BY <1>6 DEF DependencyFails, Deny, Goto, store, IInv, TypeOK
  <2>2. LoserBurnt(k)'
    BY <1>1, <1>2, <2>1 DEF LoserBurnt, Committed, RInv, CallInv
  <2>3. "INTERNAL_ERROR" \in Reasons \ AllowReasons
    BY DEF Reasons, AllowReasons
  <2> QED BY <1>1, <1>2, <2>1, <2>2, <2>3, DenyCallInv
<1> QED BY <1>3, <1>4, <1>5, <1>6

\* A call with a token and a winning spend can put its name to a receipt.
LEMMA WinnerNames ==
  ASSUME IInv, RInv, NEW k \in Calls, Invoked(k)
  PROVE  /\ request[k] # None /\ request[k].credential # None
         /\ request[k].credential.credential_id # None
         /\ request[k].record_id # None /\ tokenHash[k] # None
         /\ invocation[k] \in Nat
<1>1. tokenHash[k] # None
  BY NoneAssumption DEF IInv, Progress, InPhase, Won, Committed
<1>2. /\ request[k] \in Requests /\ Cid(k) \in CredentialIds
      /\ request[k].credential # None
  BY <1>1 DEF IInv, TokenMeansCredential, RInv, CallInv, Reasoned
<1> QED BY <1>1, <1>2, NoneAssumption, ConstantsAssumption DEF Cid, IInv, TypeOK, Invoked

\* What a call has decided to report passes the validator.
LEMMA ReceiptIsConsistent ==
  ASSUME IInv, RInv, NEW k \in Calls, pc[k] \in {"deny", "completed", "failed"}
  PROVE  ConsistentDecisionState(Receipt(k))
<1> DEFINE p == Receipt(k)
<1>1. /\ p.reason = reason[k] /\ p.deciding_service = "inventoryd"
      /\ p.handler_invoked <=> (pc[k] # "deny")
      /\ p.decision = IF pc[k] # "deny" THEN "allow" ELSE "deny"
      /\ p.invocation_id = IF pc[k] # "deny" THEN invocation[k] ELSE None
      /\ p.handler_count_snapshot = invocation_count
      /\ p.challenge_token_hash = tokenHash[k]
      /\ p.business_result = IF pc[k] # "deny" THEN pc[k] ELSE "not_invoked"
      /\ request[k] # None => p.record_id = request[k].record_id
      /\ request[k] # None /\ request[k].credential # None =>
           p.credential_id = request[k].credential.credential_id
  BY DEF Receipt
<1>2. Numbered(k) /\ Reasoned(k)
  BY DEF RInv, CallInv
<1> HIDE DEF p
<1>3. CASE pc[k] = "deny"
  <2>1. p.invocation_id = None /\ ~p.handler_invoked /\ p.reason \in Reasons \ AllowReasons
    BY <1>1, <1>2, <1>3 DEF Reasoned
  <2> QED BY <1>1, <1>3, <2>1 DEF ConsistentDecisionState, InventoryConsistent, p
<1>4. CASE pc[k] \in {"completed", "failed"}
  <2>1. /\ Invoked(k) /\ invocation[k] \in Nat /\ invocation_count \in Nat
        /\ invocation_count >= invocation[k]
    BY <1>2, <1>4 DEF Numbered, InHandler, Invoked, IInv, TypeOK
  <2>2. /\ p.credential_id # None /\ p.record_id # None /\ p.challenge_token_hash # None
        /\ p.invocation_id # None
    BY <1>1, <1>4, <2>1, WinnerNames, NoneAssumption
  <2>3. /\ p.reason \in Reasons
        /\ <<p.reason, p.business_result>> \in {<<"ALLOW", "completed">>, <<"HANDLER_FAILED", "failed">>}
    BY <1>1, <1>2, <1>4 DEF Reasoned, Reasons
  <2> QED BY <1>1, <1>4, <2>1, <2>2, <2>3 DEF ConsistentDecisionState, InventoryConsistent, p
<1> QED BY <1>3, <1>4

\* The handler and the answer keep the call's part.
LEMMA AnswerCallInv ==
  ASSUME IInv, IInv', RInv, NEW k \in Calls,
         RecordInvocation(k) \/ InventoryLookup(k) \/ SignReceipt(k) \/ SignerFails(k)
  PROVE  CallInv(k)'
<1>1. /\ UNCHANGED <<credential_redemptions, resource_challenges, request, tokenHash,
                     spend, stored, boot>>
      /\ pc[k] \in {"invoke", "handler", "deny", "completed", "failed"}
      /\ pc'[k] \in InHandler \cup {"done"}
      /\ CallInv(k) /\ Cid(k)' = Cid(k)
  BY DEF RecordInvocation, InventoryLookup, SignReceipt, SignerFails, Goto, store, locals,
         InHandler, IInv, TypeOK, RInv, Cid
<1>2. LoserBurnt(k)' /\ ReadIsPast(k)'
  BY <1>1 DEF LoserBurnt, Committed, ReadIsPast, CallInv, InHandler
<1>3. CASE RecordInvocation(k)
  <2>1. /\ pc[k] = "invoke" /\ pc'[k] = "handler" /\ invocation'[k] = invocation_count + 1
        /\ invocation_count' = invocation_count + 1 /\ bootOf'[k] = boot /\ boot' = boot
        /\ mcp' = mcp /\ invocation_count \in Nat /\ boot \in Nat
    BY <1>3 DEF RecordInvocation, Goto, IInv, TypeOK
  <2>2. Invoked(k)'
    BY <2>1, NoneAssumption DEF Invoked
  <2>3. mcp[k] = None
    BY <1>1, <2>1, Early
  <2>4. Numbered(k)'
    BY <2>1, <2>2 DEF Numbered, InHandler
  <2>5. Reasoned(k)' /\ DenialFits(k)' /\ Reported(k)'
    BY <1>1, <2>1, <2>2, <2>3 DEF Reasoned, DenialFits, Denied, Reported, CallInv
  <2> QED BY <1>2, <2>4, <2>5 DEF CallInv
<1>4. CASE InventoryLookup(k)
  <2>1. /\ pc[k] = "handler" /\ pc'[k] \in {"completed", "failed"}
        /\ UNCHANGED <<invocation, bootOf, boot, invocation_count, mcp>>
        /\ pc'[k] = "completed" => LookupSucceeds(request[k].sku) /\ reason'[k] = "ALLOW"
        /\ pc'[k] = "failed" => ~LookupSucceeds(request[k].sku) /\ reason'[k] = "HANDLER_FAILED"
    BY <1>4 DEF InventoryLookup, Goto, IInv, TypeOK
  <2>2. Numbered(k)'
    BY <1>1, <2>1 DEF Numbered, InHandler, Invoked, CallInv
  <2>3. Reasoned(k)' /\ DenialFits(k)' /\ Reported(k)'
    BY <1>1, <2>1 DEF Reasoned, DenialFits, Denied, Reported, CallInv
  <2> QED BY <1>2, <2>2, <2>3 DEF CallInv
<1>5. CASE SignReceipt(k) \/ SignerFails(k)
  <2>1. /\ pc[k] \in {"deny", "completed", "failed"} /\ pc'[k] = "done"
        /\ UNCHANGED <<invocation, bootOf, boot, invocation_count, reason>>
        /\ mcp'[k] \in {SignedResult(Receipt(k)), UnsignedResult(k)}
    BY <1>5 DEF SignReceipt, SignerFails, Goto, locals, IInv, TypeOK, RInv
  <2>2. /\ Invoked(k)' <=> Invoked(k)
        /\ Invoked(k) <=> pc[k] # "deny"
        /\ Committed(k)' <=> Committed(k)
    BY <1>1, <2>1 DEF Invoked, Committed, CallInv, Numbered, InHandler
  <2>3. Numbered(k)'
    BY <1>1, <2>1, <2>2 DEF Numbered, InHandler, CallInv
  <2>4. Reasoned(k)' /\ DenialFits(k)'
    BY <1>1, <2>1, <2>2 DEF Reasoned, DenialFits, Denied, CallInv
  <2>5. CASE mcp'[k] = UnsignedResult(k)
    <3>1. ASSUME pc[k] = "deny" PROVE Reported(k)'
      BY <2>1, <2>2, <2>5, <3>1 DEF UnsignedResult, Reported
    <3>2. ASSUME pc[k] # "deny" PROVE Reported(k)'
      <4>1. (pc[k] = "completed") = LookupSucceeds(request[k].sku)
        BY <1>1, <2>1, <3>2 DEF CallInv, Reasoned, LookupSucceeds
      <4> QED BY <1>1, <2>1, <2>2, <2>5, <3>2, <4>1 DEF UnsignedResult, Reported
    <3>3. Reported(k)'
      BY <3>1, <3>2
    <3> QED BY <1>2, <2>3, <2>4, <3>3 DEF CallInv
  <2>6. CASE mcp'[k] = SignedResult(Receipt(k))
    <3> DEFINE p == Receipt(k)
    <3>1. /\ mcp'[k].kind = "decision" /\ mcp'[k].receipt = p
          /\ mcp'[k].is_error = (p.reason # "ALLOW")
      <4> HIDE DEF p
      <4> QED BY <2>6 DEF SignedResult, p
    <3>2. /\ p.reason = reason[k]
          /\ p.handler_invoked <=> pc[k] # "deny"
          /\ p.decision = "deny" => pc[k] = "deny"
          /\ pc[k] # "deny" => p.invocation_id = invocation[k]
          /\ p.handler_count_snapshot = invocation_count
      BY DEF Receipt
    <3>3. Invoked(k) => invocation_count >= invocation[k]
      BY <1>1, <2>1, <2>2 DEF CallInv, Numbered, InHandler, IInv, TypeOK, Invoked
    <3>4. pc[k] # "deny" => (reason[k] # "ALLOW" <=> ~LookupSucceeds(request[k].sku))
      BY <1>1, <2>1 DEF CallInv, Reasoned
    <3> HIDE DEF p
    <3>5. Reported(k)'
      BY <1>1, <2>1, <2>2, <3>1, <3>2, <3>3, <3>4 DEF Reported
    <3> QED BY <1>2, <2>3, <2>4, <3>5 DEF CallInv
  <2> QED BY <2>1, <2>5, <2>6
<1> QED BY <1>3, <1>4, <1>5

\* Every action of a call keeps its own part of the invariant.
LEMMA OwnCallInv ==
  ASSUME IInv, IInv', RInv, StoreGrows, NEW k \in Calls, ActionOf(k)
  PROVE  CallInv(k)'
<1>1. TypeOK'
  BY DEF IInv
<1> QED BY <1>1, ArrivalCallInv, PreSpendCallInv, SpendCallInv, AnswerCallInv DEF ActionOf, CallStep

(***************************************************************************)
(* RInv is inductive, relative to IInv                                     *)
(***************************************************************************)

\* Before the first call there is nothing to report.
LEMMA InitRInv == Init => RInv
<1> SUFFICES ASSUME Init PROVE RInv OBVIOUS
<1> USE DEF Init
<1>1. mcp = [k \in Calls |-> mcp[k]]
  OBVIOUS
<1>2. DistinctNumbers /\ ConsumersCommitted
  BY DEF DistinctNumbers, ConsumersCommitted, Invoked
<1>3. ASSUME NEW k \in Calls PROVE CallInv(k)
  BY DEF CallInv, Numbered, Reasoned, ReadIsPast, LoserBurnt, DenialFits, Reported, Invoked,
         Committed, Denied, InHandler
<1> QED BY <1>1, <1>2, <1>3 DEF RInv

\* A step of one call keeps the numbers apart: a new number is above the counter.
LEMMA ActionDistinct ==
  ASSUME IInv, RInv, NEW k \in Calls, ActionOf(k)
  PROVE  DistinctNumbers'
<1>1. CASE RecordInvocation(k)
  <2>1. /\ invocation'[k] = invocation_count + 1 /\ bootOf'[k] = boot
        /\ invocation_count \in Nat
        /\ \A j \in Calls \ {k} : invocation'[j] = invocation[j] /\ bootOf'[j] = bootOf[j]
    BY <1>1 DEF RecordInvocation, IInv, TypeOK
  <2>2. \A j \in Calls : Invoked(j) /\ bootOf[j] = boot =>
          invocation[j] \in Nat /\ invocation[j] <= invocation_count
    BY DEF RInv, CallInv, Numbered, IInv, TypeOK, Invoked
  <2>3. \A j \in Calls \ {k} : Invoked(j)' /\ bootOf'[j] = bootOf'[k] => invocation'[j] # invocation'[k]
    BY <2>1, <2>2 DEF Invoked
  <2> QED BY <2>1, <2>3 DEF DistinctNumbers, Invoked, RInv
<1>2. CASE ~RecordInvocation(k)
  <2>1. UNCHANGED <<invocation, bootOf>>
    BY <1>2 DEF ActionOf, CallStep, DirectLookupAttempt, RedeemRefused, RedeemAccepted,
         GetResourceChallenge, CheckStored, VerifyHolderProof, BeginImmediate, BusyTimeout,
         SpendRefused, SpendStaged, Commit, AfterSpend, InventoryLookup, SignReceipt,
         DependencyFails, SignerFails, locals
  <2> QED BY <2>1 DEF DistinctNumbers, Invoked, RInv
<1> QED BY <1>1, <1>2

\* A committed spend stays committed, with its token.
LEMMA CommittedStays ==
  ASSUME IInv, NEW k \in Calls, ActionOf(k), Committed(k)
  PROVE  Committed(k)' /\ tokenHash'[k] = tokenHash[k]
<1>1. spend[k] # None /\ pc[k] \notin {"idle", "lookup", "check", "proof", "begin", "locked", "commit"}
  BY DEF Committed, IInv, Progress, InPhase, Winning
<1>2. spend' = spend /\ tokenHash' = tokenHash /\ pc'[k] # "commit"
  BY <1>1 DEF ActionOf, CallStep, DirectLookupAttempt, RedeemRefused, RedeemAccepted, Idle,
         GetResourceChallenge, CheckStored, VerifyHolderProof, BeginImmediate, BusyTimeout,
         SpendRefused, SpendStaged, Commit, AfterSpend, RecordInvocation, InventoryLookup,
         SignReceipt, DependencyFails, SignerFails, locals, Deny, Goto, IInv, TypeOK
<1> QED BY <1>1, <1>2 DEF Committed

\* A step of one call keeps every consumed challenge with its consumer.
LEMMA ActionConsumers ==
  ASSUME IInv, IInv', RInv, NEW k \in Calls, ActionOf(k)
  PROVE  ConsumersCommitted'
<1>1. \A j \in Calls : Committed(j) => Committed(j)' /\ tokenHash'[j] = tokenHash[j]
  BY CommittedStays, ActionsAreOwn DEF ActsAlone, CallKept, Committed
<1>2. CASE Commit(k)
  <2>1. /\ pc'[k] = "spent" /\ spend'[k] # None /\ tokenHash' = tokenHash
        /\ \A t \in Tokens \ {tokenHash[k]} : resource_challenges'[t] = resource_challenges[t]
    BY <1>2 DEF Commit, Goto, locals, IInv, TypeOK, Progress, InPhase
  <2>2. Committed(k)'
    BY <2>1 DEF Committed
  <2> QED BY <1>1, <2>1, <2>2 DEF RInv, ConsumersCommitted
<1>3. CASE ~Commit(k)
  <2>1. resource_challenges' = resource_challenges
    BY <1>3 DEF ActionOf, CallStep, DirectLookupAttempt, RedeemRefused, RedeemAccepted,
         GetResourceChallenge, CheckStored, VerifyHolderProof, BeginImmediate, BusyTimeout,
         SpendRefused, SpendStaged, AfterSpend, RecordInvocation, InventoryLookup,
         SignReceipt, DependencyFails, SignerFails, store
  <2> QED BY <1>1, <2>1 DEF RInv, ConsumersCommitted
<1> QED BY <1>2, <1>3

\* A crash keeps the invariant: the numbers of the boot that died belong to it.
LEMMA CrashRInv ==
  ASSUME IInv, IInv', RInv, Crash
  PROVE  RInv'
<1>1. /\ UNCHANGED <<resource_challenges, credential_redemptions, request, tokenHash, stored,
                     invocation, bootOf, reason, mcp>>
      /\ boot' = boot + 1 /\ boot \in Nat /\ invocation_count' = 0
      /\ \A j \in Calls : /\ pc'[j] \in {pc[j], "lost"} /\ pc'[j] \in {"idle", "done", "lost"}
                          /\ pc[j] \in {"idle", "done"} => pc'[j] = pc[j]
                          /\ pc[j] = "commit" => spend'[j] = None
                          /\ pc[j] # "commit" => spend'[j] = spend[j]
  BY DEF Crash, store, Idle, Over, IInv, TypeOK
<1>2. \A j \in Calls : /\ Invoked(j)' <=> Invoked(j)
                       /\ Committed(j)' <=> Committed(j)
                       /\ Committed(j)' => spend'[j] = spend[j]
                       /\ Denied(j)' => Denied(j) /\ pc[j] = "done"
                       /\ Cid(j)' = Cid(j)
  BY <1>1 DEF Invoked, Committed, Denied, Cid
<1>3. mcp' = [j \in Calls |-> mcp'[j]] /\ DistinctNumbers' /\ ConsumersCommitted'
  BY <1>1, <1>2 DEF RInv, DistinctNumbers, ConsumersCommitted
<1>4. ASSUME NEW j \in Calls PROVE CallInv(j)'
  <2>0. CallInv(j)
    BY DEF RInv
  <2>1. Numbered(j)'
    BY <1>1, <1>2, <2>0 DEF CallInv, Numbered, InHandler
  <2>2. Reasoned(j)' /\ ReadIsPast(j)'
    BY <1>1, <2>0 DEF CallInv, Reasoned, ReadIsPast
  <2>3. LoserBurnt(j)'
    BY <1>1, <1>2, <2>0 DEF CallInv, LoserBurnt
  <2>4. DenialFits(j)'
    BY <1>1, <1>2, <2>0 DEF CallInv, DenialFits
  <2>5. Reported(j)'
    BY <1>1, <1>2, <2>0 DEF CallInv, Reported
  <2> QED BY <2>1, <2>2, <2>3, <2>4, <2>5 DEF CallInv
<1> QED BY <1>3, <1>4 DEF RInv

\* Every step keeps RInv.
LEMMA NextRInv ==
  ASSUME IInv, IInv', RInv, [Next]_vars
  PROVE  RInv'
<1>0. TypeOK' /\ StoreGrows /\ invocation_count \in Nat
  BY StepGrowsStore DEF IInv, TypeOK
<1>1. ASSUME NEW k \in Calls, ActionOf(k)
      PROVE  RInv'
  <2>1. ActsAlone(k)
    BY <1>1, ActionsAreOwn
  <2>2. \A j \in Calls \ {k} : CallInv(j)'
    BY <1>0, <2>1, KeptCallInv DEF ActsAlone, RInv
  <2>3. CallInv(k)'
    BY <1>0, <1>1, OwnCallInv
  <2>4. DistinctNumbers' /\ ConsumersCommitted'
    BY <1>1, ActionDistinct, ActionConsumers
  <2> QED BY <2>1, <2>2, <2>3, <2>4 DEF RInv, ActsAlone
<1>2. ASSUME UNCHANGED <<pc, locals, mcp, boot, invocation_count>>,
             \A t \in Tokens : resource_challenges'[t] # None /\ resource_challenges'[t].consumed_at # None =>
               resource_challenges[t] # None /\ resource_challenges[t].consumed_at # None
      PROVE  RInv'
  <2>1. \A j \in Calls : CallKept(j) /\ (Committed(j)' <=> Committed(j)) /\ (Invoked(j)' <=> Invoked(j))
    BY <1>2 DEF locals, CallKept, Committed, Invoked
  <2>2. \A j \in Calls : CallInv(j)'
    BY <1>0, <1>2, <2>1, KeptCallInv DEF RInv
  <2>3. DistinctNumbers' /\ ConsumersCommitted'
    BY <1>2, <2>1 DEF RInv, DistinctNumbers, ConsumersCommitted, CallKept
  <2> QED BY <1>2, <2>2, <2>3 DEF RInv
<1>3. CASE ClockStep \/ UNCHANGED vars
  BY <1>2, <1>3 DEF ClockStep, vars, store
<1>4. ASSUME NEW t \in Tokens, NEW i \in ChallengeInputs, IssueResourceChallenge(t, i)
      PROVE  RInv'
  <2>1. /\ resource_challenges'[t].consumed_at = None
        /\ \A u \in Tokens \ {t} : resource_challenges'[u] = resource_challenges[u]
        /\ UNCHANGED <<pc, locals, mcp, boot, invocation_count>>
    BY <1>4 DEF IssueResourceChallenge, IInv, TypeOK
  <2> QED BY <1>2, <2>1
<1>5. CASE Crash
  BY <1>5, CrashRInv
<1> QED BY <1>1, <1>3, <1>4, <1>5 DEF Next, ActionOf

\* Both invariants hold of every behaviour.
LEMMA Invariants == Spec => [](IInv /\ RInv)
<1>1. IInv /\ RInv /\ [Next]_vars => IInv' /\ RInv'
  BY NextIInv, NextRInv
<1> QED BY InitIInv, InitRInv, <1>1, PTL DEF Spec

(***************************************************************************)
(* The theorems on receipts                                                *)
(***************************************************************************)

\* A decision is left unsigned only when the signer fails: the validator never
\* refuses what redeem reports, on any path and at any counter.
THEOREM InventoryReceiptsValidate == Spec => []ReceiptsValidate
<1>1. IInv /\ RInv => ReceiptsValidate
  BY ReceiptIsConsistent DEF ReceiptsValidate
<1> QED BY Invariants, <1>1, PTL

\* Whatever raced and whatever crashed since, a signed denial is true of the
\* stored state it speaks of.
THEOREM DenialsStayHonest == Spec => []DenialsAreHonest
<1>1. IInv /\ RInv => DenialsAreHonest
  <2> SUFFICES ASSUME IInv, RInv, NEW k \in Calls, Answered(k), mcp[k].receipt.decision = "deny"
               PROVE  LET why == mcp[k].receipt.reason
                          row == resource_challenges[tokenHash[k]]
                      IN /\ ~Invoked(k)
                         /\ why = "CREDENTIAL_SPENT" =>
                              /\ credential_redemptions[Cid(k)] # None
                              /\ credential_redemptions[Cid(k)].token # tokenHash[k]
                              /\ row.consumed_at # None
                         /\ why = "CHALLENGE_CONSUMED" =>
                              /\ row.consumed_at # None
                              /\ \E j \in Calls \ {k} : Committed(j) /\ tokenHash[j] = tokenHash[k]
                         /\ Committed(k) =>
                              why \in {"CREDENTIAL_SPENT", "CHALLENGE_STALE", "CREDENTIAL_EXPIRED", "INTERNAL_ERROR"}
    BY DEF DenialsAreHonest
  <2>1. CallInv(k)
    BY DEF RInv
  <2>2. ~Invoked(k) /\ Denied(k) /\ mcp[k].receipt.reason = reason[k]
    BY <2>1 DEF Answered, CallInv, Reported, Denied
  <2>3. reason[k] = "CREDENTIAL_SPENT" =>
          /\ credential_redemptions[Cid(k)] # None
          /\ credential_redemptions[Cid(k)].token # tokenHash[k]
          /\ resource_challenges[tokenHash[k]].consumed_at # None
    BY <2>1, <2>2 DEF CallInv, DenialFits, LoserBurnt
  <2>4. ASSUME reason[k] = "CHALLENGE_CONSUMED"
        PROVE  /\ resource_challenges[tokenHash[k]].consumed_at # None
               /\ \E j \in Calls \ {k} : Committed(j) /\ tokenHash[j] = tokenHash[k]
    <3>1. /\ spend[k] = None /\ tokenHash[k] # None
          /\ resource_challenges[tokenHash[k]] # None
          /\ resource_challenges[tokenHash[k]].consumed_at # None
      BY <2>1, <2>2, <2>4 DEF CallInv, DenialFits
    <3>2. tokenHash[k] \in Tokens
      BY <3>1 DEF IInv, TypeOK
    <3>3. PICK j \in Calls : Committed(j) /\ tokenHash[j] = tokenHash[k]
      BY <3>1, <3>2 DEF RInv, ConsumersCommitted
    <3> QED BY <3>1, <3>3 DEF Committed
  <2>5. Committed(k) =>
          reason[k] \in {"CREDENTIAL_SPENT", "CHALLENGE_STALE", "CREDENTIAL_EXPIRED", "INTERNAL_ERROR"}
    BY <2>1, <2>2 DEF CallInv, DenialFits
  <2> QED BY <2>2, <2>3, <2>4, <2>5
<1> QED BY Invariants, <1>1, PTL

\* Every answer after an invocation, signed or not, names that invocation and
\* its outcome; no two invocations of a boot share a number.
THEOREM ReceiptsNameInvocations == Spec => []ReceiptsIdentifyInvocations
<1>1. IInv /\ RInv => ReceiptsIdentifyInvocations
  <2> SUFFICES ASSUME IInv, RInv, NEW k \in Calls, mcp[k] # None
               PROVE  LET m == mcp[k]
                      IN /\ Invoked(k) <=> (m.kind = "unsigned" \/ (m.kind = "decision" /\ m.receipt.handler_invoked))
                         /\ m.kind = "unsigned" => /\ m.invocation_id = invocation[k]
                                                   /\ m.handler_completed = LookupSucceeds(request[k].sku)
                         /\ m.kind = "decision" /\ Invoked(k) =>
                              /\ m.receipt.invocation_id = invocation[k]
                              /\ m.receipt.handler_count_snapshot >= invocation[k]
                              /\ m.is_error <=> ~LookupSucceeds(request[k].sku)
    BY DEF ReceiptsIdentifyInvocations, RInv, DistinctNumbers
  <2>1. Reported(k)
    BY DEF RInv, CallInv
  <2> QED BY <2>1 DEF Reported
<1> QED BY Invariants, <1>1, PTL
=============================================================================
