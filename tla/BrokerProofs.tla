---------------------------- MODULE BrokerProofs ----------------------------
(***************************************************************************)
(* Theorems on CapabilityBroker, for any sets of calls, challenges,        *)
(* identifiers and submissions, any policy and any bounds.                 *)
(***************************************************************************)
EXTENDS BrokerInvariant, FiniteSetTheorems, TLAPS

(***************************************************************************)
(* The verdicts of issue's checks                                          *)
(***************************************************************************)

\* A verdict is the reason of a denial, or None; the appraisals never blame the
\* challenge's consumption, and only a consumed row makes CHALLENGE_CONSUMED.
LEMMA VerdictBlames ==
  ASSUME NEW s, NEW row, NEW t
  PROVE  /\ AppraisalRefusals(s, t) \subseteq (Reasons \ AllowReasons) \ {"CHALLENGE_CONSUMED"}
         /\ EntryRefusal(s, row, t) # None =>
              /\ EntryRefusal(s, row, t) \in (Reasons \ AllowReasons) \ {"CHALLENGE_CONSUMED"}
              /\ EntryRefusal(s, row, t) \in {"CHALLENGE_INVALID", "CHALLENGE_STALE"}
                   \/ s.request = None \/ s.evidence = None
         /\ EntryRefusal(s, row, t) = None => s.request # None /\ s.evidence # None /\ row # None
         /\ LockedRefusal(row, t) # None =>
              LockedRefusal(row, t) \in {"CHALLENGE_INVALID", "CHALLENGE_STALE", "CHALLENGE_CONSUMED"}
         /\ LockedRefusal(row, t) = "CHALLENGE_CONSUMED" => row # None /\ row.consumed_at # None
         /\ LockedRefusal(row, t) = None =>
              row # None /\ row.consumed_at = None /\ ~(t >= row.expires_at)
<1>0. None \notin Reasons
  BY NoneAssumption
<1>1. ManifestRefusal(s.manifest) # None =>
        ManifestRefusal(s.manifest) \in {"MANIFEST_INVALID", "MANIFEST_POLICY"}
  BY DEF ManifestRefusal
<1>2. IdentityRefusal(s.request) # None =>
        IdentityRefusal(s.request) \in {"REQUEST_BINDING", "IDENTITY_UNAUTHORIZED", "MANIFEST_POLICY",
                                        "SCOPE_DENIED", "IDENTITY_SIGNATURE"}
  BY DEF IdentityRefusal
<1>3. TpmRefusals(s.evidence, s.request, t) \subseteq {"TPM_INVALID", "PCR_POLICY", "TPM_UNTRUSTED"}
  BY DEF TpmRefusals
<1>4. AppraisalRefusals(s, t) \subseteq (Reasons \ AllowReasons) \ {"CHALLENGE_CONSUMED"}
  BY <1>1, <1>2, <1>3 DEF AppraisalRefusals, Reasons, AllowReasons
<1>5. /\ EntryRefusal(s, row, t) # None =>
           /\ EntryRefusal(s, row, t) \in (Reasons \ AllowReasons) \ {"CHALLENGE_CONSUMED"}
           /\ EntryRefusal(s, row, t) \in {"CHALLENGE_INVALID", "CHALLENGE_STALE"}
                \/ s.request = None \/ s.evidence = None
      /\ EntryRefusal(s, row, t) = None => s.request # None /\ s.evidence # None /\ row # None
  BY <1>0 DEF EntryRefusal, Reasons, AllowReasons
<1>6. /\ LockedRefusal(row, t) # None =>
           LockedRefusal(row, t) \in {"CHALLENGE_INVALID", "CHALLENGE_STALE", "CHALLENGE_CONSUMED"}
      /\ LockedRefusal(row, t) = "CHALLENGE_CONSUMED" => row # None /\ row.consumed_at # None
      /\ LockedRefusal(row, t) = None =>
           row # None /\ row.consumed_at = None /\ ~(t >= row.expires_at)
  BY <1>0 DEF LockedRefusal, Reasons
<1> QED BY <1>4, <1>5, <1>6

\* A submission that passed names a well-formed holder key.
LEMMA PassedHolder ==
  ASSUME NEW s, Passed(s)
  PROVE  s.request.body.holder_key \in Holders
<1>1. IdentityRefusal(s.request) = None
  BY DEF Passed, AppraisalRefusals
<1> QED BY <1>1, NoneAssumption DEF IdentityRefusal, Reasons

(***************************************************************************)
(* Initial state, types                                                    *)
(***************************************************************************)

\* The initial state satisfies the invariant.
LEMMA InitBInv == Init => BInv
<1> SUFFICES ASSUME Init PROVE BInv OBVIOUS
<1> USE DEF Init
<1>1. TypeOK /\ decision = [k \in Calls |-> decision[k]]
  BY DEF TypeOK, Steps
<1>2. LockHeldInTransaction
  BY NoneAssumption DEF LockHeldInTransaction
<1>3. OneConsumer /\ ConsumersExist /\ DistinctIds
  BY DEF OneConsumer, ConsumersExist, DistinctIds, Consumed
<1>4. \A k \in Calls : CallInv(k)
  BY DEF CallInv, InPhase, StagedIsCurrent, ConsumerOwns, RefusalFits, Returned, Consumed, InTry
<1> QED BY <1>1, <1>2, <1>3, <1>4 DEF BInv

\* The token of a well-typed call is a token.
LEMMA TokenType ==
  ASSUME NEW k \in Calls, Typed(submission[k])
  PROVE  Token(k) \in Tokens
BY ConstantsAssumption DEF Typed, Token

\* What a transaction that goes through has read
LEMMA StagedConsume ==
  ASSUME BInv, NEW k \in Calls, ConsumeStaged(k)
  PROVE  /\ Token(k) \in Tokens
         /\ broker_challenges[Token(k)] \in ChallengeRow
         /\ broker_challenges[Token(k)].consumed_at = None
         /\ now < broker_challenges[Token(k)].expires_at
<1>1. Token(k) \in Tokens /\ now \in Nat
  BY TokenType DEF ConsumeStaged, BInv, CallInv, InPhase, InTry, TypeOK
<1>2. /\ broker_challenges[Token(k)] # None /\ broker_challenges[Token(k)].consumed_at = None
      /\ ~(now >= broker_challenges[Token(k)].expires_at)
  BY VerdictBlames DEF ConsumeStaged
<1>3. broker_challenges[Token(k)] \in ChallengeRow
  BY <1>1, <1>2 DEF BInv, TypeOK
<1> QED BY <1>1, <1>2, <1>3 DEF ChallengeRow

\* The row a commit updates, and what becomes of it
LEMMA CommitRow ==
  ASSUME BInv, NEW k \in Calls, Commit(k)
  PROVE  LET was == broker_challenges[Token(k)]
             is  == broker_challenges'[Token(k)]
         IN /\ Token(k) \in Tokens /\ consumedAt[k] \in Nat
            /\ was \in ChallengeRow /\ was # None /\ was.consumed_at = None
            /\ consumedAt[k] < was.expires_at
            /\ broker_challenges' = [broker_challenges EXCEPT ![Token(k)] = is]
            /\ is = [was EXCEPT !.consumed_at = consumedAt[k]]
            /\ is \in ChallengeRow /\ is # None
            /\ is.consumed_at = consumedAt[k] /\ is.expires_at = was.expires_at
            /\ \A t \in Tokens \ {Token(k)} : broker_challenges'[t] = broker_challenges[t]
<1> DEFINE was == broker_challenges[Token(k)]
           is  == broker_challenges'[Token(k)]
<1>1. /\ pc[k] = "commit" /\ Token(k) \in Tokens /\ consumedAt[k] \in Nat
  BY TokenType DEF Commit, BInv, CallInv, InPhase, InTry, TypeOK
<1>2. was \in ChallengeRow /\ was # None /\ was.consumed_at = None /\ consumedAt[k] < was.expires_at
  BY <1>1 DEF BInv, CallInv, StagedIsCurrent, TypeOK
<1>3. /\ broker_challenges' = [broker_challenges EXCEPT ![Token(k)] = is]
      /\ is = [was EXCEPT !.consumed_at = consumedAt[k]]
      /\ \A t \in Tokens \ {Token(k)} : broker_challenges'[t] = broker_challenges[t]
  BY <1>1 DEF Commit, BInv, TypeOK
<1>4. /\ is \in ChallengeRow /\ is.consumed_at = consumedAt[k] /\ is.expires_at = was.expires_at
  BY <1>1, <1>2, <1>3 DEF ChallengeRow
<1>5. is # None
  BY <1>4, NoneAssumption
<1> QED BY <1>1, <1>2, <1>3, <1>4, <1>5

\* The steps of one call
ActionOf(k) ==
  \/ \E s \in Submissions : IssueRefused(k, s) \/ IssueAccepted(k, s)
  \/ CallStep(k) \/ DependencyFails(k) \/ SignerFails(k)

\* Nothing that belongs to call j changes.
CallKept(j) ==
  /\ pc'[j] = pc[j] /\ submission'[j] = submission[j] /\ consumedAt'[j] = consumedAt[j]
  /\ credential'[j] = credential[j] /\ reason'[j] = reason[j] /\ decision'[j] = decision[j]

\* Every step of a call keeps the types and touches no other call.
LEMMA ActionTypes ==
  ASSUME BInv, NEW k \in Calls, ActionOf(k)
  PROVE  /\ TypeOK'
         /\ decision' = [j \in Calls |-> decision'[j]]
         /\ \A j \in Calls \ {k} : CallKept(j)
<1> USE DEF BInv, TypeOK, CallKept
<1>0. /\ "INTERNAL_ERROR" \in Reasons
      /\ \A s, t : AppraisalRefusals(s, t) \subseteq Reasons
  BY VerdictBlames DEF Reasons
<1>1. ASSUME NEW s \in Submissions, IssueRefused(k, s)
      PROVE  /\ TypeOK' /\ decision' = [j \in Calls |-> decision'[j]]
             /\ \A j \in Calls \ {k} : CallKept(j)
  <2>1. PICK row, why : /\ why \in {EntryRefusal(s, row, now), "INTERNAL_ERROR"} \ {None}
                        /\ Deny(k, why)
    BY <1>1 DEF IssueRefused
  <2>2. why \in Reasons
    BY <1>0, <2>1, VerdictBlames
  <2> QED BY <1>1, <2>1, <2>2 DEF IssueRefused, Deny, Goto, Steps
<1>2. ASSUME NEW s \in Submissions, IssueAccepted(k, s)
      PROVE  /\ TypeOK' /\ decision' = [j \in Calls |-> decision'[j]]
             /\ \A j \in Calls \ {k} : CallKept(j)
  BY <1>2 DEF IssueAccepted, Goto, Steps
<1>3. CASE Appraise(k)
  <2>1. \/ \E why \in Reasons : Deny(k, why)
        \/ Goto(k, "begin") /\ UNCHANGED reason
    BY <1>0, <1>3 DEF Appraise
  <2> QED BY <1>3, <2>1 DEF Appraise, Deny, Goto, Steps
<1>4. CASE BeginImmediate(k) \/ BusyTimeout(k)
  BY <1>0, <1>4 DEF BeginImmediate, BusyTimeout, Deny, Goto, Steps, locals
<1>5. CASE ConsumeRefused(k)
  <2>1. LockedRefusal(broker_challenges[Token(k)], now) # None =>
          LockedRefusal(broker_challenges[Token(k)], now) \in Reasons
    BY VerdictBlames DEF Reasons
  <2> QED BY <1>5, <2>1 DEF ConsumeRefused, Deny, Goto, Steps
<1>6. CASE ConsumeStaged(k)
  BY <1>6 DEF ConsumeStaged, Goto, Steps
<1>7. CASE Commit(k)
  BY <1>7, CommitRow DEF Commit, Goto, Steps, locals
<1>8. CASE Mint(k)
  <2>1. Holder(k) \in Holders
    BY <1>8, PassedHolder DEF Mint, CallInv, InPhase, InTry, Holder
  <2>2. PICK id \in CredentialIds : credential' = [credential EXCEPT ![k] =
          [credential_id |-> id, subject |-> Holder(k),
           not_before |-> now, not_after |-> now + CredentialTTL]]
    BY <1>8 DEF Mint
  <2>3. [credential_id |-> id, subject |-> Holder(k),
         not_before |-> now, not_after |-> now + CredentialTTL] \in Credential
    BY <2>1, ConstantsAssumption DEF Credential
  <2> QED BY <1>8, <2>2, <2>3 DEF Mint, Goto, Steps
<1>9. CASE Grant(k)
  BY <1>9 DEF Grant, Goto, Steps, locals
<1>10. CASE Refuse(k)
  BY <1>10 DEF Refuse, Goto, Steps, locals
<1>11. CASE SignerFails(k)
  BY <1>11 DEF SignerFails, Goto, Steps, locals
<1>12. CASE DependencyFails(k)
  BY <1>0, <1>12 DEF DependencyFails, Deny, Goto, Steps
<1> QED BY <1>1, <1>2, <1>3, <1>4, <1>5, <1>6, <1>7, <1>8, <1>9, <1>10, <1>11, <1>12
        DEF ActionOf, CallStep

(***************************************************************************)
(* The table and the lock                                                  *)
(***************************************************************************)

\* Rows appear and are consumed; nothing else happens to them.
TableGrows ==
  \A t \in Tokens : broker_challenges[t] # None =>
    /\ broker_challenges'[t] # None
    /\ broker_challenges[t].consumed_at # None => broker_challenges'[t] = broker_challenges[t]

\* A step that is no commit and issues no challenge leaves the table alone.
LEMMA TableKept ==
  ASSUME NEW k \in Calls, ActionOf(k), ~Commit(k)
  PROVE  broker_challenges' = broker_challenges
BY DEF ActionOf, CallStep, IssueRefused, IssueAccepted, Appraise, BeginImmediate, BusyTimeout,
       ConsumeRefused, ConsumeStaged, Mint, Grant, Refuse, DependencyFails, SignerFails

\* Every step of a call grows the table.
LEMMA ActionGrowsTable ==
  ASSUME BInv, NEW k \in Calls, ActionOf(k)
  PROVE  TableGrows
<1>1. CASE Commit(k)
  BY <1>1, CommitRow DEF TableGrows
<1>2. CASE ~Commit(k)
  BY <1>2, TableKept DEF TableGrows
<1> QED BY <1>1, <1>2

\* Every step of a call keeps the lock with the call inside its transaction.
LEMMA ActionLock ==
  ASSUME BInv, NEW k \in Calls, ActionOf(k)
  PROVE  LockHeldInTransaction'
<1> USE DEF BInv, TypeOK, LockHeldInTransaction
<1>1. CASE (\E s \in Submissions : IssueRefused(k, s) \/ IssueAccepted(k, s)) \/ Appraise(k)
  BY <1>1 DEF IssueRefused, IssueAccepted, Appraise, Idle, Deny, Goto
<1>2. CASE BeginImmediate(k) \/ BusyTimeout(k)
  BY <1>2, NoneAssumption DEF BeginImmediate, BusyTimeout, Deny, Goto
<1>3. CASE ConsumeRefused(k) \/ ConsumeStaged(k) \/ Commit(k)
  BY <1>3, NoneAssumption DEF ConsumeRefused, ConsumeStaged, Commit, Deny, Goto
<1>4. CASE Mint(k) \/ Grant(k) \/ Refuse(k) \/ SignerFails(k)
  BY <1>4 DEF Mint, Grant, Refuse, SignerFails, Goto
<1>5. CASE DependencyFails(k)
  BY <1>5, NoneAssumption DEF DependencyFails, Deny, Goto
<1> QED BY <1>1, <1>2, <1>3, <1>4, <1>5 DEF ActionOf, CallStep

\* A call's part of the invariant survives the steps of others: the table only
\* grows, and does not change at all under a call in its transaction.
LEMMA KeptCallInv ==
  ASSUME BInv, NEW j \in Calls, CallKept(j), TableGrows,
         pc[j] = "commit" => broker_challenges' = broker_challenges
  PROVE  CallInv(j)'
<1> USE DEF CallKept
<1>0. /\ CallInv(j) /\ (Consumed(j)' <=> Consumed(j))
      /\ Token(j)' = Token(j) /\ Holder(j)' = Holder(j)
  BY DEF BInv, Consumed, Token, Holder
<1>1. InPhase(j)'
  BY <1>0 DEF CallInv, InPhase
<1>2. StagedIsCurrent(j)'
  BY <1>0 DEF CallInv, StagedIsCurrent
<1>3. ConsumerOwns(j)'
  <2>1. Consumed(j) => Token(j) \in Tokens /\ consumedAt[j] # None
    BY <1>0, TokenType DEF CallInv, InPhase, Consumed
  <2> QED BY <1>0, <2>1 DEF CallInv, ConsumerOwns, TableGrows
<1>4. RefusalFits(j)'
  <2>1. Typed(submission[j]) => Token(j) \in Tokens
    BY TokenType
  <2>2. reason[j] = "CHALLENGE_CONSUMED" =>
          /\ broker_challenges'[Token(j)] # None
          /\ broker_challenges'[Token(j)].consumed_at # None
    BY <1>0, <2>1, NoneAssumption DEF CallInv, RefusalFits, TableGrows, Reasons
  <2> QED BY <1>0, <2>2 DEF CallInv, RefusalFits
<1>5. Returned(j)'
  BY <1>0 DEF CallInv, Returned
<1> QED BY <1>1, <1>2, <1>3, <1>4, <1>5 DEF CallInv

(***************************************************************************)
(* The steps of a call keep its own part                                   *)
(***************************************************************************)

\* A call that is not over has no answer, and one that is not refused no reason.
LEMMA Early ==
  ASSUME BInv, NEW k \in Calls, pc[k] \in InTry \cup {"idle"}
  PROVE  decision[k] = None /\ reason[k] = None
BY DEF BInv, CallInv, Returned, RefusalFits, InTry

\* The arrival of a submission
LEMMA ArrivalCallInv ==
  ASSUME BInv, NEW k \in Calls, NEW s \in Submissions, IssueRefused(k, s) \/ IssueAccepted(k, s)
  PROVE  CallInv(k)'
<1>1. /\ pc[k] = "idle" /\ consumedAt'[k] = None /\ credential'[k] = None
      /\ decision'[k] = None /\ submission'[k] = s
      /\ broker_challenges' = broker_challenges
  BY Early DEF IssueRefused, IssueAccepted, Idle, BInv, TypeOK, CallInv, InPhase
<1>2. ConsumerOwns(k)' /\ ~Consumed(k)' /\ Returned(k)'
  BY <1>1 DEF ConsumerOwns, Consumed, Returned
<1>3. CASE IssueRefused(k, s)
  <2>1. PICK row, why : /\ why \in {EntryRefusal(s, row, now), "INTERNAL_ERROR"} \ {None}
                        /\ Deny(k, why)
    BY <1>3 DEF IssueRefused
  <2>2. why \in (Reasons \ AllowReasons) \ {"CHALLENGE_CONSUMED"}
    BY <2>1, VerdictBlames DEF Reasons, AllowReasons
  <2>3. why \in {"CHALLENGE_INVALID", "CHALLENGE_STALE", "INTERNAL_ERROR"} \/ ~Typed(s)
    BY <2>1, VerdictBlames DEF Typed
  <2>4. pc'[k] = "deny" /\ reason'[k] = why
    BY <2>1 DEF Deny, Goto, BInv, TypeOK
  <2>5. InPhase(k)' /\ StagedIsCurrent(k)'
    BY <1>1, <2>4 DEF InPhase, StagedIsCurrent, InTry
  <2>6. RefusalFits(k)'
    BY <1>1, <1>2, <2>2, <2>3, <2>4 DEF RefusalFits
  <2> QED BY <1>2, <2>5, <2>6 DEF CallInv
<1>4. CASE IssueAccepted(k, s)
  <2>1. pc'[k] = "appraise" /\ reason'[k] = None
    BY <1>4, Early, <1>1 DEF IssueAccepted, Goto, BInv, TypeOK
  <2>2. Typed(s)
    BY <1>4, VerdictBlames DEF IssueAccepted, Typed
  <2>3. InPhase(k)' /\ StagedIsCurrent(k)' /\ RefusalFits(k)'
    BY <1>1, <2>1, <2>2 DEF InPhase, StagedIsCurrent, RefusalFits, InTry
  <2> QED BY <1>2, <2>3 DEF CallInv
<1> QED BY <1>3, <1>4

\* The steps up to and inside the transaction
LEMMA ConsumeCallInv ==
  ASSUME BInv, NEW k \in Calls,
         \/ Appraise(k) \/ BeginImmediate(k) \/ BusyTimeout(k)
         \/ ConsumeRefused(k) \/ ConsumeStaged(k)
  PROVE  CallInv(k)'
<1>1. /\ pc[k] \in {"appraise", "begin", "locked"}
      /\ UNCHANGED <<broker_challenges, submission, credential, decision>>
      /\ ~ConsumeStaged(k) => consumedAt' = consumedAt
  BY DEF Appraise, BeginImmediate, BusyTimeout, ConsumeRefused, ConsumeStaged, locals
<1>2. /\ consumedAt[k] = None /\ credential[k] = None /\ decision[k] = None /\ reason[k] = None
      /\ Typed(submission[k]) /\ (pc[k] # "appraise" => Passed(submission[k]))
      /\ submission[k] \in Submissions /\ Token(k)' = Token(k)
  BY <1>1, Early DEF BInv, CallInv, InPhase, InTry, Consumed, Token
<1>3. Returned(k)' /\ credential'[k] = None
  BY <1>1, <1>2 DEF Returned
<1>4. ASSUME NEW why \in Reasons \ AllowReasons, Deny(k, why), ~ConsumeStaged(k),
             \/ why \in {"CHALLENGE_INVALID", "CHALLENGE_STALE", "CHALLENGE_CONSUMED", "INTERNAL_ERROR"}
             \/ \E t \in 0 .. MaxTime : AppraisalRefusals(submission[k], t) # {},
             why = "CHALLENGE_CONSUMED" =>
               /\ broker_challenges[Token(k)] # None
               /\ broker_challenges[Token(k)].consumed_at # None
      PROVE  CallInv(k)'
  <2>1. pc'[k] = "deny" /\ reason'[k] = why /\ consumedAt'[k] = None
    BY <1>1, <1>2, <1>4 DEF Deny, Goto, BInv, TypeOK
  <2>2. InPhase(k)' /\ StagedIsCurrent(k)' /\ ConsumerOwns(k)' /\ ~Consumed(k)'
    BY <1>1, <1>2, <1>3, <2>1 DEF InPhase, StagedIsCurrent, ConsumerOwns, Consumed, InTry
  <2>3. RefusalFits(k)'
    BY <1>1, <1>2, <1>4, <2>1, <2>2 DEF RefusalFits
  <2> QED BY <1>3, <2>2, <2>3 DEF CallInv
<1>5. ASSUME NEW step \in {"begin", "locked"}, Goto(k, step), reason' = reason, ~ConsumeStaged(k),
             Passed(submission[k])
      PROVE  CallInv(k)'
  <2>1. pc'[k] = step /\ reason'[k] = None /\ consumedAt'[k] = None
    BY <1>1, <1>2, <1>5 DEF Goto, BInv, TypeOK
  <2>2. InPhase(k)' /\ StagedIsCurrent(k)' /\ ConsumerOwns(k)' /\ RefusalFits(k)'
    BY <1>1, <1>2, <1>3, <1>5, <2>1
       DEF InPhase, StagedIsCurrent, ConsumerOwns, Consumed, RefusalFits, InTry
  <2> QED BY <1>3, <2>2 DEF CallInv
<1>6. CASE Appraise(k)
  <2>1. PICK t \in 0 .. MaxTime :
          \/ \E why \in AppraisalRefusals(submission[k], t) : Deny(k, why)
          \/ AppraisalRefusals(submission[k], t) = {} /\ Goto(k, "begin") /\ UNCHANGED reason
    BY <1>6 DEF Appraise
  <2>2. ~ConsumeStaged(k)
    BY <1>6 DEF Appraise, ConsumeStaged
  <2>3. CASE \E why \in AppraisalRefusals(submission[k], t) : Deny(k, why)
    <3>1. PICK why \in AppraisalRefusals(submission[k], t) : Deny(k, why)
      BY <2>3
    <3>2. why \in (Reasons \ AllowReasons) \ {"CHALLENGE_CONSUMED"}
      BY <3>1, VerdictBlames
    <3> QED BY <1>4, <2>2, <3>1, <3>2
  <2>4. CASE AppraisalRefusals(submission[k], t) = {} /\ Goto(k, "begin") /\ UNCHANGED reason
    BY <1>5, <2>2, <2>4 DEF Passed
  <2> QED BY <2>1, <2>3, <2>4
<1>7. CASE BeginImmediate(k)
  <2>1. Goto(k, "locked") /\ reason' = reason /\ ~ConsumeStaged(k) /\ Passed(submission[k])
    BY <1>2, <1>7 DEF BeginImmediate, ConsumeStaged, locals
  <2> QED BY <1>5, <2>1
<1>8. CASE BusyTimeout(k)
  <2>1. Deny(k, "INTERNAL_ERROR") /\ ~ConsumeStaged(k) /\ "INTERNAL_ERROR" \in Reasons \ AllowReasons
    BY <1>8 DEF BusyTimeout, ConsumeStaged, Reasons, AllowReasons
  <2> QED BY <1>4, <2>1
<1>9. CASE ConsumeRefused(k)
  <2> DEFINE why == LockedRefusal(broker_challenges[Token(k)], now)
  <2>1. why # None /\ Deny(k, why) /\ ~ConsumeStaged(k)
    BY <1>9 DEF ConsumeRefused, ConsumeStaged
  <2>2. /\ why \in {"CHALLENGE_INVALID", "CHALLENGE_STALE", "CHALLENGE_CONSUMED"}
        /\ why = "CHALLENGE_CONSUMED" =>
             /\ broker_challenges[Token(k)] # None
             /\ broker_challenges[Token(k)].consumed_at # None
    BY <2>1, VerdictBlames
  <2>3. why \in Reasons \ AllowReasons
    BY <2>2 DEF Reasons, AllowReasons
  <2> HIDE DEF why
  <2> QED BY <1>4, <2>1, <2>2, <2>3
<1>10. CASE ConsumeStaged(k)
  <2>1. /\ pc'[k] = "commit" /\ reason'[k] = None /\ consumedAt'[k] = now
        /\ now \in Nat /\ now # None /\ Passed(submission[k])
    BY <1>2, <1>10, NoneAssumption DEF ConsumeStaged, Goto, BInv, TypeOK
  <2>2. InPhase(k)' /\ ConsumerOwns(k)' /\ RefusalFits(k)'
    BY <1>1, <1>2, <1>3, <2>1 DEF InPhase, ConsumerOwns, Consumed, RefusalFits, InTry
  <2>3. StagedIsCurrent(k)'
    BY <1>1, <1>2, <1>10, <2>1, StagedConsume, NoneAssumption DEF StagedIsCurrent
  <2> QED BY <1>3, <2>2, <2>3 DEF CallInv
<1> QED BY <1>6, <1>7, <1>8, <1>9, <1>10

\* The commit, the mint and the answers
LEMMA IssueCallInv ==
  ASSUME BInv, NEW k \in Calls,
         \/ Commit(k) \/ Mint(k) \/ Grant(k) \/ Refuse(k) \/ SignerFails(k) \/ DependencyFails(k)
  PROVE  CallInv(k)'
<1>0. /\ CallInv(k) /\ submission' = submission /\ Token(k)' = Token(k) /\ Holder(k)' = Holder(k)
  BY DEF BInv, Commit, Mint, Grant, Refuse, SignerFails, DependencyFails, locals, Token, Holder
<1>1. CASE Commit(k)
  <2>1. /\ pc[k] = "commit" /\ pc'[k] = "mint"
        /\ UNCHANGED <<consumedAt, credential, reason, decision>>
    BY <1>1 DEF Commit, Goto, locals, BInv, TypeOK
  <2>2. /\ consumedAt[k] # None /\ credential[k] = None /\ reason[k] = None /\ decision[k] = None
        /\ Typed(submission[k]) /\ Passed(submission[k]) /\ submission[k] \in Submissions
    BY <1>0, <2>1, Early DEF CallInv, InPhase, Consumed, InTry
  <2>3. InPhase(k)' /\ StagedIsCurrent(k)' /\ RefusalFits(k)' /\ Returned(k)'
    BY <1>0, <2>1, <2>2 DEF InPhase, StagedIsCurrent, RefusalFits, Returned, InTry
  <2>4. ConsumerOwns(k)'
    BY <1>0, <1>1, <2>1, CommitRow DEF ConsumerOwns
  <2> QED BY <2>3, <2>4 DEF CallInv
<1>2. CASE Mint(k)
  <2>1. /\ pc[k] = "mint" /\ pc'[k] = "sign"
        /\ UNCHANGED <<broker_challenges, consumedAt, reason, decision>>
        /\ reason[k] = None /\ decision[k] = None
    BY <1>2, Early DEF Mint, Goto, BInv, TypeOK, InTry
  <2>2. PICK id \in CredentialIds : credential'[k] =
          [credential_id |-> id, subject |-> Holder(k),
           not_before |-> now, not_after |-> now + CredentialTTL]
    BY <1>2 DEF Mint, BInv, TypeOK
  <2>3. credential'[k] # None /\ credential'[k].subject = Holder(k)
    <3>1. credential'[k] \in Credential
      BY <1>0, <2>1, <2>2, PassedHolder, ConstantsAssumption
         DEF Credential, BInv, TypeOK, CallInv, InPhase, InTry, Holder
    <3> QED BY <2>2, <3>1, NoneAssumption
  <2>4. Consumed(k)' /\ Consumed(k)
    BY <1>0, <2>1 DEF CallInv, InPhase, Consumed
  <2>5. InPhase(k)'
    BY <1>0, <2>1, <2>3, <2>4 DEF CallInv, InPhase, Consumed, InTry
  <2>6. StagedIsCurrent(k)' /\ ConsumerOwns(k)' /\ RefusalFits(k)' /\ Returned(k)'
    BY <1>0, <2>1, <2>4 DEF CallInv, StagedIsCurrent, ConsumerOwns, RefusalFits, Returned
  <2> QED BY <2>5, <2>6 DEF CallInv
<1>3. CASE Grant(k) \/ Refuse(k) \/ SignerFails(k)
  <2>1. /\ pc[k] \in {"sign", "deny"} /\ pc'[k] = "done"
        /\ UNCHANGED <<broker_challenges, consumedAt, credential, reason>>
        /\ Consumed(k)' <=> Consumed(k)
    BY <1>3 DEF Grant, Refuse, SignerFails, Goto, locals, BInv, TypeOK, Consumed
  <2>2. InPhase(k)' /\ StagedIsCurrent(k)' /\ ConsumerOwns(k)' /\ RefusalFits(k)'
    BY <1>0, <2>1 DEF CallInv, InPhase, StagedIsCurrent, ConsumerOwns, RefusalFits, InTry
  <2>3. \/ Grant(k) /\ decision'[k] = [credential |-> credential[k], kind |-> "decision", receipt |-> Receipt(k)]
        \/ pc[k] = "deny" /\ decision'[k] = [credential |-> None, kind |-> "decision", receipt |-> Receipt(k)]
        \/ decision'[k] = [credential |-> None, kind |-> "exception"]
    BY <1>3 DEF Grant, Refuse, SignerFails, BInv
  <2>4. /\ pc[k] = "sign" => /\ Receipt(k).reason = "ALLOW"
                             /\ Receipt(k).credential_id = credential[k].credential_id
        /\ pc[k] = "deny" => Receipt(k).reason = reason[k] /\ reason[k] # None
        /\ submission[k].request # None => Receipt(k).challenge_token_hash = Token(k)
    BY <1>0, NoneAssumption DEF Receipt, Token, CallInv, RefusalFits
  <2>5. pc[k] = "sign" => submission[k].request # None
    BY <1>0 DEF CallInv, InPhase, InTry, Typed
  <2>6. "ALLOW" # None
    BY NoneAssumption DEF Reasons
  <2>7. Returned(k)'
    <3>1. ASSUME Grant(k),
                 decision'[k] = [credential |-> credential[k], kind |-> "decision", receipt |-> Receipt(k)]
          PROVE  Returned(k)'
      <4>1. /\ decision'[k].credential = credential[k] /\ decision'[k].receipt = Receipt(k)
            /\ pc[k] = "sign"
        BY <3>1 DEF Grant
      <4> QED BY <1>0, <2>1, <2>4, <2>5, <2>6, <4>1 DEF Returned
    <3>2. ASSUME pc[k] = "deny",
                 decision'[k] = [credential |-> None, kind |-> "decision", receipt |-> Receipt(k)]
          PROVE  Returned(k)'
      <4>1. decision'[k].credential = None /\ decision'[k].receipt = Receipt(k)
        BY <3>2
      <4> QED BY <2>1, <2>4, <3>2, <4>1 DEF Returned
    <3>3. ASSUME decision'[k] = [credential |-> None, kind |-> "exception"]
          PROVE  Returned(k)'
      BY <2>1, <3>3 DEF Returned
    <3> QED BY <2>3, <3>1, <3>2, <3>3
  <2> QED BY <2>2, <2>7 DEF CallInv
<1>4. CASE DependencyFails(k)
  <2>1. /\ pc[k] \in InTry /\ pc'[k] = "deny" /\ reason'[k] = "INTERNAL_ERROR"
        /\ UNCHANGED <<broker_challenges, credential, decision>>
        /\ pc[k] = "commit" => consumedAt'[k] = None
        /\ pc[k] # "commit" => consumedAt'[k] = consumedAt[k]
        /\ decision[k] = None /\ "INTERNAL_ERROR" \in Reasons \ AllowReasons
    BY <1>4, Early DEF DependencyFails, Deny, Goto, BInv, TypeOK, Reasons, AllowReasons
  <2>2. /\ Consumed(k)' <=> Consumed(k)
        /\ Consumed(k)' => consumedAt'[k] = consumedAt[k]
    BY <2>1 DEF Consumed
  <2>3. InPhase(k)'
    BY <1>0, <2>1, <2>2 DEF CallInv, InPhase, InTry, Consumed
  <2>4. StagedIsCurrent(k)' /\ ConsumerOwns(k)' /\ RefusalFits(k)' /\ Returned(k)'
    BY <1>0, <2>1, <2>2 DEF CallInv, StagedIsCurrent, ConsumerOwns, RefusalFits, Returned
  <2> QED BY <2>3, <2>4 DEF CallInv
<1> QED BY <1>1, <1>2, <1>3, <1>4

(***************************************************************************)
(* What holds between calls                                                *)
(***************************************************************************)

\* Only a commit makes a consumption, and no step takes one back.
LEMMA ConsumedKept ==
  ASSUME BInv, NEW k \in Calls, ActionOf(k)
  PROVE  /\ Consumed(k) => Consumed(k)' /\ Token(k)' = Token(k)
         /\ Consumed(k)' /\ ~Consumed(k) => Commit(k)
<1>0. /\ pc[k] \in {"idle", "appraise", "begin", "locked"} => consumedAt[k] = None
      /\ pc[k] = "commit" => ~Consumed(k)
  BY DEF BInv, CallInv, InPhase, Consumed
<1>1. CASE \E s \in Submissions : IssueRefused(k, s) \/ IssueAccepted(k, s)
  BY <1>0, <1>1 DEF IssueRefused, IssueAccepted, Idle, Consumed
<1>2. CASE Appraise(k) \/ BeginImmediate(k) \/ BusyTimeout(k) \/ ConsumeRefused(k)
  BY <1>0, <1>2 DEF Appraise, BeginImmediate, BusyTimeout, ConsumeRefused, locals, Consumed
<1>3. CASE ConsumeStaged(k)
  BY <1>0, <1>3 DEF ConsumeStaged, Goto, Consumed, BInv, TypeOK
<1>4. CASE Commit(k)
  BY <1>0, <1>4 DEF Commit
<1>5. CASE Mint(k) \/ Grant(k) \/ Refuse(k) \/ SignerFails(k)
  BY <1>5 DEF Mint, Grant, Refuse, SignerFails, Goto, locals, Consumed, Token, BInv, TypeOK
<1>6. CASE DependencyFails(k)
  BY <1>0, <1>6 DEF DependencyFails, Deny, Goto, Consumed, Token, BInv, TypeOK
<1> QED BY <1>1, <1>2, <1>3, <1>4, <1>5, <1>6 DEF ActionOf, CallStep

\* A step of one call keeps one consumer per challenge, and each consumed
\* challenge its consumer.
LEMMA ActionConsumers ==
  ASSUME BInv, NEW k \in Calls, ActionOf(k)
  PROVE  OneConsumer' /\ ConsumersExist'
<1>1. \A j \in Calls \ {k} : (Consumed(j)' <=> Consumed(j)) /\ Token(j)' = Token(j)
  BY ActionTypes DEF CallKept, Consumed, Token
<1>2. CASE Commit(k)
  <2>1. \A j \in Calls : Consumed(j) => Token(j) # Token(k)
    <3>1. broker_challenges[Token(k)].consumed_at = None
      BY <1>2, CommitRow
    <3>2. \A j \in Calls : Consumed(j) => broker_challenges[Token(j)].consumed_at # None
      BY DEF BInv, CallInv, ConsumerOwns, Consumed
    <3> QED BY <3>1, <3>2
  <2>2. /\ Token(k)' = Token(k) /\ Consumed(k)'
        /\ \A t \in Tokens \ {Token(k)} : broker_challenges'[t] = broker_challenges[t]
    <3>1. consumedAt[k] # None
      BY <1>2 DEF Commit, BInv, CallInv, InPhase
    <3> QED BY <1>2, <3>1, CommitRow DEF Commit, Goto, locals, Token, Consumed, BInv, TypeOK
  <2>3. ~Consumed(k)
    BY <1>2 DEF Commit, Consumed
  <2>4. OneConsumer'
    BY <1>1, <2>1, <2>2 DEF BInv, OneConsumer
  <2>5. ConsumersExist'
    <3> SUFFICES ASSUME NEW t \in Tokens, broker_challenges'[t] # None,
                        broker_challenges'[t].consumed_at # None
                 PROVE  \E j \in Calls : Consumed(j)' /\ Token(j)' = t
      BY DEF ConsumersExist
    <3>1. CASE t = Token(k)
      BY <2>2, <3>1
    <3>2. CASE t # Token(k)
      <4>1. PICK j \in Calls : Consumed(j) /\ Token(j) = t
        BY <2>2, <3>2 DEF BInv, ConsumersExist
      <4> QED BY <1>1, <2>3, <4>1
    <3> QED BY <3>1, <3>2
  <2> QED BY <2>4, <2>5
<1>3. CASE ~Commit(k)
  <2>1. /\ broker_challenges' = broker_challenges
        /\ Consumed(k)' <=> Consumed(k)
        /\ Consumed(k) => Token(k)' = Token(k)
    BY <1>3, TableKept, ConsumedKept
  <2> QED BY <1>1, <2>1 DEF BInv, OneConsumer, ConsumersExist
<1> QED BY <1>2, <1>3

\* A step of one call keeps the identifiers apart: a new one was never drawn.
LEMMA ActionIds ==
  ASSUME BInv, NEW k \in Calls, ActionOf(k)
  PROVE  DistinctIds'
<1>1. CASE Mint(k)
  <2>1. PICK id \in CredentialIds \ DrawnIds : credential' = [credential EXCEPT ![k] =
          [credential_id |-> id, subject |-> Holder(k),
           not_before |-> now, not_after |-> now + CredentialTTL]]
    BY <1>1 DEF Mint
  <2>2. /\ credential'[k].credential_id = id
        /\ \A j \in Calls \ {k} : credential'[j] = credential[j]
        /\ \A j \in Calls : credential[j] # None => credential[j].credential_id # id
    BY <2>1 DEF BInv, TypeOK, DrawnIds
  <2> QED BY <2>2 DEF BInv, DistinctIds
<1>2. CASE ~Mint(k)
  <2>1. credential' = credential
    BY <1>2 DEF ActionOf, CallStep, IssueRefused, IssueAccepted, Appraise, BeginImmediate,
         BusyTimeout, ConsumeRefused, ConsumeStaged, Commit, Grant, Refuse, DependencyFails,
         SignerFails, locals
  <2> QED BY <2>1 DEF BInv, DistinctIds
<1> QED BY <1>1, <1>2

(***************************************************************************)
(* The invariant is inductive                                              *)
(***************************************************************************)

\* A crash only rolls back and forgets.
LEMMA CrashBInv ==
  ASSUME BInv, Crash
  PROVE  BInv'
<1>1. /\ UNCHANGED <<broker_challenges, submission, credential, reason, decision>>
      /\ writer' = None /\ boot' \in Nat /\ now' = now
      /\ \A j \in Calls : /\ pc'[j] \in {pc[j], "lost"} /\ pc'[j] \in {"idle", "done", "lost"}
                          /\ pc[j] \in {"idle", "done"} => pc'[j] = pc[j]
                          /\ pc[j] # "idle" => pc'[j] # "idle"
                          /\ pc[j] = "commit" => consumedAt'[j] = None
                          /\ pc[j] # "commit" => consumedAt'[j] = consumedAt[j]
  BY DEF Crash, Idle, Over, BInv, TypeOK
<1>2. TypeOK' /\ decision' = [j \in Calls |-> decision'[j]]
  BY DEF Crash, BInv, TypeOK, Steps
<1>3. \A j \in Calls : /\ Consumed(j)' <=> Consumed(j)
                       /\ Consumed(j)' => consumedAt'[j] = consumedAt[j]
                       /\ Token(j)' = Token(j) /\ Holder(j)' = Holder(j)
  BY <1>1 DEF Consumed, Token, Holder
<1>4. LockHeldInTransaction'
  BY <1>1, NoneAssumption DEF LockHeldInTransaction
<1>5. OneConsumer' /\ ConsumersExist' /\ DistinctIds'
  BY <1>1, <1>3 DEF BInv, OneConsumer, ConsumersExist, DistinctIds
<1>6. ASSUME NEW j \in Calls PROVE CallInv(j)'
  <2>0. CallInv(j)
    BY DEF BInv
  <2>1. InPhase(j)'
    BY <1>1, <1>3, <2>0 DEF CallInv, InPhase, InTry
  <2>2. StagedIsCurrent(j)' /\ ConsumerOwns(j)'
    BY <1>1, <1>3, <2>0 DEF CallInv, StagedIsCurrent, ConsumerOwns
  <2>3. RefusalFits(j)' /\ Returned(j)'
    BY <1>1, <1>3, <2>0 DEF CallInv, RefusalFits, Returned
  <2> QED BY <2>1, <2>2, <2>3 DEF CallInv
<1> QED BY <1>2, <1>4, <1>5, <1>6 DEF BInv

\* The clock, a new challenge and stuttering touch no call.
LEMMA EnvironmentBInv ==
  ASSUME BInv, ClockStep \/ (\E t \in Tokens : NewChallenge(t)) \/ UNCHANGED vars
  PROVE  BInv'
<1>1. UNCHANGED <<writer, boot, pc, submission, consumedAt, credential, reason, decision>>
  BY DEF ClockStep, NewChallenge, vars, locals
<1>2. /\ TypeOK' /\ TableGrows
      /\ \A j \in Calls : pc[j] = "commit" => broker_challenges' = broker_challenges
      /\ \A t \in Tokens : broker_challenges'[t] # None /\ broker_challenges'[t].consumed_at # None =>
           broker_challenges[t] # None /\ broker_challenges[t].consumed_at # None
  <2>1. CASE ClockStep \/ UNCHANGED vars
    BY <2>1, ConstantsAssumption DEF ClockStep, vars, locals, BInv, TypeOK, TableGrows
  <2>2. ASSUME NEW t \in Tokens, NewChallenge(t)
        PROVE  /\ TypeOK' /\ TableGrows
               /\ \A j \in Calls : pc[j] # "commit"
               /\ \A u \in Tokens : broker_challenges'[u] # None /\ broker_challenges'[u].consumed_at # None =>
                    broker_challenges[u] # None /\ broker_challenges[u].consumed_at # None
    <3>1. /\ writer = None /\ broker_challenges[t] = None /\ now' = now
          /\ broker_challenges' \in [Tokens -> ChallengeRow \cup {None}]
          /\ broker_challenges'[t].consumed_at = None
          /\ \A u \in Tokens \ {t} : broker_challenges'[u] = broker_challenges[u]
      BY <2>2, ConstantsAssumption DEF NewChallenge, BInv, TypeOK, ChallengeRow
    <3>2. TypeOK'
      BY <1>1, <3>1 DEF BInv, TypeOK
    <3>3. \A j \in Calls : pc[j] # "commit"
      BY <3>1, NoneAssumption DEF BInv, LockHeldInTransaction
    <3> QED BY <3>1, <3>2, <3>3 DEF TableGrows
  <2> QED BY <2>1, <2>2
<1>3. \A j \in Calls : CallKept(j) /\ (Consumed(j)' <=> Consumed(j)) /\ Token(j)' = Token(j)
  BY <1>1 DEF CallKept, Consumed, Token
<1>4. \A j \in Calls : CallInv(j)'
  BY <1>2, <1>3, KeptCallInv
<1>5. LockHeldInTransaction' /\ OneConsumer' /\ ConsumersExist' /\ DistinctIds'
  BY <1>1, <1>2, <1>3 DEF BInv, LockHeldInTransaction, OneConsumer, ConsumersExist, DistinctIds
<1> QED BY <1>1, <1>2, <1>4, <1>5 DEF BInv

\* Every step keeps the invariant.
LEMMA NextBInv == BInv /\ [Next]_vars => BInv'
<1> SUFFICES ASSUME BInv, [Next]_vars PROVE BInv'
  OBVIOUS
<1>1. ASSUME NEW k \in Calls, ActionOf(k)
      PROVE  BInv'
  <2>1. /\ TypeOK' /\ decision' = [j \in Calls |-> decision'[j]]
        /\ \A j \in Calls \ {k} : CallKept(j)
    BY <1>1, ActionTypes
  <2>2. LockHeldInTransaction' /\ OneConsumer' /\ ConsumersExist' /\ DistinctIds'
    BY <1>1, ActionLock, ActionConsumers, ActionIds
  <2>3. CallInv(k)'
    BY <1>1, ArrivalCallInv, ConsumeCallInv, IssueCallInv DEF ActionOf, CallStep
  <2>4. \A j \in Calls \ {k} : pc[j] = "commit" => broker_challenges' = broker_challenges
    <3>1. ~Commit(k) => broker_challenges' = broker_challenges
      BY <1>1, TableKept
    <3>2. Commit(k) => \A j \in Calls \ {k} : pc[j] # "commit"
      BY DEF Commit, BInv, LockHeldInTransaction
    <3> QED BY <3>1, <3>2
  <2>5. \A j \in Calls \ {k} : CallInv(j)'
    BY <1>1, <2>1, <2>4, ActionGrowsTable, KeptCallInv
  <2> QED BY <2>1, <2>2, <2>3, <2>5 DEF BInv
<1>2. CASE ClockStep \/ (\E t \in Tokens : NewChallenge(t)) \/ UNCHANGED vars
  BY <1>2, EnvironmentBInv
<1>3. CASE Crash
  BY <1>3, CrashBInv
<1> QED BY <1>1, <1>2, <1>3 DEF Next, ActionOf

\* The invariant holds of every behaviour.
LEMMA Invariant == Spec => []BInv
BY InitBInv, NextBInv, PTL DEF Spec

(***************************************************************************)
(* The theorems                                                            *)
(***************************************************************************)

\* The challenge table and the locals of issue are always well typed.
THEOREM BrokerTypeCorrect == Spec => []TypeOK
<1>1. BInv => TypeOK
  BY DEF BInv
<1> QED BY Invariant, <1>1, PTL

\* However many calls race for a challenge, and however often the process
\* restarts, it yields one credential, under an identifier of its own.
THEOREM IssuesOncePerChallenge == Spec => []OneCredentialPerChallenge
<1>1. BInv => OneCredentialPerChallenge
  BY DEF BInv, CallInv, InPhase, OneConsumer, DistinctIds, OneCredentialPerChallenge
<1> QED BY Invariant, <1>1, PTL

\* Every payload that issue builds passes the receipt validator.
THEOREM BrokerReceiptsValidate == Spec => []ReceiptsValidate
<1>1. BInv => ReceiptsValidate
  <2> SUFFICES ASSUME BInv, NEW k \in Calls, pc[k] \in {"sign", "deny"}
               PROVE  ConsistentDecisionState(Receipt(k))
    BY DEF ReceiptsValidate
  <2> DEFINE p == Receipt(k)
  <2>1. /\ p.invocation_id = None /\ p.handler_count_snapshot = 0 /\ p.handler_invoked = FALSE
        /\ p.business_result = "not_applicable" /\ p.deciding_service = "broker"
        /\ p.reason = IF pc[k] = "sign" THEN "ALLOW" ELSE reason[k]
        /\ p.decision = IF pc[k] = "sign" THEN "allow" ELSE "deny"
        /\ p.credential_id = IF pc[k] = "sign" THEN credential[k].credential_id ELSE None
        /\ submission[k].request # None =>
             /\ p.manifest_digest = submission[k].request.body.manifest_digest
             /\ p.challenge_token_hash = submission[k].request.body.challenge
    BY DEF Receipt
  <2> HIDE DEF p
  <2>2. CASE pc[k] = "sign"
    <3>1. /\ Typed(submission[k]) /\ credential[k] \in Credential
      BY <2>2 DEF BInv, TypeOK, CallInv, InPhase, InTry
    <3>2. /\ p.credential_id # None /\ p.manifest_digest # None /\ p.challenge_token_hash # None
      BY <2>1, <2>2, <3>1, NoneAssumption, ConstantsAssumption, SubmissionAssumption DEF Typed, Credential
    <3>3. p.reason = "ALLOW" /\ p.decision = "allow" /\ "ALLOW" \in Reasons
      BY <2>1, <2>2 DEF Reasons
    <3> QED BY <2>1, <3>2, <3>3 DEF ConsistentDecisionState, BrokerConsistent, p
  <2>3. CASE pc[k] = "deny"
    <3>1. p.reason \in Reasons \ AllowReasons /\ p.decision = "deny" /\ p.credential_id = None
      BY <2>1, <2>3 DEF BInv, CallInv, RefusalFits
    <3> QED BY <2>1, <3>1 DEF ConsistentDecisionState, BrokerConsistent, AllowReasons, p
  <2> QED BY <2>2, <2>3
<1> QED BY Invariant, <1>1, PTL

(***************************************************************************)
(* What an appraisal that passes has established                           *)
(***************************************************************************)

\* The field-by-field checks of manifest, identity and TPM evidence together
\* say what Approved says of the submission as a whole.
LEMMA PassedIsApproved ==
  ASSUME NEW s, Typed(s), Passed(s)
  PROVE  Approved(s)
<1>0. None \notin Reasons
  BY NoneAssumption
<1>1. PICK t \in 0 .. MaxTime : AppraisalRefusals(s, t) = {}
  BY DEF Passed
<1>2. /\ ManifestRefusal(s.manifest) = None /\ IdentityRefusal(s.request) = None
      /\ TpmRefusals(s.evidence, s.request, t) = {}
  BY <1>1 DEF AppraisalRefusals
<1>3. s.manifest = [issuer |-> Policy.manifest_issuer, digest |-> Policy.manifest_digest,
                    verified |-> TRUE]
  <2>1. /\ s.manifest # None /\ s.manifest.issuer = Policy.manifest_issuer
        /\ s.manifest.digest = Policy.manifest_digest /\ s.manifest.verified
    BY <1>0, <1>2 DEF ManifestRefusal, Reasons
  <2>2. s.manifest.verified = TRUE
    BY <2>1, SubmissionAssumption DEF Typed
  <2> QED BY <2>1, <2>2, SubmissionAssumption DEF Typed
<1>4. /\ s.request.body.version = Policy.version
      /\ s.request.body.identity_key = Policy.identity_key
      /\ s.request.body.manifest_digest = Policy.manifest_digest
      /\ s.request.body.broker_id = Policy.broker_id
      /\ s.request.body.requested_scope = Policy.scope
      /\ s.request.body.resource_issuer = Policy.resource_issuer
      /\ s.request.body.holder_key \in Holders
      /\ s.request.identity_signature = [key |-> Policy.identity_key, over |-> s.request.body]
  BY <1>0, <1>2 DEF IdentityRefusal, Reasons
<1>5. s.request.body =
        [version |-> Policy.version, broker_id |-> Policy.broker_id,
         challenge |-> s.request.body.challenge,
         manifest_digest |-> Policy.manifest_digest, identity_key |-> Policy.identity_key,
         holder_key |-> s.request.body.holder_key, resource_issuer |-> Policy.resource_issuer,
         requested_scope |-> Policy.scope]
  <2> DEFINE b == s.request.body
  <2>1. b = [version |-> b.version, broker_id |-> b.broker_id, challenge |-> b.challenge,
             manifest_digest |-> b.manifest_digest, identity_key |-> b.identity_key,
             holder_key |-> b.holder_key, resource_issuer |-> b.resource_issuer,
             requested_scope |-> b.requested_scope]
    BY SubmissionAssumption DEF Typed
  <2> QED BY <1>4, <2>1, Zenon
<1>6. s.request.body.challenge \in Tokens
  BY ConstantsAssumption DEF Typed
<1>7. /\ s.evidence.chain_verified
      /\ s.evidence.quote = [qualifying |-> s.request, pcr_digest |-> Policy.pcr_digest]
  BY <1>2 DEF TpmRefusals
<1> QED BY <1>3, <1>4, <1>5, <1>6, <1>7 DEF Approved, Typed

\* The CAs below the one at n, leaf first, are n - 2.
LEMMA SubordinateCAs ==
  ASSUME NEW n \in Int, n >= 2
  PROVE  Cardinality(2 .. n - 1) = n - 2
<1>1. Cardinality(2 .. n - 1) = IF 2 > n - 1 THEN 0 ELSE (n - 1) - 2 + 1
  <2> DEFINE b == n - 1
  <2>1. b \in Int
    OBVIOUS
  <2> HIDE DEF b
  <2>2. Cardinality(2 .. b) = IF 2 > b THEN 0 ELSE b - 2 + 1
    BY <2>1, FS_Interval
  <2> QED BY <2>2 DEF b
<1> QED BY <1>1

\* The certificate policy, which looks at one certificate at a time, accepts
\* only sound paths that are current at its reading of the clock ...
LEMMA PolicyMeansSoundPath ==
  ASSUME NEW chain \in Seq(Certificate), NEW roots, NEW t \in Nat,
         AkCertificatePolicy(chain, roots, t)
  PROVE  SoundPath(chain) /\ ValidAt(chain, t)
<1> DEFINE CAs == {n \in DOMAIN chain : chain[n].basic = "ca"}
<1>1. /\ DOMAIN chain = 1 .. Len(chain) /\ Len(chain) \in Nat /\ Len(chain) >= 2
      /\ \A n \in 1 .. Len(chain) : chain[n] \in Certificate
  BY DEF AkCertificatePolicy
<1>2. CAs = 2 .. Len(chain) /\ chain[1].basic = "end"
  BY <1>1 DEF AkCertificatePolicy, IsLeaf, IsIssuer
<1>3. /\ CAs # {} /\ DOMAIN chain \ CAs = {1}
      /\ {n \in DOMAIN chain : "key_cert_sign" \in chain[n].key_usage} = CAs
      /\ "digital_signature" \in chain[1].key_usage
  <2>1. 2 \in CAs
    BY <1>1, <1>2
  <2>2. DOMAIN chain \ CAs = {1}
    BY <1>1, <1>2
  <2>3. \A n \in 1 .. Len(chain) : "key_cert_sign" \in chain[n].key_usage <=> n \in 2 .. Len(chain)
    BY <1>1 DEF AkCertificatePolicy, IsLeaf, IsIssuer
  <2> QED BY <1>1, <1>2, <2>1, <2>2, <2>3 DEF AkCertificatePolicy, IsLeaf
<1>4. ASSUME NEW n \in CAs, NEW limit \in chain[n].path_length
      PROVE  Cardinality({m \in CAs : m < n}) <= limit
  <2>1. n \in 2 .. Len(chain) /\ n \in Int /\ limit \in Nat
    BY <1>1, <1>2 DEF Certificate
  <2>2. {m \in CAs : m < n} = 2 .. n - 1
    BY <1>1, <1>2, <2>1
  <2>3. Cardinality(2 .. n - 1) = n - 2
    BY <2>1, SubordinateCAs
  <2>4. n - 2 <= limit
    BY <1>4, <2>1 DEF AkCertificatePolicy, PathLengthHolds
  <2> QED BY <2>2, <2>3, <2>4
<1>5. SoundPath(chain)
  BY <1>2, <1>3, <1>4 DEF SoundPath
<1>6. ASSUME NEW n \in 1 .. Len(chain) - 1
      PROVE  t \in chain[n].not_before .. chain[n].not_after - 1
  <2>1. Current(chain[n], t) /\ chain[n] \in Certificate
    BY <1>1 DEF AkCertificatePolicy
  <2> QED BY <2>1 DEF Current, Certificate
<1> QED BY <1>5, <1>6 DEF ValidAt

\* ... and every such path, under a policy whose roots are issuers.
LEMMA SoundPathMeetsPolicy ==
  ASSUME NEW chain \in Seq(Certificate), NEW roots, NEW t \in Nat,
         Len(roots) >= 1, \A n \in DOMAIN roots : IsIssuer(roots[n]),
         SoundPath(chain), ValidAt(chain, t)
  PROVE  AkCertificatePolicy(chain, roots, t)
<1> DEFINE CAs == {n \in DOMAIN chain : chain[n].basic = "ca"}
<1>1. /\ DOMAIN chain = 1 .. Len(chain) /\ Len(chain) \in Nat
      /\ \A n \in 1 .. Len(chain) : chain[n] \in Certificate
  OBVIOUS
<1>2. /\ CAs # {} /\ DOMAIN chain \ CAs = {1} /\ chain[1].basic = "end"
      /\ {n \in DOMAIN chain : "key_cert_sign" \in chain[n].key_usage} = CAs
      /\ "digital_signature" \in chain[1].key_usage
  BY DEF SoundPath
<1>3. Len(chain) >= 2 /\ CAs = 2 .. Len(chain)
  BY <1>1, <1>2
<1>4. IsLeaf(chain[1])
  BY <1>1, <1>2, <1>3 DEF IsLeaf
<1>5. \A n \in 1 .. Len(chain) - 1 : Current(chain[n], t)
  <2> SUFFICES ASSUME NEW n \in 1 .. Len(chain) - 1 PROVE Current(chain[n], t)
    OBVIOUS
  <2>1. t \in chain[n].not_before .. chain[n].not_after - 1 /\ chain[n] \in Certificate
    BY <1>1 DEF ValidAt
  <2> QED BY <2>1 DEF Current, Certificate
<1>6. ASSUME NEW n \in 2 .. Len(chain)
      PROVE  IsIssuer(chain[n]) /\ PathLengthHolds(chain, n)
  <2>1. IsIssuer(chain[n])
    BY <1>1, <1>2, <1>3 DEF IsIssuer
  <2>2. ASSUME NEW limit \in chain[n].path_length PROVE n - 2 <= limit
    <3>1. n \in CAs /\ n \in Int
      BY <1>1, <1>3
    <3>2. {m \in CAs : m < n} = 2 .. n - 1
      BY <1>1, <1>3
    <3>3. Cardinality(2 .. n - 1) = n - 2
      BY <3>1, SubordinateCAs
    <3>4. Cardinality({m \in CAs : m < n}) <= limit
      BY <2>2, <3>1 DEF SoundPath
    <3> QED BY <3>2, <3>3, <3>4
  <2> QED BY <2>1, <2>2 DEF PathLengthHolds
<1> QED BY <1>1, <1>3, <1>4, <1>5, <1>6 DEF AkCertificatePolicy

\* The indices read out of a bitmap are the ones whose bit it sets.
LEMMA SelectedIffCovered ==
  ASSUME NEW sel \in PcrSelection
  PROVE  /\ SelectedPcrs(sel.select) \subseteq 0 .. 8 * Len(sel.select) - 1
         /\ \A p \in Nat : p \in SelectedPcrs(sel.select) <=> Covers(sel, p)
<1> DEFINE s == sel.select
<1>1. s \in Seq(0 .. 255) /\ DOMAIN s = 1 .. Len(s) /\ Len(s) \in Nat
  BY DEF PcrSelection
<1>2. \A p : p \in SelectedPcrs(s) <=>
          \E n \in 1 .. Len(s), bit \in 0 .. 7 : BitSet(s[n], bit) /\ p = (n - 1) * 8 + bit
  <2> SUFFICES ASSUME NEW p
               PROVE  p \in SelectedPcrs(s) <=>
                        \E n \in 1 .. Len(s), bit \in 0 .. 7 :
                          BitSet(s[n], bit) /\ p = (n - 1) * 8 + bit
    OBVIOUS
  <2> DEFINE Of(n) == {(n - 1) * 8 + bit : bit \in {b \in 0 .. 7 : BitSet(s[n], b)}}
  <2>1. \A n : p \in Of(n) <=> \E bit \in 0 .. 7 : BitSet(s[n], bit) /\ p = (n - 1) * 8 + bit
    BY Zenon
  <2>2. SelectedPcrs(s) = UNION {Of(n) : n \in 1 .. Len(s)}
    BY <1>1 DEF SelectedPcrs
  <2> HIDE DEF Of
  <2>3. p \in SelectedPcrs(s) <=> \E n \in 1 .. Len(s) : p \in Of(n)
    BY <2>2
  <2> QED BY <2>1, <2>3
<1> HIDE DEF s
<1>3. SelectedPcrs(s) \subseteq 0 .. 8 * Len(s) - 1
  BY <1>1, <1>2
<1>4. ASSUME NEW p \in Nat
      PROVE  p \in SelectedPcrs(s) <=>
               p \div 8 < Len(s) /\ BitSet(s[p \div 8 + 1], p % 8)
  <2>1. /\ p \div 8 \in Nat /\ p % 8 \in 0 .. 7 /\ p = 8 * (p \div 8) + (p % 8)
    OBVIOUS
  <2>2. ASSUME NEW n \in 1 .. Len(s), NEW bit \in 0 .. 7, p = (n - 1) * 8 + bit
        PROVE  n = p \div 8 + 1 /\ bit = p % 8
    <3>1. n \in Int /\ bit \in Int /\ 0 <= bit /\ bit < 8 /\ p \in Int
      BY <1>1
    <3> QED BY <2>1, <2>2, <3>1
  <2>3. ASSUME p \div 8 < Len(s), BitSet(s[p \div 8 + 1], p % 8)
        PROVE  p \in SelectedPcrs(s)
    <3> DEFINE m == p \div 8 + 1
               r == p % 8
    <3>1. m \in 1 .. Len(s) /\ r \in 0 .. 7 /\ p = (m - 1) * 8 + r /\ BitSet(s[m], r)
      BY <1>1, <2>1, <2>3
    <3> HIDE DEF m, r
    <3>2. \E n \in 1 .. Len(s), bit \in 0 .. 7 : BitSet(s[n], bit) /\ p = (n - 1) * 8 + bit
      BY <3>1
    <3> QED BY <1>2, <3>2, Zenon
  <2>4. ASSUME p \in SelectedPcrs(s)
        PROVE  p \div 8 < Len(s) /\ BitSet(s[p \div 8 + 1], p % 8)
    <3>1. PICK n \in 1 .. Len(s), bit \in 0 .. 7 : BitSet(s[n], bit) /\ p = (n - 1) * 8 + bit
      BY <1>2, <2>4
    <3>2. n = p \div 8 + 1 /\ bit = p % 8
      BY <2>2, <3>1
    <3>3. p \div 8 < Len(s)
      BY <1>1, <2>1, <3>2
    <3> QED BY <3>1, <3>2, <3>3
  <2> QED BY <2>3, <2>4
<1> QED BY <1>3, <1>4 DEF Covers, BitSet, s

\* Reading the policy's selection out of a quote is covering its registers.
LEMMA ReadSelectionIsCoverage ==
  ASSUME NEW sels \in Seq(PcrSelection), sels # None
  PROVE  ReadSelection(sels) = Policy.selection <=> CoversPolicy(sels)
<1> DEFINE P == Policy.selection
<1>1. /\ P \in Seq(STRING \X SUBSET Nat) /\ DOMAIN P = 1 .. Len(P) /\ Len(P) \in Nat
      /\ DOMAIN sels = 1 .. Len(sels) /\ Len(sels) \in Nat
      /\ \A n \in DOMAIN sels : sels[n] \in PcrSelection
  BY PolicyAssumption
<1> HIDE DEF P
<1>2. \A n \in DOMAIN P : /\ P[n] = <<P[n][1], P[n][2]>> /\ P[n][2] \subseteq Nat
  BY <1>1
<1>3. ReadSelection(sels) = P <=>
        /\ DOMAIN sels = DOMAIN P
        /\ \A n \in DOMAIN sels : P[n] = <<sels[n].hash, SelectedPcrs(sels[n].select)>>
  <2>1. P = [n \in DOMAIN P |-> P[n]]
    BY <1>1
  <2> QED BY <2>1 DEF ReadSelection
<1>4. DOMAIN sels = DOMAIN P <=> Len(sels) = Len(P)
  <2>1. ASSUME 1 .. Len(sels) = 1 .. Len(P) PROVE Len(sels) = Len(P)
    <3> DEFINE a == Len(sels)
               b == Len(P)
    <3>1. a \in Nat /\ b \in Nat /\ 1 .. a = 1 .. b
      BY <1>1, <2>1
    <3> HIDE DEF a, b
    <3>2. (a >= 1 => a \in 1 .. b) /\ (b >= 1 => b \in 1 .. a)
      BY <3>1
    <3>3. a = b
      BY <3>1, <3>2
    <3> QED BY <3>3 DEF a, b
  <2> QED BY <1>1, <2>1
<1>5. ASSUME NEW n \in DOMAIN sels, n \in DOMAIN P
      PROVE  P[n] = <<sels[n].hash, SelectedPcrs(sels[n].select)>> <=>
               /\ sels[n].hash = P[n][1]
               /\ \A p \in 0 .. 8 * Len(sels[n].select) - 1 \cup P[n][2] :
                    Covers(sels[n], p) <=> p \in P[n][2]
  <2> DEFINE D == SelectedPcrs(sels[n].select)
             U == 0 .. 8 * Len(sels[n].select) - 1
             W == P[n][2]
  <2>1. D \subseteq U /\ \A p \in Nat : p \in D <=> Covers(sels[n], p)
    BY <1>1, SelectedIffCovered
  <2>2. U \subseteq Nat /\ W \subseteq Nat
    BY <1>2, <1>5
  <2>3. P[n] = <<P[n][1], W>>
    BY <1>2, <1>5
  <2> HIDE DEF D, U, W
  <2>4. D = W <=> \A p \in U \cup W : Covers(sels[n], p) <=> p \in W
    BY <2>1, <2>2
  <2>5. P[n] = <<sels[n].hash, D>> <=> sels[n].hash = P[n][1] /\ D = W
    BY <2>3
  <2> QED BY <2>4, <2>5 DEF D, U, W
<1>6. CoversPolicy(sels) <=>
        /\ Len(sels) = Len(P)
        /\ \A n \in DOMAIN sels :
             /\ sels[n].hash = P[n][1]
             /\ \A p \in 0 .. 8 * Len(sels[n].select) - 1 \cup P[n][2] :
                  Covers(sels[n], p) <=> p \in P[n][2]
  BY DEF CoversPolicy, P
<1> QED BY <1>3, <1>4, <1>5, <1>6 DEF P

\* Nobody objects to a submission that is always approved.
LEMMA ApprovedHasNoRefusal ==
  ASSUME RootsAreIssuers, NEW s \in Submissions, AlwaysApproved(s), NEW t \in 0 .. MaxTime
  PROVE  AppraisalRefusals(s, t) = {}
<1>1. Typed(s)
  BY DEF AlwaysApproved, Approved, Typed
<1>2. ManifestRefusal(s.manifest) = None
  <2>1. s.manifest = [issuer |-> Policy.manifest_issuer, digest |-> Policy.manifest_digest,
                      verified |-> TRUE]
    BY DEF AlwaysApproved, Approved
  <2>2. s.manifest # None
    BY <2>1, NoneAssumption
  <2> QED BY <2>1, <2>2 DEF ManifestRefusal
<1>3. IdentityRefusal(s.request) = None
  <2>1. PICK c \in Tokens, h \in Holders :
          s.request.body =
            [version |-> Policy.version, broker_id |-> Policy.broker_id, challenge |-> c,
             manifest_digest |-> Policy.manifest_digest, identity_key |-> Policy.identity_key,
             holder_key |-> h, resource_issuer |-> Policy.resource_issuer,
             requested_scope |-> Policy.scope]
    BY DEF AlwaysApproved, Approved
  <2>2. s.request.identity_signature = [key |-> Policy.identity_key, over |-> s.request.body]
    BY DEF AlwaysApproved, Approved
  <2> QED BY <2>1, <2>2 DEF IdentityRefusal
<1>4. TpmRefusals(s.evidence, s.request, t) = {}
  <2> DEFINE e == s.evidence
  <2>1. /\ e.selections # None /\ CoversPolicy(e.selections)
        /\ e.selections \in Seq(PcrSelection) /\ e.chain \in Seq(Certificate)
        /\ e.chain_verified /\ t \in Nat
        /\ SoundPath(e.chain) /\ ValidAt(e.chain, t)
        /\ e.quote = [qualifying |-> s.request, pcr_digest |-> Policy.pcr_digest]
    BY <1>1, SubmissionAssumption, ConstantsAssumption DEF AlwaysApproved, Approved, CoversPolicy, Typed
  <2> HIDE DEF e
  <2>2. ReadSelection(e.selections) = Policy.selection
    BY <2>1, ReadSelectionIsCoverage
  <2>3. AkCertificatePolicy(e.chain, Policy.roots, t)
    BY <2>1, SoundPathMeetsPolicy DEF RootsAreIssuers
  <2>4. TpmRefusals(e, s.request, t) = {}
    BY <2>1, <2>2, <2>3 DEF TpmRefusals
  <2> QED BY <2>4 DEF e
<1> QED BY <1>2, <1>3, <1>4 DEF AppraisalRefusals

(***************************************************************************)
(* The theorems on what a credential and a refusal mean                    *)
(***************************************************************************)

\* A minted credential is one approved submission's, bound to its holder, its
\* challenge consumed in time by the call that minted it.
THEOREM CredentialsStayBacked == Spec => []CredentialsAreBacked
<1>1. BInv => CredentialsAreBacked
  <2> SUFFICES ASSUME BInv, NEW k \in Calls, credential[k] # None
               PROVE  /\ Approved(submission[k])
                      /\ credential[k].subject = Holder(k)
                      /\ LET row == broker_challenges[Token(k)]
                         IN row # None /\ row.consumed_at = consumedAt[k]
                              /\ row.consumed_at < row.expires_at
                      /\ Granted(k) => /\ decision[k].credential = credential[k]
                                       /\ decision[k].receipt.credential_id = credential[k].credential_id
                                       /\ decision[k].receipt.challenge_token_hash = Token(k)
    BY DEF CredentialsAreBacked
  <2>1. CallInv(k)
    BY DEF BInv
  <2>2. Consumed(k) /\ Typed(submission[k]) /\ Passed(submission[k])
    BY <2>1 DEF CallInv, InPhase, Consumed
  <2>3. Approved(submission[k])
    BY <2>2, PassedIsApproved
  <2>4. credential[k].subject = Holder(k)
    BY <2>1 DEF CallInv, InPhase
  <2> QED BY <2>1, <2>2, <2>3, <2>4 DEF CallInv, ConsumerOwns, Returned, Granted
<1> QED BY Invariant, <1>1, PTL

\* Only a submission that passed the whole appraisal consumes a challenge, and
\* no ordinary refusal does.
THEOREM RefusalsStayHarmless == Spec => []RefusalsBurnNothing
<1>1. BInv => RefusalsBurnNothing
  <2> SUFFICES ASSUME BInv PROVE RefusalsBurnNothing
    OBVIOUS
  <2>1. ASSUME NEW t \in Tokens, broker_challenges[t] # None,
               broker_challenges[t].consumed_at # None
        PROVE  \E k \in Calls : Consumed(k) /\ Token(k) = t /\ Approved(submission[k])
    <3>1. PICK k \in Calls : Consumed(k) /\ Token(k) = t
      BY <2>1 DEF BInv, ConsumersExist
    <3>2. Typed(submission[k]) /\ Passed(submission[k])
      BY <3>1 DEF BInv, CallInv, InPhase, Consumed
    <3> QED BY <3>1, <3>2, PassedIsApproved
  <2>2. ASSUME NEW k \in Calls, decision[k] # None, decision[k].kind = "decision", Consumed(k)
        PROVE  decision[k].receipt.reason \in {"ALLOW", "INTERNAL_ERROR"}
    BY <2>2 DEF BInv, CallInv, Returned, RefusalFits
  <2> QED BY <2>1, <2>2 DEF RefusalsBurnNothing
<1> QED BY Invariant, <1>1, PTL

\* Every credential rests on certificates that form a sound X.509 path, current
\* at some instant, though the code checks one certificate at a time.
THEOREM AttestationPathsStaySound == Spec => []AttestationPathIsSound
<1>1. BInv => AttestationPathIsSound
  <2> SUFFICES ASSUME BInv, NEW k \in Calls, credential[k] # None
               PROVE  LET chain == submission[k].evidence.chain
                      IN SoundPath(chain) /\ \E t \in 0 .. MaxTime : ValidAt(chain, t)
    BY DEF AttestationPathIsSound
  <2> DEFINE e == submission[k].evidence
  <2>1. Typed(submission[k]) /\ Passed(submission[k])
    BY DEF BInv, CallInv, InPhase, Consumed
  <2>2. PICK t \in 0 .. MaxTime : TpmRefusals(e, submission[k].request, t) = {}
    BY <2>1 DEF Passed, AppraisalRefusals
  <2>3. AkCertificatePolicy(e.chain, Policy.roots, t)
    BY <2>2 DEF TpmRefusals
  <2>4. e.chain \in Seq(Certificate) /\ t \in Nat
    <3>1. t \in Nat
      BY ConstantsAssumption
    <3>2. e.chain \in Seq(Certificate)
      BY <2>1, SubmissionAssumption, Zenon DEF Typed
    <3> QED BY <3>1, <3>2
  <2> HIDE DEF e
  <2>5. SoundPath(e.chain) /\ ValidAt(e.chain, t)
    BY <2>3, <2>4, PolicyMeansSoundPath
  <2> QED BY <2>5 DEF e
<1> QED BY Invariant, <1>1, PTL

\* Every credential rests on a quote of exactly the PCRs the policy names.
THEOREM AttestedPcrsStayApproved == Spec => []AttestedPcrsAreApproved
<1>1. BInv => AttestedPcrsAreApproved
  <2> SUFFICES ASSUME BInv, NEW k \in Calls, credential[k] # None
               PROVE  CoversPolicy(submission[k].evidence.selections)
    BY DEF AttestedPcrsAreApproved
  <2> DEFINE e == submission[k].evidence
  <2>1. Typed(submission[k]) /\ Passed(submission[k])
    BY DEF BInv, CallInv, InPhase, Consumed
  <2>2. PICK t \in 0 .. MaxTime : TpmRefusals(e, submission[k].request, t) = {}
    BY <2>1 DEF Passed, AppraisalRefusals
  <2>3. e.selections # None /\ ReadSelection(e.selections) = Policy.selection
    BY <2>2 DEF TpmRefusals
  <2>4. e.selections \in Seq(PcrSelection)
    BY <2>1, <2>3, SubmissionAssumption DEF Typed
  <2> HIDE DEF e
  <2>5. CoversPolicy(e.selections)
    BY <2>3, <2>4, ReadSelectionIsCoverage
  <2> QED BY <2>5 DEF e
<1> QED BY Invariant, <1>1, PTL

\* Under a policy whose roots are issuers, an approved submission is refused
\* only for its challenge or an internal error, and CHALLENGE_CONSUMED is said
\* only of a challenge that another call consumed.
THEOREM ApprovedIsRefusedFairly ==
  ASSUME RootsAreIssuers
  PROVE  Spec => []ApprovedIsRefusedForChallengeOnly
<1>1. BInv => ApprovedIsRefusedForChallengeOnly
  <2> SUFFICES ASSUME BInv, NEW k \in Calls, reason[k] # None, AlwaysApproved(submission[k])
               PROVE  /\ reason[k] \in {"CHALLENGE_INVALID", "CHALLENGE_STALE",
                                       "CHALLENGE_CONSUMED", "INTERNAL_ERROR"}
                      /\ reason[k] = "CHALLENGE_CONSUMED" =>
                           \E j \in Calls \ {k} : Consumed(j) /\ Token(j) = Token(k)
    BY DEF ApprovedIsRefusedForChallengeOnly
  <2>1. RefusalFits(k) /\ InPhase(k)
    BY DEF BInv, CallInv
  <2>2. submission[k] \in Submissions /\ Typed(submission[k])
    BY <2>1 DEF InPhase, AlwaysApproved, Approved, Typed
  <2>3. \A t \in 0 .. MaxTime : AppraisalRefusals(submission[k], t) = {}
    BY <2>2, ApprovedHasNoRefusal
  <2>4. reason[k] \in {"CHALLENGE_INVALID", "CHALLENGE_STALE", "CHALLENGE_CONSUMED",
                       "INTERNAL_ERROR"}
    BY <2>1, <2>2, <2>3 DEF RefusalFits
  <2>5. ASSUME reason[k] = "CHALLENGE_CONSUMED"
        PROVE  \E j \in Calls \ {k} : Consumed(j) /\ Token(j) = Token(k)
    <3>1. /\ broker_challenges[Token(k)] # None /\ broker_challenges[Token(k)].consumed_at # None
          /\ ~Consumed(k)
      BY <2>1, <2>5 DEF RefusalFits
    <3>2. Token(k) \in Tokens
      BY <2>2, ConstantsAssumption DEF Typed, Token
    <3>3. PICK j \in Calls : Consumed(j) /\ Token(j) = Token(k)
      BY <3>1, <3>2 DEF BInv, ConsumersExist
    <3> QED BY <3>1, <3>3
  <2> QED BY <2>4, <2>5
<1> QED BY Invariant, <1>1, PTL
=============================================================================
