-------------------------- MODULE ExperimentRecord --------------------------
(***************************************************************************)
(* The experiment record and what its verifier requires of it: lab/wire.py *)
(* and lab/record.py.  An attempt carries the receipt inventoryd signed    *)
(* for it.  Fields that are the same in every record are left out.         *)
(***************************************************************************)
EXTENDS WorkerProtocol, FiniteSetsExt

CONSTANT None

\* Attempts: [run_id, redemption_sequence, reason, challenge_token_hash,
\*            invocation_id, handler_count_snapshot, decided_at]
Allowed(a) == a.reason = "ALLOW"

Reasons(attempts) == [i \in DOMAIN attempts |-> attempts[i].reason]

\* The reasons a case must show; those of the concurrent case in any order
OutcomesExpected(v, attempts) ==
  CASE v = "valid"      -> Reasons(attempts) = <<"ALLOW">>
    [] v = "replay"     -> Reasons(attempts) = <<"ALLOW", "CHALLENGE_CONSUMED">>
    [] v = "concurrent" ->
         /\ Cardinality({i \in DOMAIN attempts : Allowed(attempts[i])}) = 1
         /\ \A i \in DOMAIN attempts :
              Allowed(attempts[i]) \/ attempts[i].reason = "CREDENTIAL_SPENT"
    [] OTHER            -> Reasons(attempts) = <<"HOLDER_PROOF_INVALID">>

ExpectedCount(v) == IF v \in AllowPath THEN 1 ELSE 0

\* AttemptObservation: an invocation id exactly for an allowed attempt
AttemptSemantics(a) == Allowed(a) <=> a.invocation_id # None

\* CaseObservation: sequences, run ids, outcomes and counts fit the variant
CaseSemantics(case) ==
  LET as == case.attempts
      runs == {as[i].run_id : i \in DOMAIN as}
  IN /\ \A i \in DOMAIN as : AttemptSemantics(as[i])
     /\ OutcomesExpected(case.variant, as)
     /\ \A i \in DOMAIN as :
          as[i].redemption_sequence = IF case.variant = "replay" THEN i ELSE 1
     /\ Cardinality(runs) = IF case.variant = "concurrent" THEN Len(as) ELSE 1
     /\ case.variant = "concurrent" => Len(as) >= 2
     /\ case.invocation_delta = ExpectedCount(case.variant)
     /\ case.redemption_count = ExpectedCount(case.variant)

\* All the attempts of a record
Attempts(cases) ==
  UNION {{cases[n].attempts[i] : i \in DOMAIN cases[n].attempts} : n \in DOMAIN cases}

\* sum(case.invocation_delta for case in cases)
TotalInvocations(cases) ==
  LET sum[n \in 0 .. Len(cases)] == IF n = 0 THEN 0 ELSE sum[n - 1] + cases[n].invocation_delta
  IN sum[Len(cases)]

\* ExperimentRecordPayload: the exact case matrix, and invocation ids that
\* number the allowed attempts 1, 2, ...
RecordSemantics(cases) ==
  LET ids == {a.invocation_id : a \in {b \in Attempts(cases) : Allowed(b)}}
  IN /\ \A n \in DOMAIN cases : CaseSemantics(cases[n])
     /\ Len(cases) = Cardinality(Variants)
     /\ {cases[n].variant : n \in DOMAIN cases} = Variants
     /\ ids = 1 .. Cardinality({a \in Attempts(cases) : Allowed(a)})

\* The allowed receipts number the fixed execution order.
InvocationOrder(case) ==
  case.variant \in AllowPath =>
    \A i \in DOMAIN case.attempts : Allowed(case.attempts[i]) =>
      case.attempts[i].invocation_id =
        CASE case.variant = "valid" -> 1 [] case.variant = "replay" -> 2 [] OTHER -> 3

\* Receipt contexts: a malformed proof names no challenge; a replay repeats one
\* and its snapshots do not fall; racing attempts have one each
ReceiptContexts(case) ==
  LET as == case.attempts
      hashes == {as[i].challenge_token_hash : i \in DOMAIN as}
  IN /\ (case.variant = "malformed") <=> (None \in hashes)
     /\ case.variant = "replay" =>
          /\ Cardinality(hashes) = 1
          /\ as[1].handler_count_snapshot <= as[2].handler_count_snapshot
     /\ case.variant = "concurrent" => Cardinality(hashes) = Len(as)

\* The snapshots end at the record's count, and no challenge is shared by two cases.
ReceiptsAgree(cases) ==
  /\ \A n \in DOMAIN cases : InvocationOrder(cases[n]) /\ ReceiptContexts(cases[n])
  /\ Max({a.handler_count_snapshot : a \in Attempts(cases)}) = TotalInvocations(cases)
  /\ \A m, n \in DOMAIN cases : m # n =>
       {cases[m].attempts[i].challenge_token_hash : i \in DOMAIN cases[m].attempts}
         \cap {cases[n].attempts[i].challenge_token_hash : i \in DOMAIN cases[n].attempts} = {}

\* The broker decided before inventoryd and inventoryd before the observation;
\* a replay was decided in the order of its redemptions.
ReceiptTimes(case, observed_at) ==
  LET as == case.attempts
  IN /\ case.broker_decided_at <= observed_at
     /\ \A i \in DOMAIN as : as[i].decided_at \in case.broker_decided_at .. observed_at
     /\ case.variant = "replay" => as[1].decided_at <= as[2].decided_at

\* _verify_embedded_receipts
EmbeddedReceiptsVerify(cases, observed_at) ==
  ReceiptsAgree(cases) /\ \A n \in DOMAIN cases : ReceiptTimes(cases[n], observed_at)

\* ExperimentRecordVerifier.verify on a record signed over these cases
RecordVerifies(cases, observed_at) ==
  RecordSemantics(cases) /\ EmbeddedReceiptsVerify(cases, observed_at)
=============================================================================
