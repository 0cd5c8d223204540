---------------------------- MODULE LabInvariant ----------------------------
(***************************************************************************)
(* The inductive invariant of LabController.                               *)
(***************************************************************************)
EXTENDS LabController

Quiet == {"idle", "answered", "raised"}         \* no thread is at work here
Racing == {"started", "waiting"}                \* on the way to the barrier
AtWork == {"spawn", "barrier", "redeem", "unwind"}
Steps == Ended \cup {"validate", "case", "check", "sign"} \cup AtWork \cup Files

\* Why a slot's redemption ended
SlotReasons == {None, "ALLOW", "HOLDER_PROOF_INVALID", "CHALLENGE_CONSUMED",
                "CREDENTIAL_SPENT", "INTERNAL_ERROR"}

SlotStates ==
  [at : Quiet \cup Racing \cup {"redeem", "spent", "answer"}, reason : SlotReasons,
   invocation_id : Nat \cup {None}, snapshot : Nat \cup {None}, decided_at : Nat \cup {None}]

\* The types of what the control depends on
ControlType ==
  /\ issued \in [RunIds -> Variants \cup {None}]
  /\ mode \in Variants \cup {"live"}
  /\ prep \in {"new", "cases", "prepared", "failed"}
  /\ todo \in [case : Nat \ {0}, request : Nat \ {0}]
  /\ delivery \in [RunIds -> {"unsent", "sent", "answered", "failed", "expired", "late"}]
  /\ pc \in [Finalizers -> Steps]
  /\ caseNo \in [Finalizers -> Nat] /\ count \in [Finalizers -> Nat]
  /\ barrier \in [Finalizers -> {"open", "tripped", "broken"}]
  /\ slot \in [Finalizers -> [1 .. Concurrency -> SlotStates]]

\* The runs of the cases that are prepared in this mode
Prepared == UNION {Runs(Specs[n]) : n \in 1 .. Len(Specs)}

\* prepare has issued the challenges before <<todo.case, todo.request>>, each
\* for the credential of its own case, and no other one.
IssuedSoFar ==
  /\ ~AllIssued => todo.request <= Count(Specs[todo.case])
  /\ \A r \in RunIds : issued[r] # None => issued[r] = r[1] /\ r \in Prepared
  /\ \A n \in 1 .. Len(Specs) : \A i \in 1 .. Count(Specs[n]) :
       n < todo.case \/ (n = todo.case /\ i < todo.request) => issued[<<Specs[n], i>>] = Specs[n]

\* The files of prepare appear in their order.
FilesInOrder ==
  /\ prep = "prepared" => AllIssued /\ (mode = "live" => stateFile = "whole")
  /\ payloadFile # "absent" =>
       /\ prep \in {"prepared", "failed"} /\ mode = "live"
       /\ AllIssued /\ stateFile = "whole"

\* Nobody goes past the validation without a bundle that passes it, and nothing
\* is consumed before; run_case gathers a bundle of answers that were in time.
Validated ==
  /\ \A f \in Finalizers :
       /\ pc[f] # "idle" => bundle # None
       /\ pc[f] \notin {"idle", "validate", "failed"} => BundleAccepted(Specs, bundle)
  /\ consumed # {} => bundle # None /\ BundleAccepted(Specs, bundle)
  /\ mode = "live" => \A r \in RunIds : delivery[r] = "unsent"
  /\ bundle # None /\ mode # "live" => \A r \in Runs(mode) : delivery[r] = "answered"

\* A slot is at work only while its finalizer is in the block that waits for it.
QuietOutside(f) ==
  \A i \in 1 .. Concurrency :
    pc[f] \notin AtWork \/ i \notin Slots(f) => slot[f][i].at \in Quiet

\* Before the barrier trips, nobody has got past it; once it is broken, its
\* finalizer can only fail.
BeforeTheBarrier(f) ==
  /\ barrier[f] = "open" /\ (pc[f] \in {"spawn", "barrier"}
                             \/ \E i \in 1 .. Concurrency : slot[f][i].at \in Racing) =>
       /\ pc[f] # "redeem"
       /\ \A i \in 1 .. Concurrency : slot[f][i].at \in {"idle"} \cup Racing
  /\ barrier[f] = "broken" =>
       /\ pc[f] \in {"spawn", "barrier", "unwind", "failed"}
       /\ \A i \in 1 .. Concurrency : slot[f][i].at \in {"idle", "started", "raised"}

ThreadsInOrder == \A f \in Finalizers : QuietOutside(f) /\ BeforeTheBarrier(f)

CInv == ControlType /\ IssuedSoFar /\ FilesInOrder /\ Validated /\ ThreadsInOrder

\* Every case has its grant before anything comes back for it: an invariant
\* relative to CInv.
GInv ==
  /\ now \in Nat /\ grantedAt \in Seq(Nat)
  /\ prep = "new" => bundle = None
  /\ prep \in {"cases", "prepared"} \/ payloadFile # "absent" \/ bundle # None =>
       Len(grantedAt) = Len(Specs)

(***************************************************************************)
(* What the controller observes is true of the store.                      *)
(***************************************************************************)

Attempt ==
  [run_id : RunIds, redemption_sequence : Nat, reason : SlotReasons,
   challenge_token_hash : RunIds \cup {None}, invocation_id : Nat \cup {None},
   handler_count_snapshot : Nat \cup {None}, decided_at : Nat \cup {None}]

Case ==
  [variant : Variants, attempts : Seq(Attempt), invocation_delta : Int, redemption_count : {0, 1},
   broker_decided_at : Nat]

EvidenceType ==
  /\ before \in [Finalizers -> Nat]
  /\ attempts \in [Finalizers -> Seq(Attempt)]
  /\ cases \in [Finalizers -> Seq(Case)]
  /\ evidence \in [Files -> {None} \cup [by : Finalizers, whole : BOOLEAN]]
  /\ bundle # None => IsFiniteSet(bundle)

\* Only what verifies is consumed; the first consumption of a credential redeems
\* it, and only then may it be invoked.
StoreTrue ==
  /\ consumed \subseteq RunIds /\ \A r \in consumed : r[1] \in AllowPath
  /\ redeemed \in [Variants -> RunIds \cup {None}] /\ invoked \in [Variants -> {0, 1}]
  /\ \A v \in Variants :
       /\ redeemed[v] # None => redeemed[v] \in consumed /\ v \in AllowPath
       /\ invoked[v] # 0 => redeemed[v] # None

\* What a reason says of the run it was given for
ReasonTrue(r, why) ==
  /\ why = "ALLOW" => redeemed[r[1]] = r /\ invoked[r[1]] = 1
  /\ why = "CREDENTIAL_SPENT" => r \in consumed /\ redeemed[r[1]] \notin {None, r}

SlotTrue(r, s) ==
  /\ s.at = "spent" => redeemed[r[1]] = r
  /\ s.at \in {"idle", "redeem", "spent"} \cup Racing => s.reason = None
  /\ ReasonTrue(r, s.reason)

SlotsTrue(f) ==
  pc[f] \in AtWork => \A i \in Slots(f) : SlotTrue(Run(f, i), slot[f][i])

\* The observations of a case of variant v, in their order
AttemptsTrue(v, as) ==
  \A i \in 1 .. Len(as) :
    /\ as[i].run_id = <<v, IF v = "replay" THEN 1 ELSE i>>
    /\ as[i].redemption_sequence = IF v = "replay" THEN i ELSE 1
    /\ ReasonTrue(as[i].run_id, as[i].reason)

Observed(f) ==
  /\ pc[f] \in {"spawn", "barrier"} => attempts[f] = <<>>
  /\ pc[f] = "redeem" => attempts[f] = <<>> \/ (Variant(f) = "replay" /\ Len(attempts[f]) = 1)
  /\ pc[f] \in {"spawn", "barrier", "redeem", "check"} => AttemptsTrue(Variant(f), attempts[f])
  /\ pc[f] = "check" /\ Variant(f) # "replay" => Len(attempts[f]) = Count(Variant(f))

CaseTrue(v, case) ==
  /\ case.variant = v
  /\ AttemptsTrue(v, case.attempts) /\ OutcomesExpected(v, case.attempts)
  /\ v # "replay" => Len(case.attempts) = Count(v)

\* All the cases of the matrix have been redeemed and checked.
Complete(f) == mode = "live" /\ Len(cases[f]) = Len(Specs)

CasesTrue(f) ==
  /\ caseNo[f] \in 1 .. Len(Specs)
  /\ Len(cases[f]) \in 0 .. Len(Specs)
  /\ \A n \in 1 .. Len(cases[f]) : CaseTrue(Specs[n], cases[f][n])
  /\ pc[f] \notin {"sign", "done", "failed"} \cup Files => Len(cases[f]) = caseNo[f] - 1
  /\ pc[f] \in {"sign"} \cup Files => Complete(f)

EvidenceBacked == \A file \in Files : evidence[file] # None => Complete(evidence[file].by)

\* The inductive invariant on the evidence, relative to CInv and GInv
EInv ==
  /\ EvidenceType
  /\ StoreTrue
  /\ \A f \in Finalizers : SlotsTrue(f) /\ Observed(f) /\ CasesTrue(f)
  /\ EvidenceBacked

(***************************************************************************)
(* The record: how the handler's counter numbers the invocations.          *)
(***************************************************************************)

\* The counter when case n of the matrix begins, and after the last one
InvokedBefore == <<0, 1, 2, 2, 2, 2, 2, 3>>

\* The attempts of a case of variant v during which the counter went from low
\* to high
AttemptsNumbered(v, as, low, high) ==
  \A i \in 1 .. Len(as) :
    /\ AttemptSemantics(as[i])
    /\ as[i].handler_count_snapshot \in low .. high
    /\ Allowed(as[i]) => as[i].invocation_id \in low + 1 .. as[i].handler_count_snapshot
    /\ as[i].challenge_token_hash = IF v = "malformed" THEN None ELSE as[i].run_id
    /\ v = "replay" => \A j \in 1 .. i :
         as[j].handler_count_snapshot <= as[i].handler_count_snapshot

\* A slot's invocation is one of the current case, and its snapshot is taken
\* after it and after the attempts that were observed before.
SlotNumbered(f, s) ==
  /\ (s.reason = "ALLOW") <=> (s.invocation_id # None)
  /\ s.reason = "ALLOW" => s.invocation_id \in before[f] + 1 .. count[f]
  /\ s.at = "answered" =>
       /\ s.snapshot \in before[f] .. count[f]
       /\ s.reason = "ALLOW" => s.invocation_id <= s.snapshot
       /\ \A j \in 1 .. Len(attempts[f]) : attempts[f][j].handler_count_snapshot <= s.snapshot

CaseNumbered(n, case) ==
  /\ AttemptsNumbered(CaseSpecs[n], case.attempts, InvokedBefore[n], InvokedBefore[n + 1])
  /\ case.invocation_delta = ExpectedCount(CaseSpecs[n])
  /\ case.redemption_count = ExpectedCount(CaseSpecs[n])

Numbered(f) ==
  /\ pc[f] \in {"idle", "validate", "case"} => count[f] = InvokedBefore[caseNo[f]]
  /\ pc[f] \in AtWork \cup {"check"} =>
       /\ before[f] = InvokedBefore[caseNo[f]] /\ before[f] <= count[f]
       /\ AttemptsNumbered(Variant(f), attempts[f], before[f], count[f])
  /\ pc[f] \in AtWork => \A i \in Slots(f) : SlotNumbered(f, slot[f][i])
  /\ \A n \in 1 .. Len(cases[f]) : CaseNumbered(n, cases[f][n])

\* The inductive invariant on the record, relative to CInv, GInv and EInv: only
\* live runs are signed.
RInv == mode = "live" => \A f \in Finalizers : Numbered(f)

(***************************************************************************)
(* The times: what a clock that is not set back makes of them.             *)
(***************************************************************************)

\* The attempts of a case of variant v that was granted at low, seen at high
AttemptsTimed(v, as, low, high) ==
  \A i \in 1 .. Len(as) :
    /\ as[i].decided_at \in low .. high
    /\ v = "replay" => \A j \in 1 .. i : as[j].decided_at <= as[i].decided_at

\* An answered slot was decided after its grant and after the attempts before it.
SlotTimed(f, s) ==
  s.at = "answered" =>
    /\ s.decided_at \in grantedAt[caseNo[f]] .. now
    /\ \A j \in 1 .. Len(attempts[f]) : attempts[f][j].decided_at <= s.decided_at

Timed(f) ==
  /\ pc[f] \in AtWork \cup {"check"} =>
       AttemptsTimed(Variant(f), attempts[f], grantedAt[caseNo[f]], now)
  /\ pc[f] \in AtWork => \A i \in Slots(f) : SlotTimed(f, slot[f][i])
  /\ \A n \in 1 .. Len(cases[f]) :
       /\ cases[f][n].broker_decided_at <= now
       /\ AttemptsTimed(cases[f][n].variant, cases[f][n].attempts,
                        cases[f][n].broker_decided_at, now)

\* The inductive invariant on the times, relative to CInv, GInv and EInv
TInv ==
  ~setBack =>
    /\ \A n \in 1 .. Len(grantedAt) : grantedAt[n] <= now
    /\ \A f \in Finalizers : Timed(f)

(***************************************************************************)
(* The store never stands in a redemption's way.                           *)
(***************************************************************************)

\* A slot that has spent and not invoked yet
Owns(f, i, v) == slot[f][i].at = "spent" /\ Variant(f) = v

\* A credential has one such slot, of whichever finalizer, before its invocation
\* and none after.
OneOwner ==
  \A v \in Variants, f, g \in Finalizers, i, j \in 1 .. Concurrency :
    Owns(f, i, v) => invoked[v] = 0 /\ (Owns(g, j, v) => f = g /\ i = j)

\* The inductive invariant on what the redemptions ask of the store, relative to
\* CInv and EInv
OInv == (bundle # None => AllIssued) /\ OneOwner

\* CapabilityStore accepts every call the lab makes: a proof that is not refused
\* finds its challenge issued for its credential and unspent, and a redemption
\* that was won finds its credential not invoked, so Spend and Invoke hide no
\* behaviour of redeem from the lab.
StoreNeverBlocks ==
  \A f \in Finalizers, i \in 1 .. Concurrency :
    /\ slot[f][i].at = "redeem" /\ RedeemRefusal(Run(f, i)) = None =>
         issued[Run(f, i)] = Variant(f) /\ Run(f, i) \notin consumed
    /\ slot[f][i].at = "spent" =>
         redeemed[Variant(f)] = Run(f, i) /\ invoked[Variant(f)] = 0
=============================================================================
