--------------------------- MODULE LabController ---------------------------
(***************************************************************************)
(* The untrusted-caller lab: lab/controller.py, lab/transport.py and the   *)
(* prepare, finalize and verify-record commands of lab/live_cli.py, on top *)
(* of the store inventoryd implements (CapabilityStore).                   *)
(*                                                                         *)
(* In mode "live", prepare issues the whole case matrix and publishes the  *)
(* worker payload, a provider job returns a bundle, and finalize processes *)
(* redeem it; an operator may run finalize twice, one after another or at  *)
(* the same time.  In mode v, run_case drives the one case v through the   *)
(* in-process transport.  Any process may raise or be killed at any step:  *)
(* the live script gives finalize a deadline.                              *)
(***************************************************************************)
EXTENDS ExperimentRecord

CONSTANTS
  Finalizers,        \* runs of finalize (run_case uses one of them)
  Modes,             \* the entry points explored: "live" or a variant
  Answers(_),        \* the response bundles that may come back for a set of runs
  Times,             \* what the host's clock may read, in seconds
  MaxClockSteps,     \* bound: readings that differ from the one before ...
  SteppingCases      \* ... and the cases at whose grant or redemption one may

ASSUME ModesAssumption == Modes \subseteq Variants \cup {"live"}

\* None names no number, no credential, no run, no reason and nobody's evidence.
ASSUME NoneAssumption ==
  /\ None \notin Nat /\ None \notin Variants /\ None \notin RunIds
  /\ None \notin {"ALLOW", "HOLDER_PROOF_INVALID", "CHALLENGE_CONSUMED", "CREDENTIAL_SPENT"}
  /\ None \notin [by : Finalizers, whole : BOOLEAN]

\* time.time() is not negative.
ASSUME ClockAssumption == Times \subseteq Nat /\ MaxClockSteps \in Nat

\* A bundle is a list in one JSON document.
ASSUME AnswersAssumption ==
  \A runs \in {RunIds} \cup {Runs(v) : v \in Variants} :
    \A responses \in Answers(runs) : IsFiniteSet(responses)

VARIABLES
  issued, consumed, redeemed, invoked,   \* CapabilityStore
  mode,        \* which entry point runs
  now,         \* the last reading of int(time.time()) by anybody
  setBack,     \* some reading was below the one before
  clockSteps,  \* readings that differed from the one before
  prep,        \* where prepare is
  grantedAt,   \* when the broker decided the grants made so far
  todo,        \* the case and the request whose challenge is issued next
  stateFile, payloadFile,   \* "absent", "torn" or "whole"
  delivery,    \* run_case: what became of each submitted request
  bundle,      \* the responses that came back, None before
  pc,          \* where each finalizer is
  caseNo,      \* the index of its current case
  count,       \* its InventoryApplication's invocation_count
  before,      \* invocation_before of its current case
  barrier,     \* "open", "tripped" or "broken"
  slot,        \* its redemption threads; sequential cases use the first
  attempts,    \* observations of the current case
  cases,       \* CaseObservations so far
  observedAt,  \* the time in its signed record, None before
  evidence     \* the three evidence files: who wrote them, and whether in full

store     == <<issued, consumed, redeemed, invoked>>
clock     == <<now, setBack, clockSteps>>
preparing == <<prep, grantedAt, todo, stateFile, payloadFile>>
arriving  == <<delivery, bundle>>
final     == <<pc, caseNo, count, before, barrier, slot, attempts, cases>>
vars      == <<store, mode, clock, preparing, arriving, final, observedAt, evidence>>

Store == INSTANCE CapabilityStore WITH Tokens <- RunIds, CredentialIds <- Variants

Specs == IF mode = "live" THEN CaseSpecs ELSE <<mode>>

\* Every case is prepared.
AllIssued == todo.case > Len(Specs)

EvidenceFiles == <<"experiment-record.jws", "experiment-record.json", "experiment-verifier.json">>
Files == {EvidenceFiles[n] : n \in DOMAIN EvidenceFiles}

IdleSlot == [at |-> "idle", reason |-> None, invocation_id |-> None, snapshot |-> None,
             decided_at |-> None]
RedeemingSlot == [IdleSlot EXCEPT !.at = "redeem"]

Ended == {"idle", "done", "failed"}
Running(f) == pc[f] \notin Ended

Variant(f) == Specs[caseNo[f]]
Slots(f) == 1 .. Count(Variant(f))

Init ==
  /\ Store!Init
  /\ mode \in Modes
  /\ now \in Times /\ setBack = FALSE /\ clockSteps = 0
  /\ prep = "new" /\ grantedAt = <<>> /\ todo = [case |-> 1, request |-> 1]
  /\ stateFile = "absent" /\ payloadFile = "absent"
  /\ delivery = [r \in RunIds |-> "unsent"]
  /\ bundle = None
  /\ pc = [f \in Finalizers |-> "idle"]
  /\ caseNo = [f \in Finalizers |-> 1]
  /\ count = [f \in Finalizers |-> 0]
  /\ before = [f \in Finalizers |-> 0]
  /\ barrier = [f \in Finalizers |-> "open"]
  /\ slot = [f \in Finalizers |-> [i \in 1 .. Concurrency |-> IdleSlot]]
  /\ attempts = [f \in Finalizers |-> <<>>]
  /\ cases = [f \in Finalizers |-> <<>>]
  /\ observedAt = [f \in Finalizers |-> None]
  /\ evidence = [file \in Files |-> None]

\* The clock is read: it may have advanced, or been set back.
Reads(t, mayStep) ==
  /\ t # now => mayStep /\ clockSteps < MaxClockSteps
  /\ now' = t /\ setBack' = (setBack \/ t < now)
  /\ clockSteps' = IF t = now THEN clockSteps ELSE clockSteps + 1

(***************************************************************************)
(* prepare                                                                 *)
(***************************************************************************)

\* The state directory is private and empty; the keys, the database and, one
\* after another, a capability for each case are made in it.
PrepareGrants ==
  /\ prep = "new"
  /\ \E t \in Times :
       /\ Reads(t, Specs[Len(grantedAt) + 1] \in SteppingCases)
       /\ grantedAt' = Append(grantedAt, t)
  /\ prep' = IF Len(grantedAt) + 1 = Len(Specs) THEN "cases" ELSE "new"
  /\ UNCHANGED <<store, mode, todo, stateFile, payloadFile, arriving,
                 final, observedAt, evidence>>

\* prepare_case: the case id reserved and its grant verified, one challenge per
\* request is issued; after its last request comes the next case.
PrepareCase ==
  /\ prep = "cases" /\ ~AllIssued
  /\ LET v == Specs[todo.case]
     IN /\ Store!Issue(<<v, todo.request>>, v)
        /\ todo' = IF todo.request < Count(v) THEN [todo EXCEPT !.request = @ + 1]
                   ELSE [case |-> todo.case + 1, request |-> 1]
  /\ UNCHANGED <<mode, clock, prep, grantedAt, stateFile, payloadFile, arriving,
                 final, observedAt, evidence>>

\* Mutant: the payload is published before the state it needs is on disk.
WritePayloadFirst ==
  /\ prep = "cases" /\ AllIssued
  /\ payloadFile' = "whole"
  /\ prep' = "prepared"
  /\ UNCHANGED <<store, mode, clock, grantedAt, todo, stateFile, arriving,
                 final, observedAt, evidence>>

\* The trusted state is written to a new file (run_case keeps it in memory) ...
WriteState ==
  /\ prep = "cases" /\ AllIssued
  /\ stateFile' = IF mode = "live" THEN "whole" ELSE stateFile
  /\ prep' = "prepared"
  /\ UNCHANGED <<store, mode, clock, grantedAt, todo, payloadFile, arriving,
                 final, observedAt, evidence>>

\* ... and only then the payload the worker is given.
WritePayload ==
  /\ mode = "live" /\ prep = "prepared" /\ payloadFile = "absent"
  /\ payloadFile' = "whole"
  /\ UNCHANGED <<store, mode, clock, prep, grantedAt, todo, stateFile, arriving,
                 final, observedAt, evidence>>

\* prepare raises or is killed.  A directory that is no longer empty is refused
\* by any later prepare.
PrepareFails ==
  /\ prep \in {"new", "cases"} \/ (prep = "prepared" /\ payloadFile = "absent" /\ mode = "live")
  /\ prep' = "failed"
  /\ stateFile' \in IF prep = "cases" /\ AllIssued /\ mode = "live"
                    THEN {"absent", "torn"} ELSE {stateFile}
  /\ payloadFile' \in IF prep = "prepared" THEN {"absent", "torn"} ELSE {payloadFile}
  /\ UNCHANGED <<store, mode, clock, grantedAt, todo, arriving, final, observedAt, evidence>>

(***************************************************************************)
(* The answers: a provider job, or the in-process transport                *)
(***************************************************************************)

\* One job runs the worker on the payload; what the provider returns is untrusted.
ProviderJob ==
  /\ payloadFile = "whole" /\ bundle = None
  /\ bundle' \in Answers(RunIds)
  /\ UNCHANGED <<store, mode, clock, preparing, delivery, final, observedAt, evidence>>

\* Delivery of one request of run_case
Deliver(r, from, to) ==
  /\ mode # "live" /\ prep = "prepared" /\ r \in Runs(mode)
  /\ delivery[r] = from
  /\ delivery' = [delivery EXCEPT ![r] = to]
  /\ UNCHANGED <<store, mode, clock, preparing, bundle, final, observedAt, evidence>>

\* submit takes a run id once; its worker answers or fails, or wait_for gives up
\* first and the worker thread answers to nobody.
Submit(r)         == Deliver(r, "unsent", "sent")
WorkerAnswers(r)  == Deliver(r, "sent", "answered")
WorkerFails(r)    == Deliver(r, "sent", "failed")
DeadlineExpires(r) == Deliver(r, "sent", "expired")
LateAnswer(r)     == Deliver(r, "expired", "late")

\* gather: run_case goes on only when every submit returned; it raises, and
\* nothing else happens, as soon as one of them does.
Gather ==
  /\ mode # "live" /\ bundle = None /\ prep = "prepared"
  /\ \A r \in Runs(mode) : delivery[r] = "answered"
  /\ bundle' \in Answers(Runs(mode))
  /\ UNCHANGED <<store, mode, clock, preparing, delivery, final, observedAt, evidence>>

(***************************************************************************)
(* finalize: from the files to the last redemption                         *)
(***************************************************************************)

Goto(f, step) == pc' = [pc EXCEPT ![f] = step]

\* finalize refuses to start over existing evidence and without a whole state;
\* its InventoryApplication counts from zero.  run_case goes on in its process.
Begin(f) ==
  /\ pc[f] = "idle" /\ bundle # None
  /\ mode # "live" => \A g \in Finalizers : pc[g] = "idle"
  /\ Goto(f, IF /\ \A file \in Files : evidence[file] = None
                /\ mode = "live" => stateFile = "whole"
             THEN "validate" ELSE "failed")
  /\ UNCHANGED <<store, mode, clock, preparing, arriving, caseNo, count, before, barrier,
                 slot, attempts, cases, observedAt, evidence>>

\* Every case is validated before the first redemption: nothing is written.
Validate(f) ==
  /\ pc[f] = "validate"
  /\ Goto(f, IF BundleAccepted(Specs, bundle) THEN "case" ELSE "failed")
  /\ UNCHANGED <<store, mode, clock, preparing, arriving, caseNo, count, before, barrier,
                 slot, attempts, cases, observedAt, evidence>>

\* _redeem_validated_case begins: one redemption at a time, or a pool of threads
StartCase(f) ==
  /\ pc[f] = "case"
  /\ before' = [before EXCEPT ![f] = count[f]]
  /\ attempts' = [attempts EXCEPT ![f] = <<>>]
  /\ slot' = [slot EXCEPT ![f] = [i \in 1 .. Concurrency |->
                IF i = 1 /\ Variant(f) # "concurrent" THEN RedeemingSlot ELSE IdleSlot]]
  /\ Goto(f, IF Variant(f) = "concurrent" THEN "spawn" ELSE "redeem")
  /\ UNCHANGED <<store, mode, clock, preparing, arriving, caseNo, count, barrier,
                 cases, observedAt, evidence>>

SetSlot(f, i, s) == slot' = [slot EXCEPT ![f][i] = s]
SlotGoto(f, i, step) == SetSlot(f, i, [slot[f][i] EXCEPT !.at = step])

\* executor.submit starts the next thread; after the last one the main thread
\* waits at the barrier too.
Spawn(f) ==
  /\ pc[f] = "spawn"
  /\ LET fresh == {i \in Slots(f) : slot[f][i].at = "idle"}
     IN IF fresh = {} THEN Goto(f, "barrier") /\ UNCHANGED slot
        ELSE SlotGoto(f, Min(fresh), "started") /\ UNCHANGED pc
  /\ UNCHANGED <<store, mode, clock, preparing, arriving, caseNo, count, before, barrier,
                 attempts, cases, observedAt, evidence>>

\* No further thread can be started: the with block unwinds.
SpawnFails(f) ==
  /\ pc[f] = "spawn"
  /\ Goto(f, "unwind")
  /\ UNCHANGED <<store, mode, clock, preparing, arriving, caseNo, count, before, barrier,
                 slot, attempts, cases, observedAt, evidence>>

\* Mutant: a thread that finds the barrier broken redeems all the same.
ArriveAnyway(f, i) ==
  /\ slot[f][i].at = "started"
  /\ SlotGoto(f, i, IF barrier[f] = "broken" THEN "redeem" ELSE "waiting")
  /\ UNCHANGED <<store, mode, clock, preparing, arriving, pc, caseNo, count, before, barrier,
                 attempts, cases, observedAt, evidence>>

\* A thread reaches barrier.wait: it waits, or raises if the barrier is broken.
Arrive(f, i) ==
  /\ slot[f][i].at = "started"
  /\ SlotGoto(f, i, IF barrier[f] = "broken" THEN "raised" ELSE "waiting")
  /\ UNCHANGED <<store, mode, clock, preparing, arriving, pc, caseNo, count, before, barrier,
                 attempts, cases, observedAt, evidence>>

\* All parties have arrived.
BarrierTrips(f) ==
  /\ pc[f] = "barrier" /\ barrier[f] = "open"
  /\ \A i \in Slots(f) : slot[f][i].at = "waiting"
  /\ barrier' = [barrier EXCEPT ![f] = "tripped"]
  /\ slot' = [slot EXCEPT ![f] = [i \in 1 .. Concurrency |->
                IF i \in Slots(f) THEN RedeemingSlot ELSE IdleSlot]]
  /\ Goto(f, "redeem")
  /\ UNCHANGED <<store, mode, clock, preparing, arriving, caseNo, count, before, attempts,
                 cases, observedAt, evidence>>

\* Mutant: barrier.wait has no timeout in the threads, only in the main one.
BarrierBreaksMainOnly(f) ==
  /\ pc[f] = "barrier" /\ barrier[f] = "open"
  /\ \E i \in Slots(f) : slot[f][i].at = "started"
  /\ Goto(f, "unwind")
  /\ UNCHANGED <<store, mode, clock, preparing, arriving, caseNo, count, before, barrier,
                 slot, attempts, cases, observedAt, evidence>>

\* Some party waits longer than 10 s for one that has not come: the barrier
\* breaks for all of them.
BarrierBreaks(f) ==
  /\ barrier[f] = "open"
  /\ pc[f] = "barrier" \/ \E i \in 1 .. Concurrency : slot[f][i].at = "waiting"
  /\ pc[f] # "barrier" \/ \E i \in Slots(f) : slot[f][i].at = "started"
  /\ barrier' = [barrier EXCEPT ![f] = "broken"]
  /\ slot' = [slot EXCEPT ![f] = [i \in 1 .. Concurrency |->
                IF slot[f][i].at = "waiting" THEN [slot[f][i] EXCEPT !.at = "raised"]
                ELSE slot[f][i]]]
  /\ IF pc[f] = "barrier" THEN Goto(f, "unwind") ELSE UNCHANGED pc
  /\ UNCHANGED <<store, mode, clock, preparing, arriving, caseNo, count, before, attempts,
                 cases, observedAt, evidence>>

(***************************************************************************)
(* One call of InventoryApplication.redeem, at the grain of its effects    *)
(***************************************************************************)

Run(f, i) == <<Variant(f), i>>

\* The response the controller redeems for a run
ResponseOf(r) == CHOOSE resp \in bundle : resp.run_id = r

\* Why redeem turns the call away; None when it spends.  A malformed proof is
\* refused before its challenge is looked up.
RedeemRefusal(r) ==
  LET p == ResponseOf(r)
  IN IF p.holder_proof.signature = [sentinel |-> 7] THEN "HOLDER_PROOF_INVALID"
     ELSE IF r \in consumed THEN "CHALLENGE_CONSUMED"
     ELSE IF ~VerifiesOriginal(r, p) THEN "HOLDER_PROOF_INVALID"
     ELSE None

Refused(f, i, why) == SetSlot(f, i, [slot[f][i] EXCEPT !.at = "answer", !.reason = why])

\* Mutant: a refused proof burns its challenge.
RedeemRefusedBurns(f, i) ==
  /\ slot[f][i].at = "redeem"
  /\ RedeemRefusal(Run(f, i)) # None
  /\ Refused(f, i, RedeemRefusal(Run(f, i)))
  /\ consumed' = consumed \cup {Run(f, i)}
  /\ UNCHANGED <<issued, redeemed, invoked, mode, clock, preparing, arriving, pc, caseNo, count,
                 before, barrier, attempts, cases, observedAt, evidence>>

\* redeem refuses and spends nothing.
RedeemRefused(f, i) ==
  /\ slot[f][i].at = "redeem"
  /\ RedeemRefusal(Run(f, i)) # None
  /\ Refused(f, i, RedeemRefusal(Run(f, i)))
  /\ UNCHANGED <<store, mode, clock, preparing, arriving, pc, caseNo, count, before, barrier,
                 attempts, cases, observedAt, evidence>>

\* The spend transaction commits; a later spend of the credential is denied.
RedeemSpends(f, i) ==
  /\ slot[f][i].at = "redeem"
  /\ RedeemRefusal(Run(f, i)) = None
  /\ Store!Spend(Run(f, i))
  /\ IF redeemed[Variant(f)] = None THEN SlotGoto(f, i, "spent")
     ELSE Refused(f, i, "CREDENTIAL_SPENT")
  /\ UNCHANGED <<mode, clock, preparing, arriving, pc, caseNo, count, before, barrier,
                 attempts, cases, observedAt, evidence>>

\* The first spender invokes the handler, which knows the lab's SKU.
RedeemInvokes(f, i) ==
  /\ slot[f][i].at = "spent"
  /\ Store!Invoke(Variant(f))
  /\ count' = [count EXCEPT ![f] = @ + 1]
  /\ SetSlot(f, i, [slot[f][i] EXCEPT !.at = "answer", !.reason = "ALLOW",
                                      !.invocation_id = count[f] + 1])
  /\ UNCHANGED <<mode, clock, preparing, arriving, pc, caseNo, before, barrier, attempts,
                 cases, observedAt, evidence>>

\* A credential outside its window, an expiry or an internal error, before the
\* spend or after it: the lab expects none of them, so one reason stands for all.
RedeemFaults(f, i) ==
  /\ slot[f][i].at \in {"redeem", "spent"}
  /\ Refused(f, i, "INTERNAL_ERROR")
  /\ UNCHANGED <<store, mode, clock, preparing, arriving, pc, caseNo, count, before, barrier,
                 attempts, cases, observedAt, evidence>>

\* The receipt is signed, with the time and the counter as they are by now ...
RedeemAnswers(f, i) ==
  /\ slot[f][i].at = "answer"
  /\ \E t \in Times :
       /\ Reads(t, Variant(f) \in SteppingCases)
       /\ SetSlot(f, i, [slot[f][i] EXCEPT !.at = "answered", !.snapshot = count[f],
                                           !.decided_at = t])
  /\ UNCHANGED <<store, mode, preparing, arriving, pc, caseNo, count, before, barrier,
                 attempts, cases, observedAt, evidence>>

\* ... or cannot be, and redeem raises.
RedeemRaises(f, i) ==
  /\ slot[f][i].at = "answer"
  /\ SlotGoto(f, i, "raised")
  /\ UNCHANGED <<store, mode, clock, preparing, arriving, pc, caseNo, count, before, barrier,
                 attempts, cases, observedAt, evidence>>

(***************************************************************************)
(* finalize: from the decisions to the evidence                            *)
(***************************************************************************)

\* The main thread meets a broken barrier, a redemption that raised, or a
\* future that is not done after 15 s: the case is lost.
RaceFails(f) ==
  /\ \/ pc[f] = "barrier" /\ barrier[f] = "broken"
     \/ pc[f] = "redeem" /\ \E i \in Slots(f) : slot[f][i].at = "raised"
     \/ /\ pc[f] = "redeem" /\ Variant(f) = "concurrent"
        /\ \E i \in Slots(f) : slot[f][i].at # "answered"
  /\ Goto(f, "unwind")
  /\ UNCHANGED <<store, mode, clock, preparing, arriving, caseNo, count, before, barrier,
                 slot, attempts, cases, observedAt, evidence>>

\* Mutant: the pool is left without waiting for its threads.
UnwindAtOnce(f) ==
  /\ pc[f] = "unwind"
  /\ Goto(f, "failed")
  /\ UNCHANGED <<store, mode, clock, preparing, arriving, caseNo, count, before, barrier,
                 slot, attempts, cases, observedAt, evidence>>

\* Leaving the with block waits for every thread that was started.
Unwind(f) ==
  /\ pc[f] = "unwind"
  /\ \A i \in 1 .. Concurrency : slot[f][i].at \in {"idle", "answered", "raised"}
  /\ Goto(f, "failed")
  /\ UNCHANGED <<store, mode, clock, preparing, arriving, caseNo, count, before, barrier,
                 slot, attempts, cases, observedAt, evidence>>

\* _observe_decision: the receipt verifies and binds the decision to the request
Observation(f, i) ==
  [run_id |-> Run(f, i), redemption_sequence |-> IF Variant(f) = "replay"
                                                 THEN Len(attempts[f]) + 1 ELSE 1,
   reason |-> slot[f][i].reason,
   challenge_token_hash |-> IF Variant(f) = "malformed" THEN None ELSE Run(f, i),
   invocation_id |-> slot[f][i].invocation_id,
   handler_count_snapshot |-> slot[f][i].snapshot, decided_at |-> slot[f][i].decided_at]

\* The decisions of the case are in; a replay redeems the same proof again.
Observe(f) ==
  /\ pc[f] = "redeem"
  /\ \A i \in Slots(f) : slot[f][i].at = "answered"
  /\ attempts' = [attempts EXCEPT ![f] = @ \o [i \in Slots(f) |-> Observation(f, i)]]
  /\ IF Variant(f) = "replay" /\ attempts[f] = <<>>
     THEN SetSlot(f, 1, RedeemingSlot) /\ UNCHANGED pc
     ELSE Goto(f, "check") /\ UNCHANGED slot
  /\ UNCHANGED <<store, mode, clock, preparing, arriving, caseNo, count, before, barrier,
                 cases, observedAt, evidence>>

\* store.redemption_count
RedemptionCount(v) == IF redeemed[v] = None THEN 0 ELSE 1

\* The outcomes, the handler's count and the store's must be the variant's.
CheckCase(f) ==
  LET v == Variant(f)
      delta == count[f] - before[f]
      last == caseNo[f] = Len(Specs)
  IN /\ pc[f] = "check"
     /\ IF /\ OutcomesExpected(v, attempts[f])
           /\ delta = ExpectedCount(v) /\ RedemptionCount(v) = ExpectedCount(v)
        THEN /\ cases' = [cases EXCEPT ![f] = Append(@,
                  [variant |-> v, attempts |-> attempts[f], invocation_delta |-> delta,
                   redemption_count |-> RedemptionCount(v),
                   broker_decided_at |-> grantedAt[caseNo[f]]])]
             /\ caseNo' = [caseNo EXCEPT ![f] = IF last THEN @ ELSE @ + 1]
             /\ Goto(f, IF ~last THEN "case" ELSE IF mode = "live" THEN "sign" ELSE "done")
        ELSE Goto(f, "failed") /\ UNCHANGED <<cases, caseNo>>
     /\ UNCHANGED <<store, mode, clock, preparing, arriving, count, before, barrier, slot,
                    attempts, observedAt, evidence>>

\* sign_record, which reads the time, and the verification of what was signed
Sign(f) ==
  /\ pc[f] = "sign"
  /\ \E t \in Times :
       /\ Reads(t, TRUE)
       /\ observedAt' = [observedAt EXCEPT ![f] = t]
       /\ Goto(f, IF RecordVerifies(cases[f], t) THEN EvidenceFiles[1] ELSE "failed")
  /\ UNCHANGED <<store, mode, preparing, arriving, caseNo, count, before, barrier,
                 slot, attempts, cases, evidence>>

\* Each evidence file is created, never replaced, in this order.
WriteEvidence(f) ==
  \E n \in DOMAIN EvidenceFiles :
    /\ pc[f] = EvidenceFiles[n]
    /\ IF evidence[EvidenceFiles[n]] # None
       THEN Goto(f, "failed") /\ UNCHANGED evidence
       ELSE /\ evidence' = [evidence EXCEPT ![EvidenceFiles[n]] = [by |-> f, whole |-> TRUE]]
            /\ Goto(f, IF n < Len(EvidenceFiles) THEN EvidenceFiles[n + 1] ELSE "done")
    /\ UNCHANGED <<store, mode, clock, preparing, arriving, caseNo, count, before, barrier,
                   slot, attempts, cases, observedAt>>

\* The process raises outside the pool, or is killed, its threads with it; a
\* file being written may be left short.
Stops(f) ==
  /\ Running(f)
  /\ Goto(f, "failed")
  /\ slot' = [slot EXCEPT ![f] = [i \in 1 .. Concurrency |-> IdleSlot]]
  /\ evidence' \in {evidence} \cup
       {[evidence EXCEPT ![pc[f]] = [by |-> f, whole |-> FALSE]] :
          file \in {x \in Files : pc[f] = x /\ evidence[x] = None}}
  /\ UNCHANGED <<store, mode, clock, preparing, arriving, caseNo, count, before, barrier,
                 attempts, cases, observedAt>>

\* verify_evidence_bundle: all three files, whole, of one record that verifies
EvidenceBundleVerifies ==
  \E f \in Finalizers :
    /\ \A file \in Files : evidence[file] = [by |-> f, whole |-> TRUE]
    /\ RecordVerifies(cases[f], observedAt[f])

\* What the threads of a finalizer do, faults apart; waiting parties time out.
MainStep(f) ==
  \/ Validate(f) \/ StartCase(f) \/ Spawn(f) \/ BarrierTrips(f) \/ BarrierBreaks(f)
  \/ RaceFails(f) \/ Unwind(f) \/ Observe(f) \/ CheckCase(f) \/ Sign(f) \/ WriteEvidence(f)

SlotStep(f, i) ==
  \/ Arrive(f, i) \/ RedeemRefused(f, i) \/ RedeemSpends(f, i) \/ RedeemInvokes(f, i)
  \/ RedeemAnswers(f, i)

Next ==
  \/ PrepareGrants \/ PrepareCase \/ WriteState \/ WritePayload \/ PrepareFails
  \/ ProviderJob \/ Gather
  \/ \E r \in RunIds : \/ Submit(r) \/ WorkerAnswers(r) \/ WorkerFails(r)
                       \/ DeadlineExpires(r) \/ LateAnswer(r)
  \/ \E f \in Finalizers :
       \/ Begin(f) \/ MainStep(f) \/ SpawnFails(f) \/ Stops(f)
       \/ \E i \in 1 .. Concurrency :
            SlotStep(f, i) \/ RedeemFaults(f, i) \/ RedeemRaises(f, i)

Spec == Init /\ [][Next]_vars

\* Threads are scheduled and clocks advance; only a killed process stops.
Fairness ==
  \A f \in Finalizers :
    WF_vars(MainStep(f)) /\ \A i \in 1 .. Concurrency : WF_vars(SlotStep(f, i))

FairSpec == Spec /\ Fairness

(***************************************************************************)
(* Properties                                                              *)
(***************************************************************************)

\* "finalize_cases authenticates every grant, run binding, holder signature, and
\* claimed worker binding before the first challenge or credential spend"
\* (finalize's comment): something is spent only if the answer to every
\* prepared request was acceptable and in time.  A request whose deadline
\* expired, or whose worker failed, spends nothing, however late its answer is.
NoSpendBeforeValidation ==
  consumed # {} =>
    \A r \in {x \in RunIds : issued[x] # None} :
      /\ delivery[r] \notin {"expired", "late", "failed"}
      /\ \E resp \in bundle : resp.run_id = r /\ WorkerResponseBound(r, resp) /\ ProofAsPrescribed(r, resp)

\* A worker never gets a payload the controller could not finalize: when it is
\* published, the state file is whole and every request's challenge was issued.
PayloadIsBacked ==
  payloadFile # "absent" =>
    stateFile = "whole" /\ \A r \in RunIds : issued[r] = r[1]

\* A broken barrier breaks for everybody: no redemption of the race happens.
BrokenBarrierSpendsNothing ==
  \A f \in Finalizers : barrier[f] = "broken" =>
    \A i \in 1 .. Concurrency : slot[f][i].at \in {"idle", "started", "raised"}

\* What passed the controller's own checks is refused by the record verifier,
\* whose rules are written a second time in wire.py and record.py, only if the
\* clock was set back, and then only for its times.
SignedRecordsVerify ==
  \A f \in Finalizers : pc[f] = "sign" =>
    /\ RecordSemantics(cases[f]) /\ ReceiptsAgree(cases[f])
    /\ ~setBack => \A t \in Times : now <= t => RecordVerifies(cases[f], t)

\* Evidence that verifies tells the truth about the store: each allowed attempt
\* owns its credential's redemption and was invoked, every racing challenge was
\* consumed, and the refused cases left challenge and credential untouched.
EvidenceIsTrue ==
  EvidenceBundleVerifies =>
    \A v \in Variants :
      /\ consumed \cap Runs(v) = IF v \in AllowPath THEN Runs(v) ELSE {}
      /\ invoked[v] = IF v \in AllowPath THEN 1 ELSE 0
      /\ v \in AllowPath => \E f \in Finalizers, n \in 1 .. Len(CaseSpecs) :
           /\ evidence[EvidenceFiles[1]].by = f /\ cases[f][n].variant = v
           /\ \A i \in DOMAIN cases[f][n].attempts :
                Allowed(cases[f][n].attempts[i]) <=>
                  /\ cases[f][n].attempts[i].run_id = redeemed[v]
                  /\ cases[f][n].attempts[i].redemption_sequence = 1

\* Action property: when finalize has reported a failure, or is done, none of
\* its threads is still at work: a slot of an ended finalizer never moves.
EndedMeansQuiet ==
  [][\A f \in Finalizers : pc[f] \in {"done", "failed"} => slot'[f] = slot[f]]_vars

\* Liveness: every finalize that starts ends, also with a thread that cannot be
\* started or a party that never reaches the barrier.
FinalizeEnds == []<>(\A f \in Finalizers : ~Running(f))
=============================================================================
