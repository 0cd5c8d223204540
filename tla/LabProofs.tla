----------------------------- MODULE LabProofs -----------------------------
(***************************************************************************)
(* Proofs about LabController, for any number of finalizers and of racing  *)
(* requests, and for any answers of the worker.                            *)
(***************************************************************************)
EXTENDS LabInvariant, FiniteSetTheorems, SequenceTheorems, TLAPS

(***************************************************************************)
(* The case matrix                                                         *)
(***************************************************************************)

LEMMA SpecsAreVariants ==
  ASSUME mode \in Variants \cup {"live"}
  PROVE  Len(Specs) \in Nat /\ \A n \in 1 .. Len(Specs) : Specs[n] \in Variants
<1>1. CASE mode = "live"
  BY <1>1 DEF Specs, CaseSpecs, Variants
<1>2. CASE mode # "live"
  BY <1>2 DEF Specs
<1> QED BY <1>1, <1>2

\* In live mode the cases are all the variants.
LEMMA LiveCoversAll ==
  ASSUME mode = "live" PROVE Prepared = RunIds
<1>1. /\ Len(Specs) = 7
      /\ \A v \in Variants : \E n \in 1 .. 7 : Specs[n] = v
      /\ \A n \in 1 .. 7 : Specs[n] \in Variants
  BY DEF Specs, CaseSpecs, Variants
<1> QED BY <1>1 DEF Prepared, RunIds

LEMMA Counts ==
  ASSUME NEW v
  PROVE  Count(v) \in Nat /\ 1 <= Count(v) /\ Count(v) <= Concurrency
BY ConcurrencyAssumption DEF Count

LEMMA PreparedRuns ==
  ASSUME mode \in Variants \cup {"live"}
  PROVE  /\ Prepared \subseteq RunIds
         /\ \A n \in 1 .. Len(Specs), i \in Nat \ {0} :
              i <= Count(Specs[n]) => <<Specs[n], i>> \in Prepared
<1>1. \A n \in 1 .. Len(Specs) : Specs[n] \in Variants
  BY SpecsAreVariants
<1>2. Prepared \subseteq RunIds
  BY <1>1 DEF Prepared, RunIds
<1>3. ASSUME NEW n \in 1 .. Len(Specs), NEW i \in Nat \ {0}, i <= Count(Specs[n])
      PROVE  <<Specs[n], i>> \in Prepared
  <2>1. i \in 1 .. Count(Specs[n])
    BY <1>3, Counts
  <2> QED BY <2>1 DEF Prepared, Runs
<1> QED BY <1>2, <1>3

\* A set of numbers with a member has a least one.
LEMMA MinIsMember ==
  ASSUME NEW S \in SUBSET Nat, S # {} PROVE Min(S) \in S
<1> DEFINE R == OpToRel(<, Nat)
<1>1. IsWellFoundedOn(R, Nat)
  BY NatLessThanWellFounded
<1>2. \A x, y \in Nat : <<y, x>> \in R <=> y < x
  BY DEF OpToRel
<1> HIDE DEF R
<1>3. PICK x \in S : \A y \in S : ~(<<y, x>> \in R)
  BY <1>1, WFMin
<1>4. ASSUME NEW y \in S PROVE x <= y
  <2>1. x \in Nat /\ y \in Nat
    OBVIOUS
  <2>2. ~(y < x)
    BY <1>2, <1>3, <2>1
  <2> QED BY <2>1, <2>2
<1> QED BY <1>4 DEF Min

(***************************************************************************)
(* Frames                                                                  *)
(***************************************************************************)

LEMMA PreparingFrame ==
  ASSUME IssuedSoFar, FilesInOrder, UNCHANGED <<issued, mode, prep, todo, stateFile, payloadFile>>
  PROVE  IssuedSoFar' /\ FilesInOrder'
BY DEF IssuedSoFar, FilesInOrder, AllIssued, Specs, Prepared

\* Only finalizer f moves.
Only(f) ==
  /\ mode' = mode
  /\ \A g \in Finalizers \ {f} :
       pc'[g] = pc[g] /\ slot'[g] = slot[g] /\ barrier'[g] = barrier[g] /\ caseNo'[g] = caseNo[g]

\* Then only what f itself is at has to be looked at.
LEMMA ThreadsOfOne ==
  ASSUME ThreadsInOrder, NEW f \in Finalizers, Only(f), QuietOutside(f)', BeforeTheBarrier(f)'
  PROVE  ThreadsInOrder'
<1>1. ASSUME NEW g \in Finalizers \ {f} PROVE QuietOutside(g)' /\ BeforeTheBarrier(g)'
  <2>1. /\ pc'[g] = pc[g] /\ slot'[g] = slot[g] /\ barrier'[g] = barrier[g]
        /\ Slots(g)' = Slots(g)
    BY DEF Only, Slots, Variant, Specs
  <2>2. QuietOutside(g) /\ BeforeTheBarrier(g)
    BY DEF ThreadsInOrder
  <2>3. QuietOutside(g)'
    BY <2>1, <2>2 DEF QuietOutside
  <2> QED BY <2>1, <2>2, <2>3 DEF BeforeTheBarrier
<1> QED BY <1>1 DEF ThreadsInOrder

LEMMA ThreadsFrame ==
  ASSUME ThreadsInOrder, UNCHANGED <<mode, pc, slot, barrier, caseNo>>
  PROVE  ThreadsInOrder'
BY DEF ThreadsInOrder, QuietOutside, BeforeTheBarrier, Slots, Variant, Specs

\* A step of f after the bundle came in: f goes past the validation only with a
\* bundle that passes, and consumes only there.
LEMMA ValidatedFrame ==
  ASSUME Validated, UNCHANGED <<mode, delivery, bundle>>,
         \A f \in Finalizers :
           \/ pc'[f] = pc[f]
           \/ /\ bundle # None
              /\ pc'[f] \notin {"idle", "validate", "failed"} => BundleAccepted(Specs, bundle),
         consumed' = consumed \/ (bundle # None /\ BundleAccepted(Specs, bundle))
  PROVE  Validated'
<1>1. Specs' = Specs
  BY DEF Specs
<1>2. BundleAccepted(Specs, bundle)' = BundleAccepted(Specs, bundle)
  BY <1>1 DEF BundleAccepted, UniqueRunIds, CaseAccepted
<1> QED BY <1>2 DEF Validated

\* Setting one slot leaves every other one alone.
LEMMA SlotSet ==
  ASSUME ControlType, NEW f \in Finalizers, NEW i \in 1 .. Concurrency, NEW s \in SlotStates,
         SetSlot(f, i, s)
  PROVE  /\ slot' \in [Finalizers -> [1 .. Concurrency -> SlotStates]]
         /\ slot'[f][i] = s
         /\ \A j \in (1 .. Concurrency) \ {i} : slot'[f][j] = slot[f][j]
         /\ \A g \in Finalizers \ {f} : slot'[g] = slot[g]
BY DEF ControlType, SetSlot

LEMMA SlotMoved ==
  ASSUME ControlType, NEW f \in Finalizers, NEW i \in 1 .. Concurrency,
         NEW x \in Quiet \cup Racing \cup {"redeem", "spent", "answer"}
  PROVE  /\ [slot[f][i] EXCEPT !.at = x] \in SlotStates
         /\ [slot[f][i] EXCEPT !.at = x].at = x
<1>1. slot[f][i] \in SlotStates
  BY DEF ControlType
<1> QED BY <1>1 DEF SlotStates

LEMMA SlotRefused ==
  ASSUME ControlType, NEW f \in Finalizers, NEW i \in 1 .. Concurrency, NEW why \in SlotReasons
  PROVE  /\ [slot[f][i] EXCEPT !.at = "answer", !.reason = why] \in SlotStates
         /\ [slot[f][i] EXCEPT !.at = "answer", !.reason = why].at = "answer"
<1>1. slot[f][i] \in SlotStates
  BY DEF ControlType
<1> QED BY <1>1 DEF SlotStates

(***************************************************************************)
(* prepare and the answers                                                 *)
(***************************************************************************)

LEMMA InitCInv == Init => CInv
<1> SUFFICES ASSUME Init PROVE CInv
  OBVIOUS
<1>1. ControlType
  <2>1. IdleSlot \in SlotStates
    BY DEF IdleSlot, SlotStates, SlotReasons, Quiet
  <2>2. mode \in Variants \cup {"live"}
    BY ModesAssumption DEF Init
  <2>3. slot \in [Finalizers -> [1 .. Concurrency -> SlotStates]]
    BY <2>1 DEF Init
  <2>4. pc \in [Finalizers -> Steps]
    BY DEF Init, Steps, Ended
  <2> QED BY <2>2, <2>3, <2>4 DEF Init, Store!Init, ControlType
<1>2. IssuedSoFar
  <2>1. \A r \in RunIds : issued[r] = None
    BY DEF Init, Store!Init
  <2>2. todo.case = 1 /\ todo.request = 1
    BY DEF Init
  <2> QED BY <2>1, <2>2, Counts DEF IssuedSoFar
<1>3. FilesInOrder
  BY DEF Init, FilesInOrder
<1>4. Validated
  BY DEF Init, Store!Init, Validated
<1>5. ThreadsInOrder
  <2>1. \A f \in Finalizers : /\ pc[f] = "idle" /\ barrier[f] = "open"
                              /\ \A i \in 1 .. Concurrency : slot[f][i].at = "idle"
    BY DEF Init, IdleSlot
  <2> QED BY <2>1 DEF ThreadsInOrder, QuietOutside, BeforeTheBarrier, Quiet, Racing
<1> QED BY <1>1, <1>2, <1>3, <1>4, <1>5 DEF CInv

\* The next challenge is of the case and the request that are due.
LEMMA IssueStep ==
  ASSUME ControlType, IssuedSoFar, PrepareCase
  PROVE  /\ IssuedSoFar'
         /\ issued' \in [RunIds -> Variants \cup {None}]
         /\ todo' \in [case : Nat \ {0}, request : Nat \ {0}]
<1> DEFINE n == todo.case
           i == todo.request
           v == Specs[n]
           r == <<v, i>>
<1>1. /\ n \in Nat \ {0} /\ i \in Nat \ {0}
      /\ todo = [case |-> n, request |-> i]
  BY DEF ControlType
<1>2. Len(Specs) \in Nat /\ Specs' = Specs /\ mode' = mode
  BY SpecsAreVariants DEF ControlType, PrepareCase, Specs
<1>3. n \in 1 .. Len(Specs) /\ v \in Variants /\ i <= Count(v)
  BY <1>1, <1>2, SpecsAreVariants DEF ControlType, PrepareCase, AllIssued, IssuedSoFar
<1>4. r \in Prepared /\ r \in RunIds /\ r[1] = v
  BY <1>1, <1>3, PreparedRuns DEF ControlType
<1>5. Prepared' = Prepared
  BY <1>2 DEF Prepared
<1>6. issued' = [issued EXCEPT ![r] = v] /\ issued \in [RunIds -> Variants \cup {None}]
  BY DEF PrepareCase, Store!Issue, ControlType
<1>7. /\ issued' \in [RunIds -> Variants \cup {None}] /\ issued'[r] = v
      /\ \A q \in RunIds \ {r} : issued'[q] = issued[q]
  BY <1>3, <1>4, <1>6
<1>8. todo' = IF i < Count(v) THEN [case |-> n, request |-> i + 1]
                              ELSE [case |-> n + 1, request |-> 1]
  BY <1>1 DEF PrepareCase
<1>9. Count(v) \in Nat
  BY Counts
<1> HIDE DEF n, i, v
<1>10. todo' \in [case : Nat \ {0}, request : Nat \ {0}]
  BY <1>1, <1>8
<1>11. \A q \in RunIds : issued'[q] # None => issued'[q] = q[1] /\ q \in Prepared
  BY <1>4, <1>7 DEF IssuedSoFar
<1>12. ASSUME NEW m \in 1 .. Len(Specs), NEW j \in 1 .. Count(Specs[m]),
              m < todo'.case \/ (m = todo'.case /\ j < todo'.request)
       PROVE  issued'[<<Specs[m], j>>] = Specs[m]
  <2>1. <<Specs[m], j>> \in RunIds
    BY PreparedRuns, Counts DEF ControlType
  <2>2. CASE <<Specs[m], j>> = r
    BY <2>2, <1>7, <1>4 DEF v
  <2>3. CASE <<Specs[m], j>> # r
    <3>1. j \in Nat /\ m \in Nat
      OBVIOUS
    <3>2. ~(m = n /\ j = i)
      BY <2>3 DEF v
    <3>3. m = n => Specs[m] = v
      BY DEF v
    <3>4. m < n \/ (m = n /\ j < i)
      <4>1. CASE i < Count(v)
        <5>1. todo'.case = n /\ todo'.request = i + 1
          BY <1>8, <4>1
        <5> QED BY <1>1, <1>12, <3>1, <3>2, <5>1
      <4>2. CASE ~(i < Count(v))
        <5>1. todo'.case = n + 1 /\ todo'.request = 1
          BY <1>8, <4>2
        <5> QED BY <1>1, <1>3, <1>9, <1>12, <3>1, <3>2, <3>3, <4>2, <5>1
      <4> QED BY <4>1, <4>2
    <3>5. issued[<<Specs[m], j>>] = Specs[m]
      BY <3>4 DEF IssuedSoFar, n, i
    <3> QED BY <1>7, <2>1, <2>3, <3>5
  <2> QED BY <2>2, <2>3
<1>13. ~AllIssued' => todo'.request <= Count(Specs[todo'.case])
  <2>1. CASE i < Count(v)
    <3>1. todo'.case = n /\ todo'.request = i + 1
      BY <1>8, <2>1
    <3> QED BY <1>1, <1>9, <2>1, <3>1 DEF v
  <2>2. CASE ~(i < Count(v))
    BY <1>8, <2>2, Counts
  <2> QED BY <2>1, <2>2
<1>14. Specs' = Specs /\ Prepared' = Prepared
  BY <1>2, <1>5
<1> QED BY <1>7, <1>10, <1>11, <1>12, <1>13, <1>14 DEF IssuedSoFar

\* Steps of prepare leave the finalizers and the answers alone.
LEMMA PreparingStep ==
  ASSUME CInv, UNCHANGED <<consumed, mode, delivery, bundle, pc, caseNo, count, barrier, slot>>,
         issued' \in [RunIds -> Variants \cup {None}],
         prep' \in {"new", "cases", "prepared", "failed"},
         todo' \in [case : Nat \ {0}, request : Nat \ {0}],
         IssuedSoFar', FilesInOrder'
  PROVE  CInv'
<1>1. ControlType'
  BY DEF CInv, ControlType
<1>2. Validated'
  BY ValidatedFrame DEF CInv
<1>3. ThreadsInOrder'
  BY ThreadsFrame DEF CInv
<1> QED BY <1>1, <1>2, <1>3 DEF CInv

LEMMA PrepareKeeps ==
  ASSUME CInv, PrepareGrants \/ PrepareCase \/ WriteState \/ WritePayload \/ PrepareFails
  PROVE  CInv'
<1> USE DEF CInv
<1>1. UNCHANGED <<consumed, mode, delivery, bundle, pc, caseNo, count, barrier, slot>>
  BY DEF PrepareGrants, PrepareCase, WriteState, WritePayload, PrepareFails, Store!Issue,
         store, arriving, final
<1>2. AllIssued' = AllIssued \/ PrepareCase
  BY DEF PrepareGrants, WriteState, WritePayload, PrepareFails, AllIssued, Specs
<1>3. CASE PrepareCase
  <2>1. /\ IssuedSoFar' /\ issued' \in [RunIds -> Variants \cup {None}]
        /\ todo' \in [case : Nat \ {0}, request : Nat \ {0}]
    BY <1>3, IssueStep
  <2>2. prep = "cases" /\ prep' = prep /\ UNCHANGED <<stateFile, payloadFile>>
    BY <1>3 DEF PrepareCase
  <2>3. FilesInOrder'
    BY <2>2 DEF FilesInOrder
  <2> QED BY <1>1, <2>1, <2>2, <2>3, PreparingStep
<1>4. CASE ~PrepareCase
  <2>1. UNCHANGED <<issued, todo>>
    BY <1>4 DEF PrepareGrants, WriteState, WritePayload, PrepareFails, store
  <2>2. IssuedSoFar'
    BY <1>1, <2>1 DEF IssuedSoFar, AllIssued, Specs, Prepared
  <2>3. issued' \in [RunIds -> Variants \cup {None}]
        /\ todo' \in [case : Nat \ {0}, request : Nat \ {0}]
    BY <2>1 DEF ControlType
  <2>4. AllIssued' = AllIssued /\ mode' = mode
    BY <1>1, <2>1 DEF AllIssued, Specs
  <2>5. prep' \in {"new", "cases", "prepared", "failed"} /\ FilesInOrder'
    <3>1. CASE PrepareGrants
      BY <2>4, <3>1 DEF PrepareGrants, FilesInOrder
    <3>2. CASE WriteState
      BY <2>4, <3>2 DEF WriteState, FilesInOrder
    <3>3. CASE WritePayload
      BY <2>4, <3>3 DEF WritePayload, FilesInOrder
    <3>4. CASE PrepareFails
      <4>1. prep' = "failed"
        BY <3>4 DEF PrepareFails
      <4>2. CASE prep = "prepared"
        BY <2>4, <3>4, <4>1, <4>2 DEF PrepareFails, FilesInOrder
      <4>3. CASE prep # "prepared"
        BY <2>4, <3>4, <4>1, <4>3 DEF PrepareFails, FilesInOrder
      <4> QED BY <4>2, <4>3
    <3> QED BY <1>4, <3>1, <3>2, <3>3, <3>4
  <2> QED BY <1>1, <2>2, <2>3, <2>5, PreparingStep
<1> QED BY <1>3, <1>4

LEMMA AnswersKeep ==
  ASSUME CInv, \/ ProviderJob \/ Gather
               \/ \E r \in RunIds : \/ Submit(r) \/ WorkerAnswers(r) \/ WorkerFails(r)
                                    \/ DeadlineExpires(r) \/ LateAnswer(r)
  PROVE  CInv'
<1> USE DEF CInv
<1>1. UNCHANGED <<issued, consumed, mode, prep, todo, stateFile, payloadFile, pc, caseNo, count,
                  barrier, slot>>
  BY DEF ProviderJob, Gather, Submit, WorkerAnswers, WorkerFails, DeadlineExpires, LateAnswer,
         Deliver, store, preparing, final
<1>2. IssuedSoFar' /\ FilesInOrder'
  BY <1>1, PreparingFrame
<1>3. ThreadsInOrder'
  BY <1>1, ThreadsFrame
<1>4. CASE ProviderJob \/ Gather
  <2>1. bundle = None /\ delivery' = delivery
    BY <1>4 DEF ProviderJob, Gather
  <2>2. consumed = {} /\ \A f \in Finalizers : pc[f] = "idle"
    BY <2>1 DEF Validated
  <2>3. mode # "live" => \A r \in Runs(mode) : delivery[r] = "answered"
    BY <1>4 DEF ProviderJob, Gather, FilesInOrder
  <2>4. Validated'
    BY <1>1, <2>1, <2>2, <2>3 DEF Validated
  <2>5. ControlType'
    BY <1>1, <2>1 DEF ControlType
  <2> QED BY <1>2, <1>3, <2>4, <2>5
<1>5. ASSUME NEW r \in RunIds, \/ Submit(r) \/ WorkerAnswers(r) \/ WorkerFails(r)
                               \/ DeadlineExpires(r) \/ LateAnswer(r)
      PROVE  CInv'
  <2>1. PICK to \in {"sent", "answered", "failed", "expired", "late"} :
          delivery' = [delivery EXCEPT ![r] = to]
    BY <1>5 DEF Submit, WorkerAnswers, WorkerFails, DeadlineExpires, LateAnswer, Deliver
  <2>2. mode # "live" /\ delivery[r] # "answered" /\ bundle' = bundle /\ r \in Runs(mode)
    BY <1>5 DEF Submit, WorkerAnswers, WorkerFails, DeadlineExpires, LateAnswer, Deliver
  <2>3. bundle = None
    BY <2>2 DEF Validated
  <2>4. Validated'
    BY <1>1, <2>2, <2>3 DEF Validated
  <2>5. delivery' \in [RunIds -> {"unsent", "sent", "answered", "failed", "expired", "late"}]
    BY <2>1 DEF ControlType
  <2>6. ControlType'
    BY <1>1, <2>5 DEF ControlType
  <2> QED BY <1>2, <1>3, <2>4, <2>6
<1> QED BY <1>4, <1>5

(***************************************************************************)
(* The finalizers                                                          *)
(***************************************************************************)

\* A step of one finalizer, in terms of where it goes and what its slots do
LEMMA FinalizerStep ==
  ASSUME CInv, NEW f \in Finalizers,
         UNCHANGED <<issued, mode, prep, todo, stateFile, payloadFile, delivery, bundle>>,
         consumed' = consumed \/ pc[f] \in AtWork,
         NEW step \in Steps, pc' = [pc EXCEPT ![f] = step],
         \/ step = pc[f]
         \/ /\ bundle # None
            /\ step \notin {"idle", "validate", "failed"} => BundleAccepted(Specs, bundle),
         caseNo' \in [Finalizers -> Nat], count' \in [Finalizers -> Nat],
         barrier' \in [Finalizers -> {"open", "tripped", "broken"}],
         slot' \in [Finalizers -> [1 .. Concurrency -> SlotStates]],
         \A g \in Finalizers \ {f} :
           slot'[g] = slot[g] /\ barrier'[g] = barrier[g] /\ caseNo'[g] = caseNo[g],
         QuietOutside(f)', BeforeTheBarrier(f)'
  PROVE  CInv'
<1> USE DEF CInv
<1>1. pc' \in [Finalizers -> Steps] /\ pc'[f] = step /\ \A g \in Finalizers \ {f} : pc'[g] = pc[g]
  BY DEF ControlType
<1>2. ControlType'
  BY <1>1 DEF ControlType
<1>3. IssuedSoFar' /\ FilesInOrder'
  BY PreparingFrame
<1>4. Validated'
  <2>1. pc[f] \in AtWork => bundle # None /\ BundleAccepted(Specs, bundle)
    BY DEF Validated, AtWork
  <2>2. \A g \in Finalizers :
          \/ pc'[g] = pc[g]
          \/ /\ bundle # None
             /\ pc'[g] \notin {"idle", "validate", "failed"} => BundleAccepted(Specs, bundle)
    BY <1>1
  <2> QED BY <2>1, <2>2, ValidatedFrame
<1>5. Only(f)
  BY <1>1 DEF Only
<1>6. ThreadsInOrder'
  BY <1>5, ThreadsOfOne
<1> QED BY <1>2, <1>3, <1>4, <1>6

\* A step that moves the main thread only
LEMMA MainMoves ==
  ASSUME CInv, NEW f \in Finalizers,
         UNCHANGED <<issued, consumed, mode, prep, todo, stateFile, payloadFile, delivery, bundle,
                     count, barrier, slot>>,
         NEW step \in Steps, Goto(f, step),
         \/ step = pc[f]
         \/ /\ bundle # None
            /\ step \notin {"idle", "validate", "failed"} => BundleAccepted(Specs, bundle),
         caseNo' \in [Finalizers -> Nat],
         \A g \in Finalizers \ {f} : caseNo'[g] = caseNo[g],
         step \in AtWork => caseNo' = caseNo,
         step \notin AtWork => \A i \in 1 .. Concurrency : slot[f][i].at \in Quiet,
         step \notin {"spawn", "redeem"},
         step = "barrier" => pc[f] \in {"spawn", "barrier"},
         barrier[f] = "broken" => step \in {"barrier", "unwind", "failed"}
  PROVE  CInv'
<1> USE DEF CInv
<1>1. pc'[f] = step /\ slot' = slot /\ barrier' = barrier /\ pc' = [pc EXCEPT ![f] = step]
  BY DEF ControlType, Goto
<1>2. QuietOutside(f)'
  <2>1. step \in AtWork => Slots(f)' = Slots(f)
    BY DEF Slots, Variant, Specs
  <2>2. QuietOutside(f)
    BY DEF ThreadsInOrder
  <2> QED BY <1>1, <2>1, <2>2 DEF QuietOutside
<1>3. BeforeTheBarrier(f)'
  <2>1. BeforeTheBarrier(f)
    BY DEF ThreadsInOrder
  <2> QED BY <1>1, <2>1 DEF BeforeTheBarrier
<1>4. count' \in [Finalizers -> Nat]
      /\ barrier' \in [Finalizers -> {"open", "tripped", "broken"}]
      /\ slot' \in [Finalizers -> [1 .. Concurrency -> SlotStates]]
  BY DEF ControlType
<1> QED BY <1>1, <1>2, <1>3, <1>4, FinalizerStep

\* A step of a slot that has got past the barrier, or past none
LEMMA SlotMoves ==
  ASSUME CInv, NEW f \in Finalizers, NEW i \in 1 .. Concurrency, NEW s \in SlotStates,
         SetSlot(f, i, s),
         slot[f][i].at \in {"redeem", "spent", "answer"},
         s.at \in {"redeem", "spent", "answer", "answered", "raised"},
         UNCHANGED <<issued, mode, prep, todo, stateFile, payloadFile, delivery, bundle,
                     pc, caseNo, barrier>>,
         count' \in [Finalizers -> Nat]
  PROVE  CInv'
<1> USE DEF CInv
<1>1. /\ slot' \in [Finalizers -> [1 .. Concurrency -> SlotStates]] /\ slot'[f][i] = s
      /\ \A j \in (1 .. Concurrency) \ {i} : slot'[f][j] = slot[f][j]
      /\ \A g \in Finalizers \ {f} : slot'[g] = slot[g]
  BY SlotSet
<1>2. QuietOutside(f) /\ BeforeTheBarrier(f)
  BY DEF ThreadsInOrder
<1>3. slot[f][i].at \notin Quiet /\ slot[f][i].at \notin Racing \cup {"idle", "started", "raised"}
  BY DEF Quiet, Racing
<1>4. pc[f] \in AtWork /\ pc[f] \in Steps /\ i \in Slots(f)
  BY <1>2, <1>3 DEF QuietOutside, ControlType
<1>5. barrier[f] # "broken" /\ (barrier[f] = "open" =>
        /\ pc[f] \notin {"spawn", "barrier"}
        /\ \A j \in 1 .. Concurrency : slot[f][j].at \notin Racing)
  BY <1>2, <1>3 DEF BeforeTheBarrier
<1>6. Slots(f)' = Slots(f)
  BY DEF Slots, Variant, Specs
<1>7. QuietOutside(f)'
  BY <1>1, <1>2, <1>4, <1>6 DEF QuietOutside
<1>8. s.at \notin Racing
  BY DEF Racing
<1>9. BeforeTheBarrier(f)'
  BY <1>1, <1>5, <1>8 DEF BeforeTheBarrier
<1>10. /\ pc' = [pc EXCEPT ![f] = pc[f]]
       /\ caseNo' \in [Finalizers -> Nat] /\ barrier' \in [Finalizers -> {"open", "tripped", "broken"}]
  BY DEF ControlType
<1> QED BY <1>1, <1>4, <1>7, <1>9, <1>10, FinalizerStep

LEMMA MainKeeps ==
  ASSUME CInv, NEW f \in Finalizers,
         \/ Begin(f) \/ Validate(f) \/ SpawnFails(f) \/ RaceFails(f) \/ Unwind(f)
         \/ CheckCase(f) \/ Sign(f) \/ WriteEvidence(f)
  PROVE  CInv'
<1> USE DEF CInv
<1>1. UNCHANGED <<issued, consumed, mode, prep, todo, stateFile, payloadFile, delivery, bundle,
                  count, barrier, slot>>
  BY DEF Begin, Validate, SpawnFails, RaceFails, Unwind, CheckCase, Sign, WriteEvidence,
         store, preparing, arriving
<1>2. /\ QuietOutside(f) /\ BeforeTheBarrier(f)
      /\ pc[f] # "idle" => bundle # None
      /\ pc[f] \notin {"idle", "validate", "failed"} => BundleAccepted(Specs, bundle)
  BY DEF ThreadsInOrder, Validated
<1>3. pc[f] \notin AtWork => \A i \in 1 .. Concurrency : slot[f][i].at \in Quiet
  BY <1>2 DEF QuietOutside
<1>4. barrier[f] = "broken" => pc[f] \in {"spawn", "barrier", "unwind", "failed"}
  BY <1>2 DEF BeforeTheBarrier
<1>5. /\ caseNo' \in [Finalizers -> Nat]
      /\ \A g \in Finalizers \ {f} : caseNo'[g] = caseNo[g]
  <2>1. caseNo' = caseNo \/ caseNo' = [caseNo EXCEPT ![f] = @ + 1]
                         \/ caseNo' = [caseNo EXCEPT ![f] = @]
    BY DEF Begin, Validate, SpawnFails, RaceFails, Unwind, CheckCase, Sign, WriteEvidence
  <2>2. caseNo \in [Finalizers -> Nat]
    BY DEF ControlType
  <2> QED BY <2>1, <2>2
<1> USE DEF Steps, Ended, AtWork
<1>6. CASE Begin(f)
  <2>1. PICK step \in {"validate", "failed"} : Goto(f, step)
    BY <1>6 DEF Begin
  <2>2. pc[f] = "idle" /\ bundle # None
    BY <1>6 DEF Begin
  <2> QED BY <1>1, <1>3, <1>4, <1>5, <2>1, <2>2, MainMoves
<1>7. CASE Validate(f)
  <2>1. PICK step \in {"case", "failed"} :
          Goto(f, step) /\ (step # "failed" => BundleAccepted(Specs, bundle))
    BY <1>7 DEF Validate
  <2>2. pc[f] = "validate"
    BY <1>7 DEF Validate
  <2> QED BY <1>1, <1>2, <1>3, <1>4, <1>5, <2>1, <2>2, MainMoves
<1>8. CASE SpawnFails(f) \/ RaceFails(f)
  <2>1. Goto(f, "unwind") /\ pc[f] \in {"spawn", "barrier", "redeem"} /\ caseNo' = caseNo
    BY <1>8 DEF SpawnFails, RaceFails
  <2> QED BY <1>1, <1>2, <1>5, <2>1, MainMoves
<1>9. CASE Unwind(f)
  <2>1. /\ Goto(f, "failed") /\ pc[f] = "unwind"
        /\ \A i \in 1 .. Concurrency : slot[f][i].at \in Quiet
    BY <1>9 DEF Unwind, Quiet
  <2> QED BY <1>1, <1>2, <1>5, <2>1, MainMoves
<1>10. CASE CheckCase(f)
  <2>1. PICK step \in {"case", "sign", "done", "failed"} : Goto(f, step)
    BY <1>10 DEF CheckCase
  <2>2. pc[f] = "check"
    BY <1>10 DEF CheckCase
  <2> QED BY <1>1, <1>2, <1>3, <1>4, <1>5, <2>1, <2>2, MainMoves
<1>11. Files \subseteq Steps /\ \A x \in Files : x \notin AtWork \cup Ended \cup {"validate", "case", "check", "sign"}
  BY DEF Files, EvidenceFiles
<1>12. CASE Sign(f)
  <2>1. PICK step \in Files \cup {"failed"} : Goto(f, step)
    <3>1. EvidenceFiles[1] \in Files
      BY DEF Files, EvidenceFiles
    <3> QED BY <1>12, <3>1 DEF Sign
  <2>2. pc[f] = "sign"
    BY <1>12 DEF Sign
  <2> QED BY <1>1, <1>2, <1>3, <1>4, <1>5, <1>11, <2>1, <2>2, MainMoves
<1>13. CASE WriteEvidence(f)
  <2>1. DOMAIN EvidenceFiles = 1 .. 3 /\ Len(EvidenceFiles) = 3
    BY DEF EvidenceFiles
  <2>2. PICK n \in 1 .. 3 :
          /\ pc[f] = EvidenceFiles[n]
          /\ \/ Goto(f, "failed")
             \/ Goto(f, IF n < 3 THEN EvidenceFiles[n + 1] ELSE "done")
    BY <1>13, <2>1 DEF WriteEvidence
  <2>3. pc[f] \in Files /\ (n < 3 => EvidenceFiles[n + 1] \in Files)
    BY <2>1, <2>2 DEF Files
  <2>4. PICK step \in Files \cup {"failed", "done"} : Goto(f, step)
    BY <2>2, <2>3
  <2>5. pc[f] \notin AtWork \cup {"idle", "failed", "validate", "spawn", "barrier", "unwind"}
    BY <1>11, <2>3
  <2> QED BY <1>1, <1>2, <1>3, <1>4, <1>5, <1>11, <2>4, <2>5, MainMoves
<1> QED BY <1>6, <1>7, <1>8, <1>9, <1>10, <1>12, <1>13

\* A redemption, from its first look at the proof to its answer
LEMMA RedemptionKeeps ==
  ASSUME CInv, NEW f \in Finalizers, NEW i \in 1 .. Concurrency,
         \/ RedeemRefused(f, i) \/ RedeemSpends(f, i) \/ RedeemInvokes(f, i)
         \/ RedeemFaults(f, i) \/ RedeemAnswers(f, i) \/ RedeemRaises(f, i)
  PROVE  CInv'
<1> USE DEF CInv
<1>1. UNCHANGED <<issued, mode, prep, todo, stateFile, payloadFile, delivery, bundle,
                  pc, caseNo, barrier>>
  BY DEF RedeemRefused, RedeemSpends, RedeemInvokes, RedeemFaults, RedeemAnswers, RedeemRaises,
         Store!Spend, Store!Invoke, store, preparing, arriving
<1>2. slot[f][i].at \in {"redeem", "spent", "answer"}
  BY DEF RedeemRefused, RedeemSpends, RedeemInvokes, RedeemFaults, RedeemAnswers, RedeemRaises
<1>3. count \in [Finalizers -> Nat] /\ slot[f][i] \in SlotStates
  <2>1. slot[f] \in [1 .. Concurrency -> SlotStates]
    BY DEF ControlType
  <2> QED BY <2>1 DEF ControlType
<1>4. \A why \in SlotReasons : Refused(f, i, why) =>
        \E s \in SlotStates : SetSlot(f, i, s) /\ s.at = "answer"
  BY SlotRefused DEF Refused
<1>5. ASSUME NEW x \in {"spent", "raised"}, SlotGoto(f, i, x)
      PROVE  \E s \in SlotStates : SetSlot(f, i, s) /\ s.at = x
  <2>1. x \in Quiet \cup Racing \cup {"redeem", "spent", "answer"}
    BY DEF Quiet
  <2> DEFINE s == [slot[f][i] EXCEPT !.at = x]
  <2>2. s \in SlotStates /\ s.at = x
    BY <2>1, SlotMoved
  <2>3. SetSlot(f, i, s)
    BY <1>5, Zenon DEF SlotGoto
  <2> QED BY <2>2, <2>3
<1>6. CASE RedeemRefused(f, i) \/ RedeemFaults(f, i)
  <2>1. PICK why \in SlotReasons : Refused(f, i, why)
    <3>1. RedeemRefusal(Run(f, i)) \in SlotReasons /\ "INTERNAL_ERROR" \in SlotReasons
      BY DEF RedeemRefusal, SlotReasons
    <3> QED BY <1>6, <3>1 DEF RedeemRefused, RedeemFaults
  <2>2. consumed' = consumed /\ count' = count
    BY <1>6 DEF RedeemRefused, RedeemFaults, store
  <2> QED BY <1>1, <1>2, <1>3, <1>4, <2>1, <2>2, SlotMoves
<1>7. CASE RedeemSpends(f, i)
  <2>1. count' = count
    BY <1>7 DEF RedeemSpends
  <2>2. PICK s \in SlotStates : SetSlot(f, i, s) /\ s.at \in {"spent", "answer"}
    BY <1>4, <1>5, <1>7 DEF RedeemSpends, SlotReasons
  <2> QED BY <1>1, <1>2, <1>3, <2>1, <2>2, SlotMoves
<1>8. CASE RedeemInvokes(f, i)
  <2>1. PICK s \in SlotStates : SetSlot(f, i, s) /\ s.at = "answer"
    <3> DEFINE n == count[f] + 1
    <3>1. n \in Nat
      BY <1>3
    <3>2. SetSlot(f, i, [slot[f][i] EXCEPT !.at = "answer", !.reason = "ALLOW", !.invocation_id = n])
      BY <1>8, Zenon DEF RedeemInvokes
    <3> DEFINE s == [slot[f][i] EXCEPT !.at = "answer", !.reason = "ALLOW", !.invocation_id = n]
    <3> HIDE DEF n
    <3>3. s \in SlotStates /\ s.at = "answer"
      BY <1>3, <3>1 DEF SlotStates, SlotReasons
    <3> QED BY <3>2, <3>3
  <2>2. consumed' = consumed /\ count' \in [Finalizers -> Nat]
    BY <1>3, <1>8 DEF RedeemInvokes, Store!Invoke
  <2> QED BY <1>1, <1>2, <1>3, <2>1, <2>2, SlotMoves
<1>9. CASE RedeemAnswers(f, i)
  <2>1. PICK s \in SlotStates : SetSlot(f, i, s) /\ s.at = "answered"
    <3>1. PICK t \in Times :
            SetSlot(f, i, [slot[f][i] EXCEPT !.at = "answered", !.snapshot = count[f],
                                             !.decided_at = t])
      BY <1>9, Zenon DEF RedeemAnswers
    <3>2. count[f] \in Nat /\ t \in Nat
      BY <1>3, ClockAssumption
    <3> DEFINE s == [slot[f][i] EXCEPT !.at = "answered", !.snapshot = count[f], !.decided_at = t]
    <3>3. s \in SlotStates /\ s.at = "answered"
      BY <1>3, <3>2 DEF SlotStates, Quiet
    <3> QED BY <3>1, <3>3
  <2>2. consumed' = consumed /\ count' = count
    BY <1>9 DEF RedeemAnswers, store
  <2> QED BY <1>1, <1>2, <1>3, <2>1, <2>2, SlotMoves
<1>10. CASE RedeemRaises(f, i)
  <2>1. PICK s \in SlotStates : SetSlot(f, i, s) /\ s.at = "raised"
    BY <1>5, <1>10 DEF RedeemRaises
  <2>2. consumed' = consumed /\ count' = count
    BY <1>10 DEF RedeemRaises, store
  <2> QED BY <1>1, <1>2, <1>3, <2>1, <2>2, SlotMoves
<1> QED BY <1>6, <1>7, <1>8, <1>9, <1>10

LEMMA StartCaseKeeps ==
  ASSUME CInv, NEW f \in Finalizers, StartCase(f)
  PROVE  CInv'
<1> USE DEF CInv
<1>1. UNCHANGED <<issued, consumed, mode, prep, todo, stateFile, payloadFile, delivery, bundle,
                  caseNo, count, barrier>>
  BY DEF StartCase, store, preparing, arriving
<1>2. /\ pc[f] = "case" /\ BundleAccepted(Specs, bundle) /\ bundle # None
      /\ barrier[f] # "broken"
  BY DEF StartCase, Validated, ThreadsInOrder, BeforeTheBarrier
<1> DEFINE step == IF Variant(f) = "concurrent" THEN "spawn" ELSE "redeem"
           ss == [i \in 1 .. Concurrency |->
                    IF i = 1 /\ Variant(f) # "concurrent" THEN RedeemingSlot ELSE IdleSlot]
<1>3. pc' = [pc EXCEPT ![f] = step] /\ slot' = [slot EXCEPT ![f] = ss] /\ pc'[f] = step
  BY DEF StartCase, Goto, ControlType
<1>4. /\ RedeemingSlot \in SlotStates /\ IdleSlot \in SlotStates
      /\ RedeemingSlot.at = "redeem" /\ IdleSlot.at = "idle"
  BY DEF RedeemingSlot, IdleSlot, SlotStates, SlotReasons, Quiet
<1>5. ss \in [1 .. Concurrency -> SlotStates]
  BY <1>4
<1>6. /\ slot' \in [Finalizers -> [1 .. Concurrency -> SlotStates]] /\ slot'[f] = ss
      /\ \A g \in Finalizers \ {f} : slot'[g] = slot[g]
  BY <1>3, <1>5 DEF ControlType
<1>7. Slots(f)' = Slots(f) /\ 1 \in Slots(f)
  BY <1>1, Counts DEF Slots, Variant, Specs
<1>8. \A i \in 1 .. Concurrency :
        /\ slot'[f][i].at \in {"idle", "redeem"}
        /\ (Variant(f) = "concurrent" \/ i # 1) => slot'[f][i].at = "idle"
  BY <1>4, <1>6
<1>9. QuietOutside(f)'
  BY <1>3, <1>7, <1>8 DEF QuietOutside, Quiet, AtWork
<1>10. BeforeTheBarrier(f)'
  BY <1>1, <1>2, <1>3, <1>8 DEF BeforeTheBarrier, Racing
<1>11. step \in Steps
  BY DEF Steps, AtWork
<1>12. /\ caseNo' \in [Finalizers -> Nat] /\ count' \in [Finalizers -> Nat]
       /\ barrier' \in [Finalizers -> {"open", "tripped", "broken"}]
  BY <1>1 DEF ControlType
<1> QED BY <1>1, <1>2, <1>3, <1>6, <1>9, <1>10, <1>11, <1>12, FinalizerStep

\* A thread is started, or comes to the barrier.
LEMMA RacerKeeps ==
  ASSUME CInv, NEW f \in Finalizers, NEW i \in 1 .. Concurrency,
         NEW x \in Racing \cup {"raised"}, SlotGoto(f, i, x),
         slot[f][i].at \in {"idle", "started"},
         slot[f][i].at = "idle" => pc[f] = "spawn" /\ i \in Slots(f),
         x = "waiting" => barrier[f] # "broken",
         x = "raised" => barrier[f] = "broken",
         UNCHANGED <<issued, consumed, mode, prep, todo, stateFile, payloadFile, delivery, bundle,
                     pc, caseNo, count, barrier>>
  PROVE  CInv'
<1> USE DEF CInv
<1> DEFINE s == [slot[f][i] EXCEPT !.at = x]
<1>1. s \in SlotStates /\ s.at = x
  <2>1. x \in Quiet \cup Racing \cup {"redeem", "spent", "answer"}
    BY DEF Quiet
  <2> QED BY <2>1, SlotMoved
<1>2. SetSlot(f, i, s)
  BY Zenon DEF SlotGoto
<1> HIDE DEF s
<1>3. /\ slot' \in [Finalizers -> [1 .. Concurrency -> SlotStates]] /\ slot'[f][i] = s
      /\ \A j \in (1 .. Concurrency) \ {i} : slot'[f][j] = slot[f][j]
      /\ \A g \in Finalizers \ {f} : slot'[g] = slot[g]
  BY <1>1, <1>2, SlotSet
<1>4. QuietOutside(f) /\ BeforeTheBarrier(f)
  BY DEF ThreadsInOrder
<1>5. pc[f] \in AtWork /\ pc[f] \in Steps /\ i \in Slots(f)
  BY <1>4 DEF QuietOutside, ControlType, Quiet, AtWork
<1>6. Slots(f)' = Slots(f)
  BY DEF Slots, Variant, Specs
<1>7. QuietOutside(f)'
  BY <1>1, <1>3, <1>4, <1>5, <1>6 DEF QuietOutside
<1>8. BeforeTheBarrier(f)'
  <2>1. CASE barrier[f] = "open"
    <3>1. pc[f] # "redeem" /\ \A j \in 1 .. Concurrency : slot[f][j].at \in {"idle"} \cup Racing
      BY <1>4, <2>1 DEF BeforeTheBarrier, Racing
    <3>2. x \in Racing
      BY <2>1
    <3> QED BY <1>1, <1>3, <2>1, <3>1, <3>2 DEF BeforeTheBarrier
  <2>2. CASE barrier[f] = "broken"
    <3>1. x \in {"started", "raised"}
      BY <2>2 DEF Racing
    <3> QED BY <1>1, <1>3, <1>4, <2>2, <3>1 DEF BeforeTheBarrier
  <2>3. CASE barrier[f] \notin {"open", "broken"}
    BY <2>3 DEF BeforeTheBarrier
  <2> QED BY <2>1, <2>2, <2>3
<1>9. /\ pc' = [pc EXCEPT ![f] = pc[f]]
      /\ caseNo' \in [Finalizers -> Nat] /\ count' \in [Finalizers -> Nat]
      /\ barrier' \in [Finalizers -> {"open", "tripped", "broken"}]
  BY DEF ControlType
<1> QED BY <1>3, <1>5, <1>7, <1>8, <1>9, FinalizerStep

LEMMA ArriveKeeps ==
  ASSUME CInv, NEW f \in Finalizers, NEW i \in 1 .. Concurrency, Arrive(f, i)
  PROVE  CInv'
<1> DEFINE x == IF barrier[f] = "broken" THEN "raised" ELSE "waiting"
<1>1. /\ SlotGoto(f, i, x) /\ slot[f][i].at = "started"
      /\ UNCHANGED <<issued, consumed, mode, prep, todo, stateFile, payloadFile, delivery, bundle,
                     pc, caseNo, count, barrier>>
  BY DEF Arrive, store, preparing, arriving
<1>2. x \in Racing \cup {"raised"}
  BY DEF Racing
<1> QED BY <1>1, <1>2, RacerKeeps

LEMMA SpawnKeeps ==
  ASSUME CInv, NEW f \in Finalizers, Spawn(f)
  PROVE  CInv'
<1> USE DEF CInv
<1> DEFINE fresh == {i \in Slots(f) : slot[f][i].at = "idle"}
<1>1. /\ pc[f] = "spawn"
      /\ UNCHANGED <<issued, consumed, mode, prep, todo, stateFile, payloadFile, delivery, bundle,
                     caseNo, count, barrier>>
  BY DEF Spawn, store, preparing, arriving
<1>2. CASE fresh = {}
  <2>1. Goto(f, "barrier") /\ slot' = slot
    BY <1>2 DEF Spawn
  <2>2. bundle # None /\ BundleAccepted(Specs, bundle)
    BY <1>1 DEF Validated
  <2>3. caseNo' \in [Finalizers -> Nat] /\ \A g \in Finalizers \ {f} : caseNo'[g] = caseNo[g]
    BY <1>1 DEF ControlType
  <2>4. "barrier" \in Steps /\ "barrier" \in AtWork
    BY DEF Steps, AtWork
  <2> QED BY <1>1, <2>1, <2>2, <2>3, <2>4, MainMoves
<1>3. CASE fresh # {}
  <2>1. SlotGoto(f, Min(fresh), "started") /\ pc' = pc
    BY <1>3 DEF Spawn
  <2>2. Min(fresh) \in fresh
    <3>1. fresh \in SUBSET Nat
      BY DEF Slots
    <3> QED BY <1>3, <3>1, MinIsMember
  <2>3. /\ Min(fresh) \in 1 .. Concurrency /\ Min(fresh) \in Slots(f)
        /\ slot[f][Min(fresh)].at = "idle"
    BY <2>2, Counts, ConcurrencyAssumption DEF Slots
  <2>4. "started" \in Racing
    BY DEF Racing
  <2> HIDE DEF fresh
  <2> QED BY <1>1, <2>1, <2>3, <2>4, RacerKeeps
<1> QED BY <1>2, <1>3

LEMMA BarrierTripsKeeps ==
  ASSUME CInv, NEW f \in Finalizers, BarrierTrips(f)
  PROVE  CInv'
<1> USE DEF CInv
<1>1. UNCHANGED <<issued, consumed, mode, prep, todo, stateFile, payloadFile, delivery, bundle,
                  caseNo, count>>
  BY DEF BarrierTrips, store, preparing, arriving
<1>2. pc[f] = "barrier" /\ BundleAccepted(Specs, bundle) /\ bundle # None
  BY DEF BarrierTrips, Validated
<1> DEFINE ss == [i \in 1 .. Concurrency |-> IF i \in Slots(f) THEN RedeemingSlot ELSE IdleSlot]
<1>3. /\ pc' = [pc EXCEPT ![f] = "redeem"] /\ slot' = [slot EXCEPT ![f] = ss] /\ pc'[f] = "redeem"
      /\ barrier' = [barrier EXCEPT ![f] = "tripped"] /\ barrier'[f] = "tripped"
  BY DEF BarrierTrips, Goto, ControlType
<1>4. RedeemingSlot \in SlotStates /\ IdleSlot \in SlotStates /\ IdleSlot.at = "idle"
  BY DEF RedeemingSlot, IdleSlot, SlotStates, SlotReasons, Quiet
<1>5. ss \in [1 .. Concurrency -> SlotStates]
  BY <1>4
<1>6. /\ slot' \in [Finalizers -> [1 .. Concurrency -> SlotStates]] /\ slot'[f] = ss
      /\ \A g \in Finalizers \ {f} : slot'[g] = slot[g]
  BY <1>3, <1>5 DEF ControlType
<1>7. Slots(f)' = Slots(f)
  BY <1>1 DEF Slots, Variant, Specs
<1>8. \A i \in (1 .. Concurrency) \ Slots(f) : slot'[f][i].at = "idle"
  BY <1>4, <1>6
<1>9. QuietOutside(f)'
  BY <1>3, <1>7, <1>8 DEF QuietOutside, Quiet, AtWork
<1>10. BeforeTheBarrier(f)'
  BY <1>3 DEF BeforeTheBarrier
<1>11. "redeem" \in Steps
  BY DEF Steps, AtWork
<1>12. /\ caseNo' \in [Finalizers -> Nat] /\ count' \in [Finalizers -> Nat]
       /\ barrier' \in [Finalizers -> {"open", "tripped", "broken"}]
       /\ \A g \in Finalizers \ {f} : barrier'[g] = barrier[g]
  BY <1>1, <1>3 DEF ControlType
<1> QED BY <1>1, <1>2, <1>3, <1>6, <1>9, <1>10, <1>11, <1>12, FinalizerStep

LEMMA BarrierBreaksKeeps ==
  ASSUME CInv, NEW f \in Finalizers, BarrierBreaks(f)
  PROVE  CInv'
<1> USE DEF CInv
<1>1. UNCHANGED <<issued, consumed, mode, prep, todo, stateFile, payloadFile, delivery, bundle,
                  caseNo, count>>
  BY DEF BarrierBreaks, store, preparing, arriving
<1>2. QuietOutside(f) /\ BeforeTheBarrier(f)
  BY DEF ThreadsInOrder
<1>3. /\ pc[f] # "redeem" /\ pc[f] \in AtWork
      /\ \A i \in 1 .. Concurrency : slot[f][i].at \in {"idle", "started", "waiting"}
  <2>1. CASE pc[f] = "barrier"
    BY <1>2, <2>1 DEF BarrierBreaks, BeforeTheBarrier, Racing, AtWork
  <2>2. CASE pc[f] # "barrier"
    <3>1. PICK i \in 1 .. Concurrency : slot[f][i].at = "waiting"
      BY <2>2 DEF BarrierBreaks
    <3>2. slot[f][i].at \in Racing /\ slot[f][i].at \notin Quiet
      BY <3>1 DEF Racing, Quiet
    <3>3. barrier[f] = "open"
      BY DEF BarrierBreaks
    <3>4. pc[f] # "redeem" /\ \A j \in 1 .. Concurrency : slot[f][j].at \in {"idle"} \cup Racing
      BY <1>2, <3>2, <3>3 DEF BeforeTheBarrier
    <3>5. pc[f] \in AtWork
      BY <1>2, <3>2 DEF QuietOutside
    <3> QED BY <3>4, <3>5 DEF Racing
  <2> QED BY <2>1, <2>2
<1>4. bundle # None /\ BundleAccepted(Specs, bundle)
  BY <1>3 DEF Validated, AtWork
<1> DEFINE step == IF pc[f] = "barrier" THEN "unwind" ELSE pc[f]
           ss == [i \in 1 .. Concurrency |->
                    IF slot[f][i].at = "waiting" THEN [slot[f][i] EXCEPT !.at = "raised"]
                    ELSE slot[f][i]]
<1>5. /\ pc' = [pc EXCEPT ![f] = step] /\ pc'[f] = step
      /\ step \in {"spawn", "unwind"} /\ step \in Steps
  <2>1. pc[f] \in {"spawn", "barrier", "unwind"}
    BY <1>3 DEF AtWork
  <2> QED BY <2>1 DEF BarrierBreaks, Goto, ControlType, Steps, AtWork
<1>6. /\ slot' = [slot EXCEPT ![f] = ss]
      /\ barrier' = [barrier EXCEPT ![f] = "broken"] /\ barrier'[f] = "broken"
  BY DEF BarrierBreaks, ControlType
<1>7. ASSUME NEW i \in 1 .. Concurrency
      PROVE  ss[i] \in SlotStates /\ ss[i].at \in {"idle", "started", "raised"}
  <2>1. "raised" \in Quiet \cup Racing \cup {"redeem", "spent", "answer"}
    BY DEF Quiet
  <2>2. /\ [slot[f][i] EXCEPT !.at = "raised"] \in SlotStates
        /\ [slot[f][i] EXCEPT !.at = "raised"].at = "raised"
    BY <2>1, SlotMoved
  <2>3. slot[f][i] \in SlotStates
    BY DEF ControlType
  <2> QED BY <1>3, <2>2, <2>3
<1>8. ss \in [1 .. Concurrency -> SlotStates]
  BY <1>7
<1>9. /\ slot' \in [Finalizers -> [1 .. Concurrency -> SlotStates]] /\ slot'[f] = ss
      /\ \A g \in Finalizers \ {f} : slot'[g] = slot[g]
  BY <1>6, <1>8 DEF ControlType
<1> HIDE DEF ss, step
<1>10. QuietOutside(f)'
  <2>1. Slots(f)' = Slots(f)
    BY <1>1 DEF Slots, Variant, Specs
  <2>2. \A i \in (1 .. Concurrency) \ Slots(f) : slot'[f][i] = slot[f][i] /\ slot[f][i].at \in Quiet
    BY <1>2, <1>9 DEF QuietOutside, Quiet, ss
  <2> QED BY <1>5, <2>1, <2>2 DEF QuietOutside, AtWork
<1>11. BeforeTheBarrier(f)'
  BY <1>5, <1>6, <1>7, <1>9 DEF BeforeTheBarrier
<1>12. /\ caseNo' \in [Finalizers -> Nat] /\ count' \in [Finalizers -> Nat]
       /\ barrier' \in [Finalizers -> {"open", "tripped", "broken"}]
       /\ \A g \in Finalizers \ {f} : barrier'[g] = barrier[g]
  BY <1>1, <1>6 DEF ControlType
<1> QED BY <1>1, <1>4, <1>5, <1>9, <1>10, <1>11, <1>12, FinalizerStep

LEMMA ObserveKeeps ==
  ASSUME CInv, NEW f \in Finalizers, Observe(f)
  PROVE  CInv'
<1> USE DEF CInv
<1>1. /\ pc[f] = "redeem" /\ \A i \in Slots(f) : slot[f][i].at = "answered"
      /\ UNCHANGED <<issued, consumed, mode, prep, todo, stateFile, payloadFile, delivery, bundle,
                     caseNo, count, barrier>>
  BY DEF Observe, store, preparing, arriving
<1>2. QuietOutside(f) /\ BeforeTheBarrier(f) /\ BundleAccepted(Specs, bundle) /\ bundle # None
  BY <1>1 DEF ThreadsInOrder, Validated
<1>3. \A i \in 1 .. Concurrency : slot[f][i].at \in Quiet
  BY <1>1, <1>2 DEF QuietOutside, Quiet
<1>4. barrier[f] # "broken"
  BY <1>1, <1>2 DEF BeforeTheBarrier
<1>5. /\ caseNo' \in [Finalizers -> Nat] /\ count' \in [Finalizers -> Nat]
      /\ barrier' \in [Finalizers -> {"open", "tripped", "broken"}]
      /\ \A g \in Finalizers \ {f} : caseNo'[g] = caseNo[g]
  BY <1>1 DEF ControlType
<1>6. CASE Goto(f, "check") /\ slot' = slot
  <2>1. "check" \in Steps
    BY DEF Steps
  <2> QED BY <1>1, <1>2, <1>3, <1>4, <1>5, <1>6, <2>1, MainMoves
<1>7. CASE SetSlot(f, 1, RedeemingSlot) /\ pc' = pc
  <2>1. RedeemingSlot \in SlotStates /\ RedeemingSlot.at = "redeem" /\ "redeem" \notin Racing
    BY DEF RedeemingSlot, IdleSlot, SlotStates, SlotReasons, Quiet, Racing
  <2>2. 1 \in 1 .. Concurrency /\ 1 \in Slots(f)
    BY Counts, ConcurrencyAssumption DEF Slots
  <2>3. /\ slot' \in [Finalizers -> [1 .. Concurrency -> SlotStates]]
        /\ slot'[f][1] = RedeemingSlot
        /\ \A j \in (1 .. Concurrency) \ {1} : slot'[f][j] = slot[f][j]
        /\ \A g \in Finalizers \ {f} : slot'[g] = slot[g]
    BY <1>7, <2>1, <2>2, SlotSet
  <2>4. Slots(f)' = Slots(f) /\ pc' = [pc EXCEPT ![f] = pc[f]] /\ pc[f] \in Steps
    BY <1>1, <1>7 DEF Slots, Variant, Specs, ControlType
  <2>5. QuietOutside(f)'
    BY <1>1, <1>3, <1>7, <2>2, <2>3, <2>4 DEF QuietOutside, AtWork
  <2>6. \A j \in 1 .. Concurrency : slot'[f][j].at \notin Racing
    BY <1>3, <2>1, <2>3 DEF Quiet, Racing
  <2>7. BeforeTheBarrier(f)'
    BY <1>1, <1>4, <1>7, <2>6 DEF BeforeTheBarrier
  <2> QED BY <1>1, <1>2, <1>5, <2>3, <2>4, <2>5, <2>7, FinalizerStep
<1> QED BY <1>6, <1>7 DEF Observe

LEMMA StopsKeeps ==
  ASSUME CInv, NEW f \in Finalizers, Stops(f)
  PROVE  CInv'
<1> USE DEF CInv
<1>1. UNCHANGED <<issued, consumed, mode, prep, todo, stateFile, payloadFile, delivery, bundle,
                  caseNo, count, barrier>>
  BY DEF Stops, store, preparing, arriving
<1>2. pc[f] # "idle" /\ bundle # None
  BY DEF Stops, Running, Ended, Validated
<1> DEFINE ss == [i \in 1 .. Concurrency |-> IdleSlot]
<1>3. pc' = [pc EXCEPT ![f] = "failed"] /\ pc'[f] = "failed" /\ slot' = [slot EXCEPT ![f] = ss]
  BY DEF Stops, Goto, ControlType
<1>4. IdleSlot \in SlotStates /\ IdleSlot.at = "idle"
  BY DEF IdleSlot, SlotStates, SlotReasons, Quiet
<1>5. ss \in [1 .. Concurrency -> SlotStates]
  BY <1>4
<1>6. /\ slot' \in [Finalizers -> [1 .. Concurrency -> SlotStates]] /\ slot'[f] = ss
      /\ \A g \in Finalizers \ {f} : slot'[g] = slot[g]
  BY <1>3, <1>5 DEF ControlType
<1>7. \A i \in 1 .. Concurrency : slot'[f][i].at = "idle"
  BY <1>4, <1>6
<1>8. QuietOutside(f)' /\ BeforeTheBarrier(f)'
  BY <1>3, <1>7 DEF QuietOutside, BeforeTheBarrier, Quiet, Racing
<1>9. "failed" \in Steps
  BY DEF Steps, Ended
<1>10. /\ caseNo' \in [Finalizers -> Nat] /\ count' \in [Finalizers -> Nat]
       /\ barrier' \in [Finalizers -> {"open", "tripped", "broken"}]
       /\ \A g \in Finalizers \ {f} : barrier'[g] = barrier[g] /\ caseNo'[g] = caseNo[g]
  BY <1>1 DEF ControlType
<1> QED BY <1>1, <1>2, <1>3, <1>6, <1>8, <1>9, <1>10, FinalizerStep

(***************************************************************************)
(* Every step keeps the invariant                                          *)
(***************************************************************************)

LEMMA NextCInv == CInv /\ [Next]_vars => CInv'
<1> SUFFICES ASSUME CInv, [Next]_vars PROVE CInv'
  OBVIOUS
<1>1. CASE PrepareGrants \/ PrepareCase \/ WriteState \/ WritePayload \/ PrepareFails
  BY <1>1, PrepareKeeps
<1>2. CASE \/ ProviderJob \/ Gather
           \/ \E r \in RunIds : \/ Submit(r) \/ WorkerAnswers(r) \/ WorkerFails(r)
                                \/ DeadlineExpires(r) \/ LateAnswer(r)
  BY <1>2, AnswersKeep
<1>3. ASSUME NEW f \in Finalizers, Begin(f) \/ MainStep(f) \/ SpawnFails(f) \/ Stops(f)
      PROVE  CInv'
  BY <1>3, MainKeeps, StartCaseKeeps, SpawnKeeps, BarrierTripsKeeps, BarrierBreaksKeeps,
     ObserveKeeps, StopsKeeps DEF MainStep
<1>4. ASSUME NEW f \in Finalizers, NEW i \in 1 .. Concurrency,
             SlotStep(f, i) \/ RedeemFaults(f, i) \/ RedeemRaises(f, i)
      PROVE  CInv'
  BY <1>4, ArriveKeeps, RedemptionKeeps DEF SlotStep
<1>5. CASE UNCHANGED vars
  <2>1. UNCHANGED <<issued, consumed, mode, prep, todo, stateFile, payloadFile, delivery, bundle,
                    pc, caseNo, count, barrier, slot>>
    BY <1>5 DEF vars, store, preparing, arriving, final
  <2>2. IssuedSoFar' /\ FilesInOrder' /\ issued' \in [RunIds -> Variants \cup {None}]
        /\ prep' \in {"new", "cases", "prepared", "failed"}
        /\ todo' \in [case : Nat \ {0}, request : Nat \ {0}]
    BY <2>1, PreparingFrame DEF CInv, ControlType
  <2> QED BY <2>1, <2>2, PreparingStep
<1> QED BY <1>1, <1>2, <1>3, <1>4, <1>5 DEF Next

\* The controller's control, through every order of its threads and processes
THEOREM LabInvariance == Spec => []CInv
<1>1. Init => CInv
  BY InitCInv
<1>2. CInv /\ [Next]_vars => CInv'
  BY NextCInv
<1> QED BY <1>1, <1>2, PTL DEF Spec

(***************************************************************************)
(* The grants                                                              *)
(***************************************************************************)

LEMMA InitGInv == Init => GInv
<1> SUFFICES ASSUME Init PROVE GInv
  OBVIOUS
<1>1. now \in Nat /\ grantedAt = <<>> /\ bundle = None /\ prep = "new" /\ payloadFile = "absent"
  BY ClockAssumption DEF Init
<1> QED BY <1>1 DEF GInv

LEMMA GrantsFrame ==
  ASSUME GInv, now' \in Nat, UNCHANGED <<mode, prep, grantedAt, payloadFile, bundle>>
  PROVE  GInv'
BY DEF GInv, Specs

LEMMA NextGInv == CInv /\ GInv /\ [Next]_vars => GInv'
<1> SUFFICES ASSUME CInv, GInv, [Next]_vars PROVE GInv'
  OBVIOUS
<1> USE DEF clock, preparing, arriving
<1>1. CASE PrepareGrants
  <2>1. PICK t \in Times : grantedAt' = Append(grantedAt, t) /\ now' = t
    BY <1>1 DEF PrepareGrants, Reads
  <2>2. t \in Nat /\ grantedAt' \in Seq(Nat) /\ Len(grantedAt') = Len(grantedAt) + 1
    BY <2>1, ClockAssumption, AppendProperties DEF GInv
  <2>3. /\ prep = "new" /\ bundle' = None /\ payloadFile' = "absent" /\ Specs' = Specs
        /\ prep' = IF Len(grantedAt) + 1 = Len(Specs) THEN "cases" ELSE "new"
    BY <1>1 DEF PrepareGrants, GInv, CInv, FilesInOrder, Specs
  <2> QED BY <2>1, <2>2, <2>3 DEF GInv
<1>2. CASE PrepareCase \/ WriteState \/ WritePayload \/ PrepareFails \/ ProviderJob \/ Gather
  <2>1. UNCHANGED <<now, grantedAt, mode>> /\ Specs' = Specs
    BY <1>2 DEF PrepareCase, WriteState, WritePayload, PrepareFails, ProviderJob, Gather, Specs
  <2>2. CASE PrepareCase
    <3>1. UNCHANGED <<prep, payloadFile, bundle>>
      BY <2>2 DEF PrepareCase
    <3> QED BY <2>1, <3>1, GrantsFrame DEF GInv
  <2>3. CASE WriteState
    BY <2>1, <2>3 DEF WriteState, GInv
  <2>4. CASE WritePayload
    BY <2>1, <2>4 DEF WritePayload, GInv
  <2>5. CASE PrepareFails
    <3>1. bundle' = bundle /\ prep' = "failed" /\ (payloadFile' = payloadFile \/ prep = "prepared")
      BY <2>5 DEF PrepareFails
    <3> QED BY <2>1, <3>1 DEF GInv
  <2>6. CASE ProviderJob
    <3>1. UNCHANGED <<prep, payloadFile>> /\ payloadFile = "whole"
      BY <2>6 DEF ProviderJob
    <3>2. prep # "new"
      BY <3>1 DEF CInv, FilesInOrder
    <3> QED BY <2>1, <3>1, <3>2 DEF GInv
  <2>7. CASE Gather
    BY <2>1, <2>7 DEF Gather, GInv
  <2> QED BY <1>2, <2>2, <2>3, <2>4, <2>5, <2>6, <2>7
<1>3. ASSUME NEW r \in RunIds, \/ Submit(r) \/ WorkerAnswers(r) \/ WorkerFails(r)
                               \/ DeadlineExpires(r) \/ LateAnswer(r)
      PROVE  GInv'
  <2>1. UNCHANGED <<now, mode, prep, grantedAt, payloadFile, bundle>>
    BY <1>3 DEF Submit, WorkerAnswers, WorkerFails, DeadlineExpires, LateAnswer, Deliver
  <2> QED BY <2>1, GrantsFrame DEF GInv
<1>4. ASSUME NEW f \in Finalizers, Begin(f) \/ MainStep(f) \/ SpawnFails(f) \/ Stops(f)
      PROVE  GInv'
  <2>1. UNCHANGED <<mode, prep, grantedAt, payloadFile, bundle>> /\ (now' = now \/ now' \in Times)
    BY <1>4 DEF Begin, MainStep, SpawnFails, Stops, Validate, StartCase, Spawn, BarrierTrips,
      BarrierBreaks, RaceFails, Unwind, Observe, CheckCase, Sign, WriteEvidence, Reads
  <2> QED BY <2>1, GrantsFrame, ClockAssumption DEF GInv
<1>5. ASSUME NEW f \in Finalizers, NEW i \in 1 .. Concurrency,
             SlotStep(f, i) \/ RedeemFaults(f, i) \/ RedeemRaises(f, i)
      PROVE  GInv'
  <2>1. UNCHANGED <<mode, prep, grantedAt, payloadFile, bundle>> /\ (now' = now \/ now' \in Times)
    BY <1>5 DEF SlotStep, RedeemFaults, RedeemRaises, Arrive, RedeemRefused, RedeemSpends,
      RedeemInvokes, RedeemAnswers, Reads
  <2> QED BY <2>1, GrantsFrame, ClockAssumption DEF GInv
<1>6. CASE UNCHANGED vars
  BY <1>6, GrantsFrame DEF GInv, vars
<1> QED BY <1>1, <1>2, <1>3, <1>4, <1>5, <1>6 DEF Next

\* The broker has decided a grant for every case before a worker's answer can
\* come back: the record has a time for each of them.
THEOREM GrantsInvariance == Spec => []GInv
<1>1. Init => GInv
  BY InitGInv
<1>2. CInv /\ GInv /\ [Next]_vars => GInv'
  BY NextGInv
<1> QED BY <1>1, <1>2, LabInvariance, PTL DEF Spec

(***************************************************************************)
(* What follows                                                            *)
(***************************************************************************)

\* When the worker's payload is there, prepare has written its state and issued
\* the challenge of every request, each for its own credential.
THEOREM PayloadStaysBacked == Spec => []PayloadIsBacked
<1>1. CInv => PayloadIsBacked
  <2> SUFFICES ASSUME CInv, payloadFile # "absent"
               PROVE  stateFile = "whole" /\ \A r \in RunIds : issued[r] = r[1]
    BY DEF PayloadIsBacked
  <2>1. mode = "live" /\ AllIssued /\ stateFile = "whole"
    BY DEF CInv, FilesInOrder
  <2>2. ASSUME NEW r \in RunIds PROVE issued[r] = r[1]
    <3>1. r \in Prepared
      BY <2>1, LiveCoversAll
    <3>2. PICK n \in 1 .. Len(Specs) : \E i \in 1 .. Count(Specs[n]) : r = <<Specs[n], i>>
      BY <3>1 DEF Prepared, Runs
    <3>3. PICK i \in 1 .. Count(Specs[n]) : r = <<Specs[n], i>>
      BY <3>2
    <3>4. n < todo.case
      <4>1. Len(Specs) \in Nat /\ todo.case \in Nat
        BY SpecsAreVariants DEF CInv, ControlType
      <4> QED BY <2>1, <4>1 DEF AllIssued
    <3>5. issued[<<Specs[n], i>>] = Specs[n]
      BY <3>4 DEF CInv, IssuedSoFar
    <3> QED BY <3>3, <3>5
  <2> QED BY <2>1, <2>2
<1> QED BY <1>1, LabInvariance, PTL

\* An accepted bundle has a good answer to every prepared request.
LEMMA AcceptedAnswersAll ==
  ASSUME BundleAccepted(Specs, bundle), NEW r \in Prepared
  PROVE  \E resp \in bundle :
           resp.run_id = r /\ WorkerResponseBound(r, resp) /\ ProofAsPrescribed(r, resp)
<1>1. PICK n \in 1 .. Len(Specs) : r \in Runs(Specs[n])
  BY DEF Prepared
<1> DEFINE answers == {resp \in bundle : resp.case_id = Specs[n]}
<1>2. CaseAccepted(Specs[n], answers)
  BY DEF BundleAccepted
<1>3. PICK resp \in answers : resp.run_id = r
  BY <1>1, <1>2 DEF CaseAccepted
<1>4. WorkerResponseBound(r, resp) /\ ProofAsPrescribed(r, resp)
  BY <1>2, <1>3 DEF CaseAccepted
<1> QED BY <1>3, <1>4

\* Nothing is spent unless every prepared request was answered in time, by an
\* answer that is bound to it and carries the proof its variant prescribes.
THEOREM SpendsAfterValidation == Spec => []NoSpendBeforeValidation
<1>1. CInv => NoSpendBeforeValidation
  <2> SUFFICES ASSUME CInv, consumed # {}, NEW r \in RunIds, issued[r] # None
               PROVE  /\ delivery[r] \notin {"expired", "late", "failed"}
                      /\ \E resp \in bundle : /\ resp.run_id = r /\ WorkerResponseBound(r, resp)
                                              /\ ProofAsPrescribed(r, resp)
    BY DEF NoSpendBeforeValidation
  <2>1. r \in Prepared
    BY DEF CInv, IssuedSoFar
  <2>2. bundle # None /\ BundleAccepted(Specs, bundle)
    BY DEF CInv, Validated
  <2>3. delivery[r] \in {"unsent", "answered"}
    <3>1. CASE mode = "live"
      BY <3>1 DEF CInv, Validated
    <3>2. CASE mode # "live"
      <4>1. Len(Specs) = 1 /\ Specs[1] = mode
        BY <3>2 DEF Specs
      <4>2. r \in Runs(mode)
        BY <2>1, <4>1 DEF Prepared
      <4> QED BY <2>2, <3>2, <4>2 DEF CInv, Validated
    <3> QED BY <3>1, <3>2
  <2> QED BY <2>1, <2>2, <2>3, AcceptedAnswersAll
<1> QED BY <1>1, LabInvariance, PTL

\* When the barrier of the race broke, no thread of it has redeemed anything.
THEOREM BrokenBarriersSpendNothing == Spec => []BrokenBarrierSpendsNothing
<1>1. CInv => BrokenBarrierSpendsNothing
  BY DEF CInv, ThreadsInOrder, BeforeTheBarrier, BrokenBarrierSpendsNothing
<1> QED BY <1>1, LabInvariance, PTL

\* A finalizer that ended has no thread at work, and none starts again.
THEOREM EndedStaysQuiet == Spec => EndedMeansQuiet
<1>1. CInv /\ [Next]_vars =>
        [\A f \in Finalizers : pc[f] \in {"done", "failed"} => slot'[f] = slot[f]]_vars
  <2> SUFFICES ASSUME CInv, Next, NEW f \in Finalizers, pc[f] \in {"done", "failed"}
               PROVE  slot'[f] = slot[f]
    OBVIOUS
  <2> USE DEF CInv
  <2>1. \A i \in 1 .. Concurrency : slot[f][i].at \in Quiet
    BY DEF ThreadsInOrder, QuietOutside, AtWork
  <2>2. slot \in [Finalizers -> [1 .. Concurrency -> SlotStates]]
    BY DEF ControlType
  <2>3. CASE \/ PrepareGrants \/ PrepareCase \/ WriteState \/ WritePayload \/ PrepareFails
             \/ ProviderJob \/ Gather
             \/ \E r \in RunIds : \/ Submit(r) \/ WorkerAnswers(r) \/ WorkerFails(r)
                                  \/ DeadlineExpires(r) \/ LateAnswer(r)
    BY <2>3 DEF PrepareGrants, PrepareCase, WriteState, WritePayload, PrepareFails, ProviderJob,
                Gather, Submit, WorkerAnswers, WorkerFails, DeadlineExpires, LateAnswer, Deliver, final
  <2>4. ASSUME NEW g \in Finalizers, Begin(g) \/ MainStep(g) \/ SpawnFails(g) \/ Stops(g)
        PROVE  slot'[f] = slot[f]
    <3>1. CASE \/ Begin(g) \/ Validate(g) \/ SpawnFails(g) \/ RaceFails(g) \/ Unwind(g)
               \/ CheckCase(g) \/ Sign(g) \/ WriteEvidence(g)
      BY <3>1 DEF Begin, Validate, SpawnFails, RaceFails, Unwind, CheckCase, Sign, WriteEvidence
    <3>2. CASE StartCase(g) \/ Stops(g) \/ BarrierTrips(g) \/ BarrierBreaks(g)
      <4>1. pc[g] \notin {"done", "failed"}
        <5>1. CASE BarrierBreaks(g) /\ pc[g] # "barrier"
          <6>1. PICK i \in 1 .. Concurrency : slot[g][i].at = "waiting"
            BY <5>1 DEF BarrierBreaks
          <6>2. QuietOutside(g)
            BY DEF ThreadsInOrder
          <6> QED BY <6>1, <6>2 DEF QuietOutside, Quiet, AtWork
        <5> QED BY <3>2, <5>1 DEF StartCase, Stops, Running, Ended, BarrierTrips
      <4>2. PICK ss : slot' = [slot EXCEPT ![g] = ss]
        BY <3>2 DEF StartCase, Stops, BarrierTrips, BarrierBreaks
      <4> QED BY <2>2, <4>1, <4>2
    <3>3. CASE Spawn(g) \/ Observe(g)
      <4>1. pc[g] \notin {"done", "failed"}
        BY <3>3 DEF Spawn, Observe
      <4>2. slot' = slot \/ \E i, s : SetSlot(g, i, s)
        BY <3>3 DEF Spawn, Observe, SlotGoto
      <4> QED BY <2>2, <4>1, <4>2 DEF SetSlot
    <3> QED BY <2>4, <3>1, <3>2, <3>3 DEF MainStep
  <2>5. ASSUME NEW g \in Finalizers, NEW i \in 1 .. Concurrency,
               SlotStep(g, i) \/ RedeemFaults(g, i) \/ RedeemRaises(g, i)
        PROVE  slot'[f] = slot[f]
    <3>1. slot[g][i].at \in {"started", "redeem", "spent", "answer"}
      BY <2>5 DEF SlotStep, Arrive, RedeemRefused, RedeemSpends, RedeemInvokes, RedeemAnswers,
                  RedeemFaults, RedeemRaises
    <3>2. g # f
      BY <2>1, <3>1 DEF Quiet
    <3>3. \E s : SetSlot(g, i, s)
      BY <2>5, Zenon DEF SlotStep, Arrive, RedeemRefused, RedeemSpends, RedeemInvokes,
                  RedeemAnswers, RedeemFaults, RedeemRaises, Refused, SlotGoto
    <3> QED BY <2>2, <3>2, <3>3 DEF SetSlot
  <2> QED BY <2>3, <2>4, <2>5 DEF Next
<1> QED BY <1>1, LabInvariance, PTL DEF Spec, EndedMeansQuiet

(***************************************************************************)
(* The evidence                                                            *)
(***************************************************************************)

LEMMA RunsHaveVariants ==
  ASSUME NEW r \in RunIds PROVE r[1] \in Variants /\ r # None
<1>1. PICK v \in Variants : r \in Runs(v)
  BY DEF RunIds
<1>2. PICK i \in 1 .. Count(v) : r = <<v, i>>
  BY <1>1 DEF Runs
<1> QED BY <1>2, NoneAssumption

\* The run of a slot is a prepared one, of the case its finalizer is at.
LEMMA RunOfSlot ==
  ASSUME CInv, EInv, NEW f \in Finalizers, NEW i \in Slots(f)
  PROVE  /\ Variant(f) \in Variants /\ Run(f, i) = <<Variant(f), i>> /\ Run(f, i)[1] = Variant(f)
         /\ Run(f, i) \in Prepared /\ Run(f, i) \in RunIds
<1>1. caseNo[f] \in 1 .. Len(Specs)
  BY DEF EInv, CasesTrue
<1>2. mode \in Variants \cup {"live"}
  BY DEF CInv, ControlType
<1>3. i \in Nat \ {0} /\ i <= Count(Variant(f))
  BY Counts DEF Slots
<1>4. <<Specs[caseNo[f]], i>> \in Prepared
  BY <1>1, <1>2, <1>3, PreparedRuns DEF Variant
<1> QED BY <1>1, <1>2, <1>4, SpecsAreVariants, PreparedRuns DEF Run, Variant

\* In an accepted bundle a run id has one answer, so the one the controller
\* redeems is the one it validated.
LEMMA AnswerIsValidated ==
  ASSUME BundleAccepted(Specs, bundle), IsFiniteSet(bundle), NEW r \in Prepared
  PROVE  ProofAsPrescribed(r, ResponseOf(r))
<1> DEFINE ids == {resp.run_id : resp \in bundle}
           idOf == [resp \in bundle |-> resp.run_id]
<1>1. Cardinality(bundle) = Cardinality(ids)
  BY DEF BundleAccepted, UniqueRunIds
<1>2. idOf \in Surjection(bundle, ids)
  BY DEF Surjection
<1>3. idOf \in Injection(bundle, ids)
  BY <1>1, <1>2, FS_SurjSameCardinalityImpliesInj
<1>4. \A p, q \in bundle : p.run_id = q.run_id => p = q
  BY <1>3 DEF Injection, IsInjective
<1>5. PICK resp \in bundle : resp.run_id = r /\ ProofAsPrescribed(r, resp)
  BY AcceptedAnswersAll
<1>6. ResponseOf(r) \in bundle /\ ResponseOf(r).run_id = r
  BY <1>5 DEF ResponseOf
<1>7. ResponseOf(r) = resp
  BY <1>4, <1>5, <1>6
<1> QED BY <1>5, <1>7

\* A redemption that is not refused is of a case whose first one is allowed.
LEMMA SpendIsAllowed ==
  ASSUME BundleAccepted(Specs, bundle), IsFiniteSet(bundle), NEW r \in Prepared,
         RedeemRefusal(r) = None
  PROVE  r[1] \in AllowPath /\ r \notin consumed
<1>1. r \notin consumed /\ VerifiesOriginal(r, ResponseOf(r))
  BY NoneAssumption DEF RedeemRefusal
<1>2. ProofAsPrescribed(r, ResponseOf(r))
  BY AnswerIsValidated
<1> QED BY <1>1, <1>2 DEF ProofAsPrescribed

\* What is in the store stays.
Grows ==
  /\ consumed \subseteq consumed'
  /\ \A v \in Variants : redeemed[v] # None => redeemed'[v] = redeemed[v]
  /\ \A v \in Variants : invoked[v] = 1 => invoked'[v] = 1

\* So a reason that was true once is true for good.
LEMMA ReasonStays ==
  ASSUME Grows, NEW r \in RunIds, NEW why, ReasonTrue(r, why)
  PROVE  /\ why = "ALLOW" => redeemed'[r[1]] = r /\ invoked'[r[1]] = 1
         /\ why = "CREDENTIAL_SPENT" => r \in consumed' /\ redeemed'[r[1]] \notin {None, r}
BY RunsHaveVariants DEF Grows, ReasonTrue

LEMMA AttemptsStay ==
  ASSUME Grows, NEW v, NEW seen \in Seq(Attempt), AttemptsTrue(v, seen)
  PROVE  AttemptsTrue(v, seen)'
<1> SUFFICES ASSUME NEW i \in 1 .. Len(seen)
             PROVE  /\ seen[i].run_id = <<v, IF v = "replay" THEN 1 ELSE i>>
                    /\ seen[i].redemption_sequence = IF v = "replay" THEN i ELSE 1
                    /\ ReasonTrue(seen[i].run_id, seen[i].reason)'
  BY DEF AttemptsTrue
<1>1. seen[i] \in Attempt
  BY ElementOfSeq
<1>2. seen[i].run_id \in RunIds
  BY <1>1 DEF Attempt
<1>3. ReasonTrue(seen[i].run_id, seen[i].reason)
  BY DEF AttemptsTrue
<1>4. ReasonTrue(seen[i].run_id, seen[i].reason)'
  BY <1>2, <1>3, ReasonStays DEF ReasonTrue
<1> QED BY <1>4 DEF AttemptsTrue

\* Where a finalizer has its cases behind it
Past == {"sign"} \cup Files

LEMMA CasesFrame ==
  ASSUME EInv, Grows, NEW f \in Finalizers, mode' = mode,
         cases'[f] = cases[f], caseNo'[f] = caseNo[f],
         pc'[f] \notin Past \cup {"done", "failed"} => pc[f] \notin Past \cup {"done", "failed"},
         pc'[f] \in Past => pc[f] \in Past
  PROVE  CasesTrue(f)'
<1>1. CasesTrue(f) /\ Specs' = Specs
  BY DEF EInv, Specs
<1>2. ASSUME NEW n \in 1 .. Len(cases[f]) PROVE CaseTrue(Specs[n], cases[f][n])'
  <2>1. cases[f] \in Seq(Case)
    BY DEF EInv, EvidenceType
  <2>2. cases[f][n] \in Case
    BY <2>1, ElementOfSeq
  <2>3. PICK v, seen : v = Specs[n] /\ seen = cases[f][n].attempts
    OBVIOUS
  <2>4. seen \in Seq(Attempt)
    BY <2>2, <2>3 DEF Case
  <2>5. CaseTrue(Specs[n], cases[f][n])
    BY <1>1 DEF CasesTrue
  <2>6. AttemptsTrue(v, seen)'
    BY <2>3, <2>4, <2>5, AttemptsStay DEF CaseTrue
  <2>7. v = Specs'[n] /\ seen = cases'[f][n].attempts /\ cases'[f][n] = cases[f][n]
    BY <1>1, <2>3
  <2>8. CaseTrue(v, cases[f][n])
    BY <2>3, <2>5
  <2> QED BY <2>6, <2>7, <2>8 DEF CaseTrue
<1> QED BY <1>1, <1>2 DEF CasesTrue, Complete, Past

LEMMA SlotsFrame ==
  ASSUME CInv, EInv, Grows, NEW f \in Finalizers, mode' = mode, caseNo'[f] = caseNo[f],
         pc'[f] \in AtWork => pc[f] \in AtWork,
         \A i \in Slots(f) : slot'[f][i] = slot[f][i] \/ SlotTrue(Run(f, i), slot[f][i])'
  PROVE  SlotsTrue(f)'
<1>1. Specs' = Specs /\ Variant(f)' = Variant(f) /\ Slots(f)' = Slots(f)
  BY DEF Specs, Variant, Slots
<1>2. ASSUME pc'[f] \in AtWork, NEW i \in Slots(f), slot'[f][i] = slot[f][i]
      PROVE  SlotTrue(Run(f, i), slot[f][i])'
  <2>1. PICK r, s : r = Run(f, i) /\ s = slot[f][i]
    OBVIOUS
  <2>2. SlotTrue(r, s) /\ r \in RunIds
    BY <1>2, <2>1, RunOfSlot DEF EInv, SlotsTrue
  <2>3. ReasonTrue(r, s.reason)'
    BY <2>2, ReasonStays DEF SlotTrue, ReasonTrue
  <2>4. s.at = "spent" => redeemed'[r[1]] = r
    BY <2>2, RunsHaveVariants DEF SlotTrue, Grows
  <2>5. Run(f, i)' = r /\ slot'[f][i] = s
    BY <1>1, <1>2, <2>1 DEF Run
  <2>6. SlotTrue(r, s)'
    BY <2>2, <2>3, <2>4 DEF SlotTrue
  <2> QED BY <2>5, <2>6
<1> QED BY <1>1, <1>2 DEF SlotsTrue

LEMMA ObservedFrame ==
  ASSUME EInv, Grows, NEW f \in Finalizers, mode' = mode, caseNo'[f] = caseNo[f],
         attempts'[f] = attempts[f],
         pc'[f] \in {"spawn", "barrier", "redeem", "check"} =>
           pc'[f] = pc[f] \/ (pc[f] \in {"spawn", "barrier"} /\ pc'[f] # "check")
  PROVE  Observed(f)'
<1>1. Observed(f) /\ Variant(f)' = Variant(f)
  BY DEF EInv, Specs, Variant
<1>2. PICK v, seen : v = Variant(f) /\ seen = attempts[f]
  OBVIOUS
<1>3. v = Variant(f)' /\ seen = attempts'[f]
  BY <1>1, <1>2
<1>4. seen \in Seq(Attempt)
  BY <1>2 DEF EInv, EvidenceType
<1>5. AttemptsTrue(v, seen) => AttemptsTrue(v, seen)'
  BY <1>4, AttemptsStay
<1> QED BY <1>1, <1>2, <1>3, <1>5 DEF Observed

\* The finalizers other than f and all that they know
Others(f) ==
  \A g \in Finalizers \ {f} :
    /\ pc'[g] = pc[g] /\ caseNo'[g] = caseNo[g] /\ slot'[g] = slot[g]
    /\ attempts'[g] = attempts[g] /\ cases'[g] = cases[g]

\* In a step of f only f's own observations have to be looked at.
LEMMA EvidenceStep ==
  ASSUME CInv, EInv, Grows, NEW f \in Finalizers, mode' = mode, Others(f),
         EvidenceType', StoreTrue', SlotsTrue(f)', Observed(f)', CasesTrue(f)', EvidenceBacked'
  PROVE  EInv'
<1>1. ASSUME NEW g \in Finalizers \ {f} PROVE SlotsTrue(g)' /\ Observed(g)' /\ CasesTrue(g)'
  <2>1. /\ pc'[g] = pc[g] /\ caseNo'[g] = caseNo[g] /\ slot'[g] = slot[g]
        /\ attempts'[g] = attempts[g] /\ cases'[g] = cases[g]
    BY DEF Others
  <2> QED BY <2>1, SlotsFrame, ObservedFrame, CasesFrame
<1> QED BY <1>1 DEF EInv

\* Evidence once written stays backed while the cases stay.
LEMMA BackedFrame ==
  ASSUME EInv, UNCHANGED <<mode, cases, evidence>>
  PROVE  EvidenceBacked'
BY DEF EInv, EvidenceBacked, Complete, Specs

LEMMA InitEInv == Init => EInv
<1> SUFFICES ASSUME Init PROVE EInv
  OBVIOUS
<1>1. CInv
  BY InitCInv
<1>2. EvidenceType
  <2>1. <<>> \in Seq(Attempt) /\ <<>> \in Seq(Case)
    BY EmptySeq
  <2> QED BY <2>1 DEF Init, EvidenceType
<1>3. StoreTrue
  BY DEF Init, Store!Init, StoreTrue
<1>4. ASSUME NEW f \in Finalizers PROVE SlotsTrue(f) /\ Observed(f) /\ CasesTrue(f)
  <2>1. pc[f] = "idle" /\ caseNo[f] = 1 /\ cases[f] = <<>>
    BY DEF Init
  <2>2. 1 \in 1 .. Len(Specs) /\ Len(Specs) \in Nat
    BY DEF Specs, CaseSpecs
  <2>3. Len(cases[f]) = 0
    BY <2>1
  <2>4. CasesTrue(f)
    BY <2>1, <2>2, <2>3 DEF CasesTrue, Files, EvidenceFiles
  <2> QED BY <2>1, <2>4 DEF SlotsTrue, Observed, AtWork
<1>5. EvidenceBacked
  BY DEF Init, EvidenceBacked
<1> QED BY <1>2, <1>3, <1>4, <1>5 DEF EInv

\* prepare and the worker touch nothing the evidence is about.
LEMMA SameEvidence ==
  ASSUME EInv, bundle' # None => IsFiniteSet(bundle'),
         UNCHANGED <<consumed, redeemed, invoked, mode, pc, caseNo, before, slot, attempts,
                     cases, evidence>>
  PROVE  EInv'
<1>1. EvidenceType' /\ EvidenceBacked'
  BY BackedFrame DEF EInv, EvidenceType
<1>2. StoreTrue'
  BY DEF EInv, StoreTrue
<1>3. ASSUME NEW f \in Finalizers PROVE SlotsTrue(f)' /\ Observed(f)' /\ CasesTrue(f)'
  <2>1. SlotsTrue(f) /\ Observed(f) /\ CasesTrue(f)
    BY DEF EInv
  <2>2. Specs' = Specs
    BY DEF Specs
  <2>3. SlotsTrue(f)'
    BY <2>1, <2>2 DEF SlotsTrue, SlotTrue, ReasonTrue, Run, Slots, Variant
  <2>4. Observed(f)'
    BY <2>1, <2>2 DEF Observed, AttemptsTrue, ReasonTrue, Variant
  <2>5. CasesTrue(f)'
    BY <2>1, <2>2 DEF CasesTrue, CaseTrue, AttemptsTrue, ReasonTrue, Complete
  <2> QED BY <2>3, <2>4, <2>5
<1> QED BY <1>1, <1>2, <1>3 DEF EInv

LEMMA ArrivalsKeepEvidence ==
  ASSUME CInv, EInv,
         \/ PrepareGrants \/ PrepareCase \/ WriteState \/ WritePayload \/ PrepareFails
         \/ ProviderJob \/ Gather
         \/ \E r \in RunIds : \/ Submit(r) \/ WorkerAnswers(r) \/ WorkerFails(r)
                              \/ DeadlineExpires(r) \/ LateAnswer(r)
  PROVE  EInv'
<1>1. UNCHANGED <<consumed, redeemed, invoked, mode, pc, caseNo, before, slot, attempts, cases,
                  evidence>>
  BY DEF PrepareGrants, PrepareCase, WriteState, WritePayload, PrepareFails, Store!Issue,
         ProviderJob, Gather, Submit, WorkerAnswers, WorkerFails, DeadlineExpires, LateAnswer,
         Deliver, store, final
<1>2. CASE ProviderJob
  <2>1. bundle' \in Answers(RunIds)
    BY <1>2 DEF ProviderJob
  <2> QED BY <1>1, <2>1, AnswersAssumption, SameEvidence
<1>3. CASE Gather
  <2>1. bundle' \in Answers(Runs(mode)) /\ mode \in Variants
    BY <1>3 DEF Gather, CInv, ControlType
  <2> QED BY <1>1, <2>1, AnswersAssumption, SameEvidence
<1>4. CASE ~ProviderJob /\ ~Gather
  <2>1. bundle' = bundle
    BY <1>4 DEF PrepareGrants, PrepareCase, WriteState, WritePayload, PrepareFails, Submit,
                WorkerAnswers, WorkerFails, DeadlineExpires, LateAnswer, Deliver, arriving
  <2> QED BY <1>1, <2>1, SameEvidence DEF EInv, EvidenceType
<1> QED BY <1>2, <1>3, <1>4

\* The main thread of f moves on, and that is all.
LEMMA MovesKeepEvidence ==
  ASSUME CInv, EInv, NEW f \in Finalizers,
         \/ Begin(f) \/ Validate(f) \/ SpawnFails(f) \/ RaceFails(f) \/ Unwind(f) \/ Sign(f)
         \/ (Spawn(f) /\ slot' = slot)
  PROVE  EInv'
<1>1. UNCHANGED <<consumed, redeemed, invoked, mode, bundle, caseNo, before, slot, attempts,
                  cases, evidence>>
  BY DEF Begin, Validate, SpawnFails, RaceFails, Unwind, Sign, Spawn, store, arriving
<1>2. /\ \A g \in Finalizers \ {f} : pc'[g] = pc[g]
      /\ pc'[f] \in AtWork => pc[f] \in AtWork
      /\ pc'[f] \in {"spawn", "barrier", "redeem", "check"} =>
           pc'[f] = pc[f] \/ (pc[f] \in {"spawn", "barrier"} /\ pc'[f] # "check")
      /\ pc'[f] \notin Past \cup {"done", "failed"} => pc[f] \notin Past \cup {"done", "failed"}
      /\ pc'[f] \in Past => pc[f] \in Past
  <2> USE DEF Past, AtWork, Files, EvidenceFiles, Goto
  <2>1. pc \in [Finalizers -> Steps]
    BY DEF CInv, ControlType
  <2>2. CASE Begin(f)
    BY <2>1, <2>2 DEF Begin
  <2>3. CASE Validate(f)
    BY <2>1, <2>3 DEF Validate
  <2>4. CASE SpawnFails(f) \/ RaceFails(f) \/ Unwind(f)
    BY <2>1, <2>4 DEF SpawnFails, RaceFails, Unwind
  <2>5. CASE Sign(f)
    BY <2>1, <2>5 DEF Sign
  <2>6. CASE Spawn(f) /\ slot' = slot
    BY <2>1, <2>6 DEF Spawn
  <2> QED BY <2>2, <2>3, <2>4, <2>5, <2>6
<1>3. Grows /\ Others(f)
  BY <1>1, <1>2 DEF Grows, Others
<1>4. EvidenceType' /\ StoreTrue' /\ EvidenceBacked'
  BY <1>1, BackedFrame DEF EInv, EvidenceType, StoreTrue
<1> QED BY <1>1, <1>2, <1>3, <1>4, SlotsFrame, ObservedFrame, CasesFrame, EvidenceStep

\* A thread of f goes on, and what its slot now says is true.
LEMMA ThreadKeepsEvidence ==
  ASSUME CInv, EInv, NEW f \in Finalizers, NEW i \in 1 .. Concurrency,
         UNCHANGED <<mode, bundle, pc, caseNo, before, attempts, cases, evidence>>,
         Grows, StoreTrue',
         \A j \in (1 .. Concurrency) \ {i} : slot'[f][j] = slot[f][j],
         \A g \in Finalizers \ {f} : slot'[g] = slot[g],
         SlotTrue(Run(f, i), slot[f][i])'
  PROVE  EInv'
<1>1. Slots(f) \subseteq 1 .. Concurrency
  BY Counts, ConcurrencyAssumption DEF Slots
<1>2. ASSUME NEW j \in Slots(f)
      PROVE  slot'[f][j] = slot[f][j] \/ SlotTrue(Run(f, j), slot[f][j])'
  BY <1>1
<1>3. Others(f)
  BY DEF Others
<1>4. EvidenceType' /\ EvidenceBacked'
  BY BackedFrame DEF EInv, EvidenceType
<1> QED BY <1>2, <1>3, <1>4, SlotsFrame, ObservedFrame, CasesFrame, EvidenceStep

\* A slot at work is one of the case its finalizer is at, and is true so far.
LEMMA WorkingSlot ==
  ASSUME CInv, EInv, NEW f \in Finalizers, NEW i \in 1 .. Concurrency, slot[f][i].at \notin Quiet
  PROVE  /\ i \in Slots(f) /\ pc[f] \in AtWork /\ slot[f][i] \in SlotStates
         /\ SlotTrue(Run(f, i), slot[f][i])
<1>1. i \in Slots(f) /\ pc[f] \in AtWork
  BY DEF CInv, ThreadsInOrder, QuietOutside
<1> QED BY <1>1 DEF EInv, SlotsTrue, CInv, ControlType

\* Steps that leave the store alone and the slot's reason as it was, or give it
\* one that claims nothing of the store
LEMMA IdleStoreSteps ==
  ASSUME CInv, EInv, NEW f \in Finalizers, NEW i \in 1 .. Concurrency,
         \/ Arrive(f, i) \/ RedeemRefused(f, i) \/ RedeemFaults(f, i)
         \/ RedeemAnswers(f, i) \/ RedeemRaises(f, i)
  PROVE  EInv'
<1>1. UNCHANGED <<consumed, redeemed, invoked, mode, bundle, pc, caseNo, before, attempts,
                  cases, evidence>>
  BY DEF Arrive, RedeemRefused, RedeemFaults, RedeemAnswers, RedeemRaises, store, arriving
<1>2. slot[f][i].at \notin Quiet
  BY DEF Arrive, RedeemRefused, RedeemFaults, RedeemAnswers, RedeemRaises, Quiet
<1>3. /\ i \in Slots(f) /\ slot[f][i] \in SlotStates /\ SlotTrue(Run(f, i), slot[f][i])
  BY <1>2, WorkingSlot
<1>4. PICK r : r = Run(f, i)
  OBVIOUS
<1>5. r = Run(f, i)' /\ Grows
  BY <1>1, <1>4 DEF Run, Variant, Specs, Grows
<1>6. PICK s \in SlotStates :
        /\ SetSlot(f, i, s)
        /\ s.at \in {"waiting", "raised", "answer", "answered"}
        /\ s.reason = slot[f][i].reason
           \/ s.reason \in {"HOLDER_PROOF_INVALID", "CHALLENGE_CONSUMED", "INTERNAL_ERROR"}
        /\ s.at = "waiting" => s.reason = None
  <2> USE DEF SlotStates, SlotReasons, Quiet, Racing
  <2>1. CASE Arrive(f, i)
    <3> DEFINE x == IF barrier[f] = "broken" THEN "raised" ELSE "waiting"
               s == [slot[f][i] EXCEPT !.at = x]
    <3>1. SetSlot(f, i, s) /\ slot[f][i].at = "started"
      BY <2>1, Zenon DEF Arrive, SlotGoto
    <3>2. s \in SlotStates /\ s.at = x /\ s.reason = slot[f][i].reason
      BY <1>3
    <3>3. s.reason = None
      BY <1>3, <3>1, <3>2 DEF SlotTrue
    <3> QED BY <3>1, <3>2, <3>3
  <2>2. CASE RedeemRefused(f, i) \/ RedeemFaults(f, i)
    <3>1. PICK why \in {"HOLDER_PROOF_INVALID", "CHALLENGE_CONSUMED", "INTERNAL_ERROR"} :
            Refused(f, i, why)
      BY <2>2 DEF RedeemRefused, RedeemFaults, RedeemRefusal
    <3> DEFINE s == [slot[f][i] EXCEPT !.at = "answer", !.reason = why]
    <3>2. SetSlot(f, i, s)
      BY <3>1, Zenon DEF Refused
    <3>3. s \in SlotStates /\ s.at = "answer" /\ s.reason = why
      BY <1>3
    <3> QED BY <3>2, <3>3
  <2>3. CASE RedeemAnswers(f, i)
    <3>0. PICK t \in Times :
            SetSlot(f, i, [slot[f][i] EXCEPT !.at = "answered", !.snapshot = count[f],
                                             !.decided_at = t])
      BY <2>3, Zenon DEF RedeemAnswers
    <3> DEFINE s == [slot[f][i] EXCEPT !.at = "answered", !.snapshot = count[f], !.decided_at = t]
    <3>1. SetSlot(f, i, s) /\ t \in Nat
      BY <3>0, ClockAssumption
    <3>2. count[f] \in Nat
      BY DEF CInv, ControlType
    <3>3. s \in SlotStates /\ s.at = "answered" /\ s.reason = slot[f][i].reason
      BY <1>3, <3>1, <3>2
    <3> QED BY <3>1, <3>3
  <2>4. CASE RedeemRaises(f, i)
    <3> DEFINE s == [slot[f][i] EXCEPT !.at = "raised"]
    <3>1. SetSlot(f, i, s)
      BY <2>4, Zenon DEF RedeemRaises, SlotGoto
    <3>2. s \in SlotStates /\ s.at = "raised" /\ s.reason = slot[f][i].reason
      BY <1>3
    <3> QED BY <3>1, <3>2
  <2> QED BY <2>1, <2>2, <2>3, <2>4
<1>7. /\ slot'[f][i] = s
      /\ \A j \in (1 .. Concurrency) \ {i} : slot'[f][j] = slot[f][j]
      /\ \A g \in Finalizers \ {f} : slot'[g] = slot[g]
  BY <1>6, SlotSet DEF CInv
<1>8. ReasonTrue(r, s.reason)
  BY <1>3, <1>4, <1>6 DEF SlotTrue, ReasonTrue
<1>9. SlotTrue(r, s)'
  <2>1. ReasonTrue(r, s.reason)'
    BY <1>1, <1>8 DEF ReasonTrue
  <2> QED BY <1>6, <2>1 DEF SlotTrue, Racing
<1>10. SlotTrue(Run(f, i), slot[f][i])'
  BY <1>5, <1>7, <1>9
<1>11. StoreTrue'
  BY <1>1 DEF EInv, StoreTrue
<1> QED BY <1>1, <1>5, <1>7, <1>10, <1>11, ThreadKeepsEvidence

\* The first spend of a credential redeems it; a later one finds it redeemed by
\* another run.
LEMMA SpendKeepsEvidence ==
  ASSUME CInv, EInv, NEW f \in Finalizers, NEW i \in 1 .. Concurrency, RedeemSpends(f, i)
  PROVE  EInv'
<1>1. UNCHANGED <<invoked, mode, bundle, pc, caseNo, before, attempts, cases, evidence>>
  BY DEF RedeemSpends, Store!Spend, arriving
<1>2. slot[f][i].at = "redeem" /\ slot[f][i].at \notin Quiet
  BY DEF RedeemSpends, Quiet
<1>3. /\ i \in Slots(f) /\ pc[f] \in AtWork
      /\ slot[f][i] \in SlotStates /\ SlotTrue(Run(f, i), slot[f][i])
  BY <1>2, WorkingSlot
<1>4. PICK r, v : r = Run(f, i) /\ v = Variant(f)
  OBVIOUS
<1>5. r = Run(f, i)' /\ r[1] = v /\ r \in Prepared /\ r \in RunIds /\ v \in Variants /\ r # None
  BY <1>1, <1>3, <1>4, RunOfSlot, RunsHaveVariants DEF Run, Variant, Specs
<1>6. v \in AllowPath /\ r \notin consumed
  <2>1. RedeemRefusal(r) = None
    BY <1>4 DEF RedeemSpends
  <2>2. bundle # None /\ BundleAccepted(Specs, bundle) /\ IsFiniteSet(bundle)
    BY <1>3 DEF CInv, Validated, AtWork, EInv, EvidenceType
  <2> QED BY <1>5, <2>1, <2>2, SpendIsAllowed
<1>7. issued[r] = v
  <2>1. issued[r] \in Variants /\ issued[r] # None
    BY <1>4, NoneAssumption DEF RedeemSpends, Store!Spend
  <2> QED BY <1>5, <2>1 DEF CInv, IssuedSoFar
<1>8. /\ consumed' = consumed \cup {r}
      /\ redeemed' = IF redeemed[v] = None THEN [redeemed EXCEPT ![v] = r] ELSE redeemed
  BY <1>4, <1>7 DEF RedeemSpends, Store!Spend
<1>9. StoreTrue
  BY DEF EInv
<1>10. Grows /\ StoreTrue'
  BY <1>1, <1>5, <1>6, <1>8, <1>9 DEF Grows, StoreTrue
<1>11. PICK s \in SlotStates :
         /\ SetSlot(f, i, s)
         /\ IF redeemed[v] = None THEN s.at = "spent" /\ s.reason = None
            ELSE s.at = "answer" /\ s.reason = "CREDENTIAL_SPENT"
  <2> USE DEF SlotStates, SlotReasons
  <2>1. CASE redeemed[v] = None
    <3> DEFINE s == [slot[f][i] EXCEPT !.at = "spent"]
    <3>1. SetSlot(f, i, s)
      BY <1>4, <2>1, Zenon DEF RedeemSpends, SlotGoto
    <3>2. s \in SlotStates /\ s.at = "spent" /\ s.reason = slot[f][i].reason
      BY <1>3
    <3>3. slot[f][i].reason = None
      BY <1>2, <1>3 DEF SlotTrue
    <3> QED BY <2>1, <3>1, <3>2, <3>3
  <2>2. CASE redeemed[v] # None
    <3> DEFINE s == [slot[f][i] EXCEPT !.at = "answer", !.reason = "CREDENTIAL_SPENT"]
    <3>1. SetSlot(f, i, s)
      BY <1>4, <2>2, Zenon DEF RedeemSpends, Refused
    <3>2. s \in SlotStates /\ s.at = "answer" /\ s.reason = "CREDENTIAL_SPENT"
      BY <1>3
    <3> QED BY <2>2, <3>1, <3>2
  <2> QED BY <2>1, <2>2
<1>12. /\ slot'[f][i] = s
       /\ \A j \in (1 .. Concurrency) \ {i} : slot'[f][j] = slot[f][j]
       /\ \A g \in Finalizers \ {f} : slot'[g] = slot[g]
  BY <1>11, SlotSet DEF CInv
<1>13. SlotTrue(r, s)'
  <2>1. CASE redeemed[v] = None
    <3>1. redeemed'[r[1]] = r
      BY <1>5, <1>8, <1>9, <2>1 DEF StoreTrue
    <3> QED BY <1>11, <2>1, <3>1, NoneAssumption DEF SlotTrue, ReasonTrue, Racing
  <2>2. CASE redeemed[v] # None
    <3>1. r \in consumed' /\ redeemed'[r[1]] \notin {None, r}
      BY <1>5, <1>6, <1>8, <1>9, <2>2 DEF StoreTrue
    <3> QED BY <1>11, <2>2, <3>1 DEF SlotTrue, ReasonTrue, Racing
  <2> QED BY <2>1, <2>2
<1>14. SlotTrue(Run(f, i), slot[f][i])'
  BY <1>5, <1>12, <1>13
<1> QED BY <1>1, <1>10, <1>12, <1>14, ThreadKeepsEvidence

LEMMA InvokeKeepsEvidence ==
  ASSUME CInv, EInv, NEW f \in Finalizers, NEW i \in 1 .. Concurrency, RedeemInvokes(f, i)
  PROVE  EInv'
<1>1. UNCHANGED <<consumed, redeemed, mode, bundle, pc, caseNo, before, attempts, cases, evidence>>
  BY DEF RedeemInvokes, Store!Invoke, arriving
<1>2. slot[f][i].at = "spent" /\ slot[f][i].at \notin Quiet
  BY DEF RedeemInvokes, Quiet
<1>3. i \in Slots(f) /\ slot[f][i] \in SlotStates /\ SlotTrue(Run(f, i), slot[f][i])
  BY <1>2, WorkingSlot
<1>4. PICK r, v : r = Run(f, i) /\ v = Variant(f)
  OBVIOUS
<1>5. r = Run(f, i)' /\ r[1] = v /\ v \in Variants
  BY <1>1, <1>3, <1>4, RunOfSlot DEF Run, Variant, Specs
<1>6. redeemed[v] = r /\ redeemed[v] # None /\ invoked' = [invoked EXCEPT ![v] = 1]
  BY <1>2, <1>3, <1>4, <1>5 DEF RedeemInvokes, Store!Invoke, SlotTrue
<1>7. StoreTrue
  BY DEF EInv
<1>8. Grows /\ StoreTrue' /\ invoked'[v] = 1
  BY <1>1, <1>5, <1>6, <1>7 DEF Grows, StoreTrue
<1> DEFINE s == [slot[f][i] EXCEPT !.at = "answer", !.reason = "ALLOW",
                                   !.invocation_id = count[f] + 1]
<1>9. count[f] + 1 \in Nat
  BY DEF CInv, ControlType
<1>10. s \in SlotStates /\ s.at = "answer" /\ s.reason = "ALLOW"
  BY <1>3, <1>9 DEF SlotStates, SlotReasons
<1>11. SetSlot(f, i, s)
  BY Zenon DEF RedeemInvokes
<1> HIDE DEF s
<1>12. /\ slot'[f][i] = s
       /\ \A j \in (1 .. Concurrency) \ {i} : slot'[f][j] = slot[f][j]
       /\ \A g \in Finalizers \ {f} : slot'[g] = slot[g]
  BY <1>10, <1>11, SlotSet DEF CInv
<1>13. SlotTrue(Run(f, i), slot[f][i])'
  BY <1>1, <1>5, <1>6, <1>8, <1>10, <1>12 DEF SlotTrue, ReasonTrue, Racing
<1> QED BY <1>1, <1>8, <1>12, <1>13, ThreadKeepsEvidence

LEMMA SpawnKeepsEvidence ==
  ASSUME CInv, EInv, NEW f \in Finalizers, Spawn(f)
  PROVE  EInv'
<1>1. CASE slot' = slot
  BY <1>1, MovesKeepEvidence
<1>2. CASE slot' # slot
  <2> DEFINE fresh == {j \in Slots(f) : slot[f][j].at = "idle"}
             i == Min(fresh)
             s == [slot[f][i] EXCEPT !.at = "started"]
  <2>1. UNCHANGED <<consumed, redeemed, invoked, mode, bundle, caseNo, before, attempts, cases,
                    evidence>>
    BY DEF Spawn, store, arriving
  <2>2. fresh # {} /\ SetSlot(f, i, s) /\ pc' = pc /\ pc[f] = "spawn"
    BY <1>2, Zenon DEF Spawn, SlotGoto
  <2>3. i \in fresh
    <3>1. fresh \subseteq Nat
      BY Counts DEF Slots
    <3> HIDE DEF fresh
    <3> QED BY <2>2, <3>1, MinIsMember
  <2>4. i \in Slots(f) /\ i \in 1 .. Concurrency /\ slot[f][i].at = "idle"
    BY <2>3, Counts, ConcurrencyAssumption DEF Slots
  <2> HIDE DEF i
  <2>5. slot[f][i] \in SlotStates /\ SlotTrue(Run(f, i), slot[f][i])
    BY <2>2, <2>4 DEF EInv, SlotsTrue, AtWork, CInv, ControlType
  <2>6. slot[f][i].reason = None
    BY <2>4, <2>5 DEF SlotTrue
  <2>7. s \in SlotStates /\ s.at = "started" /\ s.reason = None
    BY <2>5, <2>6 DEF SlotStates, Racing
  <2> HIDE DEF s
  <2>8. /\ slot'[f][i] = s
        /\ \A j \in (1 .. Concurrency) \ {i} : slot'[f][j] = slot[f][j]
        /\ \A g \in Finalizers \ {f} : slot'[g] = slot[g]
    BY <2>2, <2>4, <2>7, SlotSet DEF CInv
  <2>9. PICK k : k = i
    OBVIOUS
  <2>10. SlotTrue(Run(f, k), slot[f][k])'
    BY <2>7, <2>8, <2>9, NoneAssumption DEF SlotTrue, ReasonTrue
  <2>11. Grows /\ StoreTrue'
    BY <2>1 DEF Grows, EInv, StoreTrue
  <2> QED BY <2>1, <2>2, <2>4, <2>8, <2>9, <2>10, <2>11, ThreadKeepsEvidence
<1> QED BY <1>1, <1>2

LEMMA BarrierKeepsEvidence ==
  ASSUME CInv, EInv, NEW f \in Finalizers, BarrierTrips(f) \/ BarrierBreaks(f)
  PROVE  EInv'
<1>1. UNCHANGED <<consumed, redeemed, invoked, mode, bundle, caseNo, before, attempts, cases,
                  evidence>>
  BY DEF BarrierTrips, BarrierBreaks, store, arriving
<1>2. /\ pc \in [Finalizers -> Steps] /\ slot \in [Finalizers -> [1 .. Concurrency -> SlotStates]]
      /\ Slots(f) \subseteq 1 .. Concurrency
  BY Counts, ConcurrencyAssumption DEF CInv, ControlType, Slots
<1>3. PICK ss : slot' = [slot EXCEPT ![f] = ss]
  BY DEF BarrierTrips, BarrierBreaks
<1>4. /\ \A g \in Finalizers \ {f} : pc'[g] = pc[g] /\ slot'[g] = slot[g]
      /\ pc'[f] = pc[f] \/ (pc[f] = "barrier" /\ pc'[f] \in {"redeem", "unwind"})
  BY <1>2, <1>3 DEF BarrierTrips, BarrierBreaks, Goto
<1>5. Grows /\ Others(f) /\ StoreTrue' /\ EvidenceType' /\ EvidenceBacked'
  BY <1>1, <1>4, BackedFrame DEF Grows, Others, EInv, StoreTrue, EvidenceType
<1>6. pc'[f] \in AtWork => pc[f] \in AtWork
  BY <1>4 DEF AtWork
<1>7. ASSUME NEW i \in Slots(f)
      PROVE  \/ slot'[f][i] = slot[f][i]
             \/ slot'[f][i].reason = None /\ slot'[f][i].at # "spent"
  <2>1. i \in 1 .. Concurrency
    BY <1>2
  <2>2. CASE BarrierTrips(f)
    <3>1. slot'[f][i] = RedeemingSlot
      BY <1>2, <2>1, <2>2 DEF BarrierTrips
    <3> QED BY <3>1 DEF RedeemingSlot, IdleSlot
  <2>3. CASE BarrierBreaks(f) /\ slot[f][i].at = "waiting"
    <3> DEFINE s == [slot[f][i] EXCEPT !.at = "raised"]
    <3>1. slot'[f][i] = s
      BY <1>2, <2>1, <2>3 DEF BarrierBreaks
    <3>2. slot[f][i] \in SlotStates /\ SlotTrue(Run(f, i), slot[f][i])
      BY <2>1, <2>3, WorkingSlot DEF Quiet
    <3>3. slot[f][i].reason = None
      BY <2>3, <3>2 DEF SlotTrue, Racing
    <3>4. s.at = "raised" /\ s.reason = None
      BY <3>2, <3>3 DEF SlotStates
    <3> QED BY <3>1, <3>4
  <2>4. CASE BarrierBreaks(f) /\ slot[f][i].at # "waiting"
    BY <1>2, <2>1, <2>4 DEF BarrierBreaks
  <2> QED BY <2>2, <2>3, <2>4
<1>8. \A i \in Slots(f) : slot'[f][i] = slot[f][i] \/ SlotTrue(Run(f, i), slot[f][i])'
  BY <1>7, NoneAssumption DEF SlotTrue, ReasonTrue
<1>9. SlotsTrue(f)'
  BY <1>1, <1>5, <1>6, <1>8, SlotsFrame
<1>10. Observed(f)'
  BY <1>1, <1>4, <1>5, ObservedFrame
<1>11. CasesTrue(f)'
  BY <1>1, <1>4, <1>5, CasesFrame DEF Past, Files, EvidenceFiles
<1> QED BY <1>1, <1>5, <1>9, <1>10, <1>11, EvidenceStep

LEMMA StartCaseKeepsEvidence ==
  ASSUME CInv, EInv, NEW f \in Finalizers, StartCase(f)
  PROVE  EInv'
<1>1. /\ UNCHANGED <<consumed, redeemed, invoked, mode, bundle, caseNo, cases, evidence>>
      /\ pc[f] = "case"
  BY DEF StartCase, store, arriving
<1>2. /\ pc \in [Finalizers -> Steps] /\ slot \in [Finalizers -> [1 .. Concurrency -> SlotStates]]
      /\ count \in [Finalizers -> Nat] /\ before \in [Finalizers -> Nat]
      /\ attempts \in [Finalizers -> Seq(Attempt)]
  BY DEF CInv, ControlType, EInv, EvidenceType
<1>3. /\ attempts' = [attempts EXCEPT ![f] = <<>>] /\ before' = [before EXCEPT ![f] = count[f]]
      /\ pc'[f] \in {"spawn", "redeem"} /\ \A g \in Finalizers \ {f} : pc'[g] = pc[g]
  BY <1>2 DEF StartCase, Goto
<1>4. PICK ss : slot' = [slot EXCEPT ![f] = ss]
  BY DEF StartCase
<1>5. Others(f) /\ attempts'[f] = <<>>
  BY <1>1, <1>2, <1>3, <1>4 DEF Others
<1>6. EvidenceType'
  <2>1. <<>> \in Seq(Attempt)
    BY EmptySeq
  <2>2. attempts' \in [Finalizers -> Seq(Attempt)] /\ before' \in [Finalizers -> Nat]
    BY <1>2, <1>3, <2>1
  <2> QED BY <1>1, <2>2 DEF EInv, EvidenceType
<1>7. Grows /\ StoreTrue' /\ EvidenceBacked'
  BY <1>1, BackedFrame DEF Grows, EInv, StoreTrue
<1>8. SlotsTrue(f)'
  <2>1. Slots(f)' \subseteq 1 .. Concurrency
    BY Counts, ConcurrencyAssumption DEF Slots, Count
  <2>2. \A i \in 1 .. Concurrency : slot'[f][i] \in {RedeemingSlot, IdleSlot}
    BY <1>2 DEF StartCase
  <2>3. \A i \in 1 .. Concurrency : slot'[f][i].reason = None /\ slot'[f][i].at # "spent"
    BY <2>2 DEF RedeemingSlot, IdleSlot
  <2> QED BY <2>1, <2>3, NoneAssumption DEF SlotsTrue, SlotTrue, ReasonTrue
<1>9. Observed(f)'
  <2>1. Len(attempts'[f]) = 0
    BY <1>5
  <2> QED BY <1>3, <1>5, <2>1 DEF Observed, AttemptsTrue
<1>10. CasesTrue(f)'
  BY <1>1, <1>3, <1>7, CasesFrame DEF Past, Files, EvidenceFiles
<1> QED BY <1>1, <1>5, <1>6, <1>7, <1>8, <1>9, <1>10, EvidenceStep

\* Only a finalizer with all its cases behind it writes, whole or short.
LEMMA WritesAreBacked ==
  ASSUME CInv, EInv, NEW f \in Finalizers, pc[f] \in Files, UNCHANGED <<mode, cases>>,
         NEW w \in BOOLEAN, evidence' = [evidence EXCEPT ![pc[f]] = [by |-> f, whole |-> w]]
  PROVE  /\ EvidenceBacked'
         /\ evidence' \in [Files -> {None} \cup [by : Finalizers, whole : BOOLEAN]]
<1>1. Complete(f) /\ EvidenceBacked /\ CasesTrue(f)
  BY DEF EInv, CasesTrue
<1>2. evidence \in [Files -> {None} \cup [by : Finalizers, whole : BOOLEAN]]
  BY DEF EInv, EvidenceType
<1>3. PICK e \in [by : Finalizers, whole : BOOLEAN] :
        e.by = f /\ evidence' = [evidence EXCEPT ![pc[f]] = e]
  <2>1. /\ [by |-> f, whole |-> w] \in [by : Finalizers, whole : BOOLEAN]
        /\ [by |-> f, whole |-> w].by = f
    OBVIOUS
  <2> QED BY <2>1
<1>4. evidence' \in [Files -> {None} \cup [by : Finalizers, whole : BOOLEAN]]
  BY <1>2, <1>3
<1>5. ASSUME NEW file \in Files, evidence'[file] # None
      PROVE  Complete(evidence'[file].by)
  <2>1. CASE file = pc[f]
    BY <1>1, <1>2, <1>3, <2>1
  <2>2. CASE file # pc[f]
    BY <1>1, <1>2, <1>3, <1>5, <2>2 DEF EvidenceBacked
  <2> QED BY <2>1, <2>2
<1>6. \A g : Complete(g) => mode' = "live" /\ Len(cases'[g]) = Len(Specs)' 
  BY DEF Complete, Specs
<1>7. EvidenceBacked'
  BY <1>5, <1>6 DEF EvidenceBacked, Complete
<1> QED BY <1>4, <1>7

LEMMA WriteKeepsEvidence ==
  ASSUME CInv, EInv, NEW f \in Finalizers, WriteEvidence(f)
  PROVE  EInv'
<1>1. PICK n \in DOMAIN EvidenceFiles :
        /\ pc[f] = EvidenceFiles[n]
        /\ IF evidence[EvidenceFiles[n]] # None
           THEN Goto(f, "failed") /\ UNCHANGED evidence
           ELSE /\ evidence' = [evidence EXCEPT ![EvidenceFiles[n]] = [by |-> f, whole |-> TRUE]]
                /\ Goto(f, IF n < Len(EvidenceFiles) THEN EvidenceFiles[n + 1] ELSE "done")
        /\ UNCHANGED <<store, mode, preparing, arriving, caseNo, count, before, barrier,
                       slot, attempts, cases>>
  BY DEF WriteEvidence
<1>2. UNCHANGED <<consumed, redeemed, invoked, mode, bundle, caseNo, before, slot, attempts, cases>>
  BY <1>1 DEF store, arriving
<1>3. pc[f] \in Files /\ pc \in [Finalizers -> Steps]
  BY <1>1 DEF Files, CInv, ControlType
<1>4. /\ \A g \in Finalizers \ {f} : pc'[g] = pc[g]
      /\ pc'[f] \in Files \cup {"done", "failed"}
  BY <1>1, <1>3 DEF Goto, Files, EvidenceFiles
<1>5. /\ EvidenceBacked'
      /\ evidence' \in [Files -> {None} \cup [by : Finalizers, whole : BOOLEAN]]
  <2>1. CASE evidence' = evidence
    BY <1>2, <2>1, BackedFrame DEF EInv, EvidenceType
  <2>2. CASE evidence' # evidence
    BY <1>1, <1>2, <1>3, <2>2, WritesAreBacked
  <2> QED BY <2>1, <2>2
<1>6. Grows /\ Others(f) /\ StoreTrue' /\ EvidenceType'
  BY <1>2, <1>4, <1>5 DEF Grows, Others, EInv, StoreTrue, EvidenceType
<1>7. SlotsTrue(f)' /\ Observed(f)'
  BY <1>4 DEF SlotsTrue, Observed, AtWork, Files, EvidenceFiles
<1>8. CasesTrue(f)'
  BY <1>2, <1>3, <1>4, <1>6, CasesFrame DEF Past
<1> QED BY <1>2, <1>5, <1>6, <1>7, <1>8, EvidenceStep

LEMMA StopKeepsEvidence ==
  ASSUME CInv, EInv, NEW f \in Finalizers, Stops(f)
  PROVE  EInv'
<1>1. UNCHANGED <<consumed, redeemed, invoked, mode, bundle, caseNo, before, attempts, cases>>
  BY DEF Stops, store, arriving
<1>2. /\ pc \in [Finalizers -> Steps] /\ slot \in [Finalizers -> [1 .. Concurrency -> SlotStates]]
  BY DEF CInv, ControlType
<1>3. pc'[f] = "failed" /\ \A g \in Finalizers \ {f} : pc'[g] = pc[g] /\ slot'[g] = slot[g]
  BY <1>2 DEF Stops, Goto
<1>4. /\ EvidenceBacked'
      /\ evidence' \in [Files -> {None} \cup [by : Finalizers, whole : BOOLEAN]]
  <2>1. CASE evidence' = evidence
    BY <1>1, <2>1, BackedFrame DEF EInv, EvidenceType
  <2>2. CASE evidence' # evidence
    <3>1. pc[f] \in Files /\ evidence' = [evidence EXCEPT ![pc[f]] = [by |-> f, whole |-> FALSE]]
      BY <2>2 DEF Stops
    <3> QED BY <1>1, <3>1, WritesAreBacked
  <2> QED BY <2>1, <2>2
<1>5. Grows /\ Others(f) /\ StoreTrue' /\ EvidenceType'
  BY <1>1, <1>3, <1>4 DEF Grows, Others, EInv, StoreTrue, EvidenceType
<1>6. SlotsTrue(f)' /\ Observed(f)'
  BY <1>3 DEF SlotsTrue, Observed, AtWork
<1>7. CasesTrue(f)'
  BY <1>1, <1>3, <1>5, CasesFrame DEF Past, Files, EvidenceFiles
<1> QED BY <1>1, <1>4, <1>5, <1>6, <1>7, EvidenceStep

\* The decisions of a case, as they are observed
Observations(f) == [i \in Slots(f) |-> Observation(f, i)]

LEMMA ObservationsAreTrue ==
  ASSUME CInv, EInv, NEW f \in Finalizers, pc[f] = "redeem"
  PROVE  /\ Observations(f) \in Seq(Attempt) /\ Len(Observations(f)) = Count(Variant(f))
         /\ \A i \in 1 .. Count(Variant(f)) :
              /\ Observations(f)[i].run_id = <<Variant(f), i>>
              /\ Observations(f)[i].redemption_sequence =
                   IF Variant(f) = "replay" THEN Len(attempts[f]) + 1 ELSE 1
              /\ ReasonTrue(<<Variant(f), i>>, Observations(f)[i].reason)
<1>1. Slots(f) = 1 .. Count(Variant(f)) /\ Slots(f) \subseteq 1 .. Concurrency
      /\ Count(Variant(f)) \in Nat
  BY Counts, ConcurrencyAssumption DEF Slots
<1>2. attempts[f] \in Seq(Attempt)
  BY DEF EInv, EvidenceType
<1>3. Len(attempts[f]) \in Nat
  BY <1>2, LenProperties
<1>4. ASSUME NEW i \in Slots(f)
      PROVE  /\ Observation(f, i) \in Attempt
             /\ Observation(f, i).run_id = <<Variant(f), i>>
             /\ Observation(f, i).redemption_sequence =
                  IF Variant(f) = "replay" THEN Len(attempts[f]) + 1 ELSE 1
             /\ ReasonTrue(<<Variant(f), i>>, Observation(f, i).reason)
  <2>1. slot[f][i] \in SlotStates
    BY <1>1 DEF CInv, ControlType
  <2>2. SlotTrue(Run(f, i), slot[f][i])
    BY DEF EInv, SlotsTrue, AtWork
  <2>3. Run(f, i) = <<Variant(f), i>> /\ Run(f, i) \in RunIds
    BY RunOfSlot
  <2>4. /\ slot[f][i].reason \in SlotReasons /\ slot[f][i].invocation_id \in Nat \cup {None}
        /\ slot[f][i].snapshot \in Nat \cup {None} /\ slot[f][i].decided_at \in Nat \cup {None}
    BY <2>1 DEF SlotStates
  <2>5. Observation(f, i) \in Attempt
    BY <1>3, <2>3, <2>4 DEF Observation, Attempt
  <2>6. ReasonTrue(<<Variant(f), i>>, slot[f][i].reason)
    BY <2>2, <2>3 DEF SlotTrue
  <2> QED BY <2>3, <2>5, <2>6 DEF Observation
<1>5. Observations(f) \in [1 .. Count(Variant(f)) -> Attempt]
  BY <1>1, <1>4 DEF Observations
<1>6. Observations(f) \in Seq(Attempt) /\ Len(Observations(f)) = Count(Variant(f))
  BY <1>1, <1>5
<1> QED BY <1>1, <1>4, <1>6 DEF Observations

LEMMA ObserveKeepsEvidence ==
  ASSUME CInv, EInv, NEW f \in Finalizers, Observe(f)
  PROVE  EInv'
<1>1. /\ UNCHANGED <<consumed, redeemed, invoked, mode, bundle, caseNo, before, cases, evidence>>
      /\ pc[f] = "redeem" /\ attempts' = [attempts EXCEPT ![f] = @ \o Observations(f)]
  BY DEF Observe, Observations, store, arriving
<1>2. /\ pc \in [Finalizers -> Steps] /\ slot \in [Finalizers -> [1 .. Concurrency -> SlotStates]]
      /\ attempts \in [Finalizers -> Seq(Attempt)] /\ attempts[f] \in Seq(Attempt)
  BY DEF CInv, ControlType, EInv, EvidenceType
<1>3. PICK v, old, obs : v = Variant(f) /\ old = attempts[f] /\ obs = Observations(f)
  OBVIOUS
<1>4. /\ old \in Seq(Attempt) /\ obs \in Seq(Attempt) /\ Len(obs) = Count(v)
      /\ \A i \in 1 .. Count(v) :
           /\ obs[i].run_id = <<v, i>>
           /\ obs[i].redemption_sequence = IF v = "replay" THEN Len(old) + 1 ELSE 1
           /\ ReasonTrue(<<v, i>>, obs[i].reason)
  BY <1>1, <1>2, <1>3, ObservationsAreTrue
<1>5. /\ Len(old) \in Nat /\ AttemptsTrue(v, old)
      /\ old = <<>> \/ (v = "replay" /\ Len(old) = 1)
      /\ v = "replay" => Count(v) = 1
      /\ Count(v) \in Nat
  BY <1>1, <1>3, <1>4, LenProperties, Counts DEF EInv, Observed, Count
<1> DEFINE new == old \o obs
<1>6. /\ new \in Seq(Attempt) /\ Len(new) = Len(old) + Count(v)
      /\ \A i \in 1 .. Len(old) + Count(v) :
           new[i] = IF i <= Len(old) THEN old[i] ELSE obs[i - Len(old)]
  BY <1>4, ConcatProperties
<1> HIDE DEF new
<1>7. AttemptsTrue(v, new)
  <2> SUFFICES ASSUME NEW i \in 1 .. Len(new)
               PROVE  /\ new[i].run_id = <<v, IF v = "replay" THEN 1 ELSE i>>
                      /\ new[i].redemption_sequence = IF v = "replay" THEN i ELSE 1
                      /\ ReasonTrue(new[i].run_id, new[i].reason)
    BY DEF AttemptsTrue
  <2>1. i \in Nat /\ 1 <= i /\ i <= Len(old) + Count(v)
    BY <1>5, <1>6
  <2>2. CASE i <= Len(old)
    <3>1. new[i] = old[i] /\ i \in 1 .. Len(old)
      BY <1>5, <1>6, <2>1, <2>2
    <3> QED BY <1>5, <3>1 DEF AttemptsTrue
  <2>3. CASE i > Len(old)
    <3>1. PICK j : j = i - Len(old)
      OBVIOUS
    <3>2. new[i] = obs[j] /\ j \in 1 .. Count(v)
      BY <1>5, <1>6, <2>1, <2>3, <3>1
    <3>3. v = "replay" => j = 1 /\ i = Len(old) + 1
      BY <1>5, <2>1, <3>1, <3>2
    <3>4. v # "replay" => j = i
      <4>1. v # "replay" => Len(old) = 0
        BY <1>5
      <4> QED BY <2>1, <3>1, <4>1
    <3> QED BY <1>4, <3>2, <3>3, <3>4
  <2> QED BY <1>5, <2>1, <2>2, <2>3
<1>8. /\ attempts'[f] = new /\ \A g \in Finalizers \ {f} : attempts'[g] = attempts[g]
      /\ attempts' \in [Finalizers -> Seq(Attempt)]
  BY <1>1, <1>2, <1>3, <1>6 DEF new
<1>9. EvidenceType' /\ Grows /\ StoreTrue' /\ EvidenceBacked'
  BY <1>1, <1>8, BackedFrame DEF EInv, EvidenceType, Grows, StoreTrue
<1>10. v = Variant(f)'
  BY <1>1, <1>3 DEF Variant, Specs
<1>11. PICK seen : seen = new
  OBVIOUS
<1>12. AttemptsTrue(v, seen)'
  BY <1>1, <1>7, <1>11 DEF AttemptsTrue, ReasonTrue
<1>13. CASE SetSlot(f, 1, RedeemingSlot) /\ pc' = pc /\ v = "replay" /\ old = <<>>
  <2>1. 1 \in 1 .. Concurrency /\ RedeemingSlot \in SlotStates
    BY ConcurrencyAssumption DEF RedeemingSlot, IdleSlot, SlotStates, SlotReasons
  <2>2. /\ slot'[f][1] = RedeemingSlot
        /\ \A j \in (1 .. Concurrency) \ {1} : slot'[f][j] = slot[f][j]
        /\ \A g \in Finalizers \ {f} : slot'[g] = slot[g]
    BY <1>13, <2>1, SlotSet DEF CInv
  <2>3. SlotTrue(Run(f, 1), slot[f][1])'
    BY <2>2, NoneAssumption DEF RedeemingSlot, IdleSlot, SlotTrue, ReasonTrue
  <2>4. Slots(f) = {1}
    BY <1>3, <1>13 DEF Slots, Count
  <2>5. SlotsTrue(f)'
    BY <1>1, <1>9, <1>13, <2>3, <2>4, SlotsFrame
  <2>6. Len(attempts'[f]) = 1
    BY <1>5, <1>6, <1>8, <1>13 DEF Count
  <2>7. Observed(f)'
    BY <1>1, <1>8, <1>10, <1>11, <1>12, <1>13, <2>6 DEF Observed
  <2>8. CasesTrue(f)'
    BY <1>1, <1>9, <1>13, CasesFrame
  <2>9. Others(f)
    BY <1>1, <1>8, <1>13, <2>2 DEF Others
  <2> QED BY <1>1, <1>9, <2>5, <2>7, <2>8, <2>9, EvidenceStep
<1>14. CASE Goto(f, "check") /\ slot' = slot /\ ~(v = "replay" /\ old = <<>>)
  <2>1. pc'[f] = "check" /\ \A g \in Finalizers \ {f} : pc'[g] = pc[g]
    BY <1>2, <1>14 DEF Goto
  <2>2. SlotsTrue(f)'
    BY <2>1 DEF SlotsTrue, AtWork
  <2>3. v # "replay" => Len(attempts'[f]) = Count(v)
    <3>1. v # "replay" => Len(old) = 0
      BY <1>5
    <3> QED BY <1>5, <1>6, <1>8, <3>1
  <2>4. Observed(f)'
    BY <1>8, <1>10, <1>11, <1>12, <2>1, <2>3 DEF Observed
  <2>5. CasesTrue(f)'
    BY <1>1, <1>9, <2>1, CasesFrame DEF Past, Files, EvidenceFiles
  <2>6. Others(f)
    BY <1>1, <1>8, <1>14, <2>1 DEF Others
  <2> QED BY <1>1, <1>9, <2>2, <2>4, <2>5, <2>6, EvidenceStep
<1> QED BY <1>3, <1>13, <1>14 DEF Observe

\* A case that is being redeemed has its grant.
LEMMA GrantOfCase ==
  ASSUME CInv, GInv, EInv, NEW f \in Finalizers, pc[f] # "idle"
  PROVE  caseNo[f] \in 1 .. Len(grantedAt) /\ grantedAt[caseNo[f]] \in Nat
<1>1. bundle # None /\ caseNo[f] \in 1 .. Len(Specs)
  BY DEF CInv, Validated, EInv, CasesTrue
<1> QED BY <1>1, ElementOfSeq DEF GInv

\* A case whose outcomes and counts are the expected ones joins the record.
LEMMA CheckKeepsEvidence ==
  ASSUME CInv, GInv, EInv, NEW f \in Finalizers, CheckCase(f)
  PROVE  EInv'
<1>1. /\ UNCHANGED <<consumed, redeemed, invoked, mode, bundle, before, slot, attempts, evidence>>
      /\ pc[f] = "check"
  BY DEF CheckCase, store, arriving
<1>2. /\ pc \in [Finalizers -> Steps] /\ caseNo \in [Finalizers -> Nat]
      /\ cases \in [Finalizers -> Seq(Case)] /\ count[f] \in Nat /\ before[f] \in Nat
      /\ attempts[f] \in Seq(Attempt)
  BY DEF CInv, ControlType, EInv, EvidenceType
<1>3. Grows /\ StoreTrue'
  BY <1>1 DEF Grows, EInv, StoreTrue
<1>4. CASE Goto(f, "failed") /\ UNCHANGED <<cases, caseNo>>
  <2>1. pc'[f] = "failed" /\ \A g \in Finalizers \ {f} : pc'[g] = pc[g]
    BY <1>2, <1>4 DEF Goto
  <2>2. SlotsTrue(f)' /\ Observed(f)'
    BY <2>1 DEF SlotsTrue, Observed, AtWork
  <2>3. CasesTrue(f)'
    BY <1>1, <1>3, <1>4, <2>1, CasesFrame DEF Past, Files, EvidenceFiles
  <2>4. EvidenceType' /\ EvidenceBacked' /\ Others(f)
    BY <1>1, <1>4, <2>1, BackedFrame DEF EInv, EvidenceType, Others
  <2> QED BY <1>1, <1>3, <2>2, <2>3, <2>4, EvidenceStep
<1>5. CASE ~(Goto(f, "failed") /\ UNCHANGED <<cases, caseNo>>)
  <2> DEFINE last == caseNo[f] = Len(Specs)
  <2>1. PICK v, seen, n, rec :
          /\ v = Variant(f) /\ seen = attempts[f] /\ n = caseNo[f]
          /\ rec = [variant |-> v, attempts |-> seen, invocation_delta |-> count[f] - before[f],
                    redemption_count |-> RedemptionCount(v), broker_decided_at |-> grantedAt[n]]
    OBVIOUS
  <2>2. /\ OutcomesExpected(v, seen)
        /\ cases' = [cases EXCEPT ![f] = Append(@, rec)]
        /\ caseNo' = [caseNo EXCEPT ![f] = IF last THEN @ ELSE @ + 1]
        /\ Goto(f, IF ~last THEN "case" ELSE IF mode = "live" THEN "sign" ELSE "done")
    BY <1>5, <2>1 DEF CheckCase
  <2>3. CasesTrue(f) /\ Observed(f) /\ Specs' = Specs
    BY <1>1 DEF EInv, Specs
  <2>4. /\ n \in 1 .. Len(Specs) /\ Len(Specs) \in Nat /\ n \in Nat /\ v = Specs[n] /\ v \in Variants
        /\ Len(cases[f]) = n - 1
    BY <1>1, <2>1, <2>3, SpecsAreVariants DEF CasesTrue, Files, EvidenceFiles, CInv, ControlType,
       Variant
  <2>5. rec \in Case
    <3>1. RedemptionCount(v) \in {0, 1}
      BY DEF RedemptionCount
    <3>2. grantedAt[n] \in Nat
      BY <1>1, <2>1, GrantOfCase
    <3> QED BY <1>2, <2>1, <2>4, <3>1, <3>2 DEF Case
  <2>6. PICK old, new : old = cases[f] /\ new = Append(old, rec)
    OBVIOUS
  <2>7. /\ old \in Seq(Case) /\ new \in Seq(Case) /\ Len(old) = n - 1 /\ Len(new) = n
        /\ \A m \in 1 .. Len(old) : new[m] = old[m]
        /\ new[n] = rec
    <3>1. old \in Seq(Case) /\ Len(old) = n - 1
      BY <1>2, <2>4, <2>6
    <3>2. /\ new \in Seq(Case) /\ Len(new) = Len(old) + 1 /\ new[Len(old) + 1] = rec
          /\ \A m \in 1 .. Len(old) : new[m] = old[m]
      BY <2>5, <2>6, <3>1, AppendProperties
    <3>3. Len(old) + 1 = n
      BY <2>4, <3>1
    <3> QED BY <3>1, <3>2, <3>3
  <2>8. /\ cases'[f] = new /\ cases' \in [Finalizers -> Seq(Case)]
        /\ \A g \in Finalizers \ {f} : cases'[g] = cases[g]
    BY <1>2, <2>2, <2>6, <2>7
  <2>9. /\ pc'[f] = IF ~last THEN "case" ELSE IF mode = "live" THEN "sign" ELSE "done"
        /\ caseNo'[f] = IF last THEN n ELSE n + 1
        /\ \A g \in Finalizers \ {f} : pc'[g] = pc[g] /\ caseNo'[g] = caseNo[g]
    BY <1>2, <2>1, <2>2 DEF Goto
  <2>10. SlotsTrue(f)' /\ Observed(f)'
    BY <2>9 DEF SlotsTrue, Observed, AtWork
  <2>11. EvidenceType' /\ Others(f)
    BY <1>1, <2>8, <2>9 DEF EInv, EvidenceType, Others
  <2>12. EvidenceBacked'
    <3>1. ~Complete(f)
      BY <2>4 DEF Complete
    <3>2. ASSUME NEW file \in Files, evidence[file] # None
          PROVE  evidence[file].by \in Finalizers \ {f} /\ Complete(evidence[file].by)
      <4>1. evidence[file] \in [by : Finalizers, whole : BOOLEAN]
        BY <3>2 DEF EInv, EvidenceType
      <4> QED BY <3>1, <3>2, <4>1 DEF EInv, EvidenceBacked
    <3> QED BY <1>1, <2>3, <2>8, <3>2 DEF EvidenceBacked, Complete
  <2>13. ASSUME NEW m \in 1 .. n PROVE CaseTrue(Specs[m], new[m])'
    <3>1. PICK w, c : w = Specs[m] /\ c = new[m]
      OBVIOUS
    <3>2. CaseTrue(w, c) /\ c \in Case
      <4>1. CASE m = n
        <5>1. CaseTrue(v, rec)
          BY <1>1, <2>1, <2>2, <2>3 DEF CaseTrue, Observed
        <5> QED BY <2>4, <2>5, <2>7, <3>1, <4>1, <5>1
      <4>2. CASE m # n
        <5>1. m \in 1 .. Len(old)
          BY <2>4, <2>7, <4>2
        <5>2. CaseTrue(Specs[m], old[m])
          BY <2>3, <2>6, <5>1 DEF CasesTrue
        <5> QED BY <2>7, <3>1, <5>1, <5>2, ElementOfSeq
      <4> QED BY <4>1, <4>2
    <3>3. PICK seen2 : seen2 = c.attempts
      OBVIOUS
    <3>4. seen2 \in Seq(Attempt) /\ AttemptsTrue(w, seen2)
      BY <3>2, <3>3 DEF Case, CaseTrue
    <3>5. AttemptsTrue(w, seen2)'
      BY <1>3, <3>4, AttemptsStay
    <3>6. CaseTrue(w, c)'
      BY <3>2, <3>3, <3>5 DEF CaseTrue
    <3> QED BY <2>3, <3>1, <3>6
  <2>14. CasesTrue(f)'
    <3>1. Len(cases'[f]) = n /\ Len(cases'[f]) \in 0 .. Len(Specs)
      BY <2>4, <2>7, <2>8
    <3>2. caseNo'[f] \in 1 .. Len(Specs)
      BY <2>1, <2>4, <2>9
    <3>3. pc'[f] \notin {"sign", "done", "failed"} \cup Files => Len(cases'[f]) = caseNo'[f] - 1
      BY <2>4, <2>9, <3>1
    <3>4. pc'[f] \in {"sign"} \cup Files => Complete(f)'
      BY <1>1, <2>1, <2>3, <2>9, <3>1 DEF Complete, Files, EvidenceFiles
    <3> QED BY <2>3, <2>8, <2>13, <3>1, <3>2, <3>3, <3>4 DEF CasesTrue
  <2> QED BY <1>1, <1>3, <2>10, <2>11, <2>12, <2>14, EvidenceStep
<1> QED BY <1>4, <1>5

LEMMA NextEInv == CInv /\ GInv /\ EInv /\ [Next]_vars => EInv'
<1> SUFFICES ASSUME CInv, GInv, EInv, [Next]_vars PROVE EInv'
  OBVIOUS
<1>1. CASE \/ PrepareGrants \/ PrepareCase \/ WriteState \/ WritePayload \/ PrepareFails
           \/ ProviderJob \/ Gather
           \/ \E r \in RunIds : \/ Submit(r) \/ WorkerAnswers(r) \/ WorkerFails(r)
                                \/ DeadlineExpires(r) \/ LateAnswer(r)
  BY <1>1, ArrivalsKeepEvidence
<1>2. ASSUME NEW f \in Finalizers, Begin(f) \/ MainStep(f) \/ SpawnFails(f) \/ Stops(f)
      PROVE  EInv'
  BY <1>2, MovesKeepEvidence, StartCaseKeepsEvidence, SpawnKeepsEvidence, BarrierKeepsEvidence,
     ObserveKeepsEvidence, CheckKeepsEvidence, WriteKeepsEvidence, StopKeepsEvidence DEF MainStep
<1>3. ASSUME NEW f \in Finalizers, NEW i \in 1 .. Concurrency,
             SlotStep(f, i) \/ RedeemFaults(f, i) \/ RedeemRaises(f, i)
      PROVE  EInv'
  BY <1>3, IdleStoreSteps, SpendKeepsEvidence, InvokeKeepsEvidence DEF SlotStep
<1>4. CASE UNCHANGED vars
  <2>1. UNCHANGED <<consumed, redeemed, invoked, mode, bundle, pc, caseNo, before, slot, attempts,
                    cases, evidence>>
    BY <1>4 DEF vars, store, arriving, final
  <2> QED BY <2>1, SameEvidence DEF EInv, EvidenceType
<1> QED BY <1>1, <1>2, <1>3, <1>4 DEF Next

\* The inductive invariant on the evidence: what the controller has observed of
\* the store is, and stays, so.
THEOREM EvidenceInvariance == Spec => []EInv
<1>1. Init => EInv
  BY InitEInv
<1>2. CInv /\ GInv /\ EInv /\ [Next]_vars => EInv'
  BY NextEInv
<1> QED BY <1>1, <1>2, LabInvariance, GrantsInvariance, PTL DEF Spec

\* What a true case of an allowed variant says: some attempt was allowed, each
\* attempt's challenge is consumed, and the allowed one is the redeeming one.
LEMMA AllowedCase ==
  ASSUME StoreTrue, NEW v \in AllowPath, NEW seen \in Seq(Attempt),
         AttemptsTrue(v, seen), OutcomesExpected(v, seen), v # "replay" => Len(seen) = Count(v)
  PROVE  /\ Runs(v) \subseteq consumed /\ invoked[v] = 1
         /\ \A i \in 1 .. Len(seen) :
              Allowed(seen[i]) <=> seen[i].run_id = redeemed[v] /\ seen[i].redemption_sequence = 1
<1>1. v \in Variants /\ Len(seen) \in Nat /\ DOMAIN seen = 1 .. Len(seen)
  BY LenProperties DEF AllowPath, Variants
<1>2. ASSUME NEW i \in 1 .. Len(seen)
      PROVE  /\ seen[i].run_id \in RunIds /\ seen[i].run_id[1] = v
             /\ v = "replay" => seen[i].run_id = <<v, 1>> /\ seen[i].redemption_sequence = i
             /\ v # "replay" => seen[i].run_id = <<v, i>> /\ seen[i].redemption_sequence = 1
             /\ ReasonTrue(seen[i].run_id, seen[i].reason)
  <2>1. PICK k : /\ k = IF v = "replay" THEN 1 ELSE i
                 /\ seen[i].run_id = <<v, k>>
                 /\ seen[i].redemption_sequence = IF v = "replay" THEN i ELSE 1
                 /\ ReasonTrue(seen[i].run_id, seen[i].reason)
    BY Zenon DEF AttemptsTrue
  <2>2. seen[i] \in Attempt
    BY ElementOfSeq
  <2>3. seen[i].run_id \in RunIds
    BY <2>2 DEF Attempt
  <2> QED BY <2>1, <2>3
<1>3. \A i \in 1 .. Len(seen) :
        seen[i].reason = "ALLOW" => /\ redeemed[v] = seen[i].run_id /\ invoked[v] = 1
                                  /\ seen[i].run_id \in consumed
  <2> SUFFICES ASSUME NEW i \in 1 .. Len(seen), seen[i].reason = "ALLOW"
               PROVE  /\ redeemed[v] = seen[i].run_id /\ invoked[v] = 1 /\ seen[i].run_id \in consumed
    OBVIOUS
  <2>1. redeemed[v] = seen[i].run_id /\ invoked[v] = 1
    BY <1>2 DEF ReasonTrue
  <2>2. redeemed[v] # None
    BY <1>2, <2>1, RunsHaveVariants
  <2> QED BY <1>1, <2>1, <2>2 DEF StoreTrue
<1>4. CASE v = "valid"
  <2>1. Reasons(seen) = <<"ALLOW">>
    BY <1>4 DEF OutcomesExpected
  <2>2. Len(seen) = 1 /\ seen[1].reason = "ALLOW"
    <3>1. Len(seen) = 1
      BY <1>4 DEF Count
    <3>2. Reasons(seen)[1] = seen[1].reason
      BY <1>1, <3>1 DEF Reasons
    <3> QED BY <2>1, <3>1, <3>2
  <2>3. seen[1].run_id = <<v, 1>> /\ Runs(v) = {<<v, 1>>}
    BY <1>2, <1>4, <2>2 DEF Runs, Count
  <2> QED BY <1>2, <1>3, <1>4, <2>2, <2>3 DEF Allowed
<1>5. CASE v = "replay"
  <2>1. Reasons(seen) = <<"ALLOW", "CHALLENGE_CONSUMED">>
    BY <1>5 DEF OutcomesExpected
  <2>2. Len(seen) = 2 /\ seen[1].reason = "ALLOW" /\ seen[2].reason = "CHALLENGE_CONSUMED"
    <3>1. 1 .. Len(seen) = 1 .. 2
      <4>1. DOMAIN Reasons(seen) = DOMAIN seen
        BY DEF Reasons
      <4>2. DOMAIN <<"ALLOW", "CHALLENGE_CONSUMED">> = 1 .. 2
        OBVIOUS
      <4> QED BY <1>1, <2>1, <4>1, <4>2
    <3>2. Len(seen) = 2
      <4>1. 2 \in 1 .. Len(seen) /\ Len(seen) >= 1
        BY <1>1, <3>1
      <4>2. Len(seen) \in 1 .. 2
        BY <1>1, <3>1, <4>1
      <4> QED BY <1>1, <4>1, <4>2
    <3>3. Reasons(seen)[1] = seen[1].reason /\ Reasons(seen)[2] = seen[2].reason
      BY <1>1, <3>2 DEF Reasons
    <3>4. Reasons(seen)[1] = "ALLOW" /\ Reasons(seen)[2] = "CHALLENGE_CONSUMED"
      BY <2>1
    <3> QED BY <3>2, <3>3, <3>4
  <2>3. seen[1].run_id = <<v, 1>> /\ seen[2].run_id = <<v, 1>> /\ Runs(v) = {<<v, 1>>}
    BY <1>2, <1>5, <2>2 DEF Runs, Count
  <2>4. seen[1].redemption_sequence = 1 /\ seen[2].redemption_sequence = 2
    BY <1>2, <1>5, <2>2
  <2> QED BY <1>3, <2>2, <2>3, <2>4 DEF Allowed
<1>6. CASE v = "concurrent"
  <2>1. /\ Cardinality({i \in DOMAIN seen : Allowed(seen[i])}) = 1
        /\ \A i \in DOMAIN seen : Allowed(seen[i]) \/ seen[i].reason = "CREDENTIAL_SPENT"
    BY <1>6 DEF OutcomesExpected
  <2>2. PICK k \in 1 .. Len(seen) : seen[k].reason = "ALLOW"
    <3> DEFINE S == {i \in DOMAIN seen : Allowed(seen[i])}
    <3>1. S # {}
      <4>1. Cardinality(S) = 1 /\ Cardinality({}) = 0
        BY <2>1, FS_EmptySet
      <4> HIDE DEF S
      <4>2. S = {} => Cardinality(S) = Cardinality({})
        BY Zenon
      <4> QED BY <4>1, <4>2
    <3> QED BY <1>1, <3>1 DEF Allowed
  <2>3. ASSUME NEW i \in 1 .. Len(seen)
        PROVE  /\ seen[i].run_id \in consumed /\ seen[i].redemption_sequence = 1
               /\ Allowed(seen[i]) <=> seen[i].run_id = redeemed[v]
    <3>1. CASE Allowed(seen[i])
      BY <1>2, <1>3, <1>6, <3>1 DEF Allowed
    <3>2. CASE ~Allowed(seen[i])
      <4>1. seen[i].reason = "CREDENTIAL_SPENT"
        BY <1>1, <2>1, <3>2
      <4> QED BY <1>2, <1>6, <3>2, <4>1 DEF ReasonTrue
    <3> QED BY <3>1, <3>2
  <2>4. ASSUME NEW r \in Runs(v) PROVE r \in consumed
    <3>1. PICK i \in 1 .. Count(v) : r = <<v, i>>
      BY DEF Runs
    <3>2. i \in 1 .. Len(seen) /\ seen[i].run_id = r
      BY <1>2, <1>6, <3>1
    <3> QED BY <2>3, <3>2
  <2> QED BY <1>3, <2>2, <2>3, <2>4
<1> QED BY <1>4, <1>5, <1>6 DEF AllowPath

\* Evidence that verifies tells the truth about the store, whoever else redeems
\* at the same time: each allowed attempt owns its credential's redemption and
\* was invoked, every racing challenge was consumed, and the refused cases left
\* challenge and credential untouched.
THEOREM EvidenceStaysTrue == Spec => []EvidenceIsTrue
<1>1. CInv /\ EInv => EvidenceIsTrue
  <2> SUFFICES ASSUME CInv, EInv, EvidenceBundleVerifies, NEW v \in Variants
               PROVE  /\ consumed \cap Runs(v) = IF v \in AllowPath THEN Runs(v) ELSE {}
                      /\ invoked[v] = IF v \in AllowPath THEN 1 ELSE 0
                      /\ v \in AllowPath => \E f \in Finalizers, n \in 1 .. Len(CaseSpecs) :
                           /\ evidence[EvidenceFiles[1]].by = f /\ cases[f][n].variant = v
                           /\ \A i \in DOMAIN cases[f][n].attempts :
                                Allowed(cases[f][n].attempts[i]) <=>
                                  /\ cases[f][n].attempts[i].run_id = redeemed[v]
                                  /\ cases[f][n].attempts[i].redemption_sequence = 1
    BY DEF EvidenceIsTrue
  <2>1. StoreTrue
    BY DEF EInv
  <2>2. CASE v \notin AllowPath
    <3>1. ASSUME NEW r \in Runs(v) PROVE r[1] = v
      BY DEF Runs
    <3>2. consumed \cap Runs(v) = {}
      BY <2>1, <2>2, <3>1 DEF StoreTrue
    <3>3. invoked[v] = 0
      BY <2>1, <2>2 DEF StoreTrue
    <3> QED BY <2>2, <3>2, <3>3
  <2>3. CASE v \in AllowPath
    <3>1. PICK f \in Finalizers : \A file \in Files : evidence[file] = [by |-> f, whole |-> TRUE]
      BY DEF EvidenceBundleVerifies
    <3>2. EvidenceFiles[1] \in Files
      BY DEF Files, EvidenceFiles
    <3>3. evidence[EvidenceFiles[1]] # None /\ evidence[EvidenceFiles[1]].by = f
      <4>1. evidence[EvidenceFiles[1]] = [by |-> f, whole |-> TRUE]
        BY <3>1, <3>2
      <4>2. [by |-> f, whole |-> TRUE] \in [by : Finalizers, whole : BOOLEAN]
        OBVIOUS
      <4>3. None \notin [by : Finalizers, whole : BOOLEAN]
        BY NoneAssumption
      <4>4. evidence[EvidenceFiles[1]] # None
        BY <4>1, <4>2, <4>3, Zenon
      <4> QED BY <4>1, <4>4
    <3>4. Complete(f) /\ CasesTrue(f)
      BY <3>2, <3>3 DEF EInv, EvidenceBacked
    <3>5. Specs = CaseSpecs /\ Len(CaseSpecs) = 7 /\ Len(cases[f]) = 7
      BY <3>4 DEF Complete, Specs, CaseSpecs
    <3>6. PICK n \in 1 .. 7 : CaseSpecs[n] = v
      BY DEF CaseSpecs, Variants
    <3>7. CaseTrue(v, cases[f][n])
      BY <3>4, <3>5, <3>6 DEF CasesTrue
    <3>8. PICK seen : seen = cases[f][n].attempts
      OBVIOUS
    <3>9. seen \in Seq(Attempt)
      <4>1. cases[f] \in Seq(Case)
        BY DEF EInv, EvidenceType
      <4>2. cases[f][n] \in Case
        BY <3>5, <4>1, ElementOfSeq
      <4> QED BY <3>8, <4>2 DEF Case
    <3>10. /\ Runs(v) \subseteq consumed /\ invoked[v] = 1
           /\ \A i \in 1 .. Len(seen) :
                Allowed(seen[i]) <=> seen[i].run_id = redeemed[v] /\ seen[i].redemption_sequence = 1
      BY <2>1, <2>3, <3>7, <3>8, <3>9, AllowedCase DEF CaseTrue
    <3>11. DOMAIN seen = 1 .. Len(seen)
      BY <3>9, LenProperties
    <3>12. cases[f][n].variant = v
      BY <3>7 DEF CaseTrue
    <3>13. consumed \cap Runs(v) = Runs(v)
      BY <3>10
    <3>14. /\ n \in 1 .. Len(CaseSpecs)
           /\ \A i \in DOMAIN cases[f][n].attempts :
                Allowed(cases[f][n].attempts[i]) <=>
                  /\ cases[f][n].attempts[i].run_id = redeemed[v]
                  /\ cases[f][n].attempts[i].redemption_sequence = 1
      BY <3>5, <3>8, <3>10, <3>11
    <3> QED BY <2>3, <3>3, <3>10, <3>12, <3>13, <3>14
  <2> QED BY <2>2, <2>3
<1> QED BY <1>1, LabInvariance, EvidenceInvariance, PTL

(***************************************************************************)
(* The record                                                              *)
(***************************************************************************)

\* What the numbering of g rests on
SameNumbers(g) ==
  /\ pc'[g] = pc[g] /\ caseNo'[g] = caseNo[g] /\ count'[g] = count[g] /\ before'[g] = before[g]
  /\ slot'[g] = slot[g] /\ attempts'[g] = attempts[g] /\ cases'[g] = cases[g]

LEMMA NumbersFrame ==
  ASSUME NEW f \in Finalizers, Numbered(f), mode' = mode,
         caseNo'[f] = caseNo[f], count'[f] = count[f], before'[f] = before[f],
         attempts'[f] = attempts[f], cases'[f] = cases[f],
         pc'[f] \in {"idle", "validate", "case"} => pc[f] \in {"idle", "validate", "case"},
         pc'[f] \in AtWork \cup {"check"} => pc[f] \in AtWork \cup {"check"},
         pc'[f] \in AtWork => pc[f] \in AtWork,
         \A i \in Slots(f) : slot'[f][i] = slot[f][i] \/ SlotNumbered(f, slot[f][i])'
  PROVE  Numbered(f)'
<1>1. Variant(f)' = Variant(f) /\ Slots(f)' = Slots(f)
  BY DEF Variant, Slots, Specs
<1>2. ASSUME pc'[f] \in AtWork, NEW i \in Slots(f)
      PROVE  SlotNumbered(f, slot[f][i])'
  <2>1. CASE slot'[f][i] = slot[f][i]
    <3>1. SlotNumbered(f, slot[f][i])
      BY <1>2 DEF Numbered
    <3> QED BY <2>1, <3>1 DEF SlotNumbered
  <2> QED BY <2>1
<1>3. \A n \in 1 .. Len(cases'[f]) : CaseNumbered(n, cases'[f][n])
  BY DEF Numbered
<1>4. pc'[f] \in AtWork \cup {"check"} =>
        /\ before'[f] = InvokedBefore[caseNo'[f]] /\ before'[f] <= count'[f]
        /\ AttemptsNumbered(Variant(f)', attempts'[f], before'[f], count'[f])
  BY <1>1 DEF Numbered
<1>5. pc'[f] \in {"idle", "validate", "case"} => count'[f] = InvokedBefore[caseNo'[f]]
  BY DEF Numbered
<1> QED BY <1>1, <1>2, <1>3, <1>4, <1>5 DEF Numbered

LEMMA NumbersStep ==
  ASSUME RInv, NEW f \in Finalizers, mode' = mode,
         \A g \in Finalizers \ {f} : SameNumbers(g),
         mode = "live" => Numbered(f)'
  PROVE  RInv'
<1> SUFFICES ASSUME mode = "live", NEW g \in Finalizers \ {f} PROVE Numbered(g)'
  BY DEF RInv
<1>1. Numbered(g) /\ SameNumbers(g)
  BY DEF RInv
<1> QED BY <1>1, NumbersFrame DEF SameNumbers

LEMMA InitRInv == Init => RInv
<1> SUFFICES ASSUME Init, NEW f \in Finalizers PROVE Numbered(f)
  BY DEF RInv
<1>1. pc[f] = "idle" /\ caseNo[f] = 1 /\ count[f] = 0 /\ Len(cases[f]) = 0
  BY DEF Init
<1>2. InvokedBefore[1] = 0
  BY DEF InvokedBefore
<1> QED BY <1>1, <1>2 DEF Numbered, AtWork

\* Steps that leave the finalizers alone
LEMMA ArrivalsKeepNumbers ==
  ASSUME RInv,
         \/ PrepareGrants \/ PrepareCase \/ WriteState \/ WritePayload \/ PrepareFails
         \/ ProviderJob \/ Gather
         \/ \E r \in RunIds : \/ Submit(r) \/ WorkerAnswers(r) \/ WorkerFails(r)
                              \/ DeadlineExpires(r) \/ LateAnswer(r)
         \/ UNCHANGED vars
  PROVE  RInv'
<1>1. UNCHANGED <<mode, final>>
  BY DEF PrepareGrants, PrepareCase, WriteState, WritePayload, PrepareFails, ProviderJob, Gather,
         Submit, WorkerAnswers, WorkerFails, DeadlineExpires, LateAnswer, Deliver, vars
<1>2. ASSUME mode = "live", NEW f \in Finalizers PROVE Numbered(f)'
  BY <1>1, <1>2, NumbersFrame DEF RInv, final
<1> QED BY <1>1, <1>2 DEF RInv

\* The main thread of f moves on, and that is all.
LEMMA MovesKeepNumbers ==
  ASSUME CInv, RInv, NEW f \in Finalizers,
         \/ Begin(f) \/ Validate(f) \/ SpawnFails(f) \/ RaceFails(f) \/ Unwind(f) \/ Sign(f)
         \/ WriteEvidence(f) \/ Stops(f) \/ (Spawn(f) /\ slot' = slot)
  PROVE  RInv'
<1>1. UNCHANGED <<mode, caseNo, count, before, attempts, cases>>
  BY DEF Begin, Validate, SpawnFails, RaceFails, Unwind, Sign, WriteEvidence, Stops, Spawn
<1>2. /\ pc \in [Finalizers -> Steps] /\ slot \in [Finalizers -> [1 .. Concurrency -> SlotStates]]
  BY DEF CInv, ControlType
<1>3. /\ \A g \in Finalizers \ {f} : pc'[g] = pc[g] /\ slot'[g] = slot[g]
      /\ pc'[f] \in {"idle", "validate", "case"} => pc[f] \in {"idle", "validate", "case"}
      /\ pc'[f] \in AtWork \cup {"check"} => pc[f] \in AtWork /\ slot' = slot
      /\ pc'[f] \in AtWork => pc[f] \in AtWork
  <2> USE DEF Goto, AtWork, EvidenceFiles
  <2>1. CASE Begin(f) \/ Validate(f) \/ Sign(f)
    BY <1>2, <2>1 DEF Begin, Validate, Sign
  <2>2. CASE SpawnFails(f) \/ RaceFails(f) \/ Unwind(f) \/ (Spawn(f) /\ slot' = slot)
    BY <1>2, <2>2 DEF SpawnFails, RaceFails, Unwind, Spawn
  <2>3. CASE WriteEvidence(f)
    BY <1>2, <2>3 DEF WriteEvidence
  <2>4. CASE Stops(f)
    BY <1>2, <2>4 DEF Stops
  <2> QED BY <2>1, <2>2, <2>3, <2>4
<1>4. \A g \in Finalizers \ {f} : SameNumbers(g)
  BY <1>1, <1>3 DEF SameNumbers
<1>5. ASSUME mode = "live" PROVE Numbered(f)'
  <2>1. Numbered(f)
    BY <1>5 DEF RInv
  <2>2. CASE pc'[f] \in AtWork \cup {"check"}
    BY <1>1, <1>3, <2>1, <2>2, NumbersFrame
  <2>3. CASE pc'[f] \notin AtWork \cup {"check"}
    BY <1>1, <1>3, <2>1, <2>3 DEF Numbered
  <2> QED BY <2>2, <2>3
<1> QED BY <1>1, <1>4, <1>5, NumbersStep

\* One slot of f changes, and its new numbers are right.
LEMMA ThreadKeepsNumbers ==
  ASSUME RInv, NEW f \in Finalizers, NEW i \in 1 .. Concurrency,
         UNCHANGED <<mode, pc, caseNo, count, before, attempts, cases>>,
         \A j \in (1 .. Concurrency) \ {i} : slot'[f][j] = slot[f][j],
         \A g \in Finalizers \ {f} : slot'[g] = slot[g],
         mode = "live" => SlotNumbered(f, slot[f][i])'
  PROVE  RInv'
<1>1. Slots(f) \subseteq 1 .. Concurrency
  BY Counts, ConcurrencyAssumption DEF Slots
<1>2. \A g \in Finalizers \ {f} : SameNumbers(g)
  BY DEF SameNumbers
<1>3. ASSUME mode = "live" PROVE Numbered(f)'
  <2>1. Numbered(f)
    BY <1>3 DEF RInv
  <2>2. \A j \in Slots(f) : slot'[f][j] = slot[f][j] \/ SlotNumbered(f, slot[f][j])'
    BY <1>1, <1>3
  <2> QED BY <2>1, <2>2, NumbersFrame
<1> QED BY <1>2, <1>3, NumbersStep

LEMMA SlotStepsKeepNumbers ==
  ASSUME CInv, EInv, RInv, NEW f \in Finalizers, NEW i \in 1 .. Concurrency,
         \/ Arrive(f, i) \/ RedeemRefused(f, i) \/ RedeemFaults(f, i) \/ RedeemSpends(f, i)
         \/ RedeemAnswers(f, i) \/ RedeemRaises(f, i)
  PROVE  RInv'
<1>1. UNCHANGED <<mode, pc, caseNo, count, before, attempts, cases>>
  BY DEF Arrive, RedeemRefused, RedeemFaults, RedeemSpends, RedeemAnswers, RedeemRaises
<1>2. slot[f][i].at \notin Quiet
  BY DEF Arrive, RedeemRefused, RedeemFaults, RedeemSpends, RedeemAnswers, RedeemRaises, Quiet
<1>3. /\ i \in Slots(f) /\ pc[f] \in AtWork
      /\ slot[f][i] \in SlotStates /\ SlotTrue(Run(f, i), slot[f][i])
  BY <1>2, WorkingSlot
<1>4. count[f] \in Nat
  BY DEF CInv, ControlType
<1>5. PICK s \in SlotStates :
        /\ SetSlot(f, i, s) /\ s.invocation_id = slot[f][i].invocation_id
        /\ \/ s.reason = slot[f][i].reason /\ s.at # "answered"
           \/ slot[f][i].reason = None /\ s.reason # "ALLOW" /\ s.at # "answered"
           \/ s.reason = slot[f][i].reason /\ s.snapshot = count[f]
  <2> USE DEF SlotStates, SlotReasons, Quiet, Racing
  <2>1. CASE Arrive(f, i)
    <3> DEFINE x == IF barrier[f] = "broken" THEN "raised" ELSE "waiting"
               s == [slot[f][i] EXCEPT !.at = x]
    <3>1. SetSlot(f, i, s)
      BY <2>1, Zenon DEF Arrive, SlotGoto
    <3>2. s \in SlotStates /\ s.at = x /\ s.reason = slot[f][i].reason
          /\ s.invocation_id = slot[f][i].invocation_id
      BY <1>3
    <3> QED BY <3>1, <3>2
  <2>2. CASE RedeemRefused(f, i) \/ RedeemFaults(f, i) \/ (RedeemSpends(f, i) /\ redeemed[Variant(f)] # None)
    <3>1. PICK why \in SlotReasons \ {"ALLOW"} : Refused(f, i, why)
      BY <2>2 DEF RedeemRefused, RedeemFaults, RedeemRefusal, RedeemSpends
    <3> DEFINE s == [slot[f][i] EXCEPT !.at = "answer", !.reason = why]
    <3>2. SetSlot(f, i, s)
      BY <3>1, Zenon DEF Refused
    <3>3. s \in SlotStates /\ s.at = "answer" /\ s.reason = why
          /\ s.invocation_id = slot[f][i].invocation_id
      BY <1>3
    <3>4. slot[f][i].at \in {"redeem", "spent"}
      BY <2>2 DEF RedeemRefused, RedeemFaults, RedeemSpends
    <3>5. slot[f][i].reason = None
      BY <1>3, <3>4 DEF SlotTrue
    <3> QED BY <3>2, <3>3, <3>5
  <2>3. CASE RedeemSpends(f, i) /\ redeemed[Variant(f)] = None
    <3> DEFINE s == [slot[f][i] EXCEPT !.at = "spent"]
    <3>1. SetSlot(f, i, s)
      BY <2>3, Zenon DEF RedeemSpends, SlotGoto
    <3>2. s \in SlotStates /\ s.at = "spent" /\ s.reason = slot[f][i].reason
          /\ s.invocation_id = slot[f][i].invocation_id
      BY <1>3
    <3> QED BY <3>1, <3>2
  <2>4. CASE RedeemAnswers(f, i)
    <3>0. PICK t \in Times :
            SetSlot(f, i, [slot[f][i] EXCEPT !.at = "answered", !.snapshot = count[f],
                                             !.decided_at = t])
      BY <2>4, Zenon DEF RedeemAnswers
    <3> DEFINE s == [slot[f][i] EXCEPT !.at = "answered", !.snapshot = count[f], !.decided_at = t]
    <3>1. SetSlot(f, i, s) /\ t \in Nat
      BY <3>0, ClockAssumption
    <3>2. s \in SlotStates /\ s.reason = slot[f][i].reason /\ s.snapshot = count[f]
          /\ s.invocation_id = slot[f][i].invocation_id
      BY <1>3, <1>4, <3>1
    <3> QED BY <3>1, <3>2
  <2>5. CASE RedeemRaises(f, i)
    <3> DEFINE s == [slot[f][i] EXCEPT !.at = "raised"]
    <3>1. SetSlot(f, i, s)
      BY <2>5, Zenon DEF RedeemRaises, SlotGoto
    <3>2. s \in SlotStates /\ s.at = "raised" /\ s.reason = slot[f][i].reason
          /\ s.invocation_id = slot[f][i].invocation_id
      BY <1>3
    <3> QED BY <3>1, <3>2
  <2> QED BY <2>1, <2>2, <2>3, <2>4, <2>5
<1>6. /\ slot'[f][i] = s
      /\ \A j \in (1 .. Concurrency) \ {i} : slot'[f][j] = slot[f][j]
      /\ \A g \in Finalizers \ {f} : slot'[g] = slot[g]
  BY <1>5, SlotSet DEF CInv
<1>7. ASSUME mode = "live" PROVE SlotNumbered(f, slot[f][i])'
  <2>1. Numbered(f) /\ before[f] \in Nat /\ attempts[f] \in Seq(Attempt)
    BY <1>7 DEF RInv, EInv, EvidenceType
  <2>2. /\ SlotNumbered(f, slot[f][i]) /\ before[f] <= count[f]
        /\ AttemptsNumbered(Variant(f), attempts[f], before[f], count[f])
    BY <1>3, <2>1 DEF Numbered
  <2>3. \A j \in 1 .. Len(attempts[f]) : attempts[f][j].handler_count_snapshot <= count[f]
    BY <1>4, <2>1, <2>2 DEF AttemptsNumbered
  <2>4. (s.reason = "ALLOW") <=> (s.invocation_id # None)
    BY <1>5, <2>2, NoneAssumption DEF SlotNumbered
  <2>5. s.reason = "ALLOW" => s.invocation_id \in before[f] + 1 .. count[f]
    BY <1>5, <2>2, NoneAssumption DEF SlotNumbered
  <2>6. s.at = "answered" =>
          /\ s.snapshot \in before[f] .. count[f]
          /\ s.reason = "ALLOW" => s.invocation_id <= s.snapshot
          /\ \A j \in 1 .. Len(attempts[f]) : attempts[f][j].handler_count_snapshot <= s.snapshot
    BY <1>4, <1>5, <2>1, <2>2, <2>3, <2>5
  <2> QED BY <1>1, <1>6, <2>4, <2>5, <2>6 DEF SlotNumbered
<1> QED BY <1>1, <1>6, <1>7, ThreadKeepsNumbers

\* The attempts of a case stay numbered while the counter goes on.
LEMMA NumbersGrow ==
  ASSUME NEW v, NEW seen, NEW low \in Nat, NEW high \in Nat, NEW more \in Nat, high <= more,
         AttemptsNumbered(v, seen, low, high)
  PROVE  AttemptsNumbered(v, seen, low, more)
<1> SUFFICES ASSUME NEW i \in 1 .. Len(seen)
             PROVE  seen[i].handler_count_snapshot \in low .. more
  BY DEF AttemptsNumbered
<1>1. seen[i].handler_count_snapshot \in low .. high
  BY DEF AttemptsNumbered
<1> QED BY <1>1

\* The invocation gets the next number.
LEMMA InvokeKeepsNumbers ==
  ASSUME CInv, EInv, RInv, NEW f \in Finalizers, NEW i \in 1 .. Concurrency, RedeemInvokes(f, i)
  PROVE  RInv'
<1>1. /\ UNCHANGED <<mode, pc, caseNo, before, attempts, cases>>
      /\ count' = [count EXCEPT ![f] = @ + 1]
  BY DEF RedeemInvokes
<1>2. slot[f][i].at = "spent"
  BY DEF RedeemInvokes
<1>3. i \in Slots(f) /\ pc[f] \in AtWork /\ slot[f][i] \in SlotStates
  BY <1>2, WorkingSlot DEF Quiet
<1>4. count \in [Finalizers -> Nat] /\ before[f] \in Nat /\ attempts[f] \in Seq(Attempt)
  BY DEF CInv, ControlType, EInv, EvidenceType
<1>5. PICK k : k = count[f]
  OBVIOUS
<1>6. k \in Nat /\ count'[f] = k + 1 /\ \A g \in Finalizers \ {f} : count'[g] = count[g]
  BY <1>1, <1>4, <1>5
<1> DEFINE s == [slot[f][i] EXCEPT !.at = "answer", !.reason = "ALLOW", !.invocation_id = k + 1]
<1>7. SetSlot(f, i, s)
  BY <1>5, Zenon DEF RedeemInvokes
<1>8. s \in SlotStates /\ s.at = "answer" /\ s.reason = "ALLOW" /\ s.invocation_id = k + 1
  <2>1. PICK id \in Nat : id = k + 1
    BY <1>6
  <2> QED BY <1>3, <2>1 DEF SlotStates, SlotReasons
<1> HIDE DEF s
<1>9. /\ slot'[f][i] = s
      /\ \A j \in (1 .. Concurrency) \ {i} : slot'[f][j] = slot[f][j]
      /\ \A g \in Finalizers \ {f} : slot'[g] = slot[g]
  BY <1>7, <1>8, SlotSet DEF CInv
<1>10. \A g \in Finalizers \ {f} : SameNumbers(g)
  BY <1>1, <1>6, <1>9 DEF SameNumbers
<1>11. ASSUME mode = "live" PROVE Numbered(f)'
  <2>1. Numbered(f)
    BY <1>11 DEF RInv
  <2>2. before[f] = InvokedBefore[caseNo[f]] /\ before[f] <= k
        /\ AttemptsNumbered(Variant(f), attempts[f], before[f], k)
    BY <1>3, <1>5, <2>1 DEF Numbered
  <2>3. AttemptsNumbered(Variant(f), attempts[f], before[f], k + 1)
    BY <1>4, <1>6, <2>2, NumbersGrow
  <2>4. ASSUME NEW j \in Slots(f) PROVE SlotNumbered(f, slot[f][j])'
    <3>1. j \in 1 .. Concurrency
      BY Counts, ConcurrencyAssumption DEF Slots
    <3>2. CASE j = i
      <4>1. s.invocation_id # None /\ s.invocation_id \in before[f] + 1 .. k + 1
        BY <1>4, <1>6, <1>8, <2>2, NoneAssumption
      <4> QED BY <1>1, <1>6, <1>8, <1>9, <3>2, <4>1 DEF SlotNumbered
    <3>3. CASE j # i
      <4>1. PICK t : t = slot[f][j]
        OBVIOUS
      <4>2. SlotNumbered(f, t) /\ t = slot'[f][j]
        BY <1>3, <1>9, <2>1, <3>1, <3>3, <4>1 DEF Numbered
      <4>3. t.reason = "ALLOW" => t.invocation_id \in before[f] + 1 .. k + 1
        BY <1>4, <1>5, <1>6, <4>2 DEF SlotNumbered
      <4>4. t.at = "answered" => t.snapshot \in before[f] .. k + 1
        BY <1>4, <1>5, <1>6, <4>2 DEF SlotNumbered
      <4> QED BY <1>1, <1>6, <4>2, <4>3, <4>4 DEF SlotNumbered
    <3> QED BY <3>2, <3>3
  <2>5. Variant(f)' = Variant(f) /\ Slots(f)' = Slots(f)
    BY <1>1 DEF Variant, Slots, Specs
  <2>6. \A n \in 1 .. Len(cases'[f]) : CaseNumbered(n, cases'[f][n])
    BY <1>1, <2>1 DEF Numbered
  <2>7. before[f] <= k + 1
    BY <1>4, <1>6, <2>2
  <2>8. pc[f] \notin {"idle", "validate", "case"}
    BY <1>3 DEF AtWork
  <2> QED BY <1>1, <1>6, <2>2, <2>3, <2>4, <2>5, <2>6, <2>7, <2>8 DEF Numbered
<1> QED BY <1>1, <1>10, <1>11, NumbersStep

LEMMA SpawnKeepsNumbers ==
  ASSUME CInv, EInv, RInv, NEW f \in Finalizers, Spawn(f)
  PROVE  RInv'
<1>1. CASE slot' = slot
  BY <1>1, MovesKeepNumbers
<1>2. CASE slot' # slot
  <2> DEFINE fresh == {j \in Slots(f) : slot[f][j].at = "idle"}
             i == Min(fresh)
             s == [slot[f][i] EXCEPT !.at = "started"]
  <2>1. UNCHANGED <<mode, caseNo, count, before, attempts, cases>>
    BY DEF Spawn
  <2>2. fresh # {} /\ SetSlot(f, i, s) /\ pc' = pc /\ pc[f] = "spawn"
    BY <1>2, Zenon DEF Spawn, SlotGoto
  <2>3. i \in fresh
    <3>1. fresh \subseteq Nat
      BY Counts DEF Slots
    <3> HIDE DEF fresh
    <3> QED BY <2>2, <3>1, MinIsMember
  <2>4. i \in Slots(f) /\ i \in 1 .. Concurrency
    BY <2>3, Counts, ConcurrencyAssumption DEF Slots
  <2> HIDE DEF i
  <2>5. slot[f][i] \in SlotStates
    BY <2>4 DEF CInv, ControlType
  <2>6. s \in SlotStates /\ s.at = "started" /\ s.reason = slot[f][i].reason
        /\ s.invocation_id = slot[f][i].invocation_id
    BY <2>5 DEF SlotStates, Racing
  <2> HIDE DEF s
  <2>7. /\ slot'[f][i] = s
        /\ \A j \in (1 .. Concurrency) \ {i} : slot'[f][j] = slot[f][j]
        /\ \A g \in Finalizers \ {f} : slot'[g] = slot[g]
    BY <2>2, <2>4, <2>6, SlotSet DEF CInv
  <2>8. PICK k : k = i
    OBVIOUS
  <2>9. ASSUME mode = "live" PROVE SlotNumbered(f, slot[f][k])'
    <3>1. SlotNumbered(f, slot[f][k])
      BY <2>2, <2>4, <2>8, <2>9 DEF RInv, Numbered, AtWork
    <3> QED BY <2>1, <2>6, <2>7, <2>8, <3>1 DEF SlotNumbered
  <2> QED BY <2>1, <2>2, <2>4, <2>7, <2>8, <2>9, ThreadKeepsNumbers
<1> QED BY <1>1, <1>2

LEMMA BarrierKeepsNumbers ==
  ASSUME CInv, EInv, RInv, NEW f \in Finalizers, BarrierTrips(f) \/ BarrierBreaks(f)
  PROVE  RInv'
<1>1. UNCHANGED <<mode, caseNo, count, before, attempts, cases>>
  BY DEF BarrierTrips, BarrierBreaks
<1>2. /\ pc \in [Finalizers -> Steps] /\ slot \in [Finalizers -> [1 .. Concurrency -> SlotStates]]
      /\ Slots(f) \subseteq 1 .. Concurrency
  BY Counts, ConcurrencyAssumption DEF CInv, ControlType, Slots
<1>3. PICK ss : slot' = [slot EXCEPT ![f] = ss]
  BY DEF BarrierTrips, BarrierBreaks
<1>4. /\ \A g \in Finalizers \ {f} : pc'[g] = pc[g] /\ slot'[g] = slot[g]
      /\ pc'[f] = pc[f] \/ (pc[f] = "barrier" /\ pc'[f] \in {"redeem", "unwind"})
  BY <1>2, <1>3 DEF BarrierTrips, BarrierBreaks, Goto
<1>5. \A g \in Finalizers \ {f} : SameNumbers(g)
  BY <1>1, <1>4 DEF SameNumbers
<1>6. ASSUME mode = "live" PROVE Numbered(f)'
  <2>1. Numbered(f)
    BY <1>6 DEF RInv
  <2>2. ASSUME NEW i \in Slots(f)
        PROVE  slot'[f][i] = slot[f][i] \/ SlotNumbered(f, slot[f][i])'
    <3>1. i \in 1 .. Concurrency
      BY <1>2
    <3>2. CASE BarrierTrips(f)
      <4>1. slot'[f][i] = RedeemingSlot
        BY <1>2, <3>1, <3>2 DEF BarrierTrips
      <4> QED BY <4>1, NoneAssumption DEF RedeemingSlot, IdleSlot, SlotNumbered
    <3>3. CASE BarrierBreaks(f) /\ slot[f][i].at = "waiting"
      <4> DEFINE s == [slot[f][i] EXCEPT !.at = "raised"]
      <4>1. slot'[f][i] = s
        BY <1>2, <3>1, <3>3 DEF BarrierBreaks
      <4>2. slot[f][i] \in SlotStates /\ pc[f] \in AtWork
        BY <3>1, <3>3, WorkingSlot DEF Quiet
      <4>3. SlotNumbered(f, slot[f][i])
        BY <2>1, <4>2 DEF Numbered
      <4>4. s.at = "raised" /\ s.reason = slot[f][i].reason
            /\ s.invocation_id = slot[f][i].invocation_id
        BY <4>2 DEF SlotStates
      <4> HIDE DEF s
      <4> QED BY <1>1, <4>1, <4>3, <4>4 DEF SlotNumbered
    <3>4. CASE BarrierBreaks(f) /\ slot[f][i].at # "waiting"
      BY <1>2, <3>1, <3>4 DEF BarrierBreaks
    <3> QED BY <3>2, <3>3, <3>4
  <2> QED BY <1>1, <1>4, <2>1, <2>2, NumbersFrame DEF AtWork
<1> QED BY <1>1, <1>5, <1>6, NumbersStep

LEMMA StartCaseKeepsNumbers ==
  ASSUME CInv, EInv, RInv, NEW f \in Finalizers, StartCase(f)
  PROVE  RInv'
<1>1. UNCHANGED <<mode, caseNo, count, cases>> /\ pc[f] = "case"
  BY DEF StartCase
<1>2. /\ pc \in [Finalizers -> Steps] /\ slot \in [Finalizers -> [1 .. Concurrency -> SlotStates]]
      /\ count \in [Finalizers -> Nat] /\ before \in [Finalizers -> Nat]
      /\ attempts \in [Finalizers -> Seq(Attempt)]
  BY DEF CInv, ControlType, EInv, EvidenceType
<1>3. /\ attempts' = [attempts EXCEPT ![f] = <<>>] /\ before' = [before EXCEPT ![f] = count[f]]
      /\ pc'[f] \in {"spawn", "redeem"} /\ \A g \in Finalizers \ {f} : pc'[g] = pc[g]
  BY <1>2 DEF StartCase, Goto
<1>4. PICK ss : slot' = [slot EXCEPT ![f] = ss]
  BY DEF StartCase
<1>5. \A g \in Finalizers \ {f} : SameNumbers(g)
  BY <1>1, <1>2, <1>3, <1>4 DEF SameNumbers
<1>6. ASSUME mode = "live" PROVE Numbered(f)'
  <2>1. Numbered(f)
    BY <1>6 DEF RInv
  <2>2. /\ attempts'[f] = <<>> /\ Len(attempts'[f]) = 0
        /\ before'[f] = count'[f] /\ count'[f] \in Nat /\ before'[f] = InvokedBefore[caseNo'[f]]
    BY <1>1, <1>2, <1>3, <2>1 DEF Numbered
  <2>3. ASSUME NEW i \in Slots(f)' PROVE SlotNumbered(f, slot[f][i])'
    <3>1. i \in 1 .. Concurrency
      BY Counts, ConcurrencyAssumption DEF Slots, Count
    <3>2. slot'[f][i] \in {RedeemingSlot, IdleSlot}
      BY <1>2, <3>1 DEF StartCase
    <3>3. slot'[f][i].reason = None /\ slot'[f][i].invocation_id = None /\ slot'[f][i].at # "answered"
      BY <3>2 DEF RedeemingSlot, IdleSlot
    <3> QED BY <3>3, NoneAssumption DEF SlotNumbered
  <2>4. AttemptsNumbered(Variant(f)', attempts'[f], before'[f], count'[f])
    BY <2>2 DEF AttemptsNumbered
  <2>5. \A n \in 1 .. Len(cases'[f]) : CaseNumbered(n, cases'[f][n])
    BY <1>1, <2>1 DEF Numbered
  <2> QED BY <1>3, <2>2, <2>3, <2>4, <2>5 DEF Numbered
<1> QED BY <1>1, <1>5, <1>6, NumbersStep

\* The observations of answered slots carry the slots' numbers.
LEMMA ObservationsAreNumbered ==
  ASSUME CInv, EInv, NEW f \in Finalizers, Numbered(f), pc[f] = "redeem",
         \A i \in Slots(f) : slot[f][i].at = "answered",
         NEW v, v = Variant(f), NEW seen, seen = attempts[f] \o Observations(f)
  PROVE  AttemptsNumbered(v, seen, before[f], count[f])
<1>1. PICK old, obs : old = attempts[f] /\ obs = Observations(f)
  OBVIOUS
<1>2. /\ old \in Seq(Attempt) /\ obs \in Seq(Attempt) /\ Len(obs) = Count(v)
      /\ \A i \in 1 .. Count(v) : obs[i].run_id = <<v, i>>
  BY <1>1, ObservationsAreTrue DEF EInv, EvidenceType
<1>3. /\ Len(old) \in Nat /\ Count(v) \in Nat /\ Slots(f) = 1 .. Count(v)
      /\ Slots(f) \subseteq 1 .. Concurrency
      /\ v = "replay" => Count(v) = 1
      /\ before[f] \in Nat /\ count[f] \in Nat
  BY <1>2, LenProperties, Counts, ConcurrencyAssumption DEF Slots, Count, EInv, EvidenceType, CInv,
     ControlType
<1>4. /\ seen \in Seq(Attempt) /\ Len(seen) = Len(old) + Count(v)
      /\ \A i \in 1 .. Len(old) + Count(v) :
           seen[i] = IF i <= Len(old) THEN old[i] ELSE obs[i - Len(old)]
  BY <1>1, <1>2, ConcatProperties
<1>5. AttemptsNumbered(v, old, before[f], count[f])
  BY <1>1 DEF Numbered, AtWork
<1> DEFINE Good(a) ==
             /\ AttemptSemantics(a)
             /\ a.handler_count_snapshot \in before[f] .. count[f]
             /\ Allowed(a) => a.invocation_id \in before[f] + 1 .. a.handler_count_snapshot
             /\ a.challenge_token_hash = IF v = "malformed" THEN None ELSE a.run_id
<1>6. ASSUME NEW j \in 1 .. Count(v)
      PROVE  /\ Good(obs[j]) /\ obs[j].handler_count_snapshot \in Nat
             /\ \A m \in 1 .. Len(old) : old[m].handler_count_snapshot <= obs[j].handler_count_snapshot
  <2>1. obs[j] = Observation(f, j)
    BY <1>1, <1>3 DEF Observations
  <2>2. /\ obs[j].reason = slot[f][j].reason /\ obs[j].invocation_id = slot[f][j].invocation_id
        /\ obs[j].handler_count_snapshot = slot[f][j].snapshot
        /\ obs[j].run_id = Run(f, j)
        /\ obs[j].challenge_token_hash = IF v = "malformed" THEN None ELSE Run(f, j)
    BY <2>1 DEF Observation
  <2>3. SlotNumbered(f, slot[f][j]) /\ slot[f][j].at = "answered"
    BY <1>3 DEF Numbered, AtWork
  <2>4. /\ (obs[j].reason = "ALLOW") <=> (obs[j].invocation_id # None)
        /\ obs[j].handler_count_snapshot \in before[f] .. count[f]
        /\ obs[j].reason = "ALLOW" =>
             /\ obs[j].invocation_id \in before[f] + 1 .. count[f]
             /\ obs[j].invocation_id <= obs[j].handler_count_snapshot
        /\ \A m \in 1 .. Len(old) : old[m].handler_count_snapshot <= obs[j].handler_count_snapshot
    BY <1>1, <2>2, <2>3 DEF SlotNumbered
  <2>5. obs[j].reason = "ALLOW" => obs[j].invocation_id \in before[f] + 1 .. obs[j].handler_count_snapshot
    BY <1>3, <2>4
  <2>6. obs[j].handler_count_snapshot \in Nat
    BY <1>3, <2>4
  <2> QED BY <2>2, <2>4, <2>5, <2>6 DEF AttemptSemantics, Allowed
<1>7. \A m \in 1 .. Len(old) : Good(old[m])
  BY <1>5 DEF AttemptsNumbered
<1> HIDE DEF Good
<1>8. ASSUME NEW i \in 1 .. Len(seen)
      PROVE  /\ Good(seen[i])
             /\ v = "replay" => \A m \in 1 .. i :
                  seen[m].handler_count_snapshot <= seen[i].handler_count_snapshot
  <2>1. i \in Nat /\ 1 <= i /\ i <= Len(old) + Count(v)
    BY <1>3, <1>4
  <2>2. CASE i <= Len(old)
    <3>1. seen[i] = old[i] /\ i \in 1 .. Len(old)
      BY <1>3, <1>4, <2>1, <2>2
    <3>2. ASSUME NEW m \in 1 .. i PROVE seen[m] = old[m]
      BY <1>3, <1>4, <2>1, <2>2
    <3> QED BY <1>5, <1>7, <3>1, <3>2 DEF AttemptsNumbered
  <2>3. CASE i > Len(old)
    <3>1. PICK j : j = i - Len(old)
      OBVIOUS
    <3>2. seen[i] = obs[j] /\ j \in 1 .. Count(v)
      BY <1>3, <1>4, <2>1, <2>3, <3>1
    <3>3. ASSUME v = "replay", NEW m \in 1 .. i
          PROVE  seen[m].handler_count_snapshot <= seen[i].handler_count_snapshot
      <4>1. m \in 1 .. Len(old) \/ m = i
        BY <1>3, <2>1, <2>3, <3>3
      <4>2. CASE m \in 1 .. Len(old)
        <5>1. seen[m] = old[m]
          BY <1>3, <1>4, <4>2
        <5> QED BY <1>6, <3>2, <4>2, <5>1
      <4>3. CASE m = i
        BY <1>6, <3>2, <4>3
      <4> QED BY <4>1, <4>2, <4>3
    <3> QED BY <1>6, <3>2, <3>3
  <2>4. i <= Len(old) \/ i > Len(old)
    BY <1>3, <2>1
  <2> QED BY <2>2, <2>3, <2>4, Zenon
<1> QED BY <1>8 DEF AttemptsNumbered, Good

LEMMA ObserveKeepsNumbers ==
  ASSUME CInv, EInv, RInv, NEW f \in Finalizers, Observe(f)
  PROVE  RInv'
<1>1. /\ UNCHANGED <<mode, caseNo, count, before, cases>>
      /\ pc[f] = "redeem" /\ attempts' = [attempts EXCEPT ![f] = @ \o Observations(f)]
      /\ \A i \in Slots(f) : slot[f][i].at = "answered"
  BY DEF Observe, Observations
<1>2. /\ pc \in [Finalizers -> Steps] /\ slot \in [Finalizers -> [1 .. Concurrency -> SlotStates]]
      /\ attempts \in [Finalizers -> Seq(Attempt)]
  BY DEF CInv, ControlType, EInv, EvidenceType
<1>3. PICK v, seen : v = Variant(f) /\ seen = attempts[f] \o Observations(f)
  OBVIOUS
<1>4. attempts'[f] = seen /\ \A g \in Finalizers \ {f} : attempts'[g] = attempts[g]
  BY <1>1, <1>2, <1>3
<1>5. v = Variant(f)' /\ Slots(f)' = Slots(f)
  BY <1>1, <1>3 DEF Variant, Slots, Specs
<1>6. ASSUME mode = "live"
      PROVE  /\ before'[f] = InvokedBefore[caseNo'[f]] /\ before'[f] <= count'[f]
             /\ AttemptsNumbered(Variant(f)', attempts'[f], before'[f], count'[f])
             /\ \A n \in 1 .. Len(cases'[f]) : CaseNumbered(n, cases'[f][n])
  <2>1. Numbered(f)
    BY <1>6 DEF RInv
  <2>2. AttemptsNumbered(v, seen, before[f], count[f])
    BY <1>1, <1>3, <2>1, ObservationsAreNumbered
  <2>3. before[f] = InvokedBefore[caseNo[f]] /\ before[f] <= count[f]
        /\ \A n \in 1 .. Len(cases[f]) : CaseNumbered(n, cases[f][n])
    BY <1>1, <2>1 DEF Numbered, AtWork
  <2> QED BY <1>1, <1>4, <1>5, <2>2, <2>3
<1>7. CASE SetSlot(f, 1, RedeemingSlot) /\ pc' = pc /\ v = "replay"
  <2>1. 1 \in 1 .. Concurrency /\ RedeemingSlot \in SlotStates
    BY ConcurrencyAssumption DEF RedeemingSlot, IdleSlot, SlotStates, SlotReasons
  <2>2. slot'[f][1] = RedeemingSlot /\ \A g \in Finalizers \ {f} : slot'[g] = slot[g]
    BY <1>7, <2>1, SlotSet DEF CInv
  <2>3. Slots(f)' = {1}
    BY <1>3, <1>5, <1>7 DEF Slots, Count
  <2>4. SlotNumbered(f, slot[f][1])'
    BY <2>2, NoneAssumption DEF RedeemingSlot, IdleSlot, SlotNumbered
  <2>5. \A g \in Finalizers \ {f} : SameNumbers(g)
    BY <1>1, <1>4, <1>7, <2>2 DEF SameNumbers
  <2>6. mode = "live" => Numbered(f)'
    BY <1>1, <1>6, <1>7, <2>3, <2>4 DEF Numbered
  <2> QED BY <1>1, <2>5, <2>6, NumbersStep
<1>8. CASE Goto(f, "check") /\ slot' = slot
  <2>1. pc'[f] = "check" /\ \A g \in Finalizers \ {f} : pc'[g] = pc[g]
    BY <1>2, <1>8 DEF Goto
  <2>2. \A g \in Finalizers \ {f} : SameNumbers(g)
    BY <1>1, <1>4, <1>8, <2>1 DEF SameNumbers
  <2>3. mode = "live" => Numbered(f)'
    BY <1>6, <2>1 DEF Numbered, AtWork
  <2> QED BY <1>1, <2>2, <2>3, NumbersStep
<1> QED BY <1>3, <1>7, <1>8 DEF Observe

\* The counter at the start of each case of the matrix
LEMMA CountersOfCases ==
  \A n \in 1 .. 7 :
    /\ InvokedBefore[n] \in Nat /\ InvokedBefore[n + 1] \in Nat
    /\ InvokedBefore[n + 1] = InvokedBefore[n] + ExpectedCount(CaseSpecs[n])
BY DEF InvokedBefore, ExpectedCount, CaseSpecs, AllowPath

LEMMA CheckKeepsNumbers ==
  ASSUME CInv, GInv, EInv, RInv, NEW f \in Finalizers, CheckCase(f)
  PROVE  RInv'
<1>1. /\ UNCHANGED <<mode, count, before, slot, attempts>>
      /\ pc[f] = "check"
  BY DEF CheckCase
<1>2. /\ pc \in [Finalizers -> Steps] /\ caseNo \in [Finalizers -> Nat]
      /\ cases \in [Finalizers -> Seq(Case)] /\ count[f] \in Nat /\ before[f] \in Nat
      /\ attempts[f] \in Seq(Attempt)
  BY DEF CInv, ControlType, EInv, EvidenceType
<1>3. CASE Goto(f, "failed") /\ UNCHANGED <<cases, caseNo>>
  <2>1. pc'[f] = "failed" /\ \A g \in Finalizers \ {f} : pc'[g] = pc[g]
    BY <1>2, <1>3 DEF Goto
  <2>2. \A g \in Finalizers \ {f} : SameNumbers(g)
    BY <1>1, <1>3, <2>1 DEF SameNumbers
  <2>3. mode = "live" => Numbered(f)'
    BY <1>3, <2>1 DEF RInv, Numbered, AtWork
  <2> QED BY <1>1, <2>2, <2>3, NumbersStep
<1>4. CASE ~(Goto(f, "failed") /\ UNCHANGED <<cases, caseNo>>)
  <2> DEFINE last == caseNo[f] = Len(Specs)
  <2>1. PICK v, seen, n, delta, rec :
          /\ v = Variant(f) /\ seen = attempts[f] /\ n = caseNo[f] /\ delta = count[f] - before[f]
          /\ rec = [variant |-> v, attempts |-> seen, invocation_delta |-> delta,
                    redemption_count |-> RedemptionCount(v), broker_decided_at |-> grantedAt[n]]
    OBVIOUS
  <2>2. /\ delta = ExpectedCount(v) /\ RedemptionCount(v) = ExpectedCount(v)
        /\ cases' = [cases EXCEPT ![f] = Append(@, rec)]
        /\ caseNo' = [caseNo EXCEPT ![f] = IF last THEN @ ELSE @ + 1]
        /\ Goto(f, IF ~last THEN "case" ELSE IF mode = "live" THEN "sign" ELSE "done")
    BY <1>4, <2>1 DEF CheckCase
  <2>3. /\ cases[f] \in Seq(Case) /\ cases'[f] = Append(cases[f], rec)
        /\ \A g \in Finalizers \ {f} : cases'[g] = cases[g]
    BY <1>2, <2>2
  <2>4. /\ pc'[f] \in {"case", "sign", "done"} /\ (pc'[f] = "case" => ~last)
        /\ caseNo'[f] = IF last THEN n ELSE n + 1
        /\ \A g \in Finalizers \ {f} : pc'[g] = pc[g] /\ caseNo'[g] = caseNo[g]
    BY <1>2, <2>1, <2>2 DEF Goto
  <2>5. \A g \in Finalizers \ {f} : SameNumbers(g)
    BY <1>1, <2>3, <2>4 DEF SameNumbers
  <2>6. ASSUME mode = "live" PROVE Numbered(f)'
    <3>1. Numbered(f) /\ CasesTrue(f) /\ Specs = CaseSpecs
      BY <2>6 DEF RInv, EInv, Specs
    <3>2. Len(CaseSpecs) = 7
      BY DEF CaseSpecs
    <3>3. n \in 1 .. 7 /\ v = CaseSpecs[n] /\ Len(cases[f]) = n - 1 /\ v \in Variants
      BY <1>1, <2>1, <3>1, <3>2, SpecsAreVariants DEF CasesTrue, Files, EvidenceFiles, CInv,
         ControlType, Variant
    <3>4. /\ before[f] = InvokedBefore[n]
          /\ AttemptsNumbered(v, seen, before[f], count[f])
      BY <1>1, <2>1, <3>1 DEF Numbered
    <3>5. count[f] = InvokedBefore[n + 1]
      <4>1. PICK b, c, e : b = before[f] /\ c = count[f] /\ e = ExpectedCount(v)
        OBVIOUS
      <4>2. b \in Nat /\ c \in Nat /\ c - b = e /\ InvokedBefore[n + 1] = b + e
        BY <1>2, <2>1, <2>2, <3>3, <3>4, <4>1, CountersOfCases
      <4> QED BY <4>1, <4>2
    <3>6. CaseNumbered(n, rec)
      BY <2>1, <2>2, <3>3, <3>4, <3>5 DEF CaseNumbered
    <3>7. rec \in Case
      <4>1. RedemptionCount(v) \in {0, 1}
        BY DEF RedemptionCount
      <4>2. grantedAt[n] \in Nat
        BY <1>1, <2>1, GrantOfCase
      <4> QED BY <1>2, <2>1, <3>3, <4>1, <4>2 DEF Case
    <3>8. /\ Len(cases'[f]) = n /\ cases'[f][n] = rec
          /\ \A m \in 1 .. n - 1 : cases'[f][m] = cases[f][m]
      <4>1. PICK old : old = cases[f]
        OBVIOUS
      <4>2. /\ Len(Append(old, rec)) = Len(old) + 1 /\ Append(old, rec)[Len(old) + 1] = rec
            /\ \A m \in 1 .. Len(old) : Append(old, rec)[m] = old[m]
        BY <2>3, <3>7, <4>1, AppendProperties
      <4>3. Len(old) + 1 = n
        BY <3>3, <4>1
      <4> QED BY <2>3, <3>3, <4>1, <4>2, <4>3
    <3>9. ASSUME NEW m \in 1 .. n PROVE CaseNumbered(m, cases'[f][m])
      <4>1. CASE m = n
        BY <3>6, <3>8, <4>1
      <4>2. CASE m # n
        <5>1. m \in 1 .. n - 1
          BY <3>3, <4>2
        <5> QED BY <3>1, <3>3, <3>8, <5>1 DEF Numbered
      <4> QED BY <4>1, <4>2
    <3>10. pc'[f] = "case" => count'[f] = InvokedBefore[caseNo'[f]]
      BY <1>1, <2>4, <3>5
    <3> QED BY <2>4, <3>8, <3>9, <3>10 DEF Numbered, AtWork
  <2> QED BY <1>1, <2>5, <2>6, NumbersStep
<1> QED BY <1>3, <1>4

LEMMA NextRInv == CInv /\ GInv /\ EInv /\ RInv /\ [Next]_vars => RInv'
<1> SUFFICES ASSUME CInv, GInv, EInv, RInv, [Next]_vars PROVE RInv'
  OBVIOUS
<1>1. CASE \/ PrepareGrants \/ PrepareCase \/ WriteState \/ WritePayload \/ PrepareFails
           \/ ProviderJob \/ Gather
           \/ \E r \in RunIds : \/ Submit(r) \/ WorkerAnswers(r) \/ WorkerFails(r)
                                \/ DeadlineExpires(r) \/ LateAnswer(r)
           \/ UNCHANGED vars
  BY <1>1, ArrivalsKeepNumbers
<1>2. ASSUME NEW f \in Finalizers, Begin(f) \/ MainStep(f) \/ SpawnFails(f) \/ Stops(f)
      PROVE  RInv'
  BY <1>2, MovesKeepNumbers, SpawnKeepsNumbers, BarrierKeepsNumbers, StartCaseKeepsNumbers,
     ObserveKeepsNumbers, CheckKeepsNumbers DEF MainStep
<1>3. ASSUME NEW f \in Finalizers, NEW i \in 1 .. Concurrency,
             SlotStep(f, i) \/ RedeemFaults(f, i) \/ RedeemRaises(f, i)
      PROVE  RInv'
  BY <1>3, SlotStepsKeepNumbers, InvokeKeepsNumbers DEF SlotStep
<1> QED BY <1>1, <1>2, <1>3 DEF Next

\* The invocations are numbered in the order of the cases, and the attempts
\* carry those numbers, in every reachable state (finalize_cases and
\* InventoryApplication.invocation_count).
THEOREM RecordInvariance == Spec => []RInv
<1>1. Init => RInv
  BY InitRInv
<1>2. CInv /\ GInv /\ EInv /\ RInv /\ [Next]_vars => RInv'
  BY NextRInv
<1> QED BY <1>1, <1>2, LabInvariance, GrantsInvariance, EvidenceInvariance, PTL DEF Spec

(***************************************************************************)
(* The times                                                               *)
(***************************************************************************)

\* What a redemption step makes of its slot: an owner only by the spend that
\* redeems, and an answer at the time that was read.
LEMMA SlotWritten ==
  ASSUME CInv, EInv, NEW f \in Finalizers, NEW i \in 1 .. Concurrency,
         SlotStep(f, i) \/ RedeemFaults(f, i) \/ RedeemRaises(f, i)
  PROVE  \E s \in SlotStates :
           /\ SetSlot(f, i, s)
           /\ s.at = "spent" => RedeemSpends(f, i) /\ redeemed[Variant(f)] = None
           /\ s.at = "answered" => s.decided_at = now'
<1>0. slot[f][i] \in SlotStates
  BY DEF CInv, ControlType
<1> USE DEF SlotStates, SlotReasons, Quiet, Racing
<1>1. CASE Arrive(f, i)
  <2> DEFINE x == IF barrier[f] = "broken" THEN "raised" ELSE "waiting"
             s == [slot[f][i] EXCEPT !.at = x]
  <2>1. SetSlot(f, i, s)
    BY <1>1, Zenon DEF Arrive, SlotGoto
  <2>2. s \in SlotStates /\ s.at = x
    BY <1>0
  <2> QED BY <2>1, <2>2
<1>2. CASE RedeemRefused(f, i) \/ RedeemFaults(f, i) \/ (RedeemSpends(f, i) /\ redeemed[Variant(f)] # None)
  <2>1. PICK why \in SlotReasons : Refused(f, i, why)
    BY <1>2 DEF RedeemRefused, RedeemFaults, RedeemRefusal, RedeemSpends
  <2> DEFINE s == [slot[f][i] EXCEPT !.at = "answer", !.reason = why]
  <2>2. SetSlot(f, i, s)
    BY <2>1, Zenon DEF Refused
  <2>3. s \in SlotStates /\ s.at = "answer"
    BY <1>0
  <2> QED BY <2>2, <2>3
<1>3. CASE RedeemSpends(f, i) /\ redeemed[Variant(f)] = None
  <2> DEFINE s == [slot[f][i] EXCEPT !.at = "spent"]
  <2>1. SetSlot(f, i, s)
    BY <1>3, Zenon DEF RedeemSpends, SlotGoto
  <2>2. s \in SlotStates /\ s.at = "spent"
    BY <1>0
  <2> QED BY <1>3, <2>1, <2>2
<1>4. CASE RedeemInvokes(f, i)
  <2>1. PICK id \in Nat : id = count[f] + 1
    BY DEF CInv, ControlType
  <2> DEFINE s == [slot[f][i] EXCEPT !.at = "answer", !.reason = "ALLOW", !.invocation_id = id]
  <2>2. SetSlot(f, i, s)
    BY <1>4, <2>1, Zenon DEF RedeemInvokes
  <2>3. s \in SlotStates /\ s.at = "answer"
    BY <1>0
  <2> QED BY <2>2, <2>3
<1>5. CASE RedeemAnswers(f, i)
  <2>1. PICK k \in Nat : k = count[f]
    BY DEF CInv, ControlType
  <2>0. PICK t \in Times :
          /\ SetSlot(f, i, [slot[f][i] EXCEPT !.at = "answered", !.snapshot = k, !.decided_at = t])
            /\ now' = t
    BY <1>5, <2>1, Zenon DEF RedeemAnswers, Reads
  <2> DEFINE s == [slot[f][i] EXCEPT !.at = "answered", !.snapshot = k, !.decided_at = t]
  <2>2. SetSlot(f, i, s) /\ t \in Nat /\ now' = t
    BY <2>0, ClockAssumption
  <2>3. s \in SlotStates /\ s.at = "answered" /\ s.decided_at = t
    BY <1>0, <2>2
  <2> QED BY <2>2, <2>3
<1>6. CASE RedeemRaises(f, i)
  <2> DEFINE s == [slot[f][i] EXCEPT !.at = "raised"]
  <2>1. SetSlot(f, i, s)
    BY <1>6, Zenon DEF RedeemRaises, SlotGoto
  <2>2. s \in SlotStates /\ s.at = "raised"
    BY <1>0
  <2> QED BY <2>1, <2>2
<1> QED BY <1>1, <1>2, <1>3, <1>4, <1>5, <1>6 DEF SlotStep

LEMMA InitTInv == Init => TInv
<1> SUFFICES ASSUME Init PROVE TInv
  OBVIOUS
<1>1. Len(grantedAt) = 0
  BY DEF Init
<1>2. ASSUME NEW f \in Finalizers PROVE Timed(f)
  BY DEF Init, Timed, AtWork
<1> QED BY <1>1, <1>2 DEF TInv

\* Later, the same attempts are still timed.
LEMMA AttemptsAge ==
  ASSUME NEW v, NEW as, NEW low \in Nat, NEW high \in Nat, NEW later \in Nat, high <= later,
         AttemptsTimed(v, as, low, high)
  PROVE  AttemptsTimed(v, as, low, later)
<1> SUFFICES ASSUME NEW i \in 1 .. Len(as) PROVE as[i].decided_at \in low .. later
  BY DEF AttemptsTimed
<1>1. PICK t : t = as[i].decided_at
  OBVIOUS
<1>2. t \in low .. high
  BY <1>1 DEF AttemptsTimed
<1>3. t \in low .. later
  BY <1>2
<1> QED BY <1>1, <1>3

LEMMA CasesAge ==
  ASSUME EInv, NEW f \in Finalizers, Timed(f), now \in Nat, now' \in Nat, now <= now',
         NEW n \in 1 .. Len(cases[f])
  PROVE  /\ cases[f][n].broker_decided_at <= now'
         /\ AttemptsTimed(cases[f][n].variant, cases[f][n].attempts,
                          cases[f][n].broker_decided_at, now')
<1>1. PICK c, t, u : c = cases[f][n] /\ t = now /\ u = now'
  OBVIOUS
<1>2. c \in Case
  BY <1>1, ElementOfSeq DEF EInv, EvidenceType
<1>3. c.broker_decided_at <= t /\ AttemptsTimed(c.variant, c.attempts, c.broker_decided_at, t)
  BY <1>1 DEF Timed
<1>4. t \in Nat /\ u \in Nat /\ t <= u /\ c.broker_decided_at \in Nat
  BY <1>1, <1>2 DEF Case
<1>5. c.broker_decided_at <= u /\ AttemptsTimed(c.variant, c.attempts, c.broker_decided_at, u)
  BY <1>3, <1>4, AttemptsAge
<1> QED BY <1>1, <1>5

\* The slots of f that are answered now were so before, or have just been.
LEMMA TimesFrame ==
  ASSUME CInv, GInv, EInv, NEW f \in Finalizers, Timed(f),
         \A n \in 1 .. Len(grantedAt) : grantedAt[n] <= now,
         now' \in Nat, now <= now', mode' = mode, cases'[f] = cases[f],
         pc'[f] \in AtWork \cup {"check"} =>
           /\ pc[f] \in AtWork \cup {"check"} /\ grantedAt' = grantedAt
           /\ caseNo'[f] = caseNo[f] /\ attempts'[f] = attempts[f],
         pc'[f] \in AtWork =>
           /\ pc[f] \in AtWork
           /\ \A i \in Slots(f) : slot'[f][i].at = "answered" =>
                slot'[f][i] = slot[f][i] \/ slot'[f][i].decided_at = now'
  PROVE  Timed(f)'
<1>1. now \in Nat
  BY DEF GInv
<1>2. \A n \in 1 .. Len(cases'[f]) :
        /\ cases'[f][n].broker_decided_at <= now'
        /\ AttemptsTimed(cases'[f][n].variant, cases'[f][n].attempts,
                         cases'[f][n].broker_decided_at, now')
  BY <1>1, CasesAge
<1>3. CASE pc'[f] \in AtWork \cup {"check"}
  <2>1. PICK low, t, u : low = grantedAt[caseNo[f]] /\ t = now /\ u = now'
    OBVIOUS
  <2>2. low \in Nat /\ low <= t
    BY <1>3, <2>1, GrantOfCase DEF AtWork
  <2>3. t \in Nat /\ u \in Nat /\ t <= u /\ low <= u
    BY <1>1, <2>1, <2>2
  <2>4. /\ grantedAt'[caseNo'[f]] = low /\ Variant(f)' = Variant(f) /\ Slots(f)' = Slots(f)
        /\ attempts'[f] = attempts[f]
    BY <1>3, <2>1 DEF Variant, Slots, Specs
  <2>5. AttemptsTimed(Variant(f), attempts[f], low, t)
    BY <1>3, <2>1 DEF Timed
  <2>6. AttemptsTimed(Variant(f), attempts[f], low, u)
    BY <2>2, <2>3, <2>5, AttemptsAge
  <2>7. ASSUME pc'[f] \in AtWork, NEW i \in Slots(f), slot'[f][i].at = "answered"
        PROVE  /\ slot'[f][i].decided_at \in low .. u
               /\ \A j \in 1 .. Len(attempts[f]) : attempts[f][j].decided_at <= slot'[f][i].decided_at
    <3>1. CASE slot'[f][i] = slot[f][i]
      <4>1. /\ slot[f][i].decided_at \in low .. t
            /\ \A j \in 1 .. Len(attempts[f]) : attempts[f][j].decided_at <= slot[f][i].decided_at
        BY <2>1, <2>7, <3>1 DEF Timed, SlotTimed
      <4> QED BY <2>3, <3>1, <4>1
    <3>2. CASE slot'[f][i].decided_at = u
      <4>1. \A j \in 1 .. Len(attempts[f]) : attempts[f][j].decided_at \in low .. u
        BY <2>6 DEF AttemptsTimed
      <4>2. u \in low .. u /\ low \in Nat
        BY <2>2, <2>3
      <4> QED BY <2>3, <3>2, <4>1, <4>2
    <3> QED BY <2>1, <2>7, <3>1, <3>2
  <2>8. pc'[f] \in AtWork => \A i \in Slots(f) : SlotTimed(f, slot[f][i])'
    BY <2>1, <2>4, <2>7 DEF SlotTimed
  <2> QED BY <1>2, <2>1, <2>4, <2>6, <2>8 DEF Timed
<1>4. CASE pc'[f] \notin AtWork \cup {"check"}
  BY <1>2, <1>4 DEF Timed
<1> QED BY <1>3, <1>4

\* What the times of g rest on, the clock apart
SameTimes(g) ==
  /\ pc'[g] = pc[g] /\ caseNo'[g] = caseNo[g] /\ slot'[g] = slot[g]
  /\ attempts'[g] = attempts[g] /\ cases'[g] = cases[g]

\* No time was set back in this step, nor before it.
Forward ==
  /\ ~setBack /\ now \in Nat /\ now' \in Nat /\ now <= now'
  /\ \A n \in 1 .. Len(grantedAt) : grantedAt[n] <= now
  /\ \A f \in Finalizers : Timed(f)

LEMMA ClockAdvances ==
  ASSUME GInv, TInv, ~setBack',
         UNCHANGED clock \/ \E t \in Times : now' = t /\ setBack' = (setBack \/ t < now)
  PROVE  Forward
<1>1. now \in Nat
  BY DEF GInv
<1>2. ~setBack /\ now' \in Nat /\ now <= now'
  <2>1. CASE UNCHANGED clock
    BY <1>1, <2>1 DEF clock
  <2>2. ASSUME NEW t \in Times, now' = t, setBack' = (setBack \/ t < now)
        PROVE  ~setBack /\ now' \in Nat /\ now <= now'
    <3>1. now' = t /\ setBack' = (setBack \/ t < now) /\ t \in Nat
      BY <2>2, ClockAssumption
    <3>2. ~setBack /\ ~(t < now)
      BY <3>1
    <3> QED BY <1>1, <3>1, <3>2
  <2> QED BY <2>1, <2>2
<1> QED BY <1>1, <1>2 DEF TInv, Forward

LEMMA TimesStep ==
  ASSUME CInv, GInv, EInv, NEW f \in Finalizers, UNCHANGED <<mode, grantedAt>>,
         Forward, \A g \in Finalizers \ {f} : SameTimes(g), Timed(f)'
  PROVE  TInv'
<1>1. ASSUME NEW g \in Finalizers \ {f} PROVE Timed(g)'
  BY TimesFrame DEF SameTimes, Forward
<1>2. ASSUME NEW n \in 1 .. Len(grantedAt) PROVE grantedAt[n] <= now'
  <2>1. grantedAt[n] \in Nat /\ grantedAt[n] <= now
    BY ElementOfSeq DEF GInv, Forward
  <2> QED BY <2>1 DEF Forward
<1> QED BY <1>1, <1>2 DEF TInv

\* prepare and the answers leave the finalizers alone.
LEMMA ArrivalsKeepTimes ==
  ASSUME CInv, GInv, EInv, TInv,
         \/ PrepareGrants \/ PrepareCase \/ WriteState \/ WritePayload \/ PrepareFails
         \/ ProviderJob \/ Gather
         \/ \E r \in RunIds : \/ Submit(r) \/ WorkerAnswers(r) \/ WorkerFails(r)
                              \/ DeadlineExpires(r) \/ LateAnswer(r)
         \/ UNCHANGED vars
  PROVE  TInv'
<1> SUFFICES ASSUME ~setBack' PROVE TInv'
  BY DEF TInv
<1>1. UNCHANGED <<mode, final>>
  BY DEF PrepareGrants, PrepareCase, WriteState, WritePayload, PrepareFails, ProviderJob, Gather,
         Submit, WorkerAnswers, WorkerFails, DeadlineExpires, LateAnswer, Deliver, vars
<1>2. CASE PrepareGrants
  <2>1. PICK t \in Times :
          Reads(t, Specs[Len(grantedAt) + 1] \in SteppingCases) /\ grantedAt' = Append(grantedAt, t)
    BY <1>2 DEF PrepareGrants
  <2>2. Forward
    BY <2>1, ClockAdvances DEF Reads
  <2>3. t = now' /\ t \in Nat
    BY <2>1, ClockAssumption DEF Reads
  <2>4. ASSUME NEW n \in 1 .. Len(grantedAt') PROVE grantedAt'[n] <= now'
    <3>1. PICK old, m : old = grantedAt /\ m = Len(old)
      OBVIOUS
    <3>2. old \in Seq(Nat) /\ m \in Nat
      BY <3>1, LenProperties DEF GInv
    <3>3. /\ Len(Append(old, t)) = m + 1 /\ Append(old, t)[m + 1] = t
          /\ \A k \in 1 .. m : Append(old, t)[k] = old[k]
      BY <2>3, <3>1, <3>2, AppendProperties
    <3>4. n \in 1 .. m \/ n = m + 1
      BY <2>1, <3>1, <3>2, <3>3
    <3>5. CASE n \in 1 .. m
      <4>1. old[n] \in Nat /\ old[n] <= now
        BY <2>2, <3>1, <3>2, <3>5, ElementOfSeq DEF Forward
      <4>2. grantedAt'[n] = old[n]
        BY <2>1, <3>1, <3>3, <3>5
      <4> QED BY <2>2, <4>1, <4>2 DEF Forward
    <3>6. CASE n = m + 1
      BY <2>1, <2>3, <3>1, <3>3, <3>6
    <3> QED BY <3>4, <3>5, <3>6
  <2>5. ASSUME NEW f \in Finalizers PROVE Timed(f)'
    <3>1. pc'[f] = pc[f] /\ cases'[f] = cases[f]
      BY <1>1 DEF final
    <3>2. pc[f] = "idle"
      BY <1>2 DEF PrepareGrants, GInv, CInv, Validated
    <3> QED BY <1>1, <2>2, <3>1, <3>2, TimesFrame DEF Forward, AtWork
  <2> QED BY <2>4, <2>5 DEF TInv
<1>3. CASE ~PrepareGrants
  <2>1. UNCHANGED <<clock, grantedAt>>
    BY <1>3 DEF PrepareCase, WriteState, WritePayload, PrepareFails, ProviderJob, Gather, Submit,
      WorkerAnswers, WorkerFails, DeadlineExpires, LateAnswer, Deliver, vars, preparing
  <2>2. Forward
    BY <2>1, ClockAdvances
  <2>3. ASSUME NEW f \in Finalizers PROVE Timed(f)'
    BY <1>1, <2>1, <2>2, TimesFrame DEF Forward, final
  <2> QED BY <2>1, <2>2, <2>3 DEF TInv, Forward, clock
<1> QED BY <1>2, <1>3

\* The main thread of f moves on, and that is all.
LEMMA MovesKeepTimes ==
  ASSUME CInv, GInv, EInv, TInv, ~setBack', NEW f \in Finalizers,
         \/ Begin(f) \/ Validate(f) \/ SpawnFails(f) \/ RaceFails(f) \/ Unwind(f) \/ Sign(f)
         \/ WriteEvidence(f) \/ Stops(f) \/ (Spawn(f) /\ slot' = slot)
  PROVE  TInv'
<1>1. UNCHANGED <<mode, grantedAt, caseNo, attempts, cases>>
  BY DEF Begin, Validate, SpawnFails, RaceFails, Unwind, Sign, WriteEvidence, Stops, Spawn, preparing
<1>2. /\ pc \in [Finalizers -> Steps] /\ slot \in [Finalizers -> [1 .. Concurrency -> SlotStates]]
  BY DEF CInv, ControlType
<1>3. /\ \A g \in Finalizers \ {f} : pc'[g] = pc[g] /\ slot'[g] = slot[g]
      /\ pc'[f] \in AtWork \cup {"check"} => pc[f] \in AtWork /\ slot' = slot
  <2> USE DEF Goto, AtWork, EvidenceFiles
  <2>1. CASE Begin(f) \/ Validate(f) \/ Sign(f)
    BY <1>2, <2>1 DEF Begin, Validate, Sign
  <2>2. CASE SpawnFails(f) \/ RaceFails(f) \/ Unwind(f) \/ (Spawn(f) /\ slot' = slot)
    BY <1>2, <2>2 DEF SpawnFails, RaceFails, Unwind, Spawn
  <2>3. CASE WriteEvidence(f)
    BY <1>2, <2>3 DEF WriteEvidence
  <2>4. CASE Stops(f)
    BY <1>2, <2>4 DEF Stops
  <2> QED BY <2>1, <2>2, <2>3, <2>4
<1>4. Forward
  <2>1. UNCHANGED clock \/ \E t \in Times : now' = t /\ setBack' = (setBack \/ t < now)
    BY DEF Begin, Validate, SpawnFails, RaceFails, Unwind, Sign, WriteEvidence, Stops, Spawn, Reads
  <2> QED BY <2>1, ClockAdvances
<1>5. \A g \in Finalizers \ {f} : SameTimes(g)
  BY <1>1, <1>3 DEF SameTimes
<1>6. Timed(f)'
  BY <1>1, <1>3, <1>4, TimesFrame DEF Forward
<1> QED BY <1>1, <1>4, <1>5, <1>6, TimesStep

\* A slot of f changes; if it is answered, it is so at the time just read.
LEMMA ThreadKeepsTimes ==
  ASSUME CInv, GInv, EInv, Forward, NEW f \in Finalizers, NEW i \in 1 .. Concurrency,
         NEW s \in SlotStates, SetSlot(f, i, s), s.at = "answered" => s.decided_at = now',
         UNCHANGED <<mode, grantedAt, pc, caseNo, attempts, cases>>
  PROVE  TInv'
<1>1. Slots(f) \subseteq 1 .. Concurrency
  BY Counts, ConcurrencyAssumption DEF Slots
<1>2. /\ slot'[f][i] = s
      /\ \A j \in (1 .. Concurrency) \ {i} : slot'[f][j] = slot[f][j]
      /\ \A g \in Finalizers \ {f} : slot'[g] = slot[g]
  BY SlotSet DEF CInv
<1>3. \A g \in Finalizers \ {f} : SameTimes(g)
  BY <1>2 DEF SameTimes
<1>4. Timed(f)'
  <2>1. \A j \in Slots(f) : slot'[f][j].at = "answered" =>
          slot'[f][j] = slot[f][j] \/ slot'[f][j].decided_at = now'
    BY <1>1, <1>2
  <2> QED BY <2>1, TimesFrame DEF Forward
<1> QED BY <1>3, <1>4, TimesStep

LEMMA SlotStepsKeepTimes ==
  ASSUME CInv, GInv, EInv, TInv, ~setBack', NEW f \in Finalizers, NEW i \in 1 .. Concurrency,
         SlotStep(f, i) \/ RedeemFaults(f, i) \/ RedeemRaises(f, i)
  PROVE  TInv'
<1>1. UNCHANGED <<mode, grantedAt, pc, caseNo, attempts, cases>>
  BY DEF SlotStep, Arrive, RedeemRefused, RedeemSpends, RedeemInvokes, RedeemAnswers, RedeemFaults,
         RedeemRaises, preparing
<1>2. UNCHANGED clock \/ \E t \in Times : now' = t /\ setBack' = (setBack \/ t < now)
  BY DEF SlotStep, Arrive, RedeemRefused, RedeemSpends, RedeemInvokes, RedeemAnswers, RedeemFaults,
         RedeemRaises, Reads
<1>3. Forward
  BY <1>2, ClockAdvances
<1> QED BY <1>1, <1>3, SlotWritten, ThreadKeepsTimes

LEMMA SpawnKeepsTimes ==
  ASSUME CInv, GInv, EInv, TInv, ~setBack', NEW f \in Finalizers, Spawn(f)
  PROVE  TInv'
<1>1. CASE slot' = slot
  BY <1>1, MovesKeepTimes
<1>2. CASE slot' # slot
  <2> DEFINE fresh == {i \in Slots(f) : slot[f][i].at = "idle"}
             i == Min(fresh)
             s == [slot[f][i] EXCEPT !.at = "started"]
  <2>1. UNCHANGED <<mode, clock, grantedAt, caseNo, attempts, cases>>
    BY DEF Spawn, preparing
  <2>2. fresh # {} /\ SetSlot(f, i, s) /\ pc' = pc
    BY <1>2, Zenon DEF Spawn, SlotGoto
  <2>3. i \in fresh
    <3>1. fresh \subseteq Nat
      BY Counts DEF Slots
    <3> HIDE DEF fresh
    <3> QED BY <2>2, <3>1, MinIsMember
  <2>4. i \in 1 .. Concurrency
    BY <2>3, Counts, ConcurrencyAssumption DEF Slots
  <2> HIDE DEF i
  <2>5. s \in SlotStates /\ s.at = "started"
    BY <2>4, SlotMoved DEF CInv, Racing
  <2> HIDE DEF s
  <2>6. Forward
    BY <2>1, ClockAdvances
  <2> QED BY <2>1, <2>2, <2>4, <2>5, <2>6, ThreadKeepsTimes
<1> QED BY <1>1, <1>2

LEMMA BarrierKeepsTimes ==
  ASSUME CInv, GInv, EInv, TInv, ~setBack', NEW f \in Finalizers, BarrierTrips(f) \/ BarrierBreaks(f)
  PROVE  TInv'
<1>1. UNCHANGED <<mode, clock, grantedAt, caseNo, attempts, cases>>
  BY DEF BarrierTrips, BarrierBreaks, preparing
<1>2. /\ pc \in [Finalizers -> Steps] /\ slot \in [Finalizers -> [1 .. Concurrency -> SlotStates]]
      /\ Slots(f) \subseteq 1 .. Concurrency
  BY Counts, ConcurrencyAssumption DEF CInv, ControlType, Slots
<1>3. PICK ss : slot' = [slot EXCEPT ![f] = ss]
  BY DEF BarrierTrips, BarrierBreaks
<1>4. /\ \A g \in Finalizers \ {f} : pc'[g] = pc[g] /\ slot'[g] = slot[g]
      /\ pc'[f] = pc[f] \/ (pc[f] = "barrier" /\ pc'[f] \in {"redeem", "unwind"})
  BY <1>2, <1>3 DEF BarrierTrips, BarrierBreaks, Goto
<1>5. \A g \in Finalizers \ {f} : SameTimes(g)
  BY <1>1, <1>4 DEF SameTimes
<1>6. ASSUME NEW i \in Slots(f), slot'[f][i].at = "answered" PROVE slot'[f][i] = slot[f][i]
  <2>1. i \in 1 .. Concurrency
    BY <1>2
  <2>2. CASE BarrierTrips(f)
    <3>1. slot'[f][i] = RedeemingSlot
      BY <1>2, <2>1, <2>2 DEF BarrierTrips
    <3> QED BY <1>6, <3>1 DEF RedeemingSlot, IdleSlot
  <2>3. CASE BarrierBreaks(f) /\ slot[f][i].at = "waiting"
    <3> DEFINE s == [slot[f][i] EXCEPT !.at = "raised"]
    <3>1. slot'[f][i] = s
      BY <1>2, <2>1, <2>3 DEF BarrierBreaks
    <3>2. s.at = "raised"
      BY <2>1, SlotMoved DEF CInv, Quiet
    <3> QED BY <1>6, <3>1, <3>2
  <2>4. CASE BarrierBreaks(f) /\ slot[f][i].at # "waiting"
    BY <1>2, <2>1, <2>4 DEF BarrierBreaks
  <2> QED BY <2>2, <2>3, <2>4
<1>7. Forward
  BY <1>1, ClockAdvances
<1>8. Timed(f)'
  BY <1>1, <1>4, <1>6, <1>7, TimesFrame DEF Forward, AtWork
<1> QED BY <1>1, <1>5, <1>7, <1>8, TimesStep

LEMMA StartCaseKeepsTimes ==
  ASSUME CInv, GInv, EInv, TInv, ~setBack', NEW f \in Finalizers, StartCase(f)
  PROVE  TInv'
<1>1. UNCHANGED <<mode, clock, grantedAt, caseNo, cases>>
  BY DEF StartCase, preparing
<1>2. /\ pc \in [Finalizers -> Steps] /\ slot \in [Finalizers -> [1 .. Concurrency -> SlotStates]]
      /\ attempts \in [Finalizers -> Seq(Attempt)]
  BY DEF CInv, ControlType, EInv, EvidenceType
<1>3. attempts' = [attempts EXCEPT ![f] = <<>>] /\ \A g \in Finalizers \ {f} : pc'[g] = pc[g]
  BY <1>2 DEF StartCase, Goto
<1>4. PICK ss : slot' = [slot EXCEPT ![f] = ss]
  BY DEF StartCase
<1>5. \A g \in Finalizers \ {f} : SameTimes(g)
  BY <1>1, <1>2, <1>3, <1>4 DEF SameTimes
<1>6. Forward
  BY <1>1, ClockAdvances
<1>7. Timed(f)'
  <2>1. Len(attempts'[f]) = 0
    BY <1>2, <1>3
  <2>2. ASSUME NEW i \in Slots(f)' PROVE SlotTimed(f, slot[f][i])'
    <3>1. i \in 1 .. Concurrency
      BY Counts, ConcurrencyAssumption DEF Slots, Count
    <3>2. slot'[f][i] \in {RedeemingSlot, IdleSlot}
      BY <1>2, <3>1 DEF StartCase
    <3>3. slot'[f][i].at # "answered"
      BY <3>2 DEF RedeemingSlot, IdleSlot
    <3> QED BY <3>3 DEF SlotTimed
  <2>3. AttemptsTimed(Variant(f)', attempts'[f], grantedAt'[caseNo'[f]], now')
    BY <2>1 DEF AttemptsTimed
  <2>4. \A n \in 1 .. Len(cases'[f]) :
          /\ cases'[f][n].broker_decided_at <= now'
          /\ AttemptsTimed(cases'[f][n].variant, cases'[f][n].attempts,
                           cases'[f][n].broker_decided_at, now')
    BY <1>1, <1>6, CasesAge DEF Forward
  <2> QED BY <2>2, <2>3, <2>4 DEF Timed
<1> QED BY <1>1, <1>5, <1>6, <1>7, TimesStep

\* The observations of answered slots carry the slots' times.
LEMMA ObservationsAreTimed ==
  ASSUME CInv, GInv, EInv, NEW f \in Finalizers, Timed(f), pc[f] = "redeem",
         \A i \in Slots(f) : slot[f][i].at = "answered",
         NEW v, v = Variant(f), NEW seen, seen = attempts[f] \o Observations(f)
  PROVE  AttemptsTimed(v, seen, grantedAt[caseNo[f]], now)
<1>1. PICK old, obs, low, t :
        old = attempts[f] /\ obs = Observations(f) /\ low = grantedAt[caseNo[f]] /\ t = now
  OBVIOUS
<1>2. old \in Seq(Attempt) /\ obs \in Seq(Attempt) /\ Len(obs) = Count(v)
  BY <1>1, ObservationsAreTrue DEF EInv, EvidenceType
<1>3. /\ Len(old) \in Nat /\ Count(v) \in Nat /\ Slots(f) = 1 .. Count(v)
      /\ v = "replay" => Count(v) = 1
      /\ low \in Nat /\ t \in Nat
  BY <1>1, <1>2, LenProperties, Counts, ConcurrencyAssumption, GrantOfCase DEF Slots, Count, GInv
<1>4. /\ seen \in Seq(Attempt) /\ Len(seen) = Len(old) + Count(v)
      /\ \A i \in 1 .. Len(old) + Count(v) :
           seen[i] = IF i <= Len(old) THEN old[i] ELSE obs[i - Len(old)]
  BY <1>1, <1>2, ConcatProperties
<1>5. AttemptsTimed(v, old, low, t)
  BY <1>1 DEF Timed, AtWork
<1>6. ASSUME NEW j \in 1 .. Count(v)
      PROVE  /\ obs[j].decided_at \in low .. t
             /\ \A m \in 1 .. Len(old) : old[m].decided_at <= obs[j].decided_at
  <2>1. obs[j].decided_at = slot[f][j].decided_at
    BY <1>1, <1>3 DEF Observations, Observation
  <2>2. SlotTimed(f, slot[f][j]) /\ slot[f][j].at = "answered"
    BY <1>3 DEF Timed, AtWork
  <2> QED BY <1>1, <2>1, <2>2 DEF SlotTimed
<1>7. ASSUME NEW i \in 1 .. Len(seen)
      PROVE  /\ seen[i].decided_at \in low .. t
             /\ v = "replay" => \A m \in 1 .. i : seen[m].decided_at <= seen[i].decided_at
  <2>1. i \in Nat /\ 1 <= i /\ i <= Len(old) + Count(v)
    BY <1>3, <1>4
  <2>2. CASE i <= Len(old)
    <3>1. seen[i] = old[i] /\ i \in 1 .. Len(old)
      BY <1>3, <1>4, <2>1, <2>2
    <3>2. ASSUME NEW m \in 1 .. i PROVE seen[m] = old[m]
      BY <1>3, <1>4, <2>1, <2>2
    <3> QED BY <1>5, <3>1, <3>2 DEF AttemptsTimed
  <2>3. CASE i > Len(old)
    <3>1. PICK j : j = i - Len(old)
      OBVIOUS
    <3>2. seen[i] = obs[j] /\ j \in 1 .. Count(v)
      BY <1>3, <1>4, <2>1, <2>3, <3>1
    <3>3. ASSUME v = "replay", NEW m \in 1 .. i
          PROVE  seen[m].decided_at <= seen[i].decided_at
      <4>1. m \in 1 .. Len(old) \/ m = i
        BY <1>3, <2>1, <2>3, <3>3
      <4>2. CASE m \in 1 .. Len(old)
        <5>1. seen[m] = old[m]
          BY <1>3, <1>4, <4>2
        <5> QED BY <1>6, <3>2, <4>2, <5>1
      <4>3. CASE m = i
        <5>1. obs[j].decided_at \in low .. t
          BY <1>6, <3>2
        <5>2. obs[j].decided_at <= obs[j].decided_at
          BY <5>1
        <5> QED BY <3>2, <4>3, <5>2
      <4> QED BY <4>1, <4>2, <4>3
    <3> QED BY <1>6, <3>2, <3>3
  <2>4. i <= Len(old) \/ i > Len(old)
    BY <1>3, <2>1
  <2> QED BY <2>2, <2>3, <2>4, Zenon
<1> QED BY <1>1, <1>7 DEF AttemptsTimed

LEMMA ObserveKeepsTimes ==
  ASSUME CInv, GInv, EInv, TInv, ~setBack', NEW f \in Finalizers, Observe(f)
  PROVE  TInv'
<1>1. /\ UNCHANGED <<mode, clock, now, grantedAt, caseNo, cases>>
      /\ pc[f] = "redeem" /\ attempts' = [attempts EXCEPT ![f] = @ \o Observations(f)]
      /\ \A i \in Slots(f) : slot[f][i].at = "answered"
  BY DEF Observe, Observations, preparing, clock
<1>2. /\ pc \in [Finalizers -> Steps] /\ slot \in [Finalizers -> [1 .. Concurrency -> SlotStates]]
      /\ attempts \in [Finalizers -> Seq(Attempt)]
  BY DEF CInv, ControlType, EInv, EvidenceType
<1>3. PICK v, seen : v = Variant(f) /\ seen = attempts[f] \o Observations(f)
  OBVIOUS
<1>4. attempts'[f] = seen /\ \A g \in Finalizers \ {f} : attempts'[g] = attempts[g]
  BY <1>1, <1>2, <1>3
<1>5. v = Variant(f)' /\ Slots(f)' = Slots(f)
  BY <1>1, <1>3 DEF Variant, Slots, Specs
<1>6. Forward
  BY <1>1, ClockAdvances
<1>7. AttemptsTimed(v, seen, grantedAt[caseNo[f]], now)
  BY <1>1, <1>3, <1>6, ObservationsAreTimed DEF Forward
<1>8. /\ AttemptsTimed(Variant(f)', attempts'[f], grantedAt'[caseNo'[f]], now')
      /\ \A n \in 1 .. Len(cases'[f]) :
           /\ cases'[f][n].broker_decided_at <= now'
           /\ AttemptsTimed(cases'[f][n].variant, cases'[f][n].attempts,
                            cases'[f][n].broker_decided_at, now')
  BY <1>1, <1>4, <1>5, <1>6, <1>7 DEF Forward, Timed
<1>9. CASE SetSlot(f, 1, RedeemingSlot) /\ pc' = pc /\ v = "replay"
  <2>1. 1 \in 1 .. Concurrency /\ RedeemingSlot \in SlotStates
    BY ConcurrencyAssumption DEF RedeemingSlot, IdleSlot, SlotStates, SlotReasons
  <2>2. slot'[f][1] = RedeemingSlot /\ \A g \in Finalizers \ {f} : slot'[g] = slot[g]
    BY <1>9, <2>1, SlotSet DEF CInv
  <2>3. Slots(f)' = {1}
    BY <1>3, <1>5, <1>9 DEF Slots, Count
  <2>4. SlotTimed(f, slot[f][1])'
    BY <2>2 DEF RedeemingSlot, IdleSlot, SlotTimed
  <2>5. \A g \in Finalizers \ {f} : SameTimes(g)
    BY <1>1, <1>4, <1>9, <2>2 DEF SameTimes
  <2>6. Timed(f)'
    BY <1>8, <2>3, <2>4 DEF Timed
  <2> QED BY <1>1, <1>6, <2>5, <2>6, TimesStep
<1>10. CASE Goto(f, "check") /\ slot' = slot
  <2>1. pc'[f] = "check" /\ \A g \in Finalizers \ {f} : pc'[g] = pc[g]
    BY <1>2, <1>10 DEF Goto
  <2>2. \A g \in Finalizers \ {f} : SameTimes(g)
    BY <1>1, <1>4, <1>10, <2>1 DEF SameTimes
  <2>3. Timed(f)'
    BY <1>8, <2>1 DEF Timed, AtWork
  <2> QED BY <1>1, <1>6, <2>2, <2>3, TimesStep
<1> QED BY <1>3, <1>9, <1>10 DEF Observe

LEMMA CheckKeepsTimes ==
  ASSUME CInv, GInv, EInv, TInv, ~setBack', NEW f \in Finalizers, CheckCase(f)
  PROVE  TInv'
<1>1. /\ UNCHANGED <<mode, clock, now, grantedAt, slot, attempts>>
      /\ pc[f] = "check"
  BY DEF CheckCase, preparing, clock
<1>2. /\ pc \in [Finalizers -> Steps] /\ caseNo \in [Finalizers -> Nat]
      /\ cases \in [Finalizers -> Seq(Case)] /\ count[f] \in Nat /\ before[f] \in Nat
      /\ attempts[f] \in Seq(Attempt)
  BY DEF CInv, ControlType, EInv, EvidenceType
<1>3. Forward
  BY <1>1, ClockAdvances
<1>4. CASE Goto(f, "failed") /\ UNCHANGED <<cases, caseNo>>
  <2>1. pc'[f] = "failed" /\ \A g \in Finalizers \ {f} : pc'[g] = pc[g]
    BY <1>2, <1>4 DEF Goto
  <2>2. \A g \in Finalizers \ {f} : SameTimes(g)
    BY <1>1, <1>4, <2>1 DEF SameTimes
  <2>3. Timed(f)'
    BY <1>1, <1>3, <1>4, <2>1 DEF Forward, Timed, AtWork
  <2> QED BY <1>1, <1>3, <2>2, <2>3, TimesStep
<1>5. CASE ~(Goto(f, "failed") /\ UNCHANGED <<cases, caseNo>>)
  <2> DEFINE last == caseNo[f] = Len(Specs)
  <2>1. PICK v, seen, n, rec, low, t :
          /\ v = Variant(f) /\ seen = attempts[f] /\ n = caseNo[f] /\ low = grantedAt[n] /\ t = now
          /\ rec = [variant |-> v, attempts |-> seen, invocation_delta |-> count[f] - before[f],
                    redemption_count |-> RedemptionCount(v), broker_decided_at |-> grantedAt[n]]
    OBVIOUS
  <2>2. /\ cases' = [cases EXCEPT ![f] = Append(@, rec)]
        /\ caseNo' = [caseNo EXCEPT ![f] = IF last THEN @ ELSE @ + 1]
        /\ Goto(f, IF ~last THEN "case" ELSE IF mode = "live" THEN "sign" ELSE "done")
    BY <1>5, <2>1 DEF CheckCase
  <2>3. /\ cases[f] \in Seq(Case) /\ cases'[f] = Append(cases[f], rec)
        /\ \A g \in Finalizers \ {f} : cases'[g] = cases[g]
    BY <1>2, <2>2
  <2>4. /\ pc'[f] \in {"case", "sign", "done"}
        /\ \A g \in Finalizers \ {f} : pc'[g] = pc[g] /\ caseNo'[g] = caseNo[g]
    BY <1>2, <2>2 DEF Goto
  <2>5. \A g \in Finalizers \ {f} : SameTimes(g)
    BY <1>1, <2>3, <2>4 DEF SameTimes
  <2>6. /\ n \in 1 .. Len(grantedAt) /\ low \in Nat
        /\ low <= t /\ AttemptsTimed(v, seen, low, t)
    BY <1>1, <1>3, <2>1, GrantOfCase DEF Forward, Timed
  <2>7. rec \in Case
    <3>1. RedemptionCount(v) \in {0, 1} /\ v \in Variants
      BY <2>1, SpecsAreVariants DEF RedemptionCount, EInv, CasesTrue, Variant, CInv, ControlType
    <3> QED BY <1>2, <2>1, <2>6, <3>1 DEF Case
  <2>8. rec.variant = v /\ rec.attempts = seen /\ rec.broker_decided_at = low
    BY <2>1
  <2>9. ASSUME NEW m \in 1 .. Len(cases'[f])
        PROVE  /\ cases'[f][m].broker_decided_at <= t
               /\ AttemptsTimed(cases'[f][m].variant, cases'[f][m].attempts,
                                cases'[f][m].broker_decided_at, t)
    <3>1. PICK old, k : old = cases[f] /\ k = Len(old)
      OBVIOUS
    <3>2. /\ k \in Nat /\ Len(Append(old, rec)) = k + 1 /\ Append(old, rec)[k + 1] = rec
          /\ \A j \in 1 .. k : Append(old, rec)[j] = old[j]
      BY <2>3, <2>7, <3>1, AppendProperties, LenProperties
    <3>3. m \in 1 .. k \/ m = k + 1
      BY <2>3, <3>1, <3>2
    <3>4. CASE m \in 1 .. k
      <4>1. cases'[f][m] = cases[f][m] /\ m \in 1 .. Len(cases[f])
        BY <2>3, <3>1, <3>2, <3>4
      <4> QED BY <1>3, <2>1, <4>1 DEF Forward, Timed
    <3>5. CASE m = k + 1
      <4>1. cases'[f][m] = rec
        BY <2>3, <3>1, <3>2, <3>5
      <4> QED BY <2>6, <2>8, <4>1
    <3> QED BY <3>3, <3>4, <3>5
  <2>10. Timed(f)'
    BY <1>1, <2>1, <2>4, <2>9 DEF Timed, AtWork
  <2> QED BY <1>1, <1>3, <2>5, <2>10, TimesStep
<1> QED BY <1>4, <1>5

LEMMA NextTInv == CInv /\ GInv /\ EInv /\ TInv /\ [Next]_vars => TInv'
<1> SUFFICES ASSUME CInv, GInv, EInv, TInv, [Next]_vars, ~setBack' PROVE TInv'
  BY DEF TInv
<1>1. CASE \/ PrepareGrants \/ PrepareCase \/ WriteState \/ WritePayload \/ PrepareFails
           \/ ProviderJob \/ Gather
           \/ \E r \in RunIds : \/ Submit(r) \/ WorkerAnswers(r) \/ WorkerFails(r)
                                \/ DeadlineExpires(r) \/ LateAnswer(r)
           \/ UNCHANGED vars
  BY <1>1, ArrivalsKeepTimes
<1>2. ASSUME NEW f \in Finalizers, Begin(f) \/ MainStep(f) \/ SpawnFails(f) \/ Stops(f)
      PROVE  TInv'
  BY <1>2, MovesKeepTimes, StartCaseKeepsTimes, SpawnKeepsTimes, BarrierKeepsTimes,
     ObserveKeepsTimes, CheckKeepsTimes DEF MainStep
<1>3. ASSUME NEW f \in Finalizers, NEW i \in 1 .. Concurrency,
             SlotStep(f, i) \/ RedeemFaults(f, i) \/ RedeemRaises(f, i)
      PROVE  TInv'
  BY <1>3, SlotStepsKeepTimes
<1> QED BY <1>1, <1>2, <1>3 DEF Next

\* The inductive invariant on the times: while the clock is not set back, what
\* was decided later has a later time.
THEOREM TimesInvariance == Spec => []TInv
<1>1. Init => TInv
  BY InitTInv
<1>2. CInv /\ GInv /\ EInv /\ TInv /\ [Next]_vars => TInv'
  BY NextTInv
<1> QED BY <1>1, <1>2, LabInvariance, GrantsInvariance, EvidenceInvariance, PTL DEF Spec

(***************************************************************************)
(* A complete record verifies.                                             *)
(***************************************************************************)

LEMMA MatrixFacts ==
  /\ Len(CaseSpecs) = 7
  /\ \A n \in 1 .. 7 : CaseSpecs[n] \in Variants /\ (CaseSpecs[n] \in AllowPath <=> n \in {1, 2, 7})
  /\ \A v \in Variants : \E n \in 1 .. 7 : CaseSpecs[n] = v
  /\ \A m, n \in 1 .. 7 : CaseSpecs[m] = CaseSpecs[n] => m = n
  /\ CaseSpecs[1] = "valid" /\ CaseSpecs[2] = "replay" /\ CaseSpecs[7] = "concurrent"
<1>1. Len(CaseSpecs) = 7 /\ CaseSpecs[1] = "valid" /\ CaseSpecs[2] = "replay" /\ CaseSpecs[7] = "concurrent"
  BY DEF CaseSpecs
<1>2. \A n \in 1 .. 7 : CaseSpecs[n] \in Variants /\ (CaseSpecs[n] \in AllowPath <=> n \in {1, 2, 7})
  BY DEF CaseSpecs, Variants, AllowPath
<1>3. ASSUME NEW v \in Variants PROVE \E n \in 1 .. 7 : CaseSpecs[n] = v
  <2>1. /\ CaseSpecs[1] = "valid" /\ CaseSpecs[2] = "replay" /\ CaseSpecs[3] = "argument-substitution"
        /\ CaseSpecs[4] = "record-substitution" /\ CaseSpecs[5] = "wrong-holder"
        /\ CaseSpecs[6] = "malformed" /\ CaseSpecs[7] = "concurrent"
    BY DEF CaseSpecs
  <2>2. {1, 2, 3, 4, 5, 6, 7} \subseteq 1 .. 7
    OBVIOUS
  <2> QED BY <2>1, <2>2 DEF Variants
<1>4. \A m, n \in 1 .. 7 : CaseSpecs[m] = CaseSpecs[n] => m = n
  BY DEF CaseSpecs
<1> QED BY <1>1, <1>2, <1>3, <1>4

LEMMA SevenVariants == Cardinality(Variants) = 7
<1>1. IsFiniteSet({"valid"}) /\ Cardinality({"valid"}) = 1
  BY FS_Singleton
<1> DEFINE A == {"valid"} \cup {"replay"}
           B == A \cup {"argument-substitution"}
           C == B \cup {"record-substitution"}
           D == C \cup {"wrong-holder"}
           E == D \cup {"malformed"}
           F == E \cup {"concurrent"}
<1>2. /\ "replay" \notin {"valid"} /\ "argument-substitution" \notin A /\ "record-substitution" \notin B
      /\ "wrong-holder" \notin C /\ "malformed" \notin D /\ "concurrent" \notin E
      /\ F = Variants
  BY DEF Variants
<1> HIDE DEF F, E, D, C, B, A
<1>3. IsFiniteSet(A) /\ Cardinality(A) = 2
  BY <1>1, <1>2, FS_AddElement DEF A
<1>4. IsFiniteSet(B) /\ Cardinality(B) = 3
  BY <1>3, <1>2, FS_AddElement DEF B
<1>5. IsFiniteSet(C) /\ Cardinality(C) = 4
  BY <1>4, <1>2, FS_AddElement DEF C
<1>6. IsFiniteSet(D) /\ Cardinality(D) = 5
  BY <1>5, <1>2, FS_AddElement DEF D
<1>7. IsFiniteSet(E) /\ Cardinality(E) = 6
  BY <1>6, <1>2, FS_AddElement DEF E
<1>8. Cardinality(F) = 7
  BY <1>7, <1>2, FS_AddElement DEF F
<1> QED BY <1>2, <1>8

\* The attempts of a case that passed the checks: how many, of which runs, and
\* which one of them won.
LEMMA CheckedAttempts ==
  ASSUME NEW v \in Variants, NEW seen \in Seq(Attempt),
         AttemptsTrue(v, seen), OutcomesExpected(v, seen), v # "replay" => Len(seen) = Count(v)
  PROVE  /\ Len(seen) \in Nat /\ DOMAIN seen = 1 .. Len(seen)
         /\ Len(seen) = IF v = "replay" THEN 2 ELSE Count(v)
         /\ \A i \in 1 .. Len(seen) :
              /\ seen[i].run_id \in RunIds
              /\ v = "replay" => seen[i].run_id = <<v, 1>> /\ seen[i].redemption_sequence = i
              /\ v # "replay" => seen[i].run_id = <<v, i>> /\ seen[i].redemption_sequence = 1
         /\ v \in AllowPath => \E w \in 1 .. Len(seen) :
              \A i \in 1 .. Len(seen) : Allowed(seen[i]) <=> i = w
         /\ v \notin AllowPath => \A i \in 1 .. Len(seen) : ~Allowed(seen[i])
<1>1. Len(seen) \in Nat /\ DOMAIN seen = 1 .. Len(seen)
  BY LenProperties
<1>2. ASSUME NEW i \in 1 .. Len(seen)
      PROVE  /\ seen[i].run_id \in RunIds
             /\ v = "replay" => seen[i].run_id = <<v, 1>> /\ seen[i].redemption_sequence = i
             /\ v # "replay" => seen[i].run_id = <<v, i>> /\ seen[i].redemption_sequence = 1
  <2>1. PICK k : /\ k = IF v = "replay" THEN 1 ELSE i
                 /\ seen[i].run_id = <<v, k>>
                 /\ seen[i].redemption_sequence = IF v = "replay" THEN i ELSE 1
    BY Zenon DEF AttemptsTrue
  <2>2. seen[i] \in Attempt
    BY ElementOfSeq
  <2>3. seen[i].run_id \in RunIds
    BY <2>2 DEF Attempt
  <2> QED BY <2>1, <2>3
<1>3. CASE v \notin {"replay", "concurrent"}
  <2>1. PICK why : why = IF v = "valid" THEN "ALLOW" ELSE "HOLDER_PROOF_INVALID"
    OBVIOUS
  <2>2. Reasons(seen) = <<why>>
    BY <1>3, <2>1 DEF OutcomesExpected
  <2>3. Len(seen) = 1 /\ Count(v) = 1
    BY <1>3 DEF Count
  <2>4. Reasons(seen)[1] = seen[1].reason
    BY <1>1, <2>3 DEF Reasons
  <2>5. seen[1].reason = why
    BY <2>2, <2>4
  <2>6. v \in AllowPath <=> v = "valid"
    BY <1>3 DEF AllowPath
  <2> QED BY <1>1, <1>2, <1>3, <2>1, <2>3, <2>5, <2>6 DEF Allowed
<1>4. CASE v = "replay"
  <2>1. Reasons(seen) = <<"ALLOW", "CHALLENGE_CONSUMED">>
    BY <1>4 DEF OutcomesExpected
  <2>2. Len(seen) = 2 /\ seen[1].reason = "ALLOW" /\ seen[2].reason = "CHALLENGE_CONSUMED"
    <3>1. 1 .. Len(seen) = 1 .. 2
      <4>1. DOMAIN Reasons(seen) = DOMAIN seen
        BY DEF Reasons
      <4>2. DOMAIN <<"ALLOW", "CHALLENGE_CONSUMED">> = 1 .. 2
        OBVIOUS
      <4> QED BY <1>1, <2>1, <4>1, <4>2
    <3>2. Len(seen) = 2
      <4>1. 2 \in 1 .. Len(seen) /\ Len(seen) >= 1
        BY <1>1, <3>1
      <4>2. Len(seen) \in 1 .. 2
        BY <1>1, <3>1, <4>1
      <4> QED BY <1>1, <4>1, <4>2
    <3>3. Reasons(seen)[1] = seen[1].reason /\ Reasons(seen)[2] = seen[2].reason
      BY <1>1, <3>2 DEF Reasons
    <3>4. Reasons(seen)[1] = "ALLOW" /\ Reasons(seen)[2] = "CHALLENGE_CONSUMED"
      BY <2>1
    <3> QED BY <3>2, <3>3, <3>4
  <2>3. 1 \in 1 .. Len(seen) /\ \A i \in 1 .. Len(seen) : Allowed(seen[i]) <=> i = 1
    BY <2>2 DEF Allowed
  <2> QED BY <1>1, <1>2, <1>4, <2>2, <2>3 DEF AllowPath
<1>5. CASE v = "concurrent"
  <2> DEFINE S == {i \in DOMAIN seen : Allowed(seen[i])}
  <2>1. Cardinality(S) = 1
    BY <1>5 DEF OutcomesExpected
  <2>2. IsFiniteSet(S)
    <3>1. IsFiniteSet(DOMAIN seen) /\ S \in SUBSET DOMAIN seen
      BY <1>1, FS_Interval
    <3> HIDE DEF S
    <3> QED BY <3>1, FS_Subset
  <2>3. PICK w : S = {w}
    <3> HIDE DEF S
    <3> QED BY <2>1, <2>2, FS_Singleton
  <2>4. w \in 1 .. Len(seen) /\ \A i \in 1 .. Len(seen) : Allowed(seen[i]) <=> i = w
    BY <1>1, <2>3
  <2> QED BY <1>1, <1>2, <1>5, <2>4 DEF AllowPath
<1> QED BY <1>3, <1>4, <1>5

\* A function without collisions has as many values as arguments.
LEMMA CountOfValues ==
  ASSUME NEW n \in Nat, NEW g, g = [i \in 1 .. n |-> g[i]],
         \A i, j \in 1 .. n : g[i] = g[j] => i = j
  PROVE  Cardinality({g[i] : i \in 1 .. n}) = n
<1> DEFINE T == {g[i] : i \in 1 .. n}
<1>1. g \in Surjection(1 .. n, T) /\ g \in Injection(1 .. n, T)
  BY DEF Surjection, Injection, IsInjective
<1>2. IsFiniteSet(1 .. n) /\ Cardinality(1 .. n) = n
  <2>1. 1 \in Int /\ n \in Int
    OBVIOUS
  <2>2. IsFiniteSet(1 .. n) /\ Cardinality(1 .. n) = IF 1 > n THEN 0 ELSE n - 1 + 1
    BY <2>1, FS_Interval, Zenon
  <2> QED BY <2>2
<1> HIDE DEF T
<1>3. Cardinality(T) = n
  BY <1>1, <1>2, FS_Surjection
<1> QED BY <1>3 DEF T

\* What the verifier requires of a case holds of every case the controller let
\* through, and the hashes name the case.
LEMMA CheckedCaseVerifies ==
  ASSUME NEW n \in 1 .. 7, NEW c \in Case, CaseTrue(CaseSpecs[n], c), CaseNumbered(n, c)
  PROVE  /\ CaseSemantics(c) /\ InvocationOrder(c) /\ ReceiptContexts(c)
         /\ c.variant = CaseSpecs[n]
         /\ \A i \in DOMAIN c.attempts :
              \/ c.attempts[i].challenge_token_hash = None
              \/ c.attempts[i].challenge_token_hash[1] = CaseSpecs[n]
<1>1. PICK v, seen, low, high :
        /\ v = CaseSpecs[n] /\ seen = c.attempts
        /\ low = InvokedBefore[n] /\ high = InvokedBefore[n + 1]
  OBVIOUS
<1>2. /\ v \in Variants /\ seen \in Seq(Attempt) /\ c.variant = v
      /\ AttemptsTrue(v, seen) /\ OutcomesExpected(v, seen)
      /\ v # "replay" => Len(seen) = Count(v)
      /\ AttemptsNumbered(v, seen, low, high)
      /\ c.invocation_delta = ExpectedCount(v) /\ c.redemption_count = ExpectedCount(v)
  BY <1>1, MatrixFacts DEF CaseTrue, CaseNumbered, Case
<1>3. /\ Len(seen) \in Nat /\ DOMAIN seen = 1 .. Len(seen)
      /\ Len(seen) = IF v = "replay" THEN 2 ELSE Count(v)
      /\ \A i \in 1 .. Len(seen) :
           /\ seen[i].run_id \in RunIds
           /\ v = "replay" => seen[i].run_id = <<v, 1>> /\ seen[i].redemption_sequence = i
           /\ v # "replay" => seen[i].run_id = <<v, i>> /\ seen[i].redemption_sequence = 1
  BY <1>2, CheckedAttempts
<1>4. v # "concurrent" => /\ 1 \in 1 .. Len(seen)
                          /\ \A i \in 1 .. Len(seen) : seen[i].run_id = <<v, 1>>
  <2>1. v \notin {"concurrent", "replay"} => Len(seen) = 1
    BY <1>3 DEF Count
  <2>2. v = "replay" => Len(seen) = 2
    BY <1>3
  <2> QED BY <1>3, <2>1, <2>2
<1>5. v = "concurrent" => Len(seen) = Concurrency
  BY <1>3 DEF Count
<1> DEFINE runs == {seen[i].run_id : i \in 1 .. Len(seen)}
<1>6. v # "concurrent" => Cardinality(runs) = 1
  <2>1. v # "concurrent" => runs = {<<v, 1>>}
    BY <1>4
  <2> HIDE DEF runs
  <2> QED BY <2>1, FS_Singleton
<1>7. v = "concurrent" => Cardinality(runs) = Len(seen)
  <2> SUFFICES ASSUME v = "concurrent" PROVE Cardinality(runs) = Len(seen)
    OBVIOUS
  <2> DEFINE g == [i \in 1 .. Len(seen) |-> seen[i].run_id]
  <2>1. \A i \in 1 .. Len(seen) : g[i] = seen[i].run_id /\ g[i] = <<v, i>>
    BY <1>3
  <2>2. g = [i \in 1 .. Len(seen) |-> g[i]] /\ {g[i] : i \in 1 .. Len(seen)} = runs
    OBVIOUS
  <2> HIDE DEF g, runs
  <2>3. \A i, j \in 1 .. Len(seen) : g[i] = g[j] => i = j
    BY <2>1
  <2> QED BY <1>3, <2>2, <2>3, CountOfValues
<1>8. CaseSemantics(c)
  <2>1. \A i \in 1 .. Len(seen) : AttemptSemantics(seen[i])
    BY <1>2 DEF AttemptsNumbered
  <2>2. \A i \in 1 .. Len(seen) : seen[i].redemption_sequence = IF v = "replay" THEN i ELSE 1
    BY <1>3
  <2>3. v = "concurrent" => Len(seen) >= 2
    BY <1>5, ConcurrencyAssumption
  <2>4. Cardinality({seen[i].run_id : i \in DOMAIN seen}) = IF v = "concurrent" THEN Len(seen) ELSE 1
    BY <1>3, <1>6, <1>7
  <2> QED BY <1>1, <1>2, <1>3, <2>1, <2>2, <2>3, <2>4 DEF CaseSemantics
<1>9. InvocationOrder(c)
  <2> SUFFICES ASSUME v \in AllowPath, NEW i \in 1 .. Len(seen), Allowed(seen[i])
               PROVE  seen[i].invocation_id =
                        CASE v = "valid" -> 1 [] v = "replay" -> 2 [] OTHER -> 3
    BY <1>1, <1>2, <1>3, Zenon DEF InvocationOrder
  <2>1. /\ seen[i].handler_count_snapshot \in low .. high
        /\ seen[i].invocation_id \in low + 1 .. seen[i].handler_count_snapshot
    BY <1>2 DEF AttemptsNumbered
  <2>2. n \in {1, 2, 7}
    BY <1>1, MatrixFacts
  <2>3. CASE n = 1
    <3>1. low = 0 /\ high = 1 /\ v = "valid"
      BY <1>1, <2>3, MatrixFacts DEF InvokedBefore
    <3>2. seen[i].invocation_id = 1
      BY <2>1, <3>1
    <3> QED BY <3>1, <3>2, Zenon
  <2>4. CASE n = 2
    <3>1. low = 1 /\ high = 2 /\ v = "replay"
      BY <1>1, <2>4, MatrixFacts DEF InvokedBefore
    <3>2. seen[i].invocation_id = 2
      BY <2>1, <3>1
    <3>3. v # "valid"
      BY <3>1
    <3> QED BY <3>1, <3>2, <3>3, Zenon
  <2>5. CASE n = 7
    <3>1. low = 2 /\ high = 3 /\ v = "concurrent"
      BY <1>1, <2>5, MatrixFacts DEF InvokedBefore
    <3>2. seen[i].invocation_id = 3
      BY <2>1, <3>1
    <3>3. v # "valid" /\ v # "replay"
      BY <3>1
    <3> QED BY <3>2, <3>3, Zenon
  <2> QED BY <2>2, <2>3, <2>4, <2>5
<1>10. \A i \in 1 .. Len(seen) :
         /\ v = "malformed" => seen[i].challenge_token_hash = None
         /\ v # "malformed" => /\ seen[i].challenge_token_hash = seen[i].run_id
                               /\ seen[i].challenge_token_hash # None
                               /\ seen[i].challenge_token_hash[1] = v
  <2> SUFFICES ASSUME NEW i \in 1 .. Len(seen)
               PROVE  /\ v = "malformed" => seen[i].challenge_token_hash = None
                      /\ v # "malformed" => /\ seen[i].challenge_token_hash = seen[i].run_id
                                            /\ seen[i].challenge_token_hash # None
                                            /\ seen[i].challenge_token_hash[1] = v
    OBVIOUS
  <2>1. /\ v = "malformed" => seen[i].challenge_token_hash = None
        /\ v # "malformed" => seen[i].challenge_token_hash = seen[i].run_id
    BY <1>2 DEF AttemptsNumbered
  <2>2. seen[i].run_id # None /\ seen[i].run_id[1] = v
    BY <1>3, NoneAssumption
  <2> QED BY <2>1, <2>2
<1>11. ReceiptContexts(c)
  <2> DEFINE hashes == {seen[i].challenge_token_hash : i \in DOMAIN seen}
  <2>1. (v = "malformed") <=> (None \in hashes)
    <3>1. CASE v = "malformed"
      <4>1. 1 \in DOMAIN seen /\ seen[1].challenge_token_hash = None
        BY <1>3, <1>4, <1>10, <3>1
      <4> QED BY <3>1, <4>1
    <3>2. CASE v # "malformed"
      BY <1>3, <1>10, <3>2
    <3> QED BY <3>1, <3>2
  <2>2. v # "malformed" => hashes = runs
    BY <1>3, <1>10
  <2>3. v = "replay" => /\ Cardinality(hashes) = 1
                        /\ seen[1].handler_count_snapshot <= seen[2].handler_count_snapshot
    <3> SUFFICES ASSUME v = "replay"
                 PROVE  /\ Cardinality(hashes) = 1
                        /\ seen[1].handler_count_snapshot <= seen[2].handler_count_snapshot
      OBVIOUS
    <3>1. Cardinality(hashes) = 1
      <4> HIDE DEF hashes, runs
      <4> QED BY <1>6, <2>2
    <3>2. 2 \in 1 .. Len(seen) /\ 1 \in 1 .. 2
      BY <1>3
    <3> QED BY <1>2, <3>1, <3>2 DEF AttemptsNumbered
  <2>4. v = "concurrent" => Cardinality(hashes) = Len(seen)
    <3> HIDE DEF hashes, runs
    <3> QED BY <1>7, <2>2
  <2> QED BY <1>1, <1>2, <2>1, <2>3, <2>4 DEF ReceiptContexts
<1> QED BY <1>1, <1>2, <1>3, <1>8, <1>9, <1>10, <1>11

\* The record's count, computed the way sign_record sums it
LEMMA TotalOfMatrix ==
  ASSUME NEW cs \in Seq(Case), Len(cs) = 7,
         \A n \in 1 .. 7 : cs[n].invocation_delta = ExpectedCount(CaseSpecs[n])
  PROVE  TotalInvocations(cs) = 3
<1> DEFINE step(s) == [n \in 0 .. Len(cs) |-> IF n = 0 THEN 0 ELSE s[n - 1] + cs[n].invocation_delta]
           sum == CHOOSE s : s = step(s)
           h == [n \in 0 .. 7 |-> InvokedBefore[n + 1]]
<1>1. /\ InvokedBefore[1] = 0 /\ InvokedBefore[8] = 3
      /\ \A n \in 1 .. 7 : InvokedBefore[n + 1] = InvokedBefore[n] + cs[n].invocation_delta
  BY CountersOfCases DEF InvokedBefore
<1>2. h = step(h)
  <2>1. ASSUME NEW n \in 0 .. 7 PROVE h[n] = IF n = 0 THEN 0 ELSE h[n - 1] + cs[n].invocation_delta
    <3>1. CASE n = 0
      BY <1>1, <3>1
    <3>2. CASE n # 0
      <4>1. n \in 1 .. 7 /\ n - 1 \in 0 .. 7 /\ (n - 1) + 1 = n
        BY <3>2
      <4>2. h[n] = InvokedBefore[n + 1] /\ h[n - 1] = InvokedBefore[n]
        BY <4>1
      <4> QED BY <1>1, <3>2, <4>1, <4>2
    <3> QED BY <3>1, <3>2
  <2> QED BY <2>1
<1> HIDE DEF h
<1>3. sum = step(sum)
  <2> HIDE DEF step
  <2> QED BY <1>2
<1>4. TotalInvocations(cs) = sum[7]
  BY DEF TotalInvocations
<1> HIDE DEF sum
<1>5. \A n \in 0 .. 7 : sum[n] = IF n = 0 THEN 0 ELSE sum[n - 1] + cs[n].invocation_delta
  BY <1>3
<1>6. \A n \in 1 .. 7 : cs[n].invocation_delta = IF n \in {1, 2, 7} THEN 1 ELSE 0
  BY MatrixFacts DEF ExpectedCount
<1>7. sum[0] = 0 /\ sum[1] = 1 /\ sum[2] = 2
  BY <1>5, <1>6
<1>8. sum[3] = 2 /\ sum[4] = 2 /\ sum[5] = 2
  BY <1>5, <1>6, <1>7
<1>9. sum[6] = 2 /\ sum[7] = 3
  BY <1>5, <1>6, <1>8
<1> QED BY <1>4, <1>9

\* The allowed attempts are three, numbered 1, 2 and 3 in the order of the
\* cases, and the last snapshot is the record's count.
LEMMA WinnersOfRecord ==
  ASSUME NEW cs \in Seq(Case), Len(cs) = 7,
         \A n \in 1 .. 7 : CaseTrue(CaseSpecs[n], cs[n]) /\ CaseNumbered(n, cs[n])
  PROVE  /\ \E x, y, z : /\ {a \in Attempts(cs) : Allowed(a)} = {x, y, z}
                         /\ x.invocation_id = 1 /\ y.invocation_id = 2 /\ z.invocation_id = 3
                         /\ z.handler_count_snapshot = 3
         /\ \A a \in Attempts(cs) : a.handler_count_snapshot \in 0 .. 3
<1>1. DOMAIN cs = 1 .. 7 /\ \A n \in 1 .. 7 : cs[n] \in Case
  BY ElementOfSeq, LenProperties
<1>2. ASSUME NEW n \in 1 .. 7
      PROVE  /\ cs[n].attempts \in Seq(Attempt)
             /\ DOMAIN cs[n].attempts = 1 .. Len(cs[n].attempts)
             /\ AttemptsNumbered(CaseSpecs[n], cs[n].attempts, InvokedBefore[n], InvokedBefore[n + 1])
             /\ CaseSpecs[n] \in AllowPath => \E w \in 1 .. Len(cs[n].attempts) :
                  \A i \in 1 .. Len(cs[n].attempts) : Allowed(cs[n].attempts[i]) <=> i = w
             /\ CaseSpecs[n] \notin AllowPath =>
                  \A i \in 1 .. Len(cs[n].attempts) : ~Allowed(cs[n].attempts[i])
  <2>1. PICK v, seen : v = CaseSpecs[n] /\ seen = cs[n].attempts
    OBVIOUS
  <2>2. /\ v \in Variants /\ seen \in Seq(Attempt)
        /\ AttemptsTrue(v, seen) /\ OutcomesExpected(v, seen)
        /\ v # "replay" => Len(seen) = Count(v)
        /\ AttemptsNumbered(v, seen, InvokedBefore[n], InvokedBefore[n + 1])
    BY <1>1, <2>1, MatrixFacts DEF CaseTrue, CaseNumbered, Case
  <2>3. /\ DOMAIN seen = 1 .. Len(seen)
        /\ v \in AllowPath => \E w \in 1 .. Len(seen) :
             \A i \in 1 .. Len(seen) : Allowed(seen[i]) <=> i = w
        /\ v \notin AllowPath => \A i \in 1 .. Len(seen) : ~Allowed(seen[i])
    BY <2>2, CheckedAttempts
  <2> QED BY <2>1, <2>2, <2>3
<1>3. ASSUME NEW a
      PROVE  a \in Attempts(cs) <=>
               \E n \in 1 .. 7 : \E i \in 1 .. Len(cs[n].attempts) : a = cs[n].attempts[i]
  <2>1. a \in Attempts(cs) <=>
          \E n \in DOMAIN cs : \E i \in DOMAIN cs[n].attempts : a = cs[n].attempts[i]
    <3> DEFINE Of(n) == {cs[n].attempts[i] : i \in DOMAIN cs[n].attempts}
    <3>1. a \in Attempts(cs) <=> \E n \in DOMAIN cs : a \in Of(n)
      BY DEF Attempts
    <3>2. ASSUME NEW n PROVE a \in Of(n) <=> \E i \in DOMAIN cs[n].attempts : a = cs[n].attempts[i]
      OBVIOUS
    <3> HIDE DEF Of
    <3> QED BY <3>1, <3>2
  <2>2. \A n \in 1 .. 7 : DOMAIN cs[n].attempts = 1 .. Len(cs[n].attempts)
    BY <1>2
  <2> QED BY <1>1, <2>1, <2>2
<1>4. ASSUME NEW n \in 1 .. 7, NEW i \in 1 .. Len(cs[n].attempts)
      PROVE  /\ cs[n].attempts[i].handler_count_snapshot \in InvokedBefore[n] .. InvokedBefore[n + 1]
             /\ Allowed(cs[n].attempts[i]) =>
                  cs[n].attempts[i].invocation_id \in
                    InvokedBefore[n] + 1 .. cs[n].attempts[i].handler_count_snapshot
  BY <1>2 DEF AttemptsNumbered
<1>5. /\ InvokedBefore[1] = 0 /\ InvokedBefore[2] = 1 /\ InvokedBefore[3] = 2
      /\ InvokedBefore[7] = 2 /\ InvokedBefore[8] = 3
      /\ \A n \in 1 .. 8 : InvokedBefore[n] \in 0 .. 3
  BY DEF InvokedBefore
<1>6. ASSUME NEW n \in {1, 2, 7}
      PROVE  \E w \in 1 .. Len(cs[n].attempts) :
               \A i \in 1 .. Len(cs[n].attempts) : Allowed(cs[n].attempts[i]) <=> i = w
  <2>1. n \in 1 .. 7
    OBVIOUS
  <2>2. CaseSpecs[n] \in AllowPath
    BY <2>1, MatrixFacts
  <2> QED BY <1>2, <2>1, <2>2, Zenon
<1>7. PICK w1 \in 1 .. Len(cs[1].attempts) :
        \A i \in 1 .. Len(cs[1].attempts) : Allowed(cs[1].attempts[i]) <=> i = w1
  BY <1>6
<1>8. PICK w2 \in 1 .. Len(cs[2].attempts) :
        \A i \in 1 .. Len(cs[2].attempts) : Allowed(cs[2].attempts[i]) <=> i = w2
  BY <1>6
<1>9. PICK w7 \in 1 .. Len(cs[7].attempts) :
        \A i \in 1 .. Len(cs[7].attempts) : Allowed(cs[7].attempts[i]) <=> i = w7
  BY <1>6
<1>10. PICK x, y, z :
         x = cs[1].attempts[w1] /\ y = cs[2].attempts[w2] /\ z = cs[7].attempts[w7]
  OBVIOUS
<1>11. x \in Attempts(cs) /\ y \in Attempts(cs) /\ z \in Attempts(cs)
  <2>1. 1 \in 1 .. 7 /\ 2 \in 1 .. 7 /\ 7 \in 1 .. 7
    OBVIOUS
  <2> QED BY <1>3, <1>7, <1>8, <1>9, <1>10, <2>1, Zenon
<1>12. Allowed(x) /\ Allowed(y) /\ Allowed(z)
  BY <1>7, <1>8, <1>9, <1>10
<1>13. x.invocation_id = 1
  <2>1. x.handler_count_snapshot \in 0 .. 1 /\ x.invocation_id \in 1 .. x.handler_count_snapshot
    <3>1. 1 \in 1 .. 7 /\ 1 + 1 = 2
      OBVIOUS
    <3>2. /\ x.handler_count_snapshot \in InvokedBefore[1] .. InvokedBefore[1 + 1]
          /\ x.invocation_id \in InvokedBefore[1] + 1 .. x.handler_count_snapshot
      BY <1>4, <1>7, <1>10, <1>12, <3>1, Zenon
    <3> QED BY <1>5, <3>1, <3>2
  <2> QED BY <2>1
<1>14. y.invocation_id = 2
  <2>1. y.handler_count_snapshot \in 1 .. 2 /\ y.invocation_id \in 2 .. y.handler_count_snapshot
    <3>1. 2 \in 1 .. 7 /\ 2 + 1 = 3
      OBVIOUS
    <3>2. /\ y.handler_count_snapshot \in InvokedBefore[2] .. InvokedBefore[2 + 1]
          /\ y.invocation_id \in InvokedBefore[2] + 1 .. y.handler_count_snapshot
      BY <1>4, <1>8, <1>10, <1>12, <3>1, Zenon
    <3> QED BY <1>5, <3>1, <3>2
  <2> QED BY <2>1
<1>15. z.invocation_id = 3 /\ z.handler_count_snapshot = 3
  <2>1. z.handler_count_snapshot \in 2 .. 3 /\ z.invocation_id \in 3 .. z.handler_count_snapshot
    <3>1. 7 \in 1 .. 7 /\ 7 + 1 = 8
      OBVIOUS
    <3>2. /\ z.handler_count_snapshot \in InvokedBefore[7] .. InvokedBefore[7 + 1]
          /\ z.invocation_id \in InvokedBefore[7] + 1 .. z.handler_count_snapshot
      BY <1>4, <1>9, <1>10, <1>12, <3>1, Zenon
    <3> QED BY <1>5, <3>1, <3>2
  <2> QED BY <2>1
<1>16. ASSUME NEW a \in Attempts(cs), Allowed(a) PROVE a \in {x, y, z}
  <2>a. PICK n \in 1 .. 7 : \E i \in 1 .. Len(cs[n].attempts) : a = cs[n].attempts[i]
    BY <1>3
  <2>1. PICK i \in 1 .. Len(cs[n].attempts) : a = cs[n].attempts[i]
    BY <2>a
  <2>2. n \in {1, 2, 7}
    BY <1>2, <1>16, <2>1, MatrixFacts
  <2>3. CASE n = 1
    BY <1>7, <1>10, <1>16, <2>1, <2>3
  <2>4. CASE n = 2
    BY <1>8, <1>10, <1>16, <2>1, <2>4
  <2>5. CASE n = 7
    BY <1>9, <1>10, <1>16, <2>1, <2>5
  <2> QED BY <2>2, <2>3, <2>4, <2>5
<1>17. {a \in Attempts(cs) : Allowed(a)} = {x, y, z}
  BY <1>11, <1>12, <1>16
<1>18. ASSUME NEW a \in Attempts(cs) PROVE a.handler_count_snapshot \in 0 .. 3
  <2>a. PICK n \in 1 .. 7 : \E i \in 1 .. Len(cs[n].attempts) : a = cs[n].attempts[i]
    BY <1>3
  <2>1. PICK i \in 1 .. Len(cs[n].attempts) : a = cs[n].attempts[i]
    BY <2>a
  <2>2. a.handler_count_snapshot \in InvokedBefore[n] .. InvokedBefore[n + 1]
    BY <1>4, <2>1
  <2>3. PICK low \in 0 .. 3, high \in 0 .. 3 : low = InvokedBefore[n] /\ high = InvokedBefore[n + 1]
    BY <1>5
  <2>4. a.handler_count_snapshot \in low .. high
    BY <2>2, <2>3
  <2>5. PICK k : k = a.handler_count_snapshot
    OBVIOUS
  <2>6. k \in low .. high
    BY <2>4, <2>5
  <2>7. k \in 0 .. 3
    BY <2>6
  <2> QED BY <2>5, <2>7
<1> QED BY <1>13, <1>14, <1>15, <1>17, <1>18

LEMMA CompleteRecordVerifies ==
  ASSUME NEW cs \in Seq(Case), Len(cs) = 7,
         \A n \in 1 .. 7 : CaseTrue(CaseSpecs[n], cs[n]) /\ CaseNumbered(n, cs[n])
  PROVE  RecordSemantics(cs) /\ ReceiptsAgree(cs)
<1>1. DOMAIN cs = 1 .. 7 /\ \A n \in 1 .. 7 : cs[n] \in Case
  BY ElementOfSeq, LenProperties
<1>2. ASSUME NEW n \in 1 .. 7
      PROVE  /\ CaseSemantics(cs[n]) /\ InvocationOrder(cs[n]) /\ ReceiptContexts(cs[n])
             /\ cs[n].variant = CaseSpecs[n]
             /\ \A i \in DOMAIN cs[n].attempts :
                  \/ cs[n].attempts[i].challenge_token_hash = None
                  \/ cs[n].attempts[i].challenge_token_hash[1] = CaseSpecs[n]
  BY <1>1, CheckedCaseVerifies
<1>3. PICK x, y, z : /\ {a \in Attempts(cs) : Allowed(a)} = {x, y, z}
                     /\ x.invocation_id = 1 /\ y.invocation_id = 2 /\ z.invocation_id = 3
                     /\ z.handler_count_snapshot = 3
  BY WinnersOfRecord
<1>4. \A a \in Attempts(cs) : a.handler_count_snapshot \in 0 .. 3
  BY WinnersOfRecord
<1>5. RecordSemantics(cs)
  <2>1. Len(cs) = Cardinality(Variants)
    BY SevenVariants
  <2>2. {cs[n].variant : n \in DOMAIN cs} = Variants
    BY <1>1, <1>2, MatrixFacts
  <2>3. Cardinality({x, y, z}) = 3
    <3>1. y \notin {x} /\ z \notin {x} \cup {y} /\ {x, y, z} = ({x} \cup {y}) \cup {z}
      BY <1>3
    <3>2. IsFiniteSet({x}) /\ Cardinality({x}) = 1
      BY FS_Singleton
    <3>3. PICK two : two = {x} \cup {y}
      OBVIOUS
    <3>4. IsFiniteSet(two) /\ Cardinality(two) = 2
      <4>1. /\ IsFiniteSet(two)
            /\ Cardinality(two) = IF y \in {x} THEN Cardinality({x}) ELSE Cardinality({x}) + 1
        BY <3>2, <3>3, FS_AddElement, Zenon
      <4> QED BY <3>1, <3>2, <4>1
    <3>5. Cardinality(two \cup {z}) = 3
      <4>1. Cardinality(two \cup {z}) = IF z \in two THEN Cardinality(two) ELSE Cardinality(two) + 1
        BY <3>4, FS_AddElement, Zenon
      <4>2. z \notin two
        BY <3>1, <3>3
      <4> QED BY <3>4, <4>1, <4>2
    <3> QED BY <3>1, <3>3, <3>5
  <2>4. {a.invocation_id : a \in {b \in Attempts(cs) : Allowed(b)}} = 1 .. 3
    BY <1>3
  <2> QED BY <1>1, <1>2, <1>3, <2>1, <2>2, <2>3, <2>4 DEF RecordSemantics
<1>6. Max({a.handler_count_snapshot : a \in Attempts(cs)}) = TotalInvocations(cs)
  <2> DEFINE H == {a.handler_count_snapshot : a \in Attempts(cs)}
  <2>1. H \subseteq 0 .. 3 /\ 3 \in H
    BY <1>3, <1>4
  <2> HIDE DEF H
  <2>2. Max(H) = 3
    <3>1. \A k \in H : 3 >= k
      BY <2>1
    <3>2. \A k \in H : k >= 3 => k = 3
      BY <2>1
    <3> QED BY <2>1, <3>1, <3>2 DEF Max
  <2>3. TotalInvocations(cs) = 3
    BY TotalOfMatrix DEF CaseNumbered
  <2> QED BY <2>2, <2>3 DEF H
<1>7. ASSUME NEW m \in 1 .. 7, NEW n \in 1 .. 7, m # n,
             NEW i \in DOMAIN cs[m].attempts, NEW j \in DOMAIN cs[n].attempts
      PROVE  cs[m].attempts[i].challenge_token_hash # cs[n].attempts[j].challenge_token_hash
  <2>1. CaseSpecs[m] # CaseSpecs[n]
    BY <1>7, MatrixFacts
  <2>2. /\ (CaseSpecs[m] = "malformed") <=>
             \E k \in DOMAIN cs[m].attempts : cs[m].attempts[k].challenge_token_hash = None
        /\ (CaseSpecs[n] = "malformed") <=>
             \E k \in DOMAIN cs[n].attempts : cs[n].attempts[k].challenge_token_hash = None
    BY <1>2 DEF ReceiptContexts
  <2> QED BY <1>2, <2>1, <2>2
<1>8. ReceiptsAgree(cs)
  <2>1. \A n \in DOMAIN cs : InvocationOrder(cs[n]) /\ ReceiptContexts(cs[n])
    BY <1>1, <1>2
  <2>2. ASSUME NEW m \in DOMAIN cs, NEW n \in DOMAIN cs, m # n
        PROVE  {cs[m].attempts[i].challenge_token_hash : i \in DOMAIN cs[m].attempts}
                 \cap {cs[n].attempts[i].challenge_token_hash : i \in DOMAIN cs[n].attempts} = {}
    BY <1>1, <1>7, <2>2
  <2> QED BY <1>6, <2>1, <2>2, Zenon DEF ReceiptsAgree
<1> QED BY <1>5, <1>8

\* What passed the controller's own checks in finalize_cases is refused by the
\* record verifier, whose rules are written a second time in wire.py and
\* record.py, only if the clock was set back, and then only for its times:
\* nothing else makes finalize fail between the redemptions and the signature.
THEOREM SignedRecordsStayVerifiable == Spec => []SignedRecordsVerify
<1>1. ASSUME CInv, GInv, EInv, RInv, TInv, NEW f \in Finalizers, pc[f] = "sign"
      PROVE  /\ RecordSemantics(cases[f]) /\ ReceiptsAgree(cases[f])
             /\ ~setBack => \A t \in Times : now <= t => RecordVerifies(cases[f], t)
  <2>1. PICK cs : cs = cases[f]
    OBVIOUS
  <2>2. CasesTrue(f) /\ Complete(f) /\ cs \in Seq(Case)
    BY <1>1, <2>1 DEF EInv, EvidenceType, CasesTrue
  <2>3. mode = "live" /\ Specs = CaseSpecs /\ Numbered(f)
    BY <1>1, <2>2 DEF Complete, RInv, Specs
  <2>4. Len(cs) = 7 /\ \A n \in 1 .. 7 : CaseTrue(CaseSpecs[n], cs[n]) /\ CaseNumbered(n, cs[n])
    BY <2>1, <2>2, <2>3, MatrixFacts DEF Complete, CasesTrue, Numbered
  <2>5. RecordSemantics(cs) /\ ReceiptsAgree(cs)
    BY <2>2, <2>4, CompleteRecordVerifies
  <2>6. ASSUME ~setBack, NEW t \in Times, now <= t, NEW n \in DOMAIN cs
        PROVE  ReceiptTimes(cs[n], t)
    <3>1. n \in 1 .. Len(cs) /\ cs[n] \in Case
      BY <2>2, <2>6, ElementOfSeq, LenProperties
    <3>2. /\ cs[n].broker_decided_at <= t
          /\ AttemptsTimed(cs[n].variant, cs[n].attempts, cs[n].broker_decided_at, t)
      <4>1. /\ cs[n].broker_decided_at <= now
            /\ AttemptsTimed(cs[n].variant, cs[n].attempts, cs[n].broker_decided_at, now)
        BY <1>1, <2>1, <2>6, <3>1 DEF TInv, Timed
      <4>2. cs[n].broker_decided_at \in Nat /\ now \in Nat /\ t \in Nat /\ now <= t
        BY <1>1, <2>6, <3>1, ClockAssumption DEF GInv, Case
      <4> QED BY <4>1, <4>2, AttemptsAge
    <3>3. CaseTrue(CaseSpecs[n], cs[n])
      BY <2>4, <3>1
    <3>4. cs[n].attempts \in Seq(Attempt) /\ DOMAIN cs[n].attempts = 1 .. Len(cs[n].attempts)
      BY <3>1, LenProperties DEF Case
    <3>5. cs[n].variant = "replay" => cs[n].attempts[1].decided_at <= cs[n].attempts[2].decided_at
      <4>1. ASSUME cs[n].variant = "replay" PROVE Len(cs[n].attempts) = 2
        <5>1. Reasons(cs[n].attempts) = <<"ALLOW", "CHALLENGE_CONSUMED">>
          BY <3>3, <4>1 DEF CaseTrue, OutcomesExpected
        <5>2. DOMAIN Reasons(cs[n].attempts) = DOMAIN cs[n].attempts
          BY DEF Reasons
        <5>3. DOMAIN <<"ALLOW", "CHALLENGE_CONSUMED">> = 1 .. 2
          OBVIOUS
        <5>4. 1 .. Len(cs[n].attempts) = 1 .. 2
          BY <3>4, <5>1, <5>2, <5>3
        <5>5. PICK k \in Nat : k = Len(cs[n].attempts)
          BY <3>4, LenProperties
        <5>6. 2 \in 1 .. k
          BY <5>4, <5>5
        <5>7. k \in 1 .. k
          BY <5>6
        <5>8. k \in 1 .. 2
          BY <5>4, <5>5, <5>7, Zenon
        <5>9. k = 2
          BY <5>6, <5>8
        <5> QED BY <5>5, <5>9
      <4> QED BY <3>2, <4>1 DEF AttemptsTimed
    <3> QED BY <3>2, <3>4, <3>5 DEF ReceiptTimes, AttemptsTimed
  <2> QED BY <2>1, <2>5, <2>6 DEF RecordVerifies, EmbeddedReceiptsVerify
<1>2. CInv /\ GInv /\ EInv /\ RInv /\ TInv => SignedRecordsVerify
  BY <1>1 DEF SignedRecordsVerify
<1> QED BY <1>2, LabInvariance, GrantsInvariance, EvidenceInvariance, RecordInvariance,
           TimesInvariance, PTL

(***************************************************************************)
(* The store                                                               *)
(***************************************************************************)

\* No slot becomes an owner.
NoNewOwner ==
  \A f \in Finalizers, i \in 1 .. Concurrency :
    slot'[f][i].at = "spent" => slot[f][i].at = "spent" /\ Variant(f)' = Variant(f)

LEMMA OwnersFrame ==
  ASSUME OneOwner, NoNewOwner, invoked' = invoked
  PROVE  OneOwner'
<1> SUFFICES ASSUME NEW v \in Variants, NEW f \in Finalizers, NEW g \in Finalizers,
                    NEW i \in 1 .. Concurrency, NEW j \in 1 .. Concurrency, Owns(f, i, v)'
             PROVE  invoked'[v] = 0 /\ (Owns(g, j, v)' => f = g /\ i = j)
  BY DEF OneOwner
<1>1. Owns(f, i, v) /\ (Owns(g, j, v)' => Owns(g, j, v))
  BY DEF NoNewOwner, Owns
<1> QED BY <1>1 DEF OneOwner

LEMMA InitOInv == Init => OInv
<1> SUFFICES ASSUME Init PROVE OInv OBVIOUS
<1>1. \A f \in Finalizers, i \in 1 .. Concurrency : slot[f][i].at = "idle"
  BY DEF Init, IdleSlot
<1> QED BY <1>1 DEF Init, OInv, OneOwner, Owns

\* prepare and the answers: a bundle comes back only when everything is issued.
LEMMA ArrivalsKeepOwners ==
  ASSUME CInv, OInv,
         \/ PrepareGrants \/ PrepareCase \/ WriteState \/ WritePayload \/ PrepareFails
         \/ ProviderJob \/ Gather
         \/ \E r \in RunIds : \/ Submit(r) \/ WorkerAnswers(r) \/ WorkerFails(r)
                              \/ DeadlineExpires(r) \/ LateAnswer(r)
         \/ UNCHANGED vars
  PROVE  OInv'
<1>1. UNCHANGED <<mode, final, invoked>>
  BY DEF PrepareGrants, PrepareCase, WriteState, WritePayload, PrepareFails, ProviderJob, Gather,
         Submit, WorkerAnswers, WorkerFails, DeadlineExpires, LateAnswer, Deliver, vars, store,
         Store!Issue
<1>2. NoNewOwner
  BY <1>1 DEF NoNewOwner, final, Variant, Specs
<1>3. bundle' # None => AllIssued /\ todo' = todo
  <2>1. CASE ProviderJob
    <3>1. payloadFile # "absent" /\ todo' = todo
      BY <2>1 DEF ProviderJob, preparing
    <3> QED BY <3>1 DEF CInv, FilesInOrder
  <2>2. CASE Gather
    <3>1. prep = "prepared" /\ todo' = todo
      BY <2>2 DEF Gather, preparing
    <3> QED BY <3>1 DEF CInv, FilesInOrder
  <2>3. CASE PrepareCase
    BY <2>3 DEF PrepareCase, OInv, arriving
  <2>4. CASE \/ PrepareGrants \/ WriteState \/ WritePayload \/ PrepareFails
             \/ \E r \in RunIds : \/ Submit(r) \/ WorkerAnswers(r) \/ WorkerFails(r)
                                  \/ DeadlineExpires(r) \/ LateAnswer(r)
             \/ UNCHANGED vars
    <3>1. UNCHANGED <<todo, bundle>>
      BY <2>4 DEF PrepareGrants, WriteState, WritePayload, PrepareFails, Submit, WorkerAnswers,
         WorkerFails, DeadlineExpires, LateAnswer, Deliver, vars, arriving, preparing
    <3> QED BY <3>1 DEF OInv
  <2> QED BY <2>1, <2>2, <2>3, <2>4
<1>4. bundle' # None => AllIssued'
  BY <1>1, <1>3 DEF AllIssued, Specs
<1> QED BY <1>1, <1>2, <1>4, OwnersFrame DEF OInv

\* The main thread of a finalizer never makes an owner.
LEMMA MainKeepsOwners ==
  ASSUME CInv, OInv, NEW f \in Finalizers, Begin(f) \/ MainStep(f) \/ SpawnFails(f) \/ Stops(f)
  PROVE  OInv'
<1>1. UNCHANGED <<mode, bundle, todo, invoked>>
  BY DEF MainStep, Begin, SpawnFails, Stops, Validate, StartCase, Spawn, BarrierTrips, BarrierBreaks,
         RaceFails, Unwind, Observe, CheckCase, Sign, WriteEvidence, store, arriving, preparing
<1>2. /\ slot \in [Finalizers -> [1 .. Concurrency -> SlotStates]] /\ caseNo \in [Finalizers -> Nat]
      /\ ControlType
  BY DEF CInv, ControlType
<1>3. NoNewOwner
  <2>1. CASE slot' = slot /\ caseNo' = caseNo
    BY <1>1, <2>1 DEF NoNewOwner, Variant, Specs
  <2>2. ASSUME caseNo' = caseNo, \A g \in Finalizers \ {f} : slot'[g] = slot[g],
               \A i \in 1 .. Concurrency : slot'[f][i] = slot[f][i] \/ slot'[f][i].at # "spent"
        PROVE  NoNewOwner
    BY <1>1, <2>2 DEF NoNewOwner, Variant, Specs
  <2>3. CASE \/ Begin(f) \/ SpawnFails(f) \/ Validate(f) \/ RaceFails(f) \/ Unwind(f) \/ Sign(f)
             \/ WriteEvidence(f)
    BY <2>1, <2>3 DEF Begin, SpawnFails, Validate, RaceFails, Unwind, Sign, WriteEvidence
  <2>4. CASE StartCase(f) \/ BarrierTrips(f) \/ Stops(f)
    <3>1. /\ caseNo' = caseNo
          /\ \A g \in Finalizers \ {f} : slot'[g] = slot[g]
          /\ \A i \in 1 .. Concurrency : slot'[f][i] \in {RedeemingSlot, IdleSlot}
      <4>1. CASE StartCase(f)
        BY <1>2, <4>1 DEF StartCase
      <4>2. CASE BarrierTrips(f)
        BY <1>2, <4>2 DEF BarrierTrips
      <4>3. CASE Stops(f)
        BY <1>2, <4>3 DEF Stops
      <4> QED BY <2>4, <4>1, <4>2, <4>3
    <3>2. \A i \in 1 .. Concurrency : slot'[f][i].at # "spent"
      BY <3>1 DEF RedeemingSlot, IdleSlot
    <3> QED BY <2>2, <3>1, <3>2
  <2>5. CASE BarrierBreaks(f)
    <3>1. /\ caseNo' = caseNo
          /\ slot' = [slot EXCEPT ![f] = [i \in 1 .. Concurrency |->
                IF slot[f][i].at = "waiting" THEN [slot[f][i] EXCEPT !.at = "raised"]
                ELSE slot[f][i]]]
      BY <2>5 DEF BarrierBreaks
    <3>2. ASSUME NEW i \in 1 .. Concurrency
          PROVE  slot'[f][i] = slot[f][i] \/ slot'[f][i].at # "spent"
      <4>1. slot[f][i] \in SlotStates
        BY <1>2
      <4>2. [slot[f][i] EXCEPT !.at = "raised"].at = "raised"
        BY <4>1 DEF SlotStates
      <4>3. slot'[f][i] \in {[slot[f][i] EXCEPT !.at = "raised"], slot[f][i]}
        BY <1>2, <3>1
      <4> QED BY <4>2, <4>3
    <3>3. \A g \in Finalizers \ {f} : slot'[g] = slot[g]
      BY <1>2, <3>1
    <3> QED BY <2>2, <3>1, <3>2, <3>3
  <2>6. CASE Spawn(f) /\ slot' # slot
    <3> DEFINE fresh == {k \in Slots(f) : slot[f][k].at = "idle"}
               i == Min(fresh)
               s == [slot[f][i] EXCEPT !.at = "started"]
    <3>1. fresh # {} /\ SetSlot(f, i, s) /\ caseNo' = caseNo
      BY <2>6, Zenon DEF Spawn, SlotGoto
    <3>2. i \in fresh
      <4>1. fresh \subseteq Nat
        BY Counts DEF Slots
      <4> HIDE DEF fresh
      <4> QED BY <3>1, <4>1, MinIsMember
    <3>3. i \in 1 .. Concurrency
      BY <3>2, Counts, ConcurrencyAssumption DEF Slots
    <3> HIDE DEF i
    <3>4. slot[f][i] \in SlotStates
      BY <1>2, <3>3
    <3>5. s \in SlotStates /\ s.at = "started"
      BY <3>4 DEF SlotStates, Racing
    <3> HIDE DEF s
    <3>6. /\ slot'[f][i] = s
          /\ \A k \in (1 .. Concurrency) \ {i} : slot'[f][k] = slot[f][k]
          /\ \A g \in Finalizers \ {f} : slot'[g] = slot[g]
      BY <1>2, <3>1, <3>3, <3>5, SlotSet
    <3> QED BY <2>2, <3>1, <3>5, <3>6
  <2>7. CASE Observe(f) /\ slot' # slot
    <3>1. SetSlot(f, 1, RedeemingSlot) /\ caseNo' = caseNo
      BY <2>7 DEF Observe
    <3>2. 1 \in 1 .. Concurrency /\ RedeemingSlot \in SlotStates /\ RedeemingSlot.at = "redeem"
      BY ConcurrencyAssumption DEF RedeemingSlot, IdleSlot, SlotStates, SlotReasons
    <3>3. /\ slot'[f][1] = RedeemingSlot
          /\ \A k \in (1 .. Concurrency) \ {1} : slot'[f][k] = slot[f][k]
          /\ \A g \in Finalizers \ {f} : slot'[g] = slot[g]
      BY <1>2, <3>1, <3>2, SlotSet
    <3> QED BY <2>2, <3>1, <3>2, <3>3
  <2>8. CASE CheckCase(f)
    <3>1. pc[f] = "check" /\ slot' = slot
      BY <2>8 DEF CheckCase
    <3>2. \A g \in Finalizers \ {f} : caseNo'[g] = caseNo[g]
      BY <1>2, <2>8 DEF CheckCase
    <3>3. \A i \in 1 .. Concurrency : slot[f][i].at # "spent"
      BY <3>1 DEF CInv, ThreadsInOrder, QuietOutside, AtWork, Quiet
    <3> QED BY <1>1, <3>1, <3>2, <3>3 DEF NoNewOwner, Variant, Specs
  <2>9. Spawn(f) \/ Observe(f) => caseNo' = caseNo
    BY DEF Spawn, Observe
  <2> QED BY <2>1, <2>3, <2>4, <2>5, <2>6, <2>7, <2>8, <2>9 DEF MainStep
<1> QED BY <1>1, <1>3, OwnersFrame DEF OInv, AllIssued, Specs

\* A redemption step of one slot; only the spend that redeems makes an owner,
\* and the invocation ends its ownership.
LEMMA ThreadKeepsOwners ==
  ASSUME CInv, EInv, OInv, NEW f \in Finalizers, NEW i \in 1 .. Concurrency,
         SlotStep(f, i) \/ RedeemFaults(f, i) \/ RedeemRaises(f, i)
  PROVE  OInv'
<1>1. UNCHANGED <<mode, bundle, todo, caseNo>>
  BY DEF SlotStep, Arrive, RedeemRefused, RedeemSpends, RedeemInvokes, RedeemAnswers, RedeemFaults,
         RedeemRaises, arriving, preparing
<1>2. slot[f][i].at \notin Quiet
  BY DEF SlotStep, Arrive, RedeemRefused, RedeemSpends, RedeemInvokes, RedeemAnswers, RedeemFaults,
         RedeemRaises, Quiet
<1>3. i \in Slots(f) /\ slot[f][i] \in SlotStates /\ SlotTrue(Run(f, i), slot[f][i])
  BY <1>2, WorkingSlot
<1>4. /\ Variant(f) \in Variants /\ Run(f, i)[1] = Variant(f) /\ Run(f, i) # None
      /\ \A g : Variant(g)' = Variant(g)
  BY <1>1, <1>3, RunOfSlot, RunsHaveVariants DEF Variant, Specs
<1>5. PICK s \in SlotStates :
        /\ SetSlot(f, i, s)
        /\ s.at = "spent" => RedeemSpends(f, i) /\ redeemed[Variant(f)] = None
  BY SlotWritten
<1>6. /\ slot'[f][i] = s
      /\ \A j \in (1 .. Concurrency) \ {i} : slot'[f][j] = slot[f][j]
      /\ \A g \in Finalizers \ {f} : slot'[g] = slot[g]
  BY <1>5, SlotSet DEF CInv
\* Any other slot is an owner only if it was.
<1>7. ASSUME NEW g \in Finalizers, NEW j \in 1 .. Concurrency, NEW v, Owns(g, j, v)', ~(g = f /\ j = i)
      PROVE  Owns(g, j, v)
  BY <1>4, <1>6, <1>7 DEF Owns
<1>8. OneOwner'
  <2>1. CASE s.at = "spent"
    <3>1. RedeemSpends(f, i) /\ redeemed[Variant(f)] = None
      BY <1>5, <2>1
    <3>2. invoked' = invoked /\ invoked[Variant(f)] = 0
      BY <1>4, <3>1 DEF RedeemSpends, Store!Spend, EInv, StoreTrue
    <3>3. ASSUME NEW g \in Finalizers, NEW j \in 1 .. Concurrency, Owns(g, j, Variant(f))
          PROVE  FALSE
      <4>1. slot[g][j].at = "spent" /\ Variant(g) = Variant(f)
        BY <3>3 DEF Owns
      <4>2. j \in Slots(g) /\ SlotTrue(Run(g, j), slot[g][j])
        BY <4>1, WorkingSlot DEF Quiet
      <4>3. Run(g, j)[1] = Variant(g) /\ Run(g, j) # None
        BY <4>2, RunOfSlot, RunsHaveVariants
      <4> QED BY <3>1, <4>1, <4>2, <4>3 DEF SlotTrue
    <3> SUFFICES ASSUME NEW v \in Variants, NEW g \in Finalizers, NEW h \in Finalizers,
                        NEW j \in 1 .. Concurrency, NEW k \in 1 .. Concurrency, Owns(g, j, v)'
                 PROVE  invoked'[v] = 0 /\ (Owns(h, k, v)' => g = h /\ j = k)
      BY DEF OneOwner
    <3>4. CASE v = Variant(f)
      <4>1. g = f /\ j = i /\ (Owns(h, k, v)' => h = f /\ k = i)
        BY <1>7, <3>3, <3>4
      <4> QED BY <3>2, <3>4, <4>1
    <3>5. CASE v # Variant(f)
      <4>1. ~(g = f /\ j = i) /\ (Owns(h, k, v)' => ~(h = f /\ k = i))
        BY <1>4, <3>5 DEF Owns
      <4>2. Owns(g, j, v) /\ (Owns(h, k, v)' => Owns(h, k, v))
        BY <1>7, <4>1
      <4> QED BY <3>2, <4>2 DEF OInv, OneOwner
    <3> QED BY <3>4, <3>5
  <2>2. CASE s.at # "spent" /\ ~RedeemInvokes(f, i)
    <3>1. invoked' = invoked
      BY <2>2 DEF SlotStep, Arrive, RedeemRefused, RedeemSpends, RedeemAnswers, RedeemFaults,
         RedeemRaises, store, Store!Spend
    <3>2. NoNewOwner
      BY <1>4, <1>6, <2>2 DEF NoNewOwner
    <3> QED BY <3>1, <3>2, OwnersFrame DEF OInv
  <2>3. CASE s.at # "spent" /\ RedeemInvokes(f, i)
    <3>1. Owns(f, i, Variant(f)) /\ invoked' = [invoked EXCEPT ![Variant(f)] = 1]
      BY <2>3 DEF RedeemInvokes, Store!Invoke, Owns
    <3>2. invoked \in [Variants -> {0, 1}]
      BY DEF EInv, StoreTrue
    <3> SUFFICES ASSUME NEW v \in Variants, NEW g \in Finalizers, NEW h \in Finalizers,
                        NEW j \in 1 .. Concurrency, NEW k \in 1 .. Concurrency, Owns(g, j, v)'
                 PROVE  invoked'[v] = 0 /\ (Owns(h, k, v)' => g = h /\ j = k)
      BY DEF OneOwner
    <3>3. ~(g = f /\ j = i) /\ (Owns(h, k, v)' => ~(h = f /\ k = i))
      BY <1>6, <2>3 DEF Owns
    <3>4. Owns(g, j, v) /\ (Owns(h, k, v)' => Owns(h, k, v))
      BY <1>7, <3>3
    <3>5. v # Variant(f)
      BY <1>4, <3>1, <3>3, <3>4 DEF OInv, OneOwner
    <3>6. invoked'[v] = invoked[v]
      BY <3>1, <3>2, <3>5
    <3> QED BY <3>4, <3>6 DEF OInv, OneOwner
  <2> QED BY <2>1, <2>2, <2>3
<1> QED BY <1>1, <1>8 DEF OInv, AllIssued, Specs

LEMMA NextOInv == CInv /\ EInv /\ OInv /\ [Next]_vars => OInv'
<1> SUFFICES ASSUME CInv, EInv, OInv, [Next]_vars PROVE OInv'
  OBVIOUS
<1>1. CASE \/ PrepareGrants \/ PrepareCase \/ WriteState \/ WritePayload \/ PrepareFails
           \/ ProviderJob \/ Gather
           \/ \E r \in RunIds : \/ Submit(r) \/ WorkerAnswers(r) \/ WorkerFails(r)
                                \/ DeadlineExpires(r) \/ LateAnswer(r)
           \/ UNCHANGED vars
  BY <1>1, ArrivalsKeepOwners
<1>2. ASSUME NEW f \in Finalizers, Begin(f) \/ MainStep(f) \/ SpawnFails(f) \/ Stops(f)
      PROVE  OInv'
  BY <1>2, MainKeepsOwners
<1>3. ASSUME NEW f \in Finalizers, NEW i \in 1 .. Concurrency,
             SlotStep(f, i) \/ RedeemFaults(f, i) \/ RedeemRaises(f, i)
      PROVE  OInv'
  BY <1>3, ThreadKeepsOwners
<1> QED BY <1>1, <1>2, <1>3 DEF Next

\* Whatever finalizers redeem at the same time, the store accepts every call of
\* theirs: an unrefused proof finds its challenge issued and unspent, and a won
\* redemption is invoked by its only winner, for the first time.
THEOREM RedemptionsNeverBlock == Spec => []StoreNeverBlocks
<1>1. ASSUME CInv, EInv, OInv, NEW f \in Finalizers, NEW i \in 1 .. Concurrency,
             slot[f][i].at = "redeem", RedeemRefusal(Run(f, i)) = None
      PROVE  issued[Run(f, i)] = Variant(f) /\ Run(f, i) \notin consumed
  <2>1. i \in Slots(f) /\ pc[f] \in AtWork
    BY <1>1, WorkingSlot DEF Quiet
  <2>2. bundle # None /\ AllIssued
    BY <1>1, <2>1 DEF CInv, Validated, OInv, AtWork
  <2>3. caseNo[f] \in 1 .. Len(Specs) /\ caseNo[f] < todo.case
    <3>1. caseNo[f] \in 1 .. Len(Specs) /\ Len(Specs) \in Nat
      BY <1>1, SpecsAreVariants DEF EInv, CasesTrue, CInv, ControlType
    <3>2. todo.case \in Nat /\ todo.case > Len(Specs)
      BY <1>1, <2>2 DEF AllIssued, CInv, ControlType
    <3> QED BY <3>1, <3>2
  <2>4. issued[<<Variant(f), i>>] = Variant(f)
    BY <1>1, <2>1, <2>3 DEF CInv, IssuedSoFar, Variant, Slots
  <2>5. Run(f, i) \notin consumed
    BY <1>1, NoneAssumption DEF RedeemRefusal
  <2> QED BY <2>4, <2>5 DEF Run
<1>2. ASSUME CInv, EInv, OInv, NEW f \in Finalizers, NEW i \in 1 .. Concurrency,
             slot[f][i].at = "spent"
      PROVE  redeemed[Variant(f)] = Run(f, i) /\ invoked[Variant(f)] = 0
  <2>1. i \in Slots(f) /\ SlotTrue(Run(f, i), slot[f][i])
    BY <1>2, WorkingSlot DEF Quiet
  <2>2. Variant(f) \in Variants /\ Run(f, i)[1] = Variant(f)
    BY <1>2, <2>1, RunOfSlot
  <2> QED BY <1>2, <2>1, <2>2 DEF SlotTrue, OInv, OneOwner, Owns
<1>3. CInv /\ EInv /\ OInv => StoreNeverBlocks
  BY <1>1, <1>2 DEF StoreNeverBlocks
<1>4. Init => OInv
  BY InitOInv
<1>5. CInv /\ EInv /\ OInv /\ [Next]_vars => OInv'
  BY NextOInv
<1> QED BY <1>3, <1>4, <1>5, LabInvariance, EvidenceInvariance, PTL DEF Spec

\* The lab uses the store through its interface only: every behaviour of the lab
\* is, on the store's variables, one of CapabilityStore, which inventoryd
\* implements.
THEOREM LabUsesTheStore == Spec => Store!Spec
<1>1. Init => Store!Init
  BY DEF Init
<1>2. ASSUME CInv, EInv, [Next]_vars PROVE Store!Next \/ UNCHANGED Store!vars
  <2> USE DEF store, Store!vars
  <2>1. CASE PrepareCase
    <3>1. PICK v : v = Specs[todo.case]
      OBVIOUS
    <3>2. Store!Issue(<<v, todo.request>>, v) /\ ~AllIssued
      BY <2>1, <3>1 DEF PrepareCase
    <3>3. v \in Variants /\ <<v, todo.request>> \in RunIds
      <4>1. todo.case \in Nat \ {0} /\ todo.request \in Nat \ {0} /\ mode \in Variants \cup {"live"}
        BY <1>2 DEF CInv, ControlType
      <4>2. todo.case \in 1 .. Len(Specs)
        BY <3>2, <4>1, SpecsAreVariants DEF AllIssued
      <4>3. todo.request <= Count(v)
        BY <1>2, <3>1, <3>2 DEF CInv, IssuedSoFar
      <4>4. <<v, todo.request>> \in Prepared
        BY <3>1, <4>1, <4>2, <4>3, PreparedRuns
      <4> QED BY <3>1, <4>1, <4>2, <4>4, SpecsAreVariants, PreparedRuns
    <3> QED BY <3>2, <3>3 DEF Store!Next
  <2>2. CASE \/ PrepareGrants \/ WriteState \/ WritePayload \/ PrepareFails
             \/ ProviderJob \/ Gather
             \/ \E r \in RunIds : \/ Submit(r) \/ WorkerAnswers(r) \/ WorkerFails(r)
                                  \/ DeadlineExpires(r) \/ LateAnswer(r)
             \/ UNCHANGED vars
    BY <2>2 DEF PrepareGrants, WriteState, WritePayload, PrepareFails, ProviderJob, Gather,
       Submit, WorkerAnswers, WorkerFails, DeadlineExpires, LateAnswer, Deliver, vars
  <2>3. ASSUME NEW f \in Finalizers, Begin(f) \/ MainStep(f) \/ SpawnFails(f) \/ Stops(f)
        PROVE  UNCHANGED Store!vars
    BY <2>3 DEF MainStep, Begin, SpawnFails, Stops, Validate, StartCase, Spawn, BarrierTrips,
       BarrierBreaks, RaceFails, Unwind, Observe, CheckCase, Sign, WriteEvidence
  <2>4. ASSUME NEW f \in Finalizers, NEW i \in 1 .. Concurrency,
               SlotStep(f, i) \/ RedeemFaults(f, i) \/ RedeemRaises(f, i)
        PROVE  Store!Next \/ UNCHANGED Store!vars
    <3>1. CASE RedeemSpends(f, i) \/ RedeemInvokes(f, i)
      <4>1. slot[f][i].at \notin Quiet
        BY <3>1 DEF RedeemSpends, RedeemInvokes, Quiet
      <4>2. Run(f, i) \in RunIds /\ Variant(f) \in Variants
        BY <1>2, <4>1, WorkingSlot, RunOfSlot
      <4> QED BY <3>1, <4>2 DEF RedeemSpends, RedeemInvokes, Store!Next
    <3>2. CASE ~(RedeemSpends(f, i) \/ RedeemInvokes(f, i))
      BY <2>4, <3>2 DEF SlotStep, Arrive, RedeemRefused, RedeemAnswers, RedeemFaults, RedeemRaises
    <3> QED BY <3>1, <3>2
  <2> QED BY <1>2, <2>1, <2>2, <2>3, <2>4 DEF Next
<1> QED BY <1>1, <1>2, LabInvariance, EvidenceInvariance, PTL DEF Spec, Store!Spec

(***************************************************************************)
(* The worker                                                              *)
(***************************************************************************)

LEMMA RunIdsAreFinite ==
  /\ IsFiniteSet(RunIds)
  /\ \A v : IsFiniteSet(Runs(v)) /\ Cardinality(Runs(v)) = Count(v)
<1>1. ASSUME NEW v PROVE IsFiniteSet(Runs(v)) /\ Cardinality(Runs(v)) = Count(v)
  <2> DEFINE g == [i \in 1 .. Count(v) |-> <<v, i>>]
  <2>1. Count(v) \in Nat
    BY Counts
  <2>2. IsFiniteSet(1 .. Count(v))
    BY <2>1, FS_Interval
  <2>3. g \in Surjection(1 .. Count(v), Runs(v))
    BY DEF Surjection, Runs
  <2>4. IsFiniteSet(Runs(v))
    BY <2>2, <2>3, FS_Surjection
  <2>5. {g[i] : i \in 1 .. Count(v)} = Runs(v) /\ g = [i \in 1 .. Count(v) |-> g[i]]
    BY DEF Runs
  <2>6. \A i, j \in 1 .. Count(v) : g[i] = g[j] => i = j
    OBVIOUS
  <2> HIDE DEF g
  <2>7. Cardinality({g[i] : i \in 1 .. Count(v)}) = Count(v)
    BY <2>1, <2>5, <2>6, CountOfValues
  <2> QED BY <2>4, <2>5, <2>7
<1> DEFINE A == Runs("valid") \cup Runs("replay")
           B == A \cup Runs("argument-substitution")
           C == B \cup Runs("record-substitution")
           D == C \cup Runs("wrong-holder")
           E == D \cup Runs("malformed")
           F == E \cup Runs("concurrent")
<1>2. F = RunIds
  BY DEF RunIds, Variants
<1> HIDE DEF F, E, D, C, B, A
<1>3. IsFiniteSet(A)
  BY <1>1, FS_Union DEF A
<1>4. IsFiniteSet(B)
  BY <1>1, <1>3, FS_Union DEF B
<1>5. IsFiniteSet(C)
  BY <1>1, <1>4, FS_Union DEF C
<1>6. IsFiniteSet(D)
  BY <1>1, <1>5, FS_Union DEF D
<1>7. IsFiniteSet(E)
  BY <1>1, <1>6, FS_Union DEF E
<1>8. IsFiniteSet(F)
  BY <1>1, <1>7, FS_Union DEF F
<1> QED BY <1>1, <1>2, <1>8

\* The worker's answer to a request is bound to it, and its proof is the one the
\* variant prescribes.
LEMMA WorkerAnswersAsPrescribed ==
  ASSUME NEW v \in Variants, NEW r, r[1] = v
  PROVE  WorkerResponseBound(r, Generate(r, v)) /\ ProofAsPrescribed(r, Generate(r, v))
<1>1. PICK resp, sig : resp = Generate(r, v) /\ sig = ProofSignature(r, v)
  OBVIOUS
<1>2. /\ resp.holder_proof.challenge = r /\ resp.holder_proof.signature = sig
      /\ resp.proof_subject = IF v = "wrong-holder" THEN "fresh" ELSE "holder"
  BY <1>1 DEF Generate
<1>3. WorkerResponseBound(r, resp)
  BY <1>1 DEF Generate, WorkerResponseBound
<1> DEFINE full(key, sku, record) ==
             [key |-> key, credential |-> v, challenge |-> r, sku |-> sku, record |-> record]
<1>4. \A subject, record, sku :
        ProofVerifies(r, resp, subject, record, sku) <=> sig = full(subject, sku, record)
  BY <1>2 DEF ProofVerifies
<1>5. v = "malformed" => sig = [sentinel |-> 7]
  BY <1>1 DEF ProofSignature
<1>6. v # "malformed" => sig = full(IF v = "wrong-holder" THEN "fresh" ELSE "holder",
                                    IF v = "argument-substitution" THEN "substituted" ELSE "requested",
                                    IF v = "record-substitution" THEN "substituted" ELSE "requested")
  BY <1>1, Zenon DEF ProofSignature
<1>7. \A a, b, c : /\ full(a, b, c).key = a /\ full(a, b, c).sku = b /\ full(a, b, c).record = c
                   /\ "key" \in DOMAIN full(a, b, c)
  OBVIOUS
<1>8. "key" \notin DOMAIN [sentinel |-> 7]
  OBVIOUS
<1> HIDE DEF full
<1>9. VerifiesOriginal(r, resp) <=> sig = full("holder", "requested", "requested")
  BY <1>4 DEF VerifiesOriginal
<1>10. VerifiesOriginal(r, resp) <=> v \in AllowPath
  <2>1. CASE v \in AllowPath
    BY <1>6, <1>9, <2>1 DEF AllowPath
  <2>2. CASE v = "malformed"
    BY <1>5, <1>7, <1>8, <1>9, <2>2 DEF AllowPath
  <2>3. CASE v = "wrong-holder"
    BY <1>6, <1>7, <1>9, <2>3 DEF AllowPath
  <2>4. CASE v = "argument-substitution"
    BY <1>6, <1>7, <1>9, <2>4 DEF AllowPath
  <2>5. CASE v = "record-substitution"
    BY <1>6, <1>7, <1>9, <2>5 DEF AllowPath
  <2> QED BY <2>1, <2>2, <2>3, <2>4, <2>5 DEF AllowPath, Variants
<1>11. /\ v = "argument-substitution" => ProofVerifies(r, resp, "holder", "requested", "substituted")
       /\ v = "record-substitution" => ProofVerifies(r, resp, "holder", "substituted", "requested")
       /\ v = "wrong-holder" => ProofVerifies(r, resp, resp.proof_subject, "requested", "requested")
  BY <1>2, <1>4, <1>6
<1>12. (resp.proof_subject = "holder") <=> (r[1] # "wrong-holder")
  BY <1>2
<1>13. (CASE r[1] \in AllowPath -> TRUE
         [] r[1] = "argument-substitution" -> ProofVerifies(r, resp, "holder", "requested", "substituted")
         [] r[1] = "record-substitution" -> ProofVerifies(r, resp, "holder", "substituted", "requested")
         [] r[1] = "wrong-holder" -> ProofVerifies(r, resp, resp.proof_subject, "requested", "requested")
         [] r[1] = "malformed" -> resp.holder_proof.signature = [sentinel |-> 7])
  <2>2. CASE v \in AllowPath
    <3>1. /\ r[1] # "argument-substitution" /\ r[1] # "record-substitution" /\ r[1] # "wrong-holder"
          /\ r[1] # "malformed" /\ r[1] \in AllowPath
      BY <2>2 DEF AllowPath
    <3> QED BY <3>1, Zenon
  <2>3. CASE v = "argument-substitution"
    <3>1. /\ r[1] # "record-substitution" /\ r[1] # "wrong-holder" /\ r[1] # "malformed"
          /\ r[1] \notin AllowPath /\ r[1] = "argument-substitution"
      BY <2>3 DEF AllowPath
    <3> QED BY <1>11, <3>1, Zenon
  <2>4. CASE v = "record-substitution"
    <3>1. /\ r[1] # "argument-substitution" /\ r[1] # "wrong-holder" /\ r[1] # "malformed"
          /\ r[1] \notin AllowPath /\ r[1] = "record-substitution"
      BY <2>4 DEF AllowPath
    <3> QED BY <1>11, <3>1, Zenon
  <2>5. CASE v = "wrong-holder"
    <3>1. /\ r[1] # "argument-substitution" /\ r[1] # "record-substitution" /\ r[1] # "malformed"
          /\ r[1] \notin AllowPath /\ r[1] = "wrong-holder"
      BY <2>5 DEF AllowPath
    <3> QED BY <1>11, <3>1, Zenon
  <2>6. CASE v = "malformed"
    <3>1. /\ r[1] # "argument-substitution" /\ r[1] # "record-substitution" /\ r[1] # "wrong-holder"
          /\ r[1] \notin AllowPath /\ r[1] = "malformed"
      BY <2>6 DEF AllowPath
    <3>2. resp.holder_proof.signature = [sentinel |-> 7]
      BY <1>2, <1>5, <2>6
    <3> QED BY <3>1, <3>2, Zenon
  <2> QED BY <2>2, <2>3, <2>4, <2>5, <2>6 DEF Variants, AllowPath
<1>14. ProofAsPrescribed(r, resp)
  BY <1>2, <1>10, <1>12, <1>13, Zenon DEF ProofAsPrescribed
<1> QED BY <1>1, <1>3, <1>14

\* The controller's validation accepts what an honest worker returns, in every
\* mode and for any size of the race (process_payload and finalize's checks
\* before the first redemption): what the other theorems say of validated
\* bundles is not said of none.
THEOREM HonestWorkerIsAccepted ==
  ASSUME mode \in Variants \cup {"live"}
  PROVE  BundleAccepted(Specs, ProcessPayload(Prepared))
<1>1. PICK specs, runs, answers :
        specs = Specs /\ runs = Prepared /\ answers = ProcessPayload(Prepared)
  OBVIOUS
<1>2. /\ \A n \in 1 .. Len(specs) : specs[n] \in Variants
      /\ runs = UNION {Runs(specs[n]) : n \in 1 .. Len(specs)}
      /\ runs \subseteq RunIds
      /\ answers = {Generate(r, r[1]) : r \in runs}
  BY <1>1, SpecsAreVariants, PreparedRuns DEF Prepared, ProcessPayload
<1>3. \A r, v : Generate(r, v).run_id = r /\ Generate(r, v).case_id = r[1]
  BY DEF Generate
<1>4. {resp.run_id : resp \in answers} = runs
  <2>1. ASSUME NEW resp \in answers PROVE resp.run_id \in runs
    BY <1>2, <1>3
  <2>2. ASSUME NEW r \in runs PROVE \E resp \in answers : resp.run_id = r
    <3>1. Generate(r, r[1]) \in answers
      BY <1>2
    <3> QED BY <1>3, <3>1
  <2> QED BY <2>1, <2>2
<1>5. UniqueRunIds(answers)
  <2>1. IsFiniteSet(runs)
    BY <1>2, RunIdsAreFinite, FS_Subset
  <2> DEFINE g == [r \in runs |-> Generate(r, r[1])]
  <2>2. \A r \in runs : g[r] = Generate(r, r[1])
    OBVIOUS
  <2>3. \A r, t \in runs : g[r] = g[t] => r = t
    BY <1>3, <2>2
  <2>4. g \in [runs -> answers] /\ \A a \in answers : \E r \in runs : g[r] = a
    BY <1>2, <2>2
  <2> HIDE DEF g
  <2>5. g \in Bijection(runs, answers)
    BY <2>3, <2>4 DEF Bijection, Injection, Surjection, IsInjective
  <2>6. Cardinality(answers) = Cardinality(runs)
    BY <2>1, <2>5, FS_Bijection DEF ExistsBijection
  <2> QED BY <1>4, <2>6 DEF UniqueRunIds
<1>6. ASSUME NEW n \in 1 .. Len(specs)
      PROVE  CaseAccepted(specs[n], {resp \in answers : resp.case_id = specs[n]})
  <2>1. PICK v, own : v = specs[n] /\ own = {resp \in answers : resp.case_id = v}
    OBVIOUS
  <2>2. v \in Variants /\ Runs(v) \subseteq runs
    BY <1>2, <2>1
  <2>3. \A r \in RunIds : r[1] = v <=> r \in Runs(v)
    <3>1. ASSUME NEW r \in RunIds, r[1] = v PROVE r \in Runs(v)
      <4>1. PICK w \in Variants : r \in Runs(w)
        BY DEF RunIds
      <4>2. PICK i \in 1 .. Count(w) : r = <<w, i>>
        BY <4>1 DEF Runs
      <4> QED BY <3>1, <4>1, <4>2
    <3>2. ASSUME NEW r \in Runs(v) PROVE r[1] = v
      BY DEF Runs
    <3> QED BY <3>1, <3>2
  <2>4. own = {Generate(r, v) : r \in Runs(v)}
    <3>1. ASSUME NEW a \in own PROVE a \in {Generate(r, v) : r \in Runs(v)}
      <4>1. PICK r \in runs : a = Generate(r, r[1]) /\ a.case_id = v
        BY <1>2, <2>1
      <4>2. r[1] = v
        BY <1>3, <4>1
      <4>3. r \in Runs(v)
        BY <1>2, <2>3, <4>2
      <4> QED BY <4>1, <4>2, <4>3
    <3>2. ASSUME NEW r \in Runs(v) PROVE Generate(r, v) \in own
      <4>1. r \in runs /\ r[1] = v
        BY <1>2, <2>2, <2>3
      <4>2. Generate(r, v) \in answers
        BY <1>2, <4>1
      <4> QED BY <1>3, <2>1, <4>1, <4>2
    <3> QED BY <3>1, <3>2
  <2>5. Cardinality(own) = Count(v)
    <3> DEFINE g == [r \in Runs(v) |-> Generate(r, v)]
    <3>1. \A r \in Runs(v) : g[r] = Generate(r, v)
      OBVIOUS
    <3>2. \A r, t \in Runs(v) : g[r] = g[t] => r = t
      BY <1>3, <3>1
    <3>3. g \in [Runs(v) -> own] /\ \A a \in own : \E r \in Runs(v) : g[r] = a
      BY <2>4, <3>1
    <3> HIDE DEF g
    <3>4. g \in Bijection(Runs(v), own)
      BY <3>2, <3>3 DEF Bijection, Injection, Surjection, IsInjective
    <3>5. IsFiniteSet(Runs(v)) /\ Cardinality(Runs(v)) = Count(v)
      BY RunIdsAreFinite
    <3> QED BY <3>4, <3>5, FS_Bijection DEF ExistsBijection
  <2>6. {resp.run_id : resp \in own} = Runs(v)
    BY <1>3, <2>4
  <2>7. ASSUME NEW resp \in own
        PROVE  WorkerResponseBound(resp.run_id, resp) /\ ProofAsPrescribed(resp.run_id, resp)
    <3>1. PICK r \in Runs(v) : resp = Generate(r, v)
      BY <2>4
    <3>2. resp.run_id = r /\ r[1] = v
      BY <1>2, <1>3, <2>2, <2>3, <3>1
    <3>3. WorkerResponseBound(r, Generate(r, v)) /\ ProofAsPrescribed(r, Generate(r, v))
      BY <2>2, <3>2, WorkerAnswersAsPrescribed
    <3> QED BY <3>1, <3>2, <3>3
  <2>8. CaseAccepted(v, own)
    BY <2>5, <2>6, <2>7 DEF CaseAccepted
  <2> QED BY <2>1, <2>8
<1>7. BundleAccepted(specs, answers)
  BY <1>2, <1>4, <1>5, <1>6 DEF BundleAccepted
<1> QED BY <1>1, <1>7

\* And it accepts no other proof: the one it redeems for a prepared request is
\* the worker's in every field, but for the key of a wrong-holder proof, which can
\* be any key other than the holder's.
THEOREM AcceptedProofIsTheWorkers ==
  ASSUME BundleAccepted(Specs, bundle), IsFiniteSet(bundle), mode \in Variants \cup {"live"},
         NEW r \in Prepared, NEW resp, resp = ResponseOf(r)
  PROVE  /\ resp.holder_proof.challenge = r
         /\ r[1] # "wrong-holder" => resp.holder_proof.signature = ProofSignature(r, r[1])
         /\ r[1] = "wrong-holder" =>
              /\ resp.proof_subject # "holder"
              /\ resp.holder_proof.signature = [ProofSignature(r, r[1]) EXCEPT !.key = resp.proof_subject]
<1>1. ProofAsPrescribed(r, resp)
  BY AnswerIsValidated
<1>2. r[1] \in Variants
  BY PreparedRuns, RunsHaveVariants
<1>3. PICK v, sig : v = r[1] /\ sig = resp.holder_proof.signature
  OBVIOUS
<1>4. resp.holder_proof.challenge = r
  BY <1>1, Zenon DEF ProofAsPrescribed
<1>5. (resp.proof_subject = "holder") <=> (v # "wrong-holder")
  BY <1>1, <1>3, Zenon DEF ProofAsPrescribed
<1>6. VerifiesOriginal(r, resp) <=> (v \in AllowPath)
  BY <1>1, <1>3, Zenon DEF ProofAsPrescribed
<1>7. /\ v = "argument-substitution" => ProofVerifies(r, resp, "holder", "requested", "substituted")
      /\ v = "record-substitution" => ProofVerifies(r, resp, "holder", "substituted", "requested")
      /\ v = "wrong-holder" => ProofVerifies(r, resp, resp.proof_subject, "requested", "requested")
      /\ v = "malformed" => sig = [sentinel |-> 7]
  <2>1. (CASE r[1] \in AllowPath -> TRUE
           [] r[1] = "argument-substitution" -> ProofVerifies(r, resp, "holder", "requested", "substituted")
           [] r[1] = "record-substitution" -> ProofVerifies(r, resp, "holder", "substituted", "requested")
           [] r[1] = "wrong-holder" -> ProofVerifies(r, resp, resp.proof_subject, "requested", "requested")
           [] r[1] = "malformed" -> resp.holder_proof.signature = [sentinel |-> 7])
    BY <1>1, Zenon DEF ProofAsPrescribed
  <2>2. ASSUME v = "argument-substitution"
        PROVE  ProofVerifies(r, resp, "holder", "requested", "substituted")
    <3>1. /\ r[1] # "record-substitution" /\ r[1] # "wrong-holder" /\ r[1] # "malformed"
          /\ r[1] \notin AllowPath /\ r[1] = "argument-substitution"
      BY <1>3, <2>2 DEF AllowPath
    <3> QED BY <2>1, <3>1, Zenon
  <2>3. ASSUME v = "record-substitution"
        PROVE  ProofVerifies(r, resp, "holder", "substituted", "requested")
    <3>1. /\ r[1] # "argument-substitution" /\ r[1] # "wrong-holder" /\ r[1] # "malformed"
          /\ r[1] \notin AllowPath /\ r[1] = "record-substitution"
      BY <1>3, <2>3 DEF AllowPath
    <3> QED BY <2>1, <3>1, Zenon
  <2>4. ASSUME v = "wrong-holder"
        PROVE  ProofVerifies(r, resp, resp.proof_subject, "requested", "requested")
    <3>1. /\ r[1] # "argument-substitution" /\ r[1] # "record-substitution" /\ r[1] # "malformed"
          /\ r[1] \notin AllowPath /\ r[1] = "wrong-holder"
      BY <1>3, <2>4 DEF AllowPath
    <3> QED BY <2>1, <3>1, Zenon
  <2>5. ASSUME v = "malformed"
        PROVE  sig = [sentinel |-> 7]
    <3>1. /\ r[1] # "argument-substitution" /\ r[1] # "record-substitution" /\ r[1] # "wrong-holder"
          /\ r[1] \notin AllowPath /\ r[1] = "malformed"
      BY <1>3, <2>5 DEF AllowPath
    <3> QED BY <1>3, <2>1, <3>1, Zenon
  <2> QED BY <2>2, <2>3, <2>4, <2>5
<1>8. \A subject, record, sku :
        ProofVerifies(r, resp, subject, record, sku) =>
          sig = [key |-> subject, credential |-> v, challenge |-> r, sku |-> sku, record |-> record]
  BY <1>3, <1>4 DEF ProofVerifies
<1>9. ASSUME v # "wrong-holder" PROVE sig = ProofSignature(r, v)
  <2>1. CASE v = "malformed"
    BY <1>7, <2>1 DEF ProofSignature
  <2>2. CASE v = "argument-substitution"
    BY <1>3, <1>7, <1>8, <2>2 DEF ProofSignature
  <2>3. CASE v = "record-substitution"
    BY <1>3, <1>7, <1>8, <2>3 DEF ProofSignature
  <2>4. CASE v \in AllowPath
    <3>1. ProofVerifies(r, resp, "holder", "requested", "requested")
      BY <1>6, <2>4 DEF VerifiesOriginal
    <3>2. v \notin {"malformed", "wrong-holder", "argument-substitution", "record-substitution"}
      BY <2>4 DEF AllowPath
    <3> QED BY <1>3, <1>8, <3>1, <3>2 DEF ProofSignature
  <2> QED BY <1>2, <1>3, <1>9, <2>1, <2>2, <2>3, <2>4 DEF Variants, AllowPath
<1>10. ASSUME v = "wrong-holder"
       PROVE  sig = [ProofSignature(r, v) EXCEPT !.key = resp.proof_subject]
  <2>1. sig = [key |-> resp.proof_subject, credential |-> v, challenge |-> r, sku |-> "requested",
               record |-> "requested"]
    BY <1>7, <1>8, <1>10
  <2>2. ProofSignature(r, v) = [key |-> "fresh", credential |-> v, challenge |-> r, sku |-> "requested",
                                record |-> "requested"]
    BY <1>3, <1>10 DEF ProofSignature
  <2> QED BY <2>1, <2>2
<1> QED BY <1>3, <1>4, <1>5, <1>9, <1>10
=============================================================================
