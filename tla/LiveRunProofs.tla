---------------------------- MODULE LiveRunProofs ----------------------------
(***************************************************************************)
(* Proofs about LiveRun, for every lag of the provider's listings that the *)
(* script's horizons allow for.                                            *)
(***************************************************************************)
EXTENDS LiveRunInvariant, FiniteSetTheorems, TLAPS

(***************************************************************************)
(* The provider's documents                                                *)
(***************************************************************************)

\* The one identifier of a response that names one, None of an empty one
LEMMA OneId ==
  ASSUME NEW x PROVE ExtractCreatedId({x}) = x /\ ExtractCreatedId({}) = None
<1>1. Cardinality({x}) = 1 /\ Cardinality({}) = 0
  BY FS_Singleton, FS_EmptySet
<1> QED BY <1>1 DEF ExtractCreatedId

\* A created identifier is one the response holds, or None.
LEMMA CreatedIdType ==
  ASSUME NEW ids \in SUBSET {"own", "unrelated"}
  PROVE  ExtractCreatedId(ids) \in {None, "own", "unrelated"}
<1>1. CASE Cardinality(ids) = 1
  <2>1. ids # {}
    BY <1>1, FS_EmptySet
  <2>2. (CHOOSE i \in ids : TRUE) \in ids
    BY <2>1
  <2> QED BY <1>1, <2>2 DEF ExtractCreatedId
<1>2. CASE Cardinality(ids) # 1
  BY <1>2 DEF ExtractCreatedId
<1> QED BY <1>1, <1>2

\* The identifiers that a listing shows under the unique name
LEMMA ExactIds ==
  ASSUME NEW k, NEW shown \in BOOLEAN
  PROVE  {item.id : item \in {j \in Listing(k, shown) : j.name = "unique"}} =
           (IF shown THEN {"own"} ELSE {}) \cup (IF k \in taken THEN {"theirs"} ELSE {})
<1> DEFINE u == [id |-> "unrelated", name |-> "another"]
           o == [id |-> "own", name |-> "unique"]
           t == [id |-> "theirs", name |-> "unique"]
<1>1. /\ u.name # "unique" /\ o.name = "unique" /\ t.name = "unique"
      /\ o.id = "own" /\ t.id = "theirs"
  OBVIOUS
<1>2. Listing(k, shown) =
        {u} \cup (IF shown THEN {o} ELSE {}) \cup (IF k \in taken THEN {t} ELSE {})
  BY DEF Listing
<1> HIDE DEF u, o, t
<1>3. {j \in Listing(k, shown) : j.name = "unique"} =
        (IF shown THEN {o} ELSE {}) \cup (IF k \in taken THEN {t} ELSE {})
  BY <1>1, <1>2
<1> QED BY <1>1, <1>3

\* What a listing tells under a name nobody else has ...
LEMMA OwnListing ==
  ASSUME NEW k, k \notin taken, NEW shown \in BOOLEAN, NEW i
  PROVE  InspectListing(Listing(k, shown), "unique", i).exact_name_id =
           IF shown THEN "own" ELSE None
<1> DEFINE items == Listing(k, shown)
           exact == {item.id : item \in {j \in items : j.name = "unique"}}
           found == [exact_name_id |-> ExtractCreatedId(exact),
                     requested_id_present |-> i \in {item.id : item \in items}]
<1>1. exact = IF shown THEN {"own"} ELSE {}
  BY ExactIds
<1>2. InspectListing(items, "unique", i) = IF Cardinality(exact) > 1 THEN None ELSE found
  BY DEF InspectListing
<1>3. found.exact_name_id = ExtractCreatedId(exact)
  OBVIOUS
<1> HIDE DEF exact, found, items
<1>4. CASE shown
  <2>1. exact = {"own"} /\ ExtractCreatedId(exact) = "own" /\ Cardinality(exact) = 1
    BY <1>1, <1>4, OneId, FS_Singleton
  <2>2. ~(Cardinality(exact) > 1)
    BY <2>1
  <2> QED BY <1>2, <1>3, <1>4, <2>1, <2>2, Zenon DEF items
<1>5. CASE ~shown
  <2>1. exact = {} /\ ExtractCreatedId(exact) = None /\ Cardinality(exact) = 0
    BY <1>1, <1>5, OneId, FS_EmptySet
  <2> QED BY <1>2, <1>3, <1>5, <2>1 DEF items
<1> QED BY <1>4, <1>5

\* ... and under one that somebody has: nothing may be created under it.
LEMMA TakenListing ==
  ASSUME NEW k \in taken
  PROVE  InspectListing(Listing(k, FALSE), "unique", None).exact_name_id # None
<1> DEFINE items == Listing(k, FALSE)
           exact == {item.id : item \in {j \in items : j.name = "unique"}}
           found == [exact_name_id |-> ExtractCreatedId(exact),
                     requested_id_present |-> None \in {item.id : item \in items}]
<1>1. exact = {"theirs"}
  BY ExactIds
<1>2. InspectListing(items, "unique", None) = IF Cardinality(exact) > 1 THEN None ELSE found
  BY DEF InspectListing
<1>3. found.exact_name_id = ExtractCreatedId(exact)
  OBVIOUS
<1> HIDE DEF exact, found, items
<1>4. ExtractCreatedId(exact) = "theirs" /\ Cardinality(exact) = 1
  BY <1>1, OneId, FS_Singleton
<1>5. ~(Cardinality(exact) > 1)
  BY <1>4
<1>6. "theirs" # None
  BY NoneAssumption
<1> QED BY <1>2, <1>3, <1>4, <1>5, <1>6, Zenon DEF items

\* A document may lack a field or have one more; it never hides a deviation.
LEMMA FormsAgree ==
  ASSUME NEW d, NEW aliases, NEW document \in Forms(d, aliases), NEW f \in DOMAIN d
  PROVE  /\ d[f] = "other" => f \in DOMAIN document
         /\ f \in DOMAIN document => document[f] = d[f]
<1>1. CASE document = d
  BY <1>1
<1>2. ASSUME NEW g \in DOMAIN d, d[g] # "other",
             document = [h \in DOMAIN d \ {g} |-> d[h]]
      PROVE  /\ d[f] = "other" => f \in DOMAIN document
             /\ f \in DOMAIN document => document[f] = d[f]
  BY <1>2
<1>3. ASSUME NEW a \in aliases \ DOMAIN d, document = With(d, [h \in {a} |-> "other"])
      PROVE  /\ d[f] = "other" => f \in DOMAIN document
             /\ f \in DOMAIN document => document[f] = d[f]
  BY <1>3 DEF With
<1> QED BY <1>1, <1>2, <1>3 DEF Forms

\* A template that passes is the run's own, and reports no deviation.
LEMMA TemplateReview ==
  ASSUME TypeOK, NEW document \in Forms(TemplateDocument, {}), TemplatePasses(document)
  PROVE  id["template"] = "own" /\ (deviant # None => Unreported(1))
<1> DEFINE d == TemplateDocument
           R == TemplateFields \cup TemplateEmpty
<1>1. /\ DOMAIN d = {"id", "name"} \cup R
      /\ d["name"] = NameOf(id["template"])
      /\ \A f \in R : d[f] = Reported(1, R, None)[f]
  BY DEF TemplateDocument, With, Identity, Reported, TemplateFields, TemplateEmpty
<1>2. \A f \in DOMAIN d : /\ d[f] = "other" => f \in DOMAIN document
                          /\ f \in DOMAIN document => document[f] = d[f]
  BY FormsAgree
<1> HIDE DEF d
<1>3. /\ "name" \in DOMAIN document /\ document["name"] = "unique"
      /\ \A f \in TemplateFields : f \in DOMAIN document /\ document[f] = "requested"
      /\ \A f \in TemplateEmpty : f \in DOMAIN document => document[f] = "empty"
  BY DEF TemplatePasses, ValidateTemplate, ExpectExact, ExpectAbsentOrEmpty, With, Identity,
         Requested, TemplateFields
<1>4. id["template"] = "own"
  BY <1>1, <1>2, <1>3 DEF NameOf
<1>5. ASSUME since = 0, deviant \in R PROVE FALSE
  <2>1. Reported(1, R, None)[deviant] = "other"
    <3> HIDE DEF R
    <3> QED BY <1>5 DEF Reported
  <2>2. d[deviant] = "other"
    BY <1>1, <1>5, <2>1
  <2> QED BY <1>1, <1>2, <1>3, <1>5, <2>2
<1>6. \A m \in since + 1 .. 1 : since = 0 /\ m = 1
  BY DEF TypeOK
<1> QED BY <1>4, <1>5, <1>6 DEF Unreported, Reports

\* Endpoint documents that pass are the run's own, and report no deviation.
LEMMA EndpointReview ==
  ASSUME TypeOK, NEW create, NEW document, NEW nested,
         \A f \in DOMAIN CreateDocument :
           /\ CreateDocument[f] = "other" => f \in DOMAIN create
           /\ f \in DOMAIN create => create[f] = CreateDocument[f],
         \A f \in DOMAIN GetDocument :
           /\ GetDocument[f] = "other" => f \in DOMAIN document
           /\ f \in DOMAIN document => document[f] = GetDocument[f],
         nested # None =>
           \A f \in DOMAIN NestedDocument :
             /\ NestedDocument[f] = "other" => f \in DOMAIN nested
             /\ f \in DOMAIN nested => nested[f] = NestedDocument[f],
         EndpointPasses(create, document, nested),
         deviant # None => Unreported(1)
  PROVE  id["endpoint"] = "own" /\ (deviant # None => since > 0 /\ Unreported(3))
<1> DEFINE c == CreateDocument
           g == GetDocument
           n == NestedDocument
           C == PolicyFields \cup ComputeFields \cup EndpointEmpty \cup {"flashBootType"}
           G == PolicyFields \cup EndpointEmpty \cup {"flashboot"}
           N == NestedFields \cup {"containerRegistryAuthId", "readme", "startJupyter",
                                   "startSsh", "config"}
           Q == PolicyFields \cup ComputeFields \cup {"flashBootType"}
<1>1. /\ DOMAIN c = {"id", "name", "templateId"} \cup C
      /\ c["name"] = NameOf(id["endpoint"])
      /\ \A f \in C : c[f] = Reported(2, C, "flashBootType")[f]
  BY DEF CreateDocument, With, Endpoint, Identity, Reported, PolicyFields, ComputeFields,
         EndpointEmpty
<1>2. /\ DOMAIN g = {"id", "name", "templateId"} \cup G
      /\ \A f \in G : g[f] = Reported(3, G, "flashboot")[f]
  BY DEF GetDocument, With, Endpoint, Identity, Reported, PolicyFields, EndpointEmpty
<1>3. /\ DOMAIN n = {"id", "name"} \cup N
      /\ \A f \in N : n[f] = Reported(3, N, None)[f]
  BY DEF NestedDocument, With, Identity, Reported, NestedFields
<1> HIDE DEF c, g, n
<1>4. /\ "name" \in DOMAIN create /\ create["name"] = "unique"
      /\ \A f \in Q : create[f] = "requested"
      /\ \A f \in EndpointEmpty : f \in DOMAIN create => create[f] = "empty"
  BY DEF EndpointPasses, ValidateEndpoint, ValidateCreate, ExpectExact, ExpectAbsentOrEmpty,
         With, Endpoint, Identity, Requested, PolicyFields, ComputeFields
<1>5. /\ \A f \in PolicyFields \cup {"flashboot"} : document[f] = "requested"
      /\ \A f \in EndpointEmpty : f \in DOMAIN document => document[f] = "empty"
  BY DEF EndpointPasses, ValidateEndpoint, ValidateGet, ExpectExact, ExpectAbsentOrEmpty,
         With, Endpoint, Identity, Requested, PolicyFields
<1>6. /\ nested # None
      /\ \A f \in NestedFields : nested[f] = "requested"
      /\ nested["containerRegistryAuthId"] = "empty"
  BY DEF EndpointPasses, ValidateEndpoint, ValidateNested, ExpectExact,
         With, Identity, Requested, NestedFields
<1>7. id["endpoint"] = "own"
  BY <1>1, <1>4 DEF NameOf, c
<1>8. ASSUME deviant # None, since < 2 PROVE deviant \notin Reports[2]
  <2>1. \A f \in C : c[f] # "other"
    BY <1>1, <1>4 DEF c
  <2>2. \A f \in C : Reported(2, C, "flashBootType")[f] # "other"
    BY <1>1, <2>1
  <2>3. \A f \in C : ~(f = deviant \/ (f = "flashBootType" /\ deviant = "flashBoot"))
    <3> HIDE DEF C
    <3> QED BY <1>8, <2>2 DEF Reported
  <2> QED BY <2>3 DEF Reports
<1>9. ASSUME deviant # None, since < 3 PROVE deviant \notin Reports[3]
  <2>1. (\A f \in G : g[f] # "other") /\ \A f \in NestedFields \cup {"containerRegistryAuthId"} : n[f] # "other"
    BY <1>2, <1>3, <1>5, <1>6 DEF g, n
  <2>2. \A f \in G : ~(f = deviant \/ (f = "flashboot" /\ deviant = "flashBoot"))
    <3>1. \A f \in G : Reported(3, G, "flashboot")[f] # "other"
      BY <1>2, <2>1
    <3> HIDE DEF G
    <3> QED BY <1>9, <3>1 DEF Reported
  <2>3. \A f \in NestedFields \cup {"containerRegistryAuthId"} : f # deviant
    <3>1. \A f \in N : n[f] = IF since < 3 /\ f = deviant THEN "other" ELSE n[f]
      <4> HIDE DEF N
      <4> QED BY <1>3 DEF Reported
    <3> QED BY <1>9, <2>1, <3>1
  <2> QED BY <2>2, <2>3 DEF Reports
<1>10. ASSUME deviant # None, since = 0 PROVE FALSE
  <2>1. deviant \notin Reports[1]
    BY <1>10 DEF Unreported
  <2>2. deviant \notin Reports[2]
    BY <1>8, <1>10
  <2>3. deviant \in Fields
    BY <1>10 DEF TypeOK
  <2> QED BY <2>1, <2>2, <2>3 DEF Reports, Fields
<1>11. ASSUME deviant # None PROVE Unreported(3)
  <2> SUFFICES ASSUME NEW m \in since + 1 .. 3 PROVE deviant \notin Reports[m]
    BY DEF Unreported
  <2>1. m \in {1, 2, 3} /\ since < m /\ since \in 0 .. 3
    BY DEF TypeOK
  <2> QED BY <1>8, <1>9, <1>10, <1>11, <2>1
<1> QED BY <1>7, <1>10, <1>11 DEF TypeOK

(***************************************************************************)
(* The invariant is inductive                                              *)
(***************************************************************************)

\* Nothing is made, claimed or failed at first.
LEMMA InitLInv == Init => LInv
<1> SUFFICES ASSUME Init PROVE LInv
  OBVIOUS
<1> USE NoneAssumption DEF Init, Body, Cleanup, Kinds, Making, Working, Looping, Closing
<1>1. loop \in LoopType
  BY DEF LoopType, IdleLoop
<1>2. TypeOK
  <2>1. /\ id \in [Kinds -> {None, "own", "unrelated"}] /\ missed \in [Kinds -> Nat]
        /\ resource \in [Kinds -> {"none", "live", "gone"}]
    OBVIOUS
  <2>2. /\ cleanup_failed \in BOOLEAN /\ compose_touched \in BOOLEAN /\ containers \in BOOLEAN
        /\ private \in BOOLEAN /\ finalized \in BOOLEAN
    BY Zenon
  <2> QED BY <1>1, <2>1, <2>2 DEF TypeOK
<1>3. OwnResources /\ Absence /\ Cleaned /\ OneJob /\ Reviewed
  BY DEF OwnResources, Absence, Cleaned, OneJob, Reviewed
<1>4. Evidence
  BY DEF Evidence
<1> QED BY <1>2, <1>3, <1>4 DEF LInv

\* The steps of the body before the first resource, and after the last review
LEMMA LocalStepLInv ==
  ASSUME LInv,
         Preflight \/ ComposeUp \/ Prepare \/ ComposeDown \/ Run \/ Finalize \/ Billing
  PROVE  LInv'
<1> USE NoneAssumption
    DEF LInv, TypeOK, LoopType, OwnResources, Absence, Cleaned, Evidence, OneJob, Reviewed,
        Unreported, NothingLeft, Body, Cleanup, Kinds, Making, Working, Looping, Closing, Exit, Go, Command,
        script, cleaning, provider, review, files
<1>1. CASE Preflight
  BY <1>1 DEF Preflight
<1>2. CASE ComposeUp
  BY <1>2 DEF ComposeUp
<1>3. CASE Prepare
  BY <1>3 DEF Prepare
<1>4. CASE ComposeDown
  <2>1. CASE containers' = FALSE /\ compose_touched' = FALSE /\ Go("precreate")
    <3>1. ~containers' /\ ~compose_touched'
      BY <2>1
    <3>2. containers' \in BOOLEAN /\ compose_touched' \in BOOLEAN
      BY <2>1, Zenon
    <3>3. Go("precreate")
      BY <2>1
    <3>4. TypeOK'
      BY <1>4, <3>2, <3>3 DEF ComposeDown
    <3>5. OwnResources' /\ Absence'
      BY <1>4, <3>3 DEF ComposeDown
    <3>6. Cleaned'
      BY <1>4, <3>1, <3>3 DEF ComposeDown
    <3>7. Evidence'
      BY <1>4, <3>3 DEF ComposeDown
    <3>8. OneJob' /\ Reviewed'
      BY <1>4, <3>3 DEF ComposeDown
    <3> QED BY <3>4, <3>5, <3>6, <3>7, <3>8
  <2>2. CASE containers' \in BOOLEAN /\ Exit(1) /\ UNCHANGED compose_touched
    BY <1>4, <2>2 DEF ComposeDown
  <2> QED BY <1>4, <2>1, <2>2 DEF ComposeDown
<1>5. CASE Run
  BY <1>5 DEF Run
<1>6. CASE Finalize
  <2>1. CASE finalized' = TRUE /\ Go("billing")
    BY <1>6, <2>1 DEF Finalize
  <2>2. CASE finalized' \in BOOLEAN /\ Exit(1)
    BY <1>6, <2>2 DEF Finalize
  <2> QED BY <1>6, <2>1, <2>2 DEF Finalize
<1>7. CASE Billing
  BY <1>7 DEF Billing
<1> QED BY <1>1, <1>2, <1>3, <1>4, <1>5, <1>6, <1>7

\* A resource is made only under a name that nobody has.
LEMMA MakeStepLInv ==
  ASSUME LInv, Precreate \/ Create \/ CreatedId
  PROVE  LInv'
<1> USE NoneAssumption
    DEF LInv, TypeOK, LoopType, OwnResources, Absence, Cleaned, Evidence, OneJob, Reviewed,
        Unreported, NothingLeft, Body, Cleanup, Kinds, Making, Working, Looping, Closing, Exit, Go, Command,
        script, cleaning, provider, review, files
<1>1. CASE Precreate
  <2>1. CASE Exit(1)
    BY <1>1, <2>1 DEF Precreate
  <2>2. CASE Go("create") /\ kind \notin taken
    BY <1>1, <2>2 DEF Precreate
  <2>3. Exit(1) \/ (Go("create") /\ kind \notin taken)
    <3> HIDE DEF LInv, Exit, Go
    <3> QED BY <1>1, TakenListing DEF Precreate
  <2> QED BY <2>1, <2>2, <2>3
<1>2. CASE Create
  <2>1. PICK made \in BOOLEAN, ids \in SUBSET {"own", "unrelated"}, ok \in BOOLEAN :
          /\ resource' = [resource EXCEPT ![kind] = IF made THEN "live" ELSE "none"]
          /\ id' = [id EXCEPT ![kind] = ExtractCreatedId(ids)]
          /\ IF ok /\ ExtractCreatedId(ids) # None THEN Go("id") ELSE Exit(1)
    <3> HIDE DEF LInv, Exit, Go
    <3> QED BY <1>2 DEF Create
  <2>2. ExtractCreatedId(ids) \in {None, "own", "unrelated"}
    BY CreatedIdType
  <2>3. CASE Go("id")
    BY <1>2, <2>1, <2>2, <2>3 DEF Create
  <2>4. CASE Exit(1)
    BY <1>2, <2>1, <2>2, <2>4 DEF Create
  <2> QED BY <2>1, <2>3, <2>4
<1>3. CASE CreatedId
  <2>1. CASE Go("get") /\ recovery' = "whole"
    BY <1>3, <2>1 DEF CreatedId
  <2>2. CASE Exit(1) /\ UNCHANGED recovery
    BY <1>3, <2>2 DEF CreatedId
  <2>3. CASE Exit(1) /\ NoteWritten
    BY <1>3, <2>3 DEF CreatedId, NoteWritten
  <2> QED BY <1>3, <2>1, <2>2, <2>3 DEF CreatedId
<1> QED BY <1>1, <1>2, <1>3

\* A review that passes establishes what the job rests on.
LEMMA ReviewStepLInv ==
  ASSUME LInv, GetTemplate \/ GetEndpoint
  PROVE  LInv'
<1>1. ASSUME Exit(1) /\ UNCHANGED <<id_verified, recovery>>, pc = "get", UNCHANGED seen \/ Shown,
             UNCHANGED <<create_attempted, id, cleaning, resource, taken, missed, containers,
                         private, jobs, deleted, finalized, cleanup_status, manifest>>
      PROVE  LInv'
  <2> USE <1>1, NoneAssumption
      DEF LInv, TypeOK, LoopType, OwnResources, Absence, Cleaned, Evidence, OneJob, Reviewed,
        Unreported, NothingLeft, Body, Cleanup, Kinds, Making, Working, Looping, Closing, Exit, cleaning, files
  <2>1. CASE UNCHANGED seen
    BY <2>1
  <2>2. CASE Shown
    BY <2>2 DEF Shown
  <2> QED BY <2>1, <2>2
<1>2. ASSUME GetTemplate, id["template"] = "own", deviant # None => Unreported(1), Shown,
             Verified("precreate", "endpoint")
      PROVE  LInv'
  <2> USE <1>2, NoneAssumption
      DEF GetTemplate, Shown, LInv, TypeOK, LoopType, OwnResources, Absence, Cleaned, Evidence,
          OneJob, Reviewed, Unreported, NothingLeft, Body, Cleanup, Kinds, Making, Working,
          Looping, Closing, cleaning, review
  <2>1. CASE Exit(1) /\ NoteWritten
    BY <2>1 DEF Verified, Exit, NoteWritten
  <2>2. CASE ~(Exit(1) /\ NoteWritten)
    BY <2>2 DEF Verified
  <2> QED BY <2>1, <2>2
<1>3. ASSUME GetEndpoint, id["endpoint"] = "own", deviant # None => since > 0 /\ Unreported(3),
             Shown, Verified("run", kind)
      PROVE  LInv'
  <2> USE <1>3, NoneAssumption
      DEF GetEndpoint, Shown, LInv, TypeOK, LoopType, OwnResources, Absence, Cleaned, Evidence,
          OneJob, Reviewed, Unreported, NothingLeft, Body, Cleanup, Kinds, Making, Working,
          Looping, Closing, cleaning, review
  <2>1. CASE Exit(1) /\ NoteWritten
    BY <2>1 DEF Verified, Exit, NoteWritten
  <2>2. CASE ~(Exit(1) /\ NoteWritten)
    BY <2>2 DEF Verified
  <2> QED BY <2>1, <2>2
<1>4. CASE GetTemplate
  <2>1. CASE Rejected
    BY <1>1, <1>4, <2>1 DEF GetTemplate, Rejected
  <2>2. CASE ~Rejected
    <3>1. PICK document \in Forms(TemplateDocument, {}) :
            Shown /\ TemplatePasses(document) /\ Verified("precreate", "endpoint")
      BY <1>4, <2>2 DEF GetTemplate
    <3> QED BY <1>2, <1>4, <3>1, TemplateReview DEF LInv
  <2> QED BY <2>1, <2>2
<1>5. CASE GetEndpoint
  <2>1. CASE Rejected
    BY <1>1, <1>5, <2>1 DEF GetEndpoint, Rejected
  <2>2. CASE ~Rejected
    <3>0. Shown /\ Verified("run", kind) /\ TypeOK /\ (deviant # None => Unreported(1))
      BY <1>5, <2>2 DEF GetEndpoint, LInv, Reviewed, Making
    <3>1. ASSUME NEW d \in Forms(CreateDocument, {"flashboot", "flashBoot", "template", "workers"}),
                 EndpointPasses(d, GetDocument, NestedDocument)
          PROVE  LInv'
      <4>1. \A f \in DOMAIN CreateDocument :
             /\ CreateDocument[f] = "other" => f \in DOMAIN d
             /\ f \in DOMAIN d => d[f] = CreateDocument[f]
        BY FormsAgree
      <4>2. id["endpoint"] = "own" /\ (deviant # None => since > 0 /\ Unreported(3))
        BY <3>0, <3>1, <4>1, EndpointReview
      <4> QED BY <1>3, <1>5, <3>0, <4>2
    <3>2. ASSUME NEW d \in Forms(GetDocument, ComputeFields \cup {"flashBootType", "flashBoot"}),
                 EndpointPasses(CreateDocument, d, NestedDocument)
          PROVE  LInv'
      <4>1. \A f \in DOMAIN GetDocument :
             /\ GetDocument[f] = "other" => f \in DOMAIN d
             /\ f \in DOMAIN d => d[f] = GetDocument[f]
        BY FormsAgree
      <4>2. id["endpoint"] = "own" /\ (deviant # None => since > 0 /\ Unreported(3))
        BY <3>0, <3>2, <4>1, EndpointReview
      <4> QED BY <1>3, <1>5, <3>0, <4>2
    <3>3. ASSUME NEW d \in Forms(NestedDocument, TemplateEmpty \cup {"imageName", "volumeMountPath"})
                             \cup {None},
                 EndpointPasses(CreateDocument, GetDocument, d)
          PROVE  LInv'
      <4>1. d # None => \A f \in DOMAIN NestedDocument :
                          /\ NestedDocument[f] = "other" => f \in DOMAIN d
                          /\ f \in DOMAIN d => d[f] = NestedDocument[f]
        BY FormsAgree
      <4>2. id["endpoint"] = "own" /\ (deviant # None => since > 0 /\ Unreported(3))
        BY <3>0, <3>3, <4>1, EndpointReview
      <4> QED BY <1>3, <1>5, <3>0, <4>2
    <3> QED BY <1>5, <2>2, <3>1, <3>2, <3>3 DEF GetEndpoint
  <2> QED BY <2>1, <2>2
<1> QED BY <1>4, <1>5

\* cleanup_resource gives up: cleanup_failed remembers it.
LEMMA ReturnFails ==
  ASSUME LInv, pc \in {"list", "delete"}, Returns(FALSE),
         UNCHANGED <<script, compose_touched, taken, containers, private, jobs, files>>,
         deleted' \subseteq {"own"},
         seen' \in SUBSET Kinds, seen \subseteq seen', missed' \in [Kinds -> Nat],
         resource' \in [Kinds -> {"none", "live", "gone"}],
         \A k \in Kinds : resource'[k] = resource[k] \/ (resource[k] = "live" /\ resource'[k] = "gone")
  PROVE  LInv'
<1>1. /\ cleanup_failed' /\ cleanup_failed' \in BOOLEAN /\ loop' = IdleLoop
      /\ UNCHANGED <<original_status, review>>
      /\ \/ kind = "endpoint" /\ pc' = "resource" /\ kind' = "template"
         \/ kind = "template" /\ pc' = "state" /\ kind' = kind
  <2>1. cleanup_failed' = TRUE
    BY DEF Returns
  <2>2. kind \in {"endpoint", "template"}
    BY DEF LInv, TypeOK, Kinds
  <2> QED BY <2>1, <2>2 DEF Returns
<1>2. loop' \in LoopType
  BY <1>1 DEF IdleLoop, LoopType
<1> USE NoneAssumption
    DEF LInv, TypeOK, OwnResources, Absence, Cleaned, Evidence, OneJob, Reviewed,
        Unreported, NothingLeft, Body, Cleanup, Kinds, Making, Working, Looping, Closing,
        script, review, files
<1>3. CASE kind = "endpoint"
  BY <1>1, <1>2, <1>3
<1>4. CASE kind = "template"
  BY <1>1, <1>2, <1>4
<1> QED BY <1>3, <1>4

\* cleanup_resource is done with a resource that is not live.
LEMMA ReturnSucceeds ==
  ASSUME LInv, pc \in {"resource", "list"}, Returns(TRUE), resource[kind] # "live",
         UNCHANGED <<script, compose_touched, resource, taken, containers, private, jobs, deleted,
                     files>>,
         seen' \in SUBSET Kinds, seen \subseteq seen', missed' \in [Kinds -> Nat]
  PROVE  LInv'
<1>1. /\ cleanup_failed' = cleanup_failed /\ cleanup_failed' \in BOOLEAN /\ loop' = IdleLoop
      /\ UNCHANGED <<original_status, review>>
      /\ \/ kind = "endpoint" /\ pc' = "resource" /\ kind' = "template"
         \/ kind = "template" /\ pc' = "state" /\ kind' = kind
  <2>1. cleanup_failed \in BOOLEAN /\ kind \in {"endpoint", "template"}
    BY DEF LInv, TypeOK, Kinds
  <2>2. cleanup_failed' = cleanup_failed
    BY <2>1 DEF Returns
  <2> QED BY <2>1, <2>2 DEF Returns
<1>2. loop' \in LoopType
  BY <1>1 DEF IdleLoop, LoopType
<1> USE NoneAssumption
    DEF LInv, TypeOK, OwnResources, Absence, Cleaned, Evidence, OneJob, Reviewed,
        Unreported, NothingLeft, Body, Cleanup, Kinds, Making, Working, Looping, Closing,
        script, review, files
<1>3. CASE kind = "endpoint"
  BY <1>1, <1>2, <1>3
<1>4. CASE kind = "template"
  BY <1>1, <1>2, <1>4
<1> QED BY <1>3, <1>4

\* What a listing leads to, for a resource under the run's own name
LEMMA DecideCases ==
  ASSUME LInv, pc = "list", NEW shown \in BOOLEAN,
         NEW o, o.exact_name_id = IF shown THEN "own" ELSE None, Decide(o)
  PROVE  \/ Returns(FALSE)
         \/ ~shown /\ loop.absent + 1 >= loop.required /\ Returns(TRUE)
         \/ ~shown /\ NextIteration([loop EXCEPT !.absent = @ + 1])
         \/ /\ shown \/ kind \in id_verified
            /\ loop' = [loop EXCEPT !.absent = 0, !.required = CLEANUP_ABSENCE_SNAPSHOTS,
                                    !.deletes = @ + 1, !.target = "own"]
            /\ Go("delete") /\ UNCHANGED cleanup_failed
<1>1. /\ VerifiedId \in {None, "own"} /\ (VerifiedId # None => kind \in id_verified)
      /\ kind \in create_attempted /\ loop \in LoopType /\ "own" # None
  BY NoneAssumption DEF LInv, TypeOK, OwnResources, VerifiedId, Kinds
<1>2. Target(o) \in {None, "own"} /\ (shown => Target(o) = "own")
  BY <1>1 DEF Target
<1>3. Target(o) # None => shown \/ kind \in id_verified
  BY <1>1 DEF Target
<1>4. loop.absent \in Nat /\ loop.required \in Nat
  BY <1>1 DEF LoopType
<1>5. CASE o.exact_name_id # None /\ VerifiedId # None /\ o.exact_name_id # VerifiedId
  BY <1>1, <1>5
<1>6. CASE ~(o.exact_name_id # None /\ VerifiedId # None /\ o.exact_name_id # VerifiedId)
  <2>1. CASE Target(o) = None /\ loop.absent + 1 >= loop.required
    BY <1>1, <1>2, <1>6, <2>1 DEF Decide
  <2>2. CASE Target(o) = None /\ loop.absent + 1 < loop.required
    BY <1>1, <1>2, <1>4, <1>6, <2>2 DEF Decide
  <2>3. CASE Target(o) # None /\ loop.deletes >= CLEANUP_DELETE_ATTEMPTS
    BY <1>6, <2>3 DEF Decide
  <2>4. CASE Target(o) # None /\ ~(loop.deletes >= CLEANUP_DELETE_ATTEMPTS)
    BY <1>2, <1>3, <1>6, <2>4 DEF Decide
  <2>5. loop.absent + 1 >= loop.required \/ loop.absent + 1 < loop.required
    BY <1>4
  <2> QED BY <2>1, <2>2, <2>3, <2>4, <2>5, Zenon
<1> QED BY <1>5, <1>6, Zenon

\* One more iteration leaves the count of absences and its bound alone.
LEMMA IteratedLoop ==
  ASSUME NEW m \in LoopType
  PROVE  LET l == [m EXCEPT !.iteration = @ + 1, !.target = None]
         IN l \in LoopType /\ l.required = m.required /\ l.absent = m.absent
<1> DEFINE n == m.iteration + 1
<1>1. n \in Nat
  BY DEF LoopType
<1> HIDE DEF n
<1>2. [m EXCEPT !.iteration = n, !.target = None] \in LoopType
  BY <1>1 DEF LoopType
<1>3. /\ [m EXCEPT !.iteration = n, !.target = None].required = m.required
      /\ [m EXCEPT !.iteration = n, !.target = None].absent = m.absent
  BY DEF LoopType
<1> QED BY <1>2, <1>3 DEF n

\* A resource that the listings omitted for longer than the provider's lag is
\* not live; until then the count of absences stays behind the provider's.
LEMMA SnapshotLInv == ASSUME LInv, Snapshot PROVE LInv'
<1>1. PICK shown \in Shows(kind) :
        LET observation == InspectListing(Listing(kind, shown), "unique", VerifiedId)
        IN /\ Listed(kind, shown)
           /\ IF observation = None THEN Returns(FALSE) ELSE Decide(observation)
  BY DEF Snapshot
<1> DEFINE o == InspectListing(Listing(kind, shown), "unique", VerifiedId)
<1>2. /\ pc = "list" /\ kind \in Kinds /\ kind \notin taken /\ resource \in [Kinds -> {"none", "live", "gone"}]
      /\ missed \in [Kinds -> Nat] /\ seen \in SUBSET Kinds /\ loop \in LoopType
      /\ loop.required \in {3, 8} /\ (kind \in seen \/ loop.required = 8)
      /\ resource[kind] = "live" => loop.absent <= missed[kind]
      /\ \A k \in id_verified : k \in seen
  BY DEF Snapshot, LInv, TypeOK, OwnResources, Absence, CLEANUP_ABSENCE_SNAPSHOTS,
         CLEANUP_UNVERIFIED_ABSENCE_SNAPSHOTS
<1>3. shown \in BOOLEAN
  BY <1>1, <1>2 DEF Shows
<1>4. o.exact_name_id = IF shown THEN "own" ELSE None
  BY <1>2, <1>3, OwnListing
<1>5. /\ seen' = IF shown THEN seen \cup {kind} ELSE seen
      /\ missed' = [missed EXCEPT ![kind] = IF resource[kind] = "live" /\ ~shown THEN @ + 1 ELSE 0]
      /\ UNCHANGED <<resource, taken>>
  BY <1>1 DEF Listed
<1>6. seen' \in SUBSET Kinds /\ seen \subseteq seen' /\ missed' \in [Kinds -> Nat]
  BY <1>2, <1>5
<1>7. UNCHANGED <<script, compose_touched, late, containers, private, jobs, deleted, files>>
  BY DEF Snapshot
<1>8. /\ loop.absent \in Nat /\ loop.required \in Nat /\ loop.iteration \in Nat
      /\ loop.deletes \in Nat /\ loop.target \in {None, "own"}
  BY <1>2 DEF LoopType
<1>9. CASE Returns(FALSE)
  <2>1. deleted' \subseteq {"own"}
    BY <1>7 DEF LInv, OwnResources
  <2> QED BY <1>2, <1>5, <1>6, <1>7, <1>9, <2>1, ReturnFails
<1>10. CASE ~shown /\ loop.absent + 1 >= loop.required /\ Returns(TRUE)
  <2>1. resource[kind] # "live"
    <3> SUFFICES ASSUME resource[kind] = "live" PROVE FALSE
      OBVIOUS
    <3>1. missed[kind] < Lag(kind)
      <4>1. ~(missed[kind] < Lag(kind)) => Shows(kind) = {TRUE}
        BY DEF Shows
      <4>2. Shows(kind) = {TRUE} => shown = TRUE
        BY Zenon
      <4> QED BY <1>10, <4>1, <4>2
    <3>2. Lag(kind) \in Nat /\ missed[kind] \in Nat
      BY <1>2, LagAssumption
      DEF Lag, CLEANUP_ABSENCE_SNAPSHOTS, CLEANUP_UNVERIFIED_ABSENCE_SNAPSHOTS
    <3>3. Lag(kind) < loop.required
      BY <1>2, LagAssumption
      DEF Lag, CLEANUP_ABSENCE_SNAPSHOTS, CLEANUP_UNVERIFIED_ABSENCE_SNAPSHOTS
    <3> QED BY <1>2, <1>8, <1>10, <3>1, <3>2, <3>3
  <2> QED BY <1>2, <1>5, <1>6, <1>7, <1>10, <2>1, ReturnSucceeds
<1>11. CASE ~shown /\ NextIteration([loop EXCEPT !.absent = @ + 1]) /\ ~Returns(FALSE)
  <2> DEFINE m == [loop EXCEPT !.absent = @ + 1]
             l == [m EXCEPT !.iteration = @ + 1, !.target = None]
  <2>1. loop' = l /\ Go("list") /\ UNCHANGED cleanup_failed
    BY <1>11 DEF NextIteration
  <2>2. l \in LoopType /\ l.required = loop.required /\ l.absent = loop.absent + 1
    <3>1. m = [iteration |-> loop.iteration, absent |-> loop.absent + 1,
               deletes |-> loop.deletes, required |-> loop.required, target |-> loop.target]
      BY <1>2 DEF LoopType
    <3> HIDE DEF m
    <3>2. m \in LoopType /\ m.required = loop.required /\ m.absent = loop.absent + 1
      BY <1>8, <3>1 DEF LoopType
    <3> QED BY <3>2, IteratedLoop
  <2> HIDE DEF l
  <2>3. resource[kind] = "live" => loop.absent + 1 <= missed'[kind]
    BY <1>2, <1>5, <1>8, <1>11
  <2>4. Absence'
    BY <1>2, <1>5, <2>1, <2>2, <2>3
    DEF Absence, Go, CLEANUP_ABSENCE_SNAPSHOTS, CLEANUP_UNVERIFIED_ABSENCE_SNAPSHOTS
  <2> QED BY <1>2, <1>5, <1>6, <1>7, <2>1, <2>2, <2>4
          DEF Go, script, files, review, LInv, TypeOK, OwnResources, Cleaned, Evidence, OneJob,
              Reviewed, Unreported, NothingLeft, Body, Cleanup, Making, Working, Looping, Closing
<1>12. CASE /\ shown \/ kind \in id_verified
            /\ loop' = [loop EXCEPT !.absent = 0, !.required = CLEANUP_ABSENCE_SNAPSHOTS,
                                    !.deletes = @ + 1, !.target = "own"]
            /\ Go("delete") /\ UNCHANGED cleanup_failed
  <2>1. loop' \in LoopType /\ loop'.absent = 0 /\ loop'.required = 3 /\ loop'.target = "own"
    <3>1. loop' = [iteration |-> loop.iteration, absent |-> 0, deletes |-> loop.deletes + 1,
                   required |-> 3, target |-> "own"]
      BY <1>2, <1>12 DEF LoopType, CLEANUP_ABSENCE_SNAPSHOTS
    <3> QED BY <1>8, <3>1 DEF LoopType
  <2>2. kind \in seen'
    BY <1>2, <1>5, <1>12
  <2>3. Absence'
    BY <1>2, <1>12, <2>1, <2>2
    DEF Absence, Go, CLEANUP_ABSENCE_SNAPSHOTS, CLEANUP_UNVERIFIED_ABSENCE_SNAPSHOTS
  <2> QED BY <1>2, <1>5, <1>6, <1>7, <1>12, <2>1, <2>3
          DEF Go, script, files, review, LInv, TypeOK, OwnResources, Cleaned, Evidence, OneJob,
              Reviewed, Unreported, NothingLeft, Body, Cleanup, Making, Working, Looping, Closing
<1>13. CASE o # None
  <2>1. Decide(o)
    BY <1>1, <1>13
  <2> HIDE DEF o
  <2> QED BY <1>2, <1>3, <1>4, <1>9, <1>10, <1>11, <1>12, <2>1, DecideCases
<1>14. CASE o = None
  BY <1>1, <1>9, <1>14
<1> QED BY <1>13, <1>14

\* The loop of cleanup_resource: a delete command is sent for the run's own
\* resource, and whether it worked is left to the listings.
LEMMA LoopStepLInv ==
  ASSUME LInv, CleanupResource \/ SnapshotFails \/ DeleteResource
  PROVE  LInv'
<1>0. /\ pc \in Body \cup Cleanup \cup {"trap", "ended"} /\ kind \in Kinds
      /\ resource \in [Kinds -> {"none", "live", "gone"}] /\ missed \in [Kinds -> Nat]
      /\ seen \in SUBSET Kinds /\ loop \in LoopType /\ deleted \subseteq {"own"}
  BY DEF LInv, TypeOK, OwnResources
<1>1. CASE CleanupResource
  <2>1. CASE kind \notin create_attempted
    <3>1. resource[kind] # "live" /\ Returns(TRUE) /\ pc = "resource"
      BY <1>0, <1>1, <2>1 DEF CleanupResource, LInv, OwnResources
    <3>2. UNCHANGED <<script, compose_touched, resource, taken, seen, missed, containers, private,
                      jobs, deleted, files>>
      BY <1>1 DEF CleanupResource, provider
    <3> QED BY <1>0, <3>1, <3>2, ReturnSucceeds
  <2>2. CASE kind \in create_attempted
    <3>1. /\ pc = "resource" /\ Go("list") /\ UNCHANGED cleanup_failed
          /\ loop' = [IdleLoop EXCEPT !.iteration = 1, !.required = RequiredAbsent]
      BY <1>1, <2>2 DEF CleanupResource
    <3>2. UNCHANGED <<script, compose_touched, late, provider, containers, private, jobs, deleted,
                      files>>
      BY <1>1 DEF CleanupResource
    <3>3. RequiredAbsent \in {3, 8} /\ (kind \in seen \/ RequiredAbsent = 8)
      BY NoneAssumption
      DEF RequiredAbsent, VerifiedId, LInv, OwnResources,
          CLEANUP_ABSENCE_SNAPSHOTS, CLEANUP_UNVERIFIED_ABSENCE_SNAPSHOTS
    <3>4. loop' \in LoopType /\ loop'.absent = 0 /\ loop'.required = RequiredAbsent
      <4>1. loop' = [iteration |-> 1, absent |-> 0, deletes |-> 0, required |-> RequiredAbsent,
                     target |-> None]
        BY <3>1 DEF IdleLoop
      <4> QED BY <3>3, <4>1 DEF LoopType
    <3>5. Absence'
      BY <1>0, <3>1, <3>2, <3>3, <3>4
      DEF Absence, Go, provider, CLEANUP_ABSENCE_SNAPSHOTS, CLEANUP_UNVERIFIED_ABSENCE_SNAPSHOTS
    <3> QED BY <2>2, <3>1, <3>2, <3>4, <3>5
            DEF Go, script, provider, files, review, LInv, TypeOK, OwnResources, Cleaned, Evidence,
                OneJob, Reviewed, Unreported, NothingLeft, Body, Cleanup, Making, Working, Looping,
                Closing
  <2> QED BY <2>1, <2>2
<1>2. CASE SnapshotFails
  <2>1. /\ pc = "list" /\ Returns(FALSE)
        /\ UNCHANGED <<script, compose_touched, resource, taken, seen, missed, containers, private,
                       jobs, deleted, files>>
    BY <1>2 DEF SnapshotFails, provider
  <2> QED BY <1>0, <2>1, ReturnFails
<1>3. CASE DeleteResource
  <2>1. /\ pc = "delete" /\ loop.target = "own" /\ loop.absent = 0 /\ loop.required = 3
        /\ kind \in seen /\ kind \in create_attempted
    BY <1>3 DEF DeleteResource, LInv, Absence, OwnResources, CLEANUP_ABSENCE_SNAPSHOTS
  <2>2. deleted' \subseteq {"own"}
    BY <1>0, <1>3, <2>1 DEF DeleteResource
  <2>3. /\ resource' \in [Kinds -> {"none", "live", "gone"}]
        /\ \A k \in Kinds :
             resource'[k] = resource[k] \/ (resource[k] = "live" /\ resource'[k] = "gone")
    BY <1>0, <1>3 DEF DeleteResource
  <2>4. UNCHANGED <<script, compose_touched, taken, seen, missed, containers, private, jobs, files>>
    BY <1>3 DEF DeleteResource
  <2>5. CASE Returns(FALSE)
    BY <1>0, <2>1, <2>2, <2>3, <2>4, <2>5, ReturnFails
  <2>6. CASE ~Returns(FALSE)
    <3>1. /\ loop' = [loop EXCEPT !.iteration = @ + 1, !.target = None]
          /\ Go("list") /\ UNCHANGED cleanup_failed
      BY <1>3, <2>6 DEF DeleteResource, NextIteration
    <3>2. loop' \in LoopType /\ loop'.absent = 0 /\ loop'.required = 3
      BY <1>0, <2>1, <3>1, IteratedLoop
    <3>3. Absence'
      BY <1>0, <2>1, <2>4, <3>1, <3>2
      DEF Absence, Go, CLEANUP_ABSENCE_SNAPSHOTS, CLEANUP_UNVERIFIED_ABSENCE_SNAPSHOTS
    <3> QED BY <1>0, <2>1, <2>2, <2>3, <2>4, <3>1, <3>2, <3>3
            DEF Go, script, files, review, LInv, TypeOK, OwnResources, Cleaned, Evidence,
                OneJob, Reviewed, Unreported, NothingLeft, Kinds, Body, Cleanup, Making, Working,
                Looping, Closing
  <2> QED BY <2>5, <2>6
<1> QED BY <1>1, <1>2, <1>3

\* The other steps of the trap: what is claimed was done, what failed is noted.
LEMMA TrapStepLInv ==
  ASSUME LInv,
         \/ EnterCleanup \/ WriteRecovery \/ CleanupCompose \/ DeleteState
         \/ RetractRecovery \/ WriteStatus \/ WriteManifest \/ ManifestFails
  PROVE  LInv'
<1> USE NoneAssumption
    DEF LInv, TypeOK, LoopType, OwnResources, Absence, Cleaned, Evidence, OneJob, Reviewed,
        Unreported, NothingLeft, Body, Cleanup, Kinds, Making, Working, Looping, Closing, Go,
        script, cleaning, provider, review, files
<1>1. CASE EnterCleanup
  BY <1>1 DEF EnterCleanup
<1>2. CASE WriteRecovery
  BY <1>2 DEF WriteRecovery, NoteWritten
<1>3. CASE CleanupCompose
  <2>1. CASE ~compose_touched /\ UNCHANGED <<containers, cleanup_failed>>
    BY <1>3, <2>1 DEF CleanupCompose
  <2>2. CASE compose_touched /\ containers' = FALSE /\ UNCHANGED cleanup_failed
    <3>1. containers' \in BOOLEAN /\ ~containers' /\ UNCHANGED cleanup_failed
      BY <2>2
    <3>2. TypeOK' /\ OwnResources' /\ Absence'
      BY <1>3, <3>1 DEF CleanupCompose
    <3>3. Cleaned'
      BY <1>3, <3>1 DEF CleanupCompose
    <3>4. Evidence' /\ OneJob' /\ Reviewed'
      BY <1>3, <3>1 DEF CleanupCompose
    <3> QED BY <3>2, <3>3, <3>4
  <2>3. CASE compose_touched /\ containers' \in {containers, FALSE} /\ cleanup_failed' = TRUE
    <3>1. containers' \in BOOLEAN /\ cleanup_failed' \in BOOLEAN /\ cleanup_failed'
      BY <2>3
    <3> QED BY <1>3, <2>3, <3>1 DEF CleanupCompose
  <2> QED BY <1>3, <2>1, <2>2, <2>3 DEF CleanupCompose
<1>4. CASE DeleteState
  <2>1. CASE private' = FALSE /\ UNCHANGED <<cleanup_failed, recovery>>
    <3>1. private' \in BOOLEAN /\ ~private' /\ UNCHANGED <<cleanup_failed, recovery>>
      BY <2>1
    <3>2. TypeOK' /\ OwnResources' /\ Absence'
      BY <1>4, <3>1 DEF DeleteState
    <3>3. Cleaned'
      BY <1>4, <3>1 DEF DeleteState
    <3>4. Evidence' /\ OneJob' /\ Reviewed'
      BY <1>4, <3>1 DEF DeleteState
    <3> QED BY <3>2, <3>3, <3>4
  <2>2. CASE cleanup_failed' = TRUE /\ NoteWritten /\ UNCHANGED private
    BY <1>4, <2>2 DEF DeleteState, NoteWritten
  <2> QED BY <1>4, <2>1, <2>2 DEF DeleteState
<1>5. CASE RetractRecovery
  <2>1. CASE cleanup_failed
    BY <1>5, <2>1 DEF RetractRecovery
  <2>2. CASE ~cleanup_failed
    <3>1. recovery' \in {"absent", "whole", "lost"} /\ UNCHANGED original_status
      BY <1>5, <2>2 DEF RetractRecovery
    <3> QED BY <1>5, <2>2, <3>1 DEF RetractRecovery
  <2> QED BY <2>1, <2>2
<1>6. CASE WriteStatus
  BY <1>6 DEF WriteStatus
<1>7. CASE WriteManifest
  BY <1>7 DEF WriteManifest
<1>8. CASE ManifestFails
  BY <1>8 DEF ManifestFails, NoteWritten
<1> QED BY <1>1, <1>2, <1>3, <1>4, <1>5, <1>6, <1>7, <1>8

\* Drift, the deadline, signals and kills
LEMMA EnvironmentLInv ==
  ASSUME LInv,
         (\E f \in Fields : Drift(f)) \/ DeadlinePasses \/ Signal \/ Kill \/ UNCHANGED vars
  PROVE  LInv'
<1> USE NoneAssumption
    DEF LInv, TypeOK, LoopType, OwnResources, Absence, Cleaned, Evidence, OneJob, Reviewed,
        Unreported, NothingLeft, Body, Cleanup, Kinds, Making, Working, Looping, Closing,
        script, cleaning, provider, review, files
<1>1. ASSUME NEW f \in Fields, Drift(f) PROVE LInv'
  <2>1. /\ deviant' = f /\ since' \in 0 .. 3
        /\ pc = "run" => since' = 3
        /\ pc \in Making /\ kind = "endpoint" => since' > 0
        /\ pc \in Making \cup {"run"}
    BY <1>1 DEF Drift, DocumentsRead
  <2>2. jobs = 0 /\ Reviewed'
    BY <1>1, <2>1 DEF Drift
  <2> QED BY <1>1, <2>1, <2>2 DEF Drift
<1>2. CASE DeadlinePasses
  BY <1>2 DEF DeadlinePasses
<1>3. CASE Signal
  BY <1>3 DEF Signal, Exit
<1>4. CASE Kill
  BY <1>4 DEF Kill
<1>5. CASE UNCHANGED vars
  BY <1>5 DEF vars
<1> QED BY <1>1, <1>2, <1>3, <1>4, <1>5

\* The invariant holds of every behaviour.
LEMMA Invariant == Spec => []LInv
<1>1. LInv /\ [Next]_vars => LInv'
  BY LocalStepLInv, MakeStepLInv, ReviewStepLInv, SnapshotLInv, LoopStepLInv, TrapStepLInv,
     EnvironmentLInv
  DEF Next, BodyStep, CleanupStep
<1> QED BY InitLInv, <1>1, PTL DEF Spec

(***************************************************************************)
(* The theorems                                                            *)
(***************************************************************************)

\* A complete cleanup is claimed only when nothing is left, for every provider
\* whose listings lag less than the script's horizons.
THEOREM CompleteClaimsAreTrue == Spec => []CompleteMeansNothingLeft
<1>1. LInv => CompleteMeansNothingLeft
  BY DEF LInv, Evidence, CompleteMeansNothingLeft
<1> QED BY Invariant, <1>1, PTL

\* The recovery note stands beside every incomplete result and every verified
\* resource that lives, unless its last write failed, and a job rests on a whole one.
THEOREM RecoveryStays == Spec => []RecoveryIsKept
<1>1. LInv => RecoveryIsKept
  BY DEF LInv, Evidence, RecoveryIsKept
<1> QED BY Invariant, <1>1, PTL

\* The script deletes nothing but what it created.
THEOREM DeletesOnlyItsOwn == Spec => []OnlyOwnDeleted
<1>1. LInv => OnlyOwnDeleted
  BY DEF LInv, OwnResources, OnlyOwnDeleted
<1> QED BY Invariant, <1>1, PTL

\* The job runs on the run's own endpoint, in the configuration reviewed.
THEOREM JobIsReviewed == Spec => []JobOnReviewedConfiguration
<1>1. LInv => JobOnReviewedConfiguration
  BY DEF LInv, OwnResources, OneJob, Reviewed, Unreported, JobOnReviewedConfiguration
<1> QED BY Invariant, <1>1, PTL

\* Status 0 means one finalized job, nothing left and evidence that says so.
THEOREM SuccessStaysComplete == Spec => []SuccessIsComplete
<1>1. LInv => SuccessIsComplete
  <2> SUFFICES ASSUME LInv, pc = "ended", original_status = 0
               PROVE  jobs = 1 /\ finalized /\ NothingLeft /\ cleanup_status # 0 /\ manifest = 1
    BY DEF SuccessIsComplete
  <2>1. pc \notin Body
    BY DEF Body
  <2> QED BY <2>1 DEF LInv, OneJob, Evidence
<1> QED BY Invariant, <1>1, PTL
=============================================================================
