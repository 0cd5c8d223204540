-------------------------- MODULE ProviderReadback --------------------------
(***************************************************************************)
(* provider_readback.py: the checks of the provider's JSON documents.  A   *)
(* document is a function from the fields it carries to values: an         *)
(* identifier or a name, or "requested", "empty" or "other" for what the   *)
(* policy asks of the field.                                               *)
(***************************************************************************)
EXTENDS Naturals, FiniteSets

CONSTANT None

(***************************************************************************)
(* Field checks                                                            *)
(***************************************************************************)
ExpectExact(document, expected) ==
  \A f \in DOMAIN expected : f \in DOMAIN document /\ document[f] = expected[f]

ExpectAbsentOrEmpty(document, fields) ==
  \A f \in fields \cap DOMAIN document : document[f] = "empty"

ExpectAbsent(document, fields) == fields \cap DOMAIN document = {}

Requested(fields) == [f \in fields |-> "requested"]

Identity(id, name) == [f \in {"id", "name"} |-> IF f = "id" THEN id ELSE name]

\* The second function adds fields to the first
With(a, b) ==
  [f \in DOMAIN a \cup DOMAIN b |-> IF f \in DOMAIN a THEN a[f] ELSE b[f]]

(***************************************************************************)
(* The three documents reviewed before the job is submitted                *)
(***************************************************************************)
TemplateFields == {"imageName", "isServerless", "containerDiskInGb", "ports"}

TemplateEmpty ==
  {"volumeInGb", "env", "dockerEntrypoint", "dockerStartCmd", "containerRegistryAuthId"}

ValidateTemplate(document, id, name) ==
  /\ ExpectExact(document, With(Identity(id, name), Requested(TemplateFields)))
  /\ ExpectAbsentOrEmpty(document, TemplateEmpty)

PolicyFields ==
  {"workersMin", "workersMax", "idleTimeout", "scalerType", "scalerValue",
   "executionTimeoutMs", "gpuCount"}

ComputeFields == {"computeType", "instanceIds"}

EndpointEmpty ==
  {"gpuIds", "gpuTypeIds", "gpuPoolIds", "serverlessGpuPools", "networkVolumeId",
   "networkVolumeIds", "networkVolume", "networkVolumes", "locations", "modelReferences"}

Endpoint(id, name, templateId) ==
  With(Identity(id, name), [f \in {"templateId"} |-> templateId])

\* The GraphQL create response: the only document with the compute binding
ValidateCreate(document, id, name, templateId) ==
  /\ ExpectExact(document, With(Endpoint(id, name, templateId),
                                Requested(PolicyFields \cup ComputeFields \cup {"flashBootType"})))
  /\ ExpectAbsentOrEmpty(document, EndpointEmpty)
  /\ ExpectAbsent(document, {"flashboot", "flashBoot", "template", "workers"})

\* The REST read-back, without the compute binding ...
ValidateGet(document, id, name, templateId) ==
  /\ ExpectExact(document, With(Endpoint(id, name, templateId),
                                Requested(PolicyFields \cup {"flashboot"})))
  /\ ExpectAbsent(document, ComputeFields \cup {"flashBootType", "flashBoot"})
  /\ ExpectAbsentOrEmpty(document, EndpointEmpty)

NestedFields == {"isServerless", "containerDiskInGb", "ports"}

\* ... and the template it includes, which leaves out the image
ValidateNested(nested, id, name) ==
  /\ nested # None
  /\ ExpectExact(nested, With(Identity(id, name),
                   With([f \in {"containerRegistryAuthId", "readme"} |-> "empty"],
                        Requested(NestedFields \cup {"startJupyter", "startSsh", "config"}))))
  /\ ExpectAbsent(nested, {"imageName", "volumeInGb", "volumeMountPath", "env",
                           "dockerEntrypoint", "dockerStartCmd"})

\* Mutant: the compute binding is looked for in the read-back alone.
ValidateEndpointGetOnly(create, document, nested, id, name, templateId, templateName) ==
  /\ ValidateGet(document, id, name, templateId)
  /\ ValidateNested(nested, templateId, templateName)

ValidateEndpoint(create, document, nested, id, name, templateId, templateName) ==
  /\ ValidateCreate(create, id, name, templateId)
  /\ ValidateGet(document, id, name, templateId)
  /\ ValidateNested(nested, templateId, templateName)

(***************************************************************************)
(* Identifiers and listings                                                *)
(***************************************************************************)

\* extract_created_resource_id: the one identifier the response names
ExtractCreatedId(ids) ==
  IF Cardinality(ids) = 1 THEN CHOOSE id \in ids : TRUE ELSE None

\* inspect_resource_listing: None when two items carry the exact name
InspectListing(items, name, id) ==
  LET exact == {item.id : item \in {i \in items : i.name = name}}
  IN IF Cardinality(exact) > 1 THEN None
     ELSE [exact_name_id        |-> ExtractCreatedId(exact),
           requested_id_present |-> id \in {item.id : item \in items}]

\* validate_image_manifest_readback: the index has the digest asked for, with
\* or without the line feed the tool adds, and one linux/amd64 member
ValidateImage(index) ==
  /\ index.digest \in {"requested", "requested-with-lf"}
  /\ index.mediaType = "index"
  /\ \A m \in index.members : m.wellFormed /\ (m.platform = "linux/amd64" => ~m.variant)
  /\ Cardinality({m \in index.members : m.platform = "linux/amd64"}) = 1
=============================================================================
