-------------------------------- MODULE MCLab --------------------------------
(***************************************************************************)
(* Instances of LabController for TLC: what may come back from the worker. *)
(***************************************************************************)
EXTENDS LabController

CONSTANTS f1, f2

\* One response that is not the worker's: a changed binding, a proof made for
\* another variant, or a proof over another request's challenge
Deviating(r) ==
  LET g == Generate(r, r[1])
  IN {[g EXCEPT !.case_id = "other"], [g EXCEPT !.request_sha256 = <<"other", 1>>],
      [g EXCEPT !.worker_public_key = "fresh"], [g EXCEPT !.proof_subject = "other"],
      [g EXCEPT !.worker_image = "other"], [g EXCEPT !.worker_code_digest = "other"],
      [g EXCEPT !.holder_signature = "fresh"],
      [g EXCEPT !.holder_proof.challenge = <<"valid", 2>>],
      [g EXCEPT !.holder_proof = Generate(<<r[1], r[2] + 1>>, r[1]).holder_proof]}
     \cup {[g EXCEPT !.holder_proof = Generate(r, v).holder_proof] : v \in Variants}
     \cup {Generate(r, v) : v \in Variants}

\* Bundles with at most one thing wrong: a response missing, changed, doubled,
\* or for a request nobody prepared
MCAnswers(runs) ==
  LET honest == ProcessPayload(runs)
  IN {honest, honest \cup {Generate(<<"valid", 2>>, "valid")}}
     \cup {honest \ {Generate(r, r[1])} : r \in runs}
     \cup UNION {{(honest \ {Generate(r, r[1])}) \cup {d} : d \in Deviating(r)} : r \in runs}
     \cup {honest \cup {[Generate(r, r[1]) EXCEPT !.holder_signature = "fresh"]} : r \in runs}

AllModes == Variants \cup {"live"}
=============================================================================
