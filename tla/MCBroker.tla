------------------------------ MODULE MCBroker ------------------------------
(***************************************************************************)
(* Instances of CapabilityBroker for TLC: the policy and the submissions.  *)
(***************************************************************************)
EXTENDS BrokerInvariant, TLC

CONSTANTS k1, k2, k3, t1, t2, h1, h2, id1, id2, id3,
          ours, other          \* the policy's value of a field, and another one

\* Certificates that are in their windows, and a path of them
Leaf == [basic |-> "end", path_length |-> {}, key_usage |-> {"digital_signature"},
         not_before |-> 0, not_after |-> MaxTime + 1]
CA(limit) == [Leaf EXCEPT !.basic = "ca", !.path_length = limit, !.key_usage = {"key_cert_sign"}]

MCPolicy ==
  [version |-> ours, broker_id |-> ours, identity_key |-> ours, scope |-> ours,
   resource_issuer |-> ours, manifest_issuer |-> ours, manifest_digest |-> ours,
   selection |-> <<<<"sha256", {0, 7, 8, 23}>>>>, roots |-> <<CA({})>>, pcr_digest |-> ours]

GoodManifest == [issuer |-> ours, digest |-> ours, verified |-> TRUE]

Body(t, h) ==
  [version |-> ours, broker_id |-> ours, identity_key |-> ours,
   resource_issuer |-> ours, manifest_digest |-> ours, challenge |-> t,
   holder_key |-> h, requested_scope |-> ours]

Endorsed(b) == [body |-> b, identity_signature |-> [key |-> ours, over |-> b]]

QuoteOf(q) ==
  [selections |-> <<[hash |-> "sha256", select |-> <<129, 1, 128>>]>>,
   chain |-> <<Leaf, CA({0}), CA({1})>>, chain_verified |-> TRUE,
   quote |-> [pcr_digest |-> ours, qualifying |-> q]]

Submits(b) ==
  [request |-> Endorsed(b), manifest |-> GoodManifest, evidence |-> QuoteOf(Endorsed(b))]

\* Two holders, both endorsed and quoted for every challenge, and one whose
\* quote was made for the other holder's request
RacingSubmissions ==
  {Submits(Body(t, h)) : t \in Tokens, h \in Holders}
    \cup {[Submits(Body(t1, h2)) EXCEPT !.evidence = QuoteOf(Endorsed(Body(t1, h1)))]}

\* Paths with one or two intermediate CAs and every small path length, and paths
\* with one certificate out of its role or out of its window
Chains ==
  LET limits == {{}, {0}, {1}, {2}}
      good == <<Leaf, CA({0}), CA({1})>>
      odd(c) == {[c EXCEPT !.basic = "missing"], [c EXCEPT !.basic = "end"],
                 [c EXCEPT !.basic = "ca"], [c EXCEPT !.key_usage = {}],
                 [c EXCEPT !.key_usage = {"digital_signature", "key_cert_sign"}],
                 [c EXCEPT !.not_after = 1], [c EXCEPT !.not_before = 1],
                 [c EXCEPT !.not_before = MaxTime + 1]}
  IN {<<Leaf>>} \cup {<<Leaf, CA(a)>> : a \in limits}
     \cup {<<Leaf, CA(a), CA(b)>> : a, b \in limits}
     \cup {<<Leaf, CA(a), CA(b), CA(c)>> : a, b, c \in limits}
     \cup UNION {{[good EXCEPT ![n] = c] : c \in odd(good[n])} : n \in 1 .. 3}

\* Selections with one bit changed, of another length or bank, or two of them
Selections ==
  LET good == [hash |-> "sha256", select |-> <<129, 1, 128>>]
      flip(byte, b) == IF BitSet(byte, b) THEN byte - 2 ^ b ELSE byte + 2 ^ b
  IN {<<>>, <<good, good>>, <<[good EXCEPT !.hash = "sha1"]>>,
      <<[good EXCEPT !.select = <<129, 1>>]>>, <<[good EXCEPT !.select = <<129, 1, 128, 0>>]>>,
      <<[good EXCEPT !.select = <<129, 1, 128, 1>>]>>, <<[good EXCEPT !.select = <<129, 128, 1>>]>>}
     \cup {<<[good EXCEPT !.select[n] = flip(@, b)]>> : n \in 1 .. 3, b \in 0 .. 7}

\* One defect each.  A changed body is endorsed and quoted anew, so that only
\* the policy can object, or presented under the old endorsement or quote.
DefectiveSubmissions ==
  LET b == Body(t1, h1)
      s == Submits(b)
      bodies == {[b EXCEPT !.version = other], [b EXCEPT !.broker_id = other],
                 [b EXCEPT !.manifest_digest = other], [b EXCEPT !.identity_key = other],
                 [b EXCEPT !.holder_key = other], [b EXCEPT !.resource_issuer = other],
                 [b EXCEPT !.requested_scope = other], [b EXCEPT !.holder_key = h2],
                 [b EXCEPT !.challenge = t2]}
  IN {s,
      [s EXCEPT !.request = None], [s EXCEPT !.evidence = None],
      [s EXCEPT !.manifest = None], [s EXCEPT !.manifest.issuer = other],
      [s EXCEPT !.manifest.digest = other], [s EXCEPT !.manifest.verified = FALSE],
      [s EXCEPT !.request.identity_signature = None],
      [s EXCEPT !.request.identity_signature.key = other],
      [s EXCEPT !.evidence.selections = None], [s EXCEPT !.evidence.chain_verified = FALSE],
      [s EXCEPT !.evidence.chain_verified = FALSE, !.evidence.quote = None],
      [s EXCEPT !.evidence.quote.pcr_digest = other]}
     \cup {[s EXCEPT !.evidence.chain = c] : c \in Chains}
     \cup {[s EXCEPT !.evidence.selections = x] : x \in Selections}
     \cup {Submits(x) : x \in bodies}
     \cup {[s EXCEPT !.request.body = x] : x \in bodies}
     \cup {[s EXCEPT !.request = Endorsed(x)] : x \in bodies}

CallSymmetry == Permutations(Calls)
IssueSymmetry == {p @@ q : p \in Permutations(Calls), q \in Permutations(CredentialIds)}
=============================================================================
