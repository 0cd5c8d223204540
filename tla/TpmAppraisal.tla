---------------------------- MODULE TpmAppraisal ----------------------------
(***************************************************************************)
(* tpm.py's own checks, the ones verify_tpm_quote does not make: the       *)
(* profile of the attestation key's certificates and the PCRs a quote      *)
(* covers.  A certificate is a record of its two validity instants, its    *)
(* BasicConstraints (basic is "ca", "end" or, without the extension,       *)
(* "missing"; path_length holds the constraint, if there is one) and the   *)
(* uses its KeyUsage allows, none without the extension.                   *)
(***************************************************************************)
EXTENDS Integers, Sequences, FiniteSets

Certificate ==
  [basic : {"ca", "end", "missing"}, path_length : SUBSET Nat,
   key_usage : SUBSET {"digital_signature", "key_cert_sign"},
   not_before : Int, not_after : Int]

\* A bank and the bytes of its selection bitmap
PcrSelection == [hash : STRING, select : Seq(0 .. 255)]

\* _require_current: half open
Current(certificate, t) == certificate.not_before <= t /\ t < certificate.not_after

IsLeaf(certificate) ==
  /\ certificate.basic = "end"
  /\ "digital_signature" \in certificate.key_usage
  /\ "key_cert_sign" \notin certificate.key_usage

IsIssuer(certificate) ==
  certificate.basic = "ca" /\ "key_cert_sign" \in certificate.key_usage

\* Mutants: one subordinate CA too few counted, or one too many.
PathLengthShort(chain, n) == \A limit \in chain[n].path_length : n - 3 <= limit
PathLengthLong(chain, n) == \A limit \in chain[n].path_length : n - 1 <= limit

\* The CAs below the one at n (leaf first, from 1) are those at 2 .. n - 1.
PathLengthHolds(chain, n) == \A limit \in chain[n].path_length : n - 2 <= limit

\* enforce_synthetic_ak_certificate_policy.  The validity of the last
\* certificate is left to verify_tpm_quote.
AkCertificatePolicy(chain, roots, t) ==
  /\ Len(chain) >= 2
  /\ Current(chain[1], t) /\ IsLeaf(chain[1])
  /\ \A n \in 2 .. Len(chain) :
       /\ n < Len(chain) => Current(chain[n], t)
       /\ IsIssuer(chain[n]) /\ PathLengthHolds(chain, n)
  /\ Len(roots) >= 1 /\ \A n \in DOMAIN roots : IsIssuer(roots[n])

BitSet(byte, bit) == (byte \div 2 ^ bit) % 2 = 1

\* Mutant: the bits of a byte are taken from the other end.
SelectedPcrsMirrored(select) ==
  UNION {{(n - 1) * 8 + (7 - bit) : bit \in {b \in 0 .. 7 : BitSet(select[n], b)}} :
           n \in DOMAIN select}

SelectedPcrs(select) ==
  UNION {{(n - 1) * 8 + bit : bit \in {b \in 0 .. 7 : BitSet(select[n], b)}} :
           n \in DOMAIN select}

\* tpm2_pytss_selection_reader: bank by bank, each with its PCR indices
ReadSelection(selections) ==
  [n \in DOMAIN selections |-> <<selections[n].hash, SelectedPcrs(selections[n].select)>>]
=============================================================================
