---------------------------- MODULE MCInventory ----------------------------
(***************************************************************************)
(* Instances of InventoryApplication for TLC: the callers' inputs.         *)
(***************************************************************************)
EXTENDS InventoryRefinement, TLC

CONSTANTS c1, c2, t1, t2, k1, k2, k3, badId, widget, broken, rec1, rec2,
          broker, holder, stranger, scope, otherScope

\* widget is in stock; broken has a negative quantity, which the result schema
\* refuses
MCCatalog == broken :> -1

\* A credential the broker signed for the holder, live at instants 0 and 1
Good(c) ==
  [scope |-> {scope}, credential_id |-> c, issuer |-> broker, signer |-> broker,
   subject |-> holder, not_before |-> 0, not_after |-> 1]

\* The request of a holder who uses token t for this call
Asks(cred, t, key, sku, rec) ==
  [sku |-> sku, record_id |-> rec, credential |-> cred,
   holder_proof |->
     [challenge |-> t,
      signature |-> [credential_id |-> cred.credential_id, key |-> key,
                     sku |-> sku, record_id |-> rec, challenge |-> t]]]

OneChallenge == {[credential_id |-> c1, sku |-> widget, record_id |-> rec1]}

\* Two fresh proofs of one credential
RacingRequests == {Asks(Good(c1), t, holder, widget, rec1) : t \in Tokens}

\* Two credentials, a call that fails in the handler, and a challenge asked for
\* another call than the proof's
MixedChallenges ==
  {[credential_id |-> c1, sku |-> widget, record_id |-> rec1],
   [credential_id |-> c2, sku |-> broken, record_id |-> rec2]}

MixedRequests ==
  {Asks(Good(c1), t1, holder, widget, rec1),
   Asks(Good(c2), t2, holder, broken, rec2),
   Asks(Good(c1), t2, holder, widget, rec1)}

\* One defect each: everything redeem checks about the material presented
DefectiveRequests ==
  LET g == Good(c1)
      a == Asks(g, t1, holder, widget, rec1)
  IN {a,
      [a EXCEPT !.credential = None],
      [a EXCEPT !.credential.credential_id = badId],
      [a EXCEPT !.credential.not_after = None],
      [a EXCEPT !.credential.not_after = 2],
      [a EXCEPT !.credential.signer = stranger],
      [a EXCEPT !.credential.issuer = stranger, !.credential.signer = stranger],
      [a EXCEPT !.credential.scope = {scope, otherScope}],
      [a EXCEPT !.holder_proof = None],
      [a EXCEPT !.holder_proof.challenge = t2],
      Asks(g, t1, stranger, widget, rec1),
      Asks(g, t1, holder, broken, rec1),
      Asks(g, t1, holder, widget, rec2),
      [a EXCEPT !.sku = broken],
      Asks(Good(c2), t1, holder, widget, rec1)}

CallSymmetry == Permutations(Calls)
CallTokenSymmetry == {p @@ q : p \in Permutations(Calls), q \in Permutations(Tokens)}
=============================================================================
