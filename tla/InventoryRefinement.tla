------------------------ MODULE InventoryRefinement ------------------------
(***************************************************************************)
(* inventoryd implements CapabilityStore: its tables and its invocations,  *)
(* seen without rows, times and calls.                                     *)
(***************************************************************************)
EXTENDS InventoryInvariant, FiniteSets

issuedBar ==
  [t \in Tokens |-> IF resource_challenges[t] = None THEN None
                    ELSE resource_challenges[t].credential_id]

\* The consumed tokens: rows whose consumed_at is set
consumedBar ==
  {t \in Tokens : resource_challenges[t] # None /\ resource_challenges[t].consumed_at # None}

redeemedBar ==
  [c \in CredentialIds |-> IF credential_redemptions[c] = None THEN None
                           ELSE credential_redemptions[c].token]

\* How many calls that present a credential have reached the handler
invokedBar ==
  [c \in CredentialIds |-> Cardinality({k \in Calls : Invoked(k) /\ Cid(k) = c})]

Store == INSTANCE CapabilityStore
           WITH issued <- issuedBar, consumed <- consumedBar,
                redeemed <- redeemedBar, invoked <- invokedBar

\* Refinement: every behaviour of the threads, transactions and restarts of
\* inventoryd is, on the tables and the handler, a behaviour of the store a
\* caller relies on.
ImplementsStore == Store!Spec
=============================================================================
