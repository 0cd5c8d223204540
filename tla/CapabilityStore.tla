--------------------------- MODULE CapabilityStore ---------------------------
(***************************************************************************)
(* What inventoryd and its SQLite store promise to whoever uses them, with *)
(* no threads, clock, transactions, receipts or restarts: a challenge is   *)
(* issued for one credential and consumed at most once, the first          *)
(* consumption redeems the credential, and a redeemed credential reaches   *)
(* the handler at most once.  InventoryApplication implements this         *)
(* specification (InventoryRefinement); the lab is built on it             *)
(* (LabController).                                                        *)
(***************************************************************************)

EXTENDS Naturals

CONSTANTS Tokens, CredentialIds, None

VARIABLES
  issued,     \* Tokens -> the credential a challenge was issued for
  consumed,   \* the tokens consumed
  redeemed,   \* CredentialIds -> the token whose spend redeemed it
  invoked     \* CredentialIds -> how often it reached the handler

vars == <<issued, consumed, redeemed, invoked>>

Init ==
  /\ issued = [t \in Tokens |-> None]
  /\ consumed = {}
  /\ redeemed = [c \in CredentialIds |-> None]
  /\ invoked = [c \in CredentialIds |-> 0]

Issue(t, c) ==
  /\ issued[t] = None
  /\ issued' = [issued EXCEPT ![t] = c]
  /\ UNCHANGED <<consumed, redeemed, invoked>>

\* A spend consumes its token; only the first one redeems the credential.
Spend(t) ==
  /\ issued[t] \in CredentialIds
  /\ t \notin consumed
  /\ consumed' = consumed \cup {t}
  /\ redeemed' = IF redeemed[issued[t]] = None
                 THEN [redeemed EXCEPT ![issued[t]] = t] ELSE redeemed
  /\ UNCHANGED <<issued, invoked>>

Invoke(c) ==
  /\ redeemed[c] # None
  /\ invoked[c] = 0
  /\ invoked' = [invoked EXCEPT ![c] = 1]
  /\ UNCHANGED <<issued, consumed, redeemed>>

Next ==
  \/ \E t \in Tokens : Spend(t) \/ \E c \in CredentialIds : Issue(t, c)
  \/ \E c \in CredentialIds : Invoke(c)

Spec == Init /\ [][Next]_vars
=============================================================================
