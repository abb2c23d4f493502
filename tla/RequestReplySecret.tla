-------------------------- MODULE RequestReplySecret --------------------------
(***************************************************************************)
(* reconcileAesSecret (pkg/reconciler/requestreply/requestreply.go): one   *)
(* secret with the AES keys of all RequestReply resources, read through a  *)
(* lister whose object the reconciler writes to, and updated as a whole.   *)
(* A key is named after its resource; the test whether a key belongs to a  *)
(* resource is a prefix test on names.                                     *)
(***************************************************************************)
EXTENDS Integers

CONSTANTS
  Resources,
  NamePrefixes,     \* <<a, b>>: the name of a is a proper prefix of the name of b
  Faults,       \* what may go wrong: writes that fail, deletion of the secret
  MaxKeyFaults     \* bound on faults

VARIABLES
  keys,      \* the resources with a key in the API server's secret, or Deleted
  keysObserved,    \* the secret as the informer last delivered it, or Deleted
  keysCached,      \* the lister's object, which is observed until it is written to
  reconciled,  \* the resources whose last reconcileAesSecret succeeded
  labelled,    \* the secret has the label the lister's informer selects by
  faults       \* faults so far

keysVars == <<keys, keysObserved, keysCached, reconciled, labelled, faults>>

\* No secret, or none the lister knows.
Deleted == {"deleted"}

Fault(kind) == kind \in Faults /\ faults < MaxKeyFaults /\ faults' = faults + 1

\* The installed secret is empty and labelled.
KeysInit ==
  /\ keys = {}
  /\ keysObserved = {}
  /\ keysCached = {}
  /\ reconciled = {}
  /\ labelled = TRUE
  /\ faults = 0

-----------------------------------------------------------------------------

\* Mutant: any key will do.
keyIsForAnyone(k, rr) == TRUE

keyIsForRequestReply(k, rr) == k = rr \/ <<rr, k>> \in NamePrefixes

\* A key of the resource is there.
FoundKey(rr) ==
  /\ reconciled' = reconciled \union {rr}
  /\ UNCHANGED <<keys, keysObserved, keysCached, labelled, faults>>

\* Mutant: a copy of the lister's object is sent, and no conflict is noticed.
AddKeyForced(rr) ==
  /\ keys' = keysCached \union {rr}
  /\ reconciled' = reconciled \union {rr}
  /\ UNCHANGED <<keysObserved, keysCached, labelled, faults>>

\* The key is put into the lister's object and the secret updated with it,
\* unless that fails, because the object is outdated for one: the secret has
\* changed, or is one that was created since.
AddKey(rr) ==
  /\ keysCached' = keysCached \union {rr}
  /\ \/ /\ keys = keysObserved /\ labelled
        /\ keys' = keysCached'
        /\ reconciled' = reconciled \union {rr}
        /\ UNCHANGED faults
     \/ /\ keys # keysObserved \/ ~ labelled
        /\ reconciled' = reconciled \ {rr}
        /\ UNCHANGED <<keys, faults>>
     \/ /\ Fault("write")
        /\ reconciled' = reconciled \ {rr}
        /\ UNCHANGED keys
  /\ UNCHANGED <<keysObserved, labelled>>

\* There is no secret: it is created, which fails if there is one after all.
\* The new secret has no labels; its key is found in what was sent.
KeysCreateSecret(rr) ==
  /\ \/ /\ keys = Deleted
        /\ keys' = {rr}
        /\ labelled' = FALSE
        /\ reconciled' = reconciled \union {rr}
        /\ UNCHANGED faults
     \/ /\ keys # Deleted
        /\ reconciled' = reconciled \ {rr}
        /\ UNCHANGED <<keys, labelled, faults>>
     \/ /\ Fault("write")
        /\ reconciled' = reconciled \ {rr}
        /\ UNCHANGED <<keys, labelled>>
  /\ UNCHANGED <<keysObserved, keysCached>>

reconcileAesSecret(rr) ==
  \/ keysCached = Deleted /\ KeysCreateSecret(rr)
  \/ /\ keysCached # Deleted
     /\ \E k \in keysCached : keyIsForRequestReply(k, rr)
     /\ FoundKey(rr)
  \/ /\ keysCached # Deleted
     /\ \A k \in keysCached : ~ keyIsForRequestReply(k, rr)
     /\ AddKey(rr)

\* The informer delivers the secret and replaces the lister's object.
KeysObserve ==
  LET selected == IF labelled THEN keys ELSE Deleted
  IN /\ keysObserved # selected
     /\ keysObserved' = selected
     /\ keysCached' = selected
     /\ UNCHANGED <<keys, reconciled, labelled, faults>>

DeleteSecret ==
  /\ Fault("delete") /\ keys # Deleted
  /\ keys' = Deleted
  /\ UNCHANGED <<keysObserved, keysCached, reconciled, labelled>>

KeysNext == KeysObserve \/ DeleteSecret \/ \E rr \in Resources : reconcileAesSecret(rr)

KeysSpec == KeysInit /\ [][KeysNext]_keysVars

\* The informer catches up and reconcilers are run again.
KeysProgress == KeysObserve \/ \E rr \in Resources : reconcileAesSecret(rr)

KeysFairSpec == KeysSpec /\ WF_keysVars(KeysProgress)

-----------------------------------------------------------------------------

\* A step keeps the keys that others have.
KeepsKeys == Deleted \notin {keys, keys'} => keys \subseteq keys'

\* No write of reconcileAesSecret loses a key, while there is a secret.
KeysAreKept == [][KeepsKeys]_keysVars

\* All have a key, except a resource whose name is a prefix of another's,
\* which may take the other's key for its own, and unless a write failed or
\* somebody deleted the secret.
HaveKeys ==
  faults = 0 =>
    \A rr \in Resources : (\A k \in Resources : <<rr, k>> \notin NamePrefixes) => rr \in keys

===============================================================================
