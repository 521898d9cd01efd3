------------------------ MODULE MCNamespaceOwnership ------------------------
(* Instances of NamespaceOwnership for TLC.                                *)
EXTENDS NamespaceOwnership, TLC

CONSTANTS l1, l2, k1, k2, c1, c2

\* Two control clusters use the same lease name: only the UID differs.
SameName == l1 :> "a" @@ l2 :> "a"
TwoControls == l1 :> k1 @@ l2 :> k2
=============================================================================
