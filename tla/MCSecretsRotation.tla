--------------------------- MODULE MCSecretsRotation ---------------------------
(***************************************************************************)
(* TLC instance of SecretsRotation.  Items, keys and values are            *)
(* interchangeable; processes differ by their roles.                       *)
(***************************************************************************)
EXTENDS SecretsRotation, TLC

Symmetry == Permutations(Items) \cup Permutations(Keys) \cup Permutations(Vals)
=============================================================================
