-------------------------- MODULE MCAssetRegistry ---------------------------
(* Requests, fields and the assets of the one site are interchangeable. *)
EXTENDS AssetRegistry, TLC

RegistrySymmetry ==
    Permutations(Request) \cup Permutations(Field) \cup Permutations(Key)

=============================================================================
