------------------------- MODULE MCAccountDeletion -------------------------
(* Instances of AccountDeletion for TLC. *)
EXTENDS AccountDeletion, TLC

TabSymmetry == Permutations(Tabs)

=============================================================================
