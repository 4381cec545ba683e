------------------------------ MODULE MCSettings ------------------------------
(* Small projects for TLC. *)
EXTENDS SettingsProperties, TLC

ContentSymmetry == Permutations(Contents \ {Default})

=============================================================================
