-------------------------- MODULE MCPasswordReset --------------------------
(* Instances of PasswordReset for TLC. *)
EXTENDS PasswordReset, TLC

ResetSymmetry == Permutations(Requests) \cup Permutations(Workers)
                   \cup Permutations(Visitors)

=============================================================================
