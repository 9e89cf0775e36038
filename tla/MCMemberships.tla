---------------------------- MODULE MCMemberships ----------------------------
(***************************************************************************)
(* An instance of Memberships; clients are interchangeable.                *)
(***************************************************************************)
EXTENDS Memberships, TLC

ClientSymmetry == Permutations(Clients)
=============================================================================
