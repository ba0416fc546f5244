----------------------------- MODULE MCReferral -----------------------------
(***************************************************************************)
(* Instances of Referral for TLC.                                          *)
(***************************************************************************)
EXTENDS Referral, TLC

Symmetry == Permutations(Accounts)
=============================================================================
