---------------------------- MODULE MCEnrollment ----------------------------
(* Two administrators. *)
EXTENDS Enrollment, TLC
AdminSymmetry == Permutations(Admins)
=============================================================================
