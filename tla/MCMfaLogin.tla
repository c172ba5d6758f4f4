----------------------------- MODULE MCMfaLogin -----------------------------
(* Instances of MfaLogin for TLC. *)
EXTENDS MfaLogin, TLC

\* Everything that is only a name is interchangeable.
Symmetry == Permutations(Sids) \cup Permutations(Challenges)
              \cup Permutations(Codes)
=============================================================================
