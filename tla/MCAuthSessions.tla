--------------------------- MODULE MCAuthSessions ---------------------------
(* Instances of AuthSessions for TLC. *)
EXTENDS AuthSessions, TLC

\* Accounts, session ids and requests are interchangeable.
Symmetry == Permutations(Users) \cup Permutations(Sids) \cup Permutations(Requests)
=============================================================================
