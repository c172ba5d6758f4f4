-------------------------- MODULE MCStudentRecords --------------------------
\* Instances of StudentRecords for TLC.
EXTENDS StudentRecords, TLC

Symmetry == Permutations(Admins) \cup Permutations(Names) \cup Permutations(Rolls)
            \cup Permutations(Requests)
=============================================================================
