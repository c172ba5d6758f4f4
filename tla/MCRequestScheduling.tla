------------------------ MODULE MCRequestScheduling ------------------------
\* Instances of RequestScheduling for TLC.
EXTENDS RequestScheduling
=============================================================================
