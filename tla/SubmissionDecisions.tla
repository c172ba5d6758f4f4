------------------------ MODULE SubmissionDecisions ------------------------
(***************************************************************************)
(* What the review of public form submissions promises: a submission is    *)
(* decided once and for good, and it is approved exactly when a student is *)
(* admitted from it, in the same step.                                     *)
(***************************************************************************)
CONSTANTS Subs, Keys

VARIABLES
    decision,   \* per submission
    admitted    \* per key of a student the submission it comes from

vars == <<decision, admitted>>

Init ==
    /\ decision = [s \in Subs |-> "none"]
    /\ admitted = [k \in Keys |-> "nobody"]

Submit(s) ==
    /\ decision[s] = "none"
    /\ decision' = [decision EXCEPT ![s] = "pending"]
    /\ UNCHANGED admitted

Approve(s, k) ==
    /\ decision[s] = "pending" /\ admitted[k] = "nobody"
    /\ decision' = [decision EXCEPT ![s] = "approved"]
    /\ admitted' = [admitted EXCEPT ![k] = s]

Reject(s) ==
    /\ decision[s] = "pending"
    /\ decision' = [decision EXCEPT ![s] = "rejected"]
    /\ UNCHANGED admitted

\* A student who comes another way.
AdmitElsewhere(k) ==
    /\ admitted[k] = "nobody"
    /\ admitted' = [admitted EXCEPT ![k] = "elsewhere"]
    /\ UNCHANGED decision

Next ==
    \/ \E s \in Subs : Submit(s) \/ Reject(s) \/ (\E k \in Keys : Approve(s, k))
    \/ \E k \in Keys : AdmitElsewhere(k)

Spec == Init /\ [][Next]_vars
=============================================================================
