-------------------------- MODULE VersionedDesign --------------------------
(***************************************************************************)
(* What the store of card templates promises of each school's design: the  *)
(* two sides change together, one school at a time, and with every change  *)
(* the version token grows, so that a token names one design for good.     *)
(***************************************************************************)
EXTENDS Naturals

CONSTANTS Schools, Cards, NoCard

VARIABLES card, token

vars == <<card, token>>

Init ==
    /\ card = [s \in Schools |-> NoCard]
    /\ token = [s \in Schools |-> 0]

Publish(s) ==
    /\ card'[s] \in Cards
    /\ token'[s] > token[s]
    /\ card' = [card EXCEPT ![s] = card'[s]]
    /\ token' = [token EXCEPT ![s] = token'[s]]

Next == \E s \in Schools : Publish(s)

Spec == Init /\ [][Next]_vars
=============================================================================
