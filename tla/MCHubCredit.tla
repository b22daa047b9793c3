----------------------------- MODULE MCHubCredit -----------------------------
(***************************************************************************)
(* A small instance of HubCredit: every mate has a user of its own.        *)
(***************************************************************************)
EXTENDS HubCredit, TLC

Alone == [m \in Mates |-> m]

Sym == Permutations(Mates)
=============================================================================
