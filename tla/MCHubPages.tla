----------------------------- MODULE MCHubPages -----------------------------
(***************************************************************************)
(* A small instance of HubPages: three pages that can form chains and      *)
(* cycles in one space, and one page of another space.                     *)
(***************************************************************************)
EXTENDS HubPages, TLC

CONSTANTS Home, Away, Stranger

OneAway == [p \in Pages |-> IF p = Stranger THEN Away ELSE Home]

Sym == Permutations(Clients) \cup Permutations(Pages \ {Stranger})
=============================================================================
