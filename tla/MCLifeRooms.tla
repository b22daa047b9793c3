---------------------------- MODULE MCLifeRooms ----------------------------
(***************************************************************************)
(* Two small instances of LifeRooms, checked in one run; `part` says which *)
(* of them a behaviour belongs to.  "rooms": a 3 x 3 grid whose floor has  *)
(* six cells, spawn in its middle, furniture that collides with the spawn  *)
(* cell, with other furniture and (legacy) with the edge of the floor, one  *)
(* window; no time and no failing writes.  "visits": two cells without     *)
(* furniture, with time, failing writes and a third agent, Host, whose     *)
(* room is the only one that the others visit: one visitor's row can push  *)
(* out the other's.  Nobody moves within a room there.                     *)
(***************************************************************************)
EXTENDS LifeRooms, TLC

CONSTANTS Host, VisitTime, VisitFaults  \* VisitTime: MaxTime, VisitFaults: MaxFaults of "visits"

VARIABLE part

MCSpawn == <<1, 1>>

Bed == [window |-> FALSE, cells |-> {<<0, 0>>, <<1, 0>>}, wall |-> {}]
Desk == [window |-> FALSE, cells |-> {<<1, 0>>, <<1, 1>>}, wall |-> {}]
\* Legal before protocol v4 only: <<2, 1>> is beyond the floor.
Sofa == [window |-> FALSE, cells |-> {<<2, 0>>, <<2, 1>>}, wall |-> {}]
\* Its floor coordinates are those of the bed, but a window takes up no floor.
Window == [window |-> TRUE, cells |-> {<<0, 0>>}, wall |-> {<<"north", 0>>}]

AllPieces == {Bed, Desk, Sofa, Window}
OldDesigns == {{}, {Desk}, {Sofa, Window}}

Guests == Agents \cup {Host}

Visited ==
  INSTANCE LifeRooms WITH
    Agents <- Guests, GridW <- 2, GridH <- 1, FloorDepth <- 2, Spawn <- <<0, 0>>,
    Pieces <- {}, LegacyDesigns <- {{}}, MaxTime <- VisitTime, MaxFaults <- VisitFaults

\* Everyone is in their own room.
AtHome == /\ disk.at = [a \in Guests |-> a]
          /\ disk.reg = Guests
          /\ disk.cell = [a \in Guests |-> <<0, 0>>]

MCInit == \/ part = "rooms" /\ Init
          \/ part = "visits" /\ Visited!Init /\ AtHome

MCNext ==
  \/ part = "rooms" /\ Next /\ UNCHANGED part
  \/ /\ part = "visits" /\ Visited!Next /\ UNCHANGED <<request, part>>
     /\ \A g \in Guests : at'[g] \in {g, Host}

MCSpec == MCInit /\ [][MCNext]_<<vars, part>>

Sym == Permutations(Agents)
=============================================================================
