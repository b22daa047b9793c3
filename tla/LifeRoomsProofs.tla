--------------------------- MODULE LifeRoomsProofs ---------------------------
(***************************************************************************)
(* Theorems about LifeRooms for every grid, every set of agents, every set *)
(* of furniture and any number of restarts and failed store calls.         *)
(***************************************************************************)
EXTENDS LifeRooms, FiniteSetTheorems, TLAPS

-----------------------------------------------------------------------------
(* The operators the handlers are built from.                              *)

\* A cell the server hands out is floor, free of furniture and of others.
LEMMA FreeCellIsFree ==
  ASSUME NEW r, NEW a, NEW c \in FreeCells(r, a)
  PROVE  /\ c \in Floor \ Furniture(r)
         /\ \A b \in OthersAt(r, a) : cell[b] # c
  BY DEF FreeCells

\* Floor cells are grid cells.
LEMMA FloorInGrid == Floor \subseteq Cell
  BY DEF Floor

\* Writing an agent's row keeps the database well typed.
LEMMA WithAgentType ==
  ASSUME NEW d \in DiskType, NEW a \in Agents, NEW r \in Agents, NEW c \in Cell
  PROVE  WithAgent(d, a, r, c) \in DiskType
  BY DEF WithAgent, DiskType

\* The row an arrival writes is a visit row.
LEMMA VisitAtType ==
  ASSUME NEW rows \in SUBSET VisitRow, NEW r \in Agents, NEW v \in Agents,
         NEW t \in Time
  PROVE  VisitAt(rows, r, v, t) \in VisitRow
  <1> DEFINE open == OpenSession(rows, r, v, t)
  <1>1. CASE open = {}
    BY <1>1 DEF VisitAt, VisitRow
  <1>2. CASE open # {}
    <2>1. PICK x \in open : x = (CHOOSE y \in open : TRUE)
      BY <1>2
    <2>2. x \in VisitRow
      BY <2>1 DEF OpenSession, RowsOf
    <2>3. VisitAt(rows, r, v, t) = [x EXCEPT !.last = t]
      BY <1>2, <2>1 DEF VisitAt
    <2> QED
      BY <2>2, <2>3 DEF VisitRow
  <1> QED
    BY <1>1, <1>2

\* Upserting a row into a set of visit rows gives a set of visit rows.
LEMMA UpsertType ==
  ASSUME NEW rows \in SUBSET VisitRow, NEW x \in VisitRow
  PROVE  Upsert(rows, x) \in SUBSET VisitRow
  BY DEF Upsert

-----------------------------------------------------------------------------
(* Type correctness.                                                       *)

LEMMA InitType == Init => TypeOK
  <1> SUFFICES ASSUME Init PROVE TypeOK
    OBVIOUS
  <1>1. Spawn \in Cell
    BY RoomAssumption, FloorInGrid
  <1>2. EmptyDisk \in DiskType
    BY <1>1 DEF EmptyDisk, DiskType
  <1>3. LegacyDisk \subseteq DiskType
    BY RoomAssumption DEF LegacyDisk, DiskType
  <1>4. disk \in DiskType
    BY <1>2, <1>3 DEF Init
  <1>5. 0 \in Time /\ 0 \in 0 .. MaxFaults
    BY VisitAssumption, RoomAssumption DEF Time
  <1>6. /\ at \in [Agents -> Agents] /\ cell \in [Agents -> Cell]
        /\ design \in [Agents -> SUBSET Pieces]
    BY <1>1 DEF Init, EmptyDisk
  <1>7. minted \in SUBSET Agents
    BY <1>4 DEF Init, DiskType
  <1> QED
    BY <1>4, <1>5, <1>6, <1>7 DEF Init, TypeOK

\* Recording a visit keeps the visits, the database, the fault count and the
\* strays typed.
LEMMA RecordVisitType ==
  ASSUME TypeOK, NEW a \in Agents, NEW r \in Agents, NEW seated \in DiskType,
         RecordVisit(a, r, seated)
  PROVE  /\ visits' \in SUBSET VisitRow
         /\ disk' \in DiskType
         /\ faults' \in 0 .. MaxFaults
         /\ strays' \in SUBSET (Agents \X Agents \X Time)
  <1> DEFINE row == VisitAt(visits, r, a, now)
             rows == Upsert(visits, row)
             stored == [seated EXCEPT !.visits = Upsert(@, row)]
             excess == Excess(visits, rows, r)
  <1>1. row \in VisitRow
    BY VisitAtType DEF TypeOK
  <1>2. rows \in SUBSET VisitRow
    BY <1>1, UpsertType DEF TypeOK
  <1>3. /\ Upsert(seated.visits, row) \in SUBSET VisitRow
        /\ stored \in DiskType
    <2>1. seated.visits \in SUBSET VisitRow
      BY DEF DiskType
    <2>2. Upsert(seated.visits, row) \in SUBSET VisitRow
      BY <2>1, <1>1, UpsertType
    <2> QED
      BY <2>2 DEF DiskType
  <1>4. \A G : [stored EXCEPT !.visits = Without(@, G)] \in DiskType
    BY <1>3 DEF DiskType, Without
  <1>5. StoreFails => faults' \in 0 .. MaxFaults
    BY RoomAssumption DEF StoreFails, TypeOK
  <1>6. \A n, D : D \in Oldest(rows, r, n) => D \subseteq VisitRow
    BY <1>2 DEF Oldest, RowsOf
  <1> HIDE DEF row, rows, stored, excess
  <1>7. \/ \E D : /\ visits' = rows \ D
                  /\ disk' = [stored EXCEPT !.visits = Without(@, D)]
                  /\ faults' = faults /\ strays' = strays
        \/ StoreFails /\ visits' = rows /\ disk' \in {seated, stored} /\ strays' = strays
        \/ StoreFails /\ \E n, G : \E D \in Oldest(rows, r, n) :
             /\ visits' = rows \ D
             /\ disk' = [stored EXCEPT !.visits = Without(@, G)]
             /\ strays' = strays \cup Ids(D \ G)
    BY DEF RecordVisit, row, rows, stored, excess
  <1>8. strays' \in SUBSET (Agents \X Agents \X Time)
    BY <1>6, <1>7 DEF TypeOK, Ids, VisitId, VisitRow
  <1> QED
    BY <1>2, <1>3, <1>4, <1>5, <1>7, <1>8 DEF TypeOK

\* A store write of a well-typed database keeps the database and faults typed.
LEMMA WrittenType ==
  ASSUME TypeOK, NEW d \in DiskType, NEW partial \in SUBSET DiskType, Written(d, partial)
  PROVE  disk' \in DiskType /\ faults' \in 0 .. MaxFaults
  BY RoomAssumption DEF Written, StoreFails, TypeOK

LEMMA StartupType == TypeOK /\ Startup => TypeOK'
  <1> SUFFICES ASSUME TypeOK, Startup PROVE TypeOK'
    OBVIOUS
  <1>1. CASE Restart
    BY <1>1 DEF Restart, TypeOK, DiskType
  <1>2. CASE BeginRelocation
    BY <1>2 DEF BeginRelocation, TypeOK, memory
  <1>3. CASE BeginServing
    BY <1>3 DEF BeginServing, TypeOK, memory
  <1>4. ASSUME NEW r \in Agents, MigrateDesign(r) PROVE TypeOK'
    <2>1. KeptPieces(design[r]) \in SUBSET Pieces
      BY DEF KeptPieces, TypeOK
    <2>2. disk' \in DiskType
      BY <1>4, <2>1 DEF MigrateDesign, TypeOK, DiskType
    <2> QED
      BY <1>4, <2>1, <2>2 DEF MigrateDesign, TypeOK
  <1>5. ASSUME NEW a \in Agents, KeepAgent(a) PROVE TypeOK'
    BY <1>5 DEF KeepAgent, TypeOK, memory
  <1>6. ASSUME NEW a \in Agents, RelocateAgent(a) PROVE TypeOK'
    <2>1. PICK c \in FreeCells(at[a], a) :
            /\ cell' = [cell EXCEPT ![a] = c]
            /\ disk' = WithAgent(disk, a, at[a], c)
      BY <1>6 DEF RelocateAgent
    <2>2. c \in Cell
      BY FreeCellIsFree, FloorInGrid
    <2>3. disk' \in DiskType
      BY <2>1, <2>2, WithAgentType DEF TypeOK
    <2> QED
      BY <1>6, <2>1, <2>2, <2>3 DEF RelocateAgent, TypeOK
  <1> QED
    BY <1>1, <1>2, <1>3, <1>4, <1>5, <1>6 DEF Startup

LEMMA EnterType ==
  ASSUME TypeOK, NEW a \in Agents, NEW r \in Agents,
         NEW wanted \in Floor \cup {Nobody}, Enter(a, r, wanted)
  PROVE  TypeOK'
  <1>1. PICK c \in (IF wanted = Nobody THEN FreeCells(r, a) ELSE {wanted} \cap Floor) :
          /\ at' = [at EXCEPT ![a] = r]
          /\ cell' = [cell EXCEPT ![a] = c]
          /\ \/ /\ StoreFails /\ disk' \in {disk, WithAgent(disk, a, r, c)}
                /\ UNCHANGED <<visits, strays>>
             \/ r = a /\ disk' = WithAgent(disk, a, r, c) /\ UNCHANGED <<visits, faults, strays>>
             \/ r # a /\ RecordVisit(a, r, WithAgent(disk, a, r, c))
    BY DEF Enter
  <1>2. c \in Cell
    BY FreeCellIsFree, FloorInGrid
  <1>3. WithAgent(disk, a, r, c) \in DiskType
    BY <1>2, WithAgentType DEF TypeOK
  <1>4. /\ visits' \in SUBSET VisitRow
        /\ disk' \in DiskType
        /\ faults' \in 0 .. MaxFaults
        /\ strays' \in SUBSET (Agents \X Agents \X Time)
    <2>1. CASE /\ StoreFails /\ disk' \in {disk, WithAgent(disk, a, r, c)}
               /\ UNCHANGED <<visits, strays>>
      BY <2>1, <1>3, RoomAssumption DEF StoreFails, TypeOK
    <2>2. CASE disk' = WithAgent(disk, a, r, c) /\ UNCHANGED <<visits, faults, strays>>
      BY <2>2, <1>3 DEF TypeOK
    <2>3. CASE RecordVisit(a, r, WithAgent(disk, a, r, c))
      BY <2>3, <1>3, RecordVisitType
    <2> QED
      BY <1>1, <2>1, <2>2, <2>3
  <1> QED
    BY <1>1, <1>2, <1>4 DEF Enter, TypeOK

LEMMA HandlerType ==
  ASSUME TypeOK, NEW a \in Agents, Handler(a)
  PROVE  TypeOK'
  <1>1. CASE Register(a)
    <2>1. PICK c \in FreeCells(a, a) :
            /\ cell' = [cell EXCEPT ![a] = c]
            /\ Written([WithAgent(disk, a, a, c) EXCEPT !.rooms = @ \cup {a}],
                       {[disk EXCEPT !.rooms = @ \cup {a}]})
      BY <1>1 DEF Register
    <2>2. c \in Cell
      BY FreeCellIsFree, FloorInGrid
    <2>3. WithAgent(disk, a, a, c) \in DiskType
      BY <2>2, WithAgentType DEF TypeOK
    <2>4. /\ [WithAgent(disk, a, a, c) EXCEPT !.rooms = @ \cup {a}] \in DiskType
          /\ [disk EXCEPT !.rooms = @ \cup {a}] \in DiskType
      BY <2>3 DEF DiskType, TypeOK
    <2>5. disk' \in DiskType /\ faults' \in 0 .. MaxFaults
      BY <2>1, <2>4, WrittenType
    <2> QED
      BY <1>1, <2>1, <2>2, <2>5 DEF Register, TypeOK
  <1>2. CASE SaveAgentRow(a)
    <2>1. disk' \in DiskType
      BY <1>2, WithAgentType DEF SaveAgentRow, TypeOK
    <2> QED
      BY <1>2, <2>1 DEF SaveAgentRow, TypeOK, memory
  <1>3. ASSUME NEW r \in Agents, NEW wanted \in Floor \cup {Nobody}, Enter(a, r, wanted)
        PROVE  TypeOK'
    BY <1>3, EnterType
  <1>4. ASSUME NEW r \in Agents, NEW c \in Floor, LifeMoveCheck(a, r, c)
        PROVE  TypeOK'
    BY <1>4, FloorInGrid DEF LifeMoveCheck, TypeOK, memory
  <1>5. CASE Move(a)
    <2>1. request[a].cell \in Cell
      BY <1>5, FloorInGrid DEF Move, TypeOK
    <2>2. WithAgent(disk, a, at[a], request[a].cell) \in DiskType
      BY <2>1, WithAgentType DEF TypeOK
    <2>3. disk' \in DiskType /\ faults' \in 0 .. MaxFaults
      BY <1>5, <2>2, WrittenType DEF Move
    <2> QED
      BY <1>5, <2>1, <2>3 DEF Move, TypeOK
  <1>6. CASE MoveRejected(a)
    BY <1>6 DEF MoveRejected, TypeOK, memory
  <1>7. ASSUME NEW r \in Agents, NEW D \in SUBSET Pieces, SetDesign(a, r, D)
        PROVE  TypeOK'
    <2>1. \A E \in SUBSET D : [disk EXCEPT !.design = [@ EXCEPT ![r] = E]] \in DiskType
      BY DEF TypeOK, DiskType
    <2>2. disk' \in DiskType /\ faults' \in 0 .. MaxFaults
      BY <1>7, <2>1, WrittenType DEF SetDesign
    <2> QED
      BY <1>7, <2>2 DEF SetDesign, TypeOK
  <1> QED
    BY <1>1, <1>2, <1>3, <1>4, <1>5, <1>6, <1>7 DEF Handler

LEMMA NextType == TypeOK /\ [Next]_vars => TypeOK'
  <1> SUFFICES ASSUME TypeOK, [Next]_vars PROVE TypeOK'
    OBVIOUS
  <1>1. CASE Startup
    BY <1>1, StartupType
  <1>2. CASE \E a \in Agents : Handler(a)
    BY <1>2, HandlerType
  <1>3. CASE Tick
    BY <1>3, VisitAssumption DEF Tick, TypeOK, memory, Time
  <1>4. CASE UNCHANGED vars
    BY <1>4 DEF vars, memory, TypeOK
  <1> QED
    BY <1>1, <1>2, <1>3, <1>4 DEF Next

\* The server's memory, database and requests always have their types.
THEOREM TypeCorrect == Spec => []TypeOK
  BY InitType, NextType, PTL DEF Spec

-----------------------------------------------------------------------------
(* No two agents share a cell.                                             *)

\* Ids are fresh: nothing in memory or on disk is about an id not handed out,
\* so a new room is empty; start-up visits, and requests come from, registered
\* agents.
FreshIds ==
  /\ rooms \cup reg \cup disk.rooms \cup disk.reg \subseteq minted
  /\ \A b \in reg : at[b] \in minted
  /\ \A b \in disk.reg : disk.at[b] \in minted
  /\ phase = "relocating" => todo \subseteq reg
  /\ \A a \in Agents : request[a] # Nobody => a \in reg

\* NoOverlap, and what start-up has achieved so far on the way to it.
Places ==
  /\ phase = "relocating" => Placed(reg \ todo)
  /\ phase = "up" => Placed(reg)

LEMMA FreshIdsInit == Init => FreshIds
  <1> SUFFICES ASSUME Init PROVE FreshIds
    OBVIOUS
  <1>1. CASE disk = EmptyDisk
    BY <1>1 DEF Init, FreshIds, EmptyDisk
  <1>2. CASE disk \in LegacyDisk
    BY <1>2 DEF Init, FreshIds, LegacyDisk
  <1> QED
    BY <1>1, <1>2 DEF Init

\* Writing the row of a known agent keeps the ids of the database fresh.
LEMMA WithAgentFresh ==
  ASSUME TypeOK, FreshIds, NEW a \in minted, NEW r \in minted, NEW c
  PROVE  LET d == WithAgent(disk, a, r, c)
         IN  /\ d.rooms = disk.rooms
             /\ d.reg \subseteq minted
             /\ \A b \in d.reg : d.at[b] \in minted
  BY DEF WithAgent, TypeOK, DiskType, FreshIds

LEMMA EnterFresh ==
  ASSUME TypeOK, FreshIds, NEW a \in Agents, NEW r \in Agents,
         NEW wanted, Enter(a, r, wanted)
  PROVE  FreshIds'
  <1>1. PICK c :
          /\ at' = [at EXCEPT ![a] = r]
          /\ \/ /\ StoreFails /\ disk' \in {disk, WithAgent(disk, a, r, c)}
                /\ UNCHANGED <<visits, strays>>
             \/ r = a /\ disk' = WithAgent(disk, a, r, c) /\ UNCHANGED <<visits, faults, strays>>
             \/ r # a /\ RecordVisit(a, r, WithAgent(disk, a, r, c))
    BY DEF Enter
  <1> DEFINE seated == WithAgent(disk, a, r, c)
  <1>2. /\ a \in minted /\ r \in minted
        /\ UNCHANGED <<phase, todo, rooms, reg, minted, request>>
    BY DEF Enter, FreshIds
  <1>3. /\ seated.rooms = disk.rooms
        /\ seated.reg \subseteq minted
        /\ \A b \in seated.reg : seated.at[b] \in minted
    BY <1>2, WithAgentFresh
  <1> HIDE DEF seated
  <1>4. \/ disk' = disk
        \/ disk' = seated
        \/ \E V : disk' = [seated EXCEPT !.visits = V]
        \/ \E V, W : disk' = [[seated EXCEPT !.visits = V] EXCEPT !.visits = W]
    BY <1>1 DEF RecordVisit, seated
  <1>5. WithAgent(disk, a, r, c) \in [rooms : {disk.rooms}, reg : {disk.reg \cup {a}},
          at : {[disk.at EXCEPT ![a] = r]}, cell : {[disk.cell EXCEPT ![a] = c]},
          design : {disk.design}, visits : {disk.visits}]
    BY DEF WithAgent, TypeOK, DiskType
  <1>6. /\ disk'.rooms = disk.rooms
        /\ disk'.reg \subseteq minted
        /\ \A b \in disk'.reg : disk'.at[b] \in minted
    BY <1>3, <1>4, <1>5 DEF FreshIds, seated
  <1> QED
    BY <1>1, <1>2, <1>6 DEF FreshIds, TypeOK

LEMMA FreshIdsNext ==
  ASSUME TypeOK, FreshIds, [Next]_vars
  PROVE  FreshIds'
  <1>1. CASE Restart
    BY <1>1 DEF Restart, FreshIds
  <1>2. CASE BeginRelocation \/ BeginServing \/ Tick \/ UNCHANGED vars
    BY <1>2 DEF BeginRelocation, BeginServing, Tick, vars, memory, FreshIds
  <1>3. ASSUME NEW r \in Agents, MigrateDesign(r) PROVE FreshIds'
    BY <1>3 DEF MigrateDesign, FreshIds, TypeOK, DiskType
  <1>4. ASSUME NEW a \in Agents, KeepAgent(a) \/ MoveRejected(a) PROVE FreshIds'
    BY <1>4 DEF KeepAgent, MoveRejected, FreshIds, TypeOK, memory
  <1>5. ASSUME NEW r \in Agents, NEW a \in Agents, NEW c \in Floor, LifeMoveCheck(a, r, c)
        PROVE  FreshIds'
    BY <1>5 DEF LifeMoveCheck, FreshIds, memory
  <1>6. ASSUME NEW a \in Agents, RelocateAgent(a) PROVE FreshIds'
    <2>1. PICK c : disk' = WithAgent(disk, a, at[a], c)
      BY <1>6 DEF RelocateAgent
    <2>2. a \in minted /\ at[a] \in minted
      BY <1>6 DEF RelocateAgent, FreshIds
    <2> QED
      BY <1>6, <2>1, <2>2, WithAgentFresh DEF RelocateAgent, FreshIds
  <1>7. ASSUME NEW a \in Agents, Register(a) PROVE FreshIds'
    <2>1. PICK c : Written([WithAgent(disk, a, a, c) EXCEPT !.rooms = @ \cup {a}],
                           {[disk EXCEPT !.rooms = @ \cup {a}]})
      BY <1>7 DEF Register
    <2>2. FreshIds /\ disk' = [WithAgent(disk, a, a, c) EXCEPT !.rooms = @ \cup {a}]
            => /\ disk'.rooms \cup disk'.reg \subseteq minted'
               /\ \A b \in disk'.reg : disk'.at[b] \in minted'
      BY <1>7 DEF Register, WithAgent, TypeOK, DiskType, FreshIds
    <2>3. CASE disk' = [WithAgent(disk, a, a, c) EXCEPT !.rooms = @ \cup {a}]
      BY <1>7, <2>2, <2>3 DEF Register, FreshIds, TypeOK
    <2>4. CASE disk' = disk
      BY <1>7, <2>4 DEF Register, FreshIds, TypeOK
    <2>5. CASE disk' = [disk EXCEPT !.rooms = @ \cup {a}]
      BY <1>7, <2>5 DEF Register, FreshIds, TypeOK, DiskType
    <2> QED
      BY <2>1, <2>3, <2>4, <2>5 DEF Written
  <1>8. ASSUME NEW a \in Agents, SaveAgentRow(a) PROVE FreshIds'
    <2>1. a \in minted /\ at[a] \in minted
      BY <1>8 DEF SaveAgentRow, FreshIds
    <2> QED
      BY <1>8, <2>1, WithAgentFresh DEF SaveAgentRow, FreshIds, memory
  <1>9. ASSUME NEW a \in Agents, Move(a) PROVE FreshIds'
    <2>1. a \in minted /\ at[a] \in minted
      BY <1>9 DEF Move, FreshIds
    <2> QED
      BY <1>9, <2>1, WithAgentFresh DEF Move, Written, FreshIds, TypeOK
  <1>10. ASSUME NEW a \in Agents, NEW r \in Agents, NEW D, SetDesign(a, r, D)
         PROVE  FreshIds'
    BY <1>10 DEF SetDesign, Written, FreshIds, TypeOK, DiskType
  <1> QED
    BY <1>1, <1>2, <1>3, <1>4, <1>5, <1>6, <1>7, <1>8, <1>9, <1>10, EnterFresh
       DEF Next, Startup, Handler

LEMMA PlacesInit == Init => Places
  BY DEF Init, Places

\* Start-up puts one more agent in a legal place and disturbs none.
LEMMA PlacesStartup ==
  ASSUME TypeOK, FreshIds, Places, Startup
  PROVE  Places'
  <1>1. CASE Restart
    BY <1>1 DEF Restart, Places
  <1>2. ASSUME NEW r \in Agents, MigrateDesign(r) PROVE Places'
    BY <1>2 DEF MigrateDesign, Places
  <1>3. CASE BeginRelocation
    BY <1>3 DEF BeginRelocation, Places, Placed, memory
  <1>4. CASE BeginServing
    BY <1>4 DEF BeginServing, Places, Placed, Furniture, memory
  <1>5. ASSUME NEW a \in Agents, KeepAgent(a) PROVE Places'
    <2>1. cell[a] \in Floor \ Furniture(at[a])
      BY <1>5 DEF KeepAgent, StaysPut
    <2>2. \A b \in reg \ todo : at[b] = at[a] => cell[b] # cell[a]
      BY <1>5 DEF KeepAgent, StaysPut
    <2>3. Placed(reg \ (todo \ {a}))
      BY <1>5, <2>1, <2>2 DEF KeepAgent, Places, Placed
    <2> QED
      BY <1>5, <2>3 DEF KeepAgent, Places, Placed, Furniture, memory
  <1>6. ASSUME NEW a \in Agents, RelocateAgent(a) PROVE Places'
    <2>1. PICK c \in FreeCells(at[a], a) : cell' = [cell EXCEPT ![a] = c]
      BY <1>6 DEF RelocateAgent
    <2>2. c \in Floor \ Furniture(at[a])
      BY FreeCellIsFree
    <2>3. \A b \in reg \ {a} : at[b] = at[a] => cell[b] # c
      BY FreeCellIsFree DEF OthersAt
    <2>4. /\ phase = "relocating" /\ phase' = "relocating"
          /\ todo' = todo \ {a} /\ a \in todo
          /\ UNCHANGED <<reg, at, rooms, design>>
      BY <1>6 DEF RelocateAgent
    <2>5. cell'[a] = c /\ \A b \in Agents \ {a} : cell'[b] = cell[b]
      BY <2>1 DEF TypeOK
    <2>6. Placed(reg \ todo)
      BY <2>4 DEF Places
    <2>7. \A r : Furniture(r)' = Furniture(r)
      BY <2>4 DEF Furniture
    <2>8. Placed(reg \ (todo \ {a}))'
      BY <2>2, <2>3, <2>4, <2>5, <2>6, <2>7 DEF Placed, TypeOK
    <2> QED
      BY <2>4, <2>8 DEF Places
  <1> QED
    BY <1>1, <1>2, <1>3, <1>4, <1>5, <1>6 DEF Startup

\* A request that seats agent a on a free cell of an existing room, or of its
\* present room, leaves everyone placed.
LEMMA SeatingKeepsPlaced ==
  ASSUME TypeOK, Placed(reg), NEW a \in Agents, NEW r \in Agents, NEW c \in Floor,
         ~Occupied(r, c, a),
         at' = [at EXCEPT ![a] = r], cell' = [cell EXCEPT ![a] = c],
         UNCHANGED <<reg, rooms, design>>
  PROVE  Placed(reg)'
  <1>1. /\ at'[a] = r /\ cell'[a] = c
        /\ \A b \in Agents \ {a} : at'[b] = at[b] /\ cell'[b] = cell[b]
    BY DEF TypeOK
  <1>2. /\ c \notin Furniture(r)
        /\ \A b \in reg \ {a} : at[b] = r => cell[b] # c
    BY DEF Occupied, OthersAt
  <1>3. \A s : Furniture(s)' = Furniture(s)
    BY DEF Furniture
  <1> QED
    BY <1>1, <1>2, <1>3 DEF Placed, TypeOK

LEMMA PlacesHandler ==
  ASSUME TypeOK, FreshIds, Places, NEW a \in Agents, Handler(a)
  PROVE  Places'
  <1>1. CASE Register(a)
    <2>1. PICK c \in FreeCells(a, a) : cell' = [cell EXCEPT ![a] = c]
      BY <1>1 DEF Register
    <2>2. c \in Floor
      BY FreeCellIsFree
    <2>3. /\ at' = [at EXCEPT ![a] = a]
          /\ design' = [design EXCEPT ![a] = {}]
          /\ rooms' = rooms \cup {a} /\ reg' = reg \cup {a}
          /\ phase = "up" /\ phase' = "up"
          /\ a \notin minted
      BY <1>1 DEF Register
    <2>4. \A b \in reg : b # a /\ at[b] # a
      BY <2>3 DEF FreshIds
    <2>5. /\ at'[a] = a /\ cell'[a] = c
          /\ \A b \in Agents \ {a} : at'[b] = at[b] /\ cell'[b] = cell[b]
      BY <2>1, <2>3 DEF TypeOK
    <2>6. /\ FurnitureCells(design'[a]) = {}
          /\ \A s \in Agents \ {a} : design'[s] = design[s]
      BY <2>3 DEF FurnitureCells, TypeOK
    <2>7. Placed(reg)
      BY <2>3 DEF Places
    <2>8. ASSUME NEW b \in reg', at'[b] \in rooms'
          PROVE  /\ cell'[b] \in Floor \ FurnitureCells(design'[at'[b]])
                 /\ \A d \in reg' \ {b} : at'[d] = at'[b] => cell'[d] # cell'[b]
      <3>1. CASE b = a
        BY <3>1, <2>2, <2>3, <2>4, <2>5, <2>6 DEF TypeOK
      <3>2. CASE b # a
        <4>1. b \in reg /\ at'[b] = at[b] /\ cell'[b] = cell[b] /\ at[b] # a
          BY <3>2, <2>3, <2>4, <2>5 DEF TypeOK
        <4>2. at[b] \in rooms /\ at[b] \in Agents \ {a}
          BY <4>1, <2>8, <2>3 DEF TypeOK
        <4>3. FurnitureCells(design'[at'[b]]) = Furniture(at[b])
          BY <4>1, <4>2, <2>6 DEF Furniture
        <4> QED
          BY <4>1, <4>2, <4>3, <2>3, <2>5, <2>7 DEF Placed, TypeOK
      <3> QED
        BY <3>1, <3>2
    <2> QED
      BY <2>3, <2>8 DEF Places, Placed, Furniture
  <1>2. CASE SaveAgentRow(a) \/ MoveRejected(a)
    BY <1>2 DEF SaveAgentRow, MoveRejected, Places, Placed, Furniture, memory
  <1>3. ASSUME NEW r \in Agents, NEW wanted \in Floor \cup {Nobody}, Enter(a, r, wanted)
        PROVE  Places'
    <2>1. PICK c \in (IF wanted = Nobody THEN FreeCells(r, a) ELSE {wanted} \cap Floor) :
            /\ ~Occupied(r, c, a)
            /\ at' = [at EXCEPT ![a] = r]
            /\ cell' = [cell EXCEPT ![a] = c]
      BY <1>3 DEF Enter
    <2>2. c \in Floor
      BY FreeCellIsFree
    <2>3. /\ phase = "up" /\ phase' = "up" /\ UNCHANGED <<reg, rooms, design>>
      BY <1>3 DEF Enter
    <2>4. Placed(reg)'
      BY <2>1, <2>2, <2>3, SeatingKeepsPlaced DEF Places
    <2> QED
      BY <2>3, <2>4 DEF Places
  <1>4. ASSUME NEW r \in Agents, NEW c \in Floor, LifeMoveCheck(a, r, c)
        PROVE  Places'
    BY <1>4 DEF LifeMoveCheck, Places, Placed, Furniture, memory
  <1>5. CASE Move(a)
    <2>1. /\ ~Occupied(at[a], request[a].cell, a)
          /\ cell' = [cell EXCEPT ![a] = request[a].cell]
          /\ at' = at /\ at' = [at EXCEPT ![a] = at[a]]
          /\ phase = "up" /\ phase' = "up" /\ UNCHANGED <<reg, rooms, design>>
      BY <1>5 DEF Move, TypeOK
    <2>2. request[a].cell \in Floor /\ at[a] \in Agents
      BY <1>5 DEF Move, TypeOK
    <2>3. Placed(reg)'
      BY <2>1, <2>2, SeatingKeepsPlaced DEF Places
    <2> QED
      BY <2>1, <2>3 DEF Places
  <1>6. ASSUME NEW r \in Agents, NEW D \in SUBSET Pieces, SetDesign(a, r, D)
        PROVE  Places'
    <2>1. /\ phase = "up" /\ phase' = "up"
          /\ UNCHANGED <<reg, rooms, at, cell>>
          /\ design' = [design EXCEPT ![r] = D]
          /\ \A b \in reg : at[b] = r => cell[b] \notin FurnitureCells(D)
      BY <1>6 DEF SetDesign
    <2>2. \A b \in reg : at[b] = r => cell[b] \notin Furniture(r)'
      BY <2>1 DEF Furniture, TypeOK
    <2>3. \A s \in Agents \ {r} : Furniture(s)' = Furniture(s)
      BY <2>1 DEF Furniture, TypeOK
    <2> QED
      BY <2>1, <2>2, <2>3 DEF Places, Placed, TypeOK
  <1> QED
    BY <1>1, <1>2, <1>3, <1>4, <1>5, <1>6 DEF Handler

\* No two agents of a room share a cell and none stands in furniture, however
\* often the server restarts and whichever store calls fail: the one-lock
\* handlers keep it, and start-up restores it before the first request.
THEOREM PlacesExclusive == Spec => []NoOverlap
  <1> DEFINE IInv == TypeOK /\ FreshIds /\ Places
  <1>1. Init => IInv
    BY InitType, FreshIdsInit, PlacesInit
  <1>2. IInv /\ [Next]_vars => IInv'
    <2> SUFFICES ASSUME IInv, [Next]_vars PROVE IInv'
      OBVIOUS
    <2>1. TypeOK'
      BY NextType
    <2>2. FreshIds'
      BY FreshIdsNext
    <2>3. Places'
      <3>1. CASE Startup
        BY <3>1, PlacesStartup
      <3>2. CASE \E a \in Agents : Handler(a)
        BY <3>2, PlacesHandler
      <3>3. CASE Tick \/ UNCHANGED vars
        BY <3>3 DEF Tick, vars, memory, Places, Placed, Furniture
      <3> QED
        BY <3>1, <3>2, <3>3 DEF Next
    <2> QED
      BY <2>1, <2>2, <2>3
  <1>3. IInv => NoOverlap
    BY DEF Places, NoOverlap
  <1> QED
    BY <1>1, <1>2, <1>3, PTL DEF Spec

-----------------------------------------------------------------------------
(* Start-up disturbs only the agents it has to.                            *)

LEMMA OnlyInvalidRelocatedStep ==
  ASSUME TypeOK, [Next]_vars, phase = "relocating", phase' = "relocating",
         NEW a \in Agents, cell'[a] # cell[a]
  PROVE  \/ cell[a] \notin Floor \ Furniture(at[a])
         \/ \E b \in OthersAt(at[a], a) : cell[b] = cell[a]
  <1>1. PICK d \in Agents : RelocateAgent(d)
    BY DEF Next, Startup, Handler, Restart, MigrateDesign, BeginRelocation,
           BeginServing, KeepAgent, Register, SaveAgentRow, Enter, LifeMoveCheck,
           Move, MoveRejected, SetDesign, Tick, vars, memory
  <1>2. d = a
    BY <1>1 DEF RelocateAgent, TypeOK
  <1>3. /\ ~StaysPut(a) /\ a \in todo
    BY <1>1, <1>2 DEF RelocateAgent
  <1> QED
    BY <1>3 DEF StaysPut, OthersAt

\* _relocate_invalid_agents moves an agent only off an illegal or taken place.
THEOREM RelocationIsMinimal == Spec => OnlyInvalidRelocated
  <1>1. TypeOK /\ [Next]_vars =>
          [phase = "relocating" /\ phase' = "relocating" =>
             \A a \in Agents : cell'[a] # cell[a] =>
               \/ cell[a] \notin Floor \ Furniture(at[a])
               \/ \E b \in OthersAt(at[a], a) : cell[b] = cell[a]]_vars
    BY OnlyInvalidRelocatedStep
  <1> QED
    BY <1>1, TypeCorrect, PTL DEF Spec, OnlyInvalidRelocated

-----------------------------------------------------------------------------
(* The furniture of a served room fits.                                    *)

\* Stored and loaded designs never clash, and start-up clears the floor edge
\* room by room.
Designs ==
  /\ \A r \in Agents : NoClash(design[r]) /\ NoClash(disk.design[r])
  /\ phase = "migrating" => \A r \in rooms \ todo : OnFloor(design[r])
  /\ phase \in {"relocating", "up"} => \A r \in rooms : OnFloor(design[r])

LEMMA DesignsInit == Init => Designs
  <1> SUFFICES ASSUME Init PROVE Designs
    OBVIOUS
  <1>1. \A r \in Agents : EmptyDisk.design[r] = {}
    BY DEF EmptyDisk
  <1>2. \A d \in LegacyDisk, r \in Agents : NoClash(d.design[r])
    BY RoomAssumption DEF LegacyDisk
  <1>3. NoClash({})
    BY DEF NoClash
  <1> QED
    BY <1>1, <1>2, <1>3 DEF Init, Designs

\* No step but these two and a restart changes a design, in memory or on disk.
LEMMA DesignsUntouched ==
  ASSUME TypeOK, Next,
         ~Restart,
         ~ \E r \in Agents : MigrateDesign(r),
         ~ \E a \in Agents : Register(a),
         ~ \E a, r \in Agents, D \in SUBSET Pieces : SetDesign(a, r, D)
  PROVE  /\ UNCHANGED <<design, rooms>>
         /\ disk'.design = disk.design
         /\ phase' = "migrating" => phase = "migrating" /\ UNCHANGED todo
         /\ phase' \in {"relocating", "up"} =>
              \/ phase \in {"relocating", "up"}
              \/ phase = "migrating" /\ todo = {}
  <1>1. CASE BeginRelocation \/ BeginServing \/ Tick
    BY <1>1 DEF BeginRelocation, BeginServing, Tick, memory
  <1>2. ASSUME NEW a \in Agents,
               KeepAgent(a) \/ MoveRejected(a)
                 \/ \E r \in Agents, c \in Floor : LifeMoveCheck(a, r, c)
        PROVE  UNCHANGED <<design, rooms, disk, phase>> /\ phase \in {"relocating", "up"}
    BY <1>2 DEF KeepAgent, MoveRejected, LifeMoveCheck, memory
  <1>3. \A a, r, c : WithAgent(disk, a, r, c).design = disk.design
    BY DEF WithAgent, TypeOK, DiskType
  <1>4. ASSUME NEW a \in Agents,
               RelocateAgent(a) \/ SaveAgentRow(a) \/ Move(a)
                 \/ \E r \in Agents, wanted \in Floor \cup {Nobody} : Enter(a, r, wanted)
        PROVE  /\ UNCHANGED <<design, rooms, phase>> /\ phase \in {"relocating", "up"}
               /\ disk'.design = disk.design
    <2>1. CASE RelocateAgent(a)
      BY <2>1, <1>3 DEF RelocateAgent
    <2>2. CASE SaveAgentRow(a)
      BY <2>2, <1>3 DEF SaveAgentRow, memory
    <2>3. CASE Move(a)
      BY <2>3, <1>3 DEF Move, Written
    <2>4. ASSUME NEW r \in Agents, NEW wanted \in Floor \cup {Nobody}, Enter(a, r, wanted)
          PROVE  disk'.design = disk.design
      <3>1. PICK c :
              \/ UNCHANGED disk
              \/ disk' = WithAgent(disk, a, r, c)
              \/ RecordVisit(a, r, WithAgent(disk, a, r, c))
        BY <2>4 DEF Enter
      <3> DEFINE seated == WithAgent(disk, a, r, c)
      <3>2. seated.design = disk.design /\ "design" \in DOMAIN seated
        BY <1>3 DEF WithAgent, TypeOK, DiskType
      <3> HIDE DEF seated
      <3>3. \/ disk' = disk
            \/ disk' = seated
            \/ \E V : disk' = [seated EXCEPT !.visits = V]
            \/ \E V, W : disk' = [[seated EXCEPT !.visits = V] EXCEPT !.visits = W]
        BY <3>1 DEF RecordVisit, seated
      <3> QED
        BY <3>2, <3>3
    <2> QED
      BY <1>4, <2>1, <2>2, <2>3, <2>4 DEF Enter
  <1> QED
    BY <1>1, <1>2, <1>4 DEF Next, Startup, Handler

LEMMA DesignsNext ==
  ASSUME TypeOK, Designs, [Next]_vars
  PROVE  Designs'
  <1>1. CASE UNCHANGED vars
    BY <1>1 DEF vars, memory, Designs
  <1>2. CASE Restart
    BY <1>2 DEF Restart, Designs
  <1>3. ASSUME NEW r \in Agents, MigrateDesign(r) PROVE Designs'
    <2> DEFINE kept == KeptPieces(design[r])
    <2>1. OnFloor(kept) /\ NoClash(kept)
      BY DEF KeptPieces, OnFloor, NoClash, Designs
    <2>2. /\ design' = [design EXCEPT ![r] = kept]
          /\ disk'.design = [disk.design EXCEPT ![r] = kept]
          /\ todo' = todo \ {r} /\ UNCHANGED <<phase, rooms>> /\ phase = "migrating"
      BY <1>3 DEF MigrateDesign, TypeOK, DiskType
    <2> HIDE DEF kept
    <2> QED
      BY <2>1, <2>2 DEF Designs, TypeOK, DiskType
  <1>4. ASSUME NEW a \in Agents, Register(a) PROVE Designs'
    <2>1. NoClash({}) /\ OnFloor({})
      BY DEF NoClash, OnFloor
    <2>2. /\ design' = [design EXCEPT ![a] = {}]
          /\ rooms' = rooms \cup {a} /\ phase = "up" /\ phase' = "up"
      BY <1>4 DEF Register
    <2>3. disk'.design = disk.design
      BY <1>4 DEF Register, Written, WithAgent, TypeOK, DiskType
    <2> QED
      BY <2>1, <2>2, <2>3 DEF Designs, TypeOK
  <1>5. ASSUME NEW a \in Agents, NEW r \in Agents, NEW D \in SUBSET Pieces,
               SetDesign(a, r, D)
        PROVE  Designs'
    <2>1. OnFloor(D) /\ NoClash(D)
      BY <1>5 DEF SetDesign, ValidDesign
    <2>2. /\ design' = [design EXCEPT ![r] = D]
          /\ \/ disk'.design = disk.design
             \/ \E E \in SUBSET D : disk'.design = [disk.design EXCEPT ![r] = E]
          /\ phase = "up" /\ UNCHANGED <<phase, rooms>>
      BY <1>5 DEF SetDesign, Written, TypeOK, DiskType
    <2>3. \A E \in SUBSET D : NoClash(E)
      BY <2>1 DEF NoClash
    <2> QED
      BY <2>1, <2>2, <2>3 DEF Designs, TypeOK, DiskType
  <1>6. CASE /\ Next /\ ~Restart
             /\ ~ \E r \in Agents : MigrateDesign(r)
             /\ ~ \E a \in Agents : Register(a)
             /\ ~ \E a, r \in Agents, D \in SUBSET Pieces : SetDesign(a, r, D)
    <2>1. /\ UNCHANGED <<design, rooms>>
          /\ disk'.design = disk.design
          /\ phase' = "migrating" => phase = "migrating" /\ UNCHANGED todo
          /\ phase' \in {"relocating", "up"} =>
               \/ phase \in {"relocating", "up"}
               \/ phase = "migrating" /\ todo = {}
      BY <1>6, DesignsUntouched
    <2> QED
      BY <2>1 DEF Designs
  <1> QED
    BY <1>1, <1>2, <1>3, <1>4, <1>5, <1>6

\* Whatever a database of an older protocol held and whichever writes failed,
\* the designs the server answers with stand on floor and do not clash.
THEOREM ServedDesignsFit == Spec => []DesignsFit
  <1>1. TypeOK /\ Designs /\ [Next]_vars => Designs'
    BY DesignsNext
  <1>2. TypeOK /\ Designs => DesignsFit
    BY DEF Designs, DesignsFit, ValidDesign, TypeOK
  <1> QED
    BY <1>1, <1>2, DesignsInit, TypeCorrect, PTL DEF Spec

\* The rooms that a server serves are fit: both of the above.
THEOREM RoomsStayFit == Spec => []RoomsFit
  BY PlacesExclusive, ServedDesignsFit, PTL DEF RoomsFit

-----------------------------------------------------------------------------
(* The log of visits.                                                      *)

\* What recording a visit does to the log in memory and on disk.
Recorded(a, r) ==
  LET row == VisitAt(visits, r, a, now)
      rows == Upsert(visits, row)
      stored == Upsert(disk.visits, row)
      excess == Excess(visits, rows, r)
  IN  \/ \E D \in Oldest(rows, r, excess) :
           /\ visits' = rows \ D /\ disk'.visits = Without(stored, D)
           /\ faults' = faults /\ strays' = strays
      \/ /\ visits' = rows /\ disk'.visits \in {disk.visits, stored}
         /\ faults' = faults + 1 /\ strays' = strays
      \/ \E n \in 1 .. excess : \E D \in Oldest(rows, r, n) :
           \E gone \in {D} \cup {G \in SUBSET D : G \in Oldest(rows, r, n - 1)} :
             /\ visits' = rows \ D /\ disk'.visits = Without(stored, gone)
             /\ faults' = faults + 1 /\ strays' = strays \cup Ids(D \ gone)

LogUntouched ==
  /\ visits' = visits /\ disk'.visits = disk.visits /\ strays' = strays
  /\ now' >= now /\ faults' >= faults

Reloaded ==
  /\ visits' = disk.visits /\ disk'.visits = disk.visits
  /\ UNCHANGED <<strays, now, faults>>

\* Every step reloads the log, records a visit, or has nothing to do with it.
LEMMA LogSteps ==
  ASSUME TypeOK, [Next]_vars
  PROVE  \/ LogUntouched \/ Reloaded
         \/ now' = now /\ \E a, r \in Agents : Recorded(a, r)
  <1>1. now \in Nat /\ faults \in Nat
    BY DEF TypeOK, Time
  <1>2. \A a, r, c : WithAgent(disk, a, r, c).visits = disk.visits
    BY DEF WithAgent, TypeOK, DiskType
  <1>3. \A d, P : /\ Written(d, P) /\ d.visits = disk.visits
                  /\ \A e \in P : e.visits = disk.visits
                  => disk'.visits = disk.visits /\ faults' >= faults
    BY <1>1 DEF Written, StoreFails
  <1>4. CASE UNCHANGED vars
    BY <1>1, <1>4 DEF vars, memory, LogUntouched
  <1>5. CASE Restart
    BY <1>5 DEF Restart, Reloaded
  <1>6. CASE BeginRelocation \/ BeginServing \/ Tick
    BY <1>1, <1>6 DEF BeginRelocation, BeginServing, Tick, memory, LogUntouched
  <1>7. ASSUME NEW r \in Agents, MigrateDesign(r) PROVE LogUntouched
    BY <1>1, <1>7 DEF MigrateDesign, LogUntouched, TypeOK, DiskType
  <1>8. ASSUME NEW a \in Agents, KeepAgent(a) \/ RelocateAgent(a) PROVE LogUntouched
    BY <1>1, <1>2, <1>8 DEF KeepAgent, RelocateAgent, memory, LogUntouched
  <1>9. ASSUME NEW a \in Agents,
               SaveAgentRow(a) \/ MoveRejected(a)
                 \/ \E r \in Agents, c \in Floor : LifeMoveCheck(a, r, c)
        PROVE  LogUntouched
    BY <1>1, <1>2, <1>9 DEF SaveAgentRow, MoveRejected, LifeMoveCheck, memory, LogUntouched
  <1>10. ASSUME NEW a \in Agents, Register(a) PROVE LogUntouched
    <2>1. PICK c : Written([WithAgent(disk, a, a, c) EXCEPT !.rooms = @ \cup {a}],
                           {[disk EXCEPT !.rooms = @ \cup {a}]})
      BY <1>10 DEF Register
    <2> DEFINE d == [WithAgent(disk, a, a, c) EXCEPT !.rooms = @ \cup {a}]
               P == {[disk EXCEPT !.rooms = @ \cup {a}]}
    <2>2. d.visits = disk.visits /\ \A e \in P : e.visits = disk.visits
      BY DEF WithAgent, TypeOK, DiskType
    <2>3. Written(d, P)
      BY <2>1
    <2> HIDE DEF d, P
    <2>4. disk'.visits = disk.visits /\ faults' >= faults
      BY <1>3, <2>2, <2>3
    <2> QED
      BY <1>1, <1>10, <2>4 DEF Register, LogUntouched
  <1>11. ASSUME NEW a \in Agents, Move(a) PROVE LogUntouched
    BY <1>1, <1>2, <1>3, <1>11 DEF Move, LogUntouched
  <1>12. ASSUME NEW a \in Agents, NEW r \in Agents, NEW D \in SUBSET Pieces,
                SetDesign(a, r, D)
         PROVE  LogUntouched
    <2> DEFINE d == [disk EXCEPT !.design = [@ EXCEPT ![r] = D]]
               P == {[disk EXCEPT !.design = [@ EXCEPT ![r] = E]] : E \in SUBSET D}
    <2>1. d.visits = disk.visits /\ \A e \in P : e.visits = disk.visits
      BY DEF TypeOK, DiskType
    <2>2. Written(d, P)
      BY <1>12 DEF SetDesign
    <2> HIDE DEF d, P
    <2>3. disk'.visits = disk.visits /\ faults' >= faults
      BY <1>3, <2>1, <2>2
    <2> QED
      BY <1>1, <1>12, <2>3 DEF SetDesign, LogUntouched
  <1>13. ASSUME NEW a \in Agents, NEW r \in Agents, NEW wanted \in Floor \cup {Nobody},
                Enter(a, r, wanted)
         PROVE  LogUntouched \/ (now' = now /\ Recorded(a, r))
    <2>1. PICK c :
            \/ /\ StoreFails /\ disk' \in {disk, WithAgent(disk, a, r, c)}
               /\ UNCHANGED <<visits, strays>>
            \/ r = a /\ disk' = WithAgent(disk, a, r, c) /\ UNCHANGED <<visits, faults, strays>>
            \/ r # a /\ RecordVisit(a, r, WithAgent(disk, a, r, c))
      BY <1>13 DEF Enter
    <2>2. now' = now
      BY <1>13 DEF Enter
    <2>3. CASE /\ StoreFails /\ disk' \in {disk, WithAgent(disk, a, r, c)}
               /\ UNCHANGED <<visits, strays>>
      BY <1>1, <1>2, <2>2, <2>3 DEF StoreFails, LogUntouched
    <2>4. CASE disk' = WithAgent(disk, a, r, c) /\ UNCHANGED <<visits, faults, strays>>
      BY <1>1, <1>2, <2>2, <2>4 DEF LogUntouched
    <2>5. CASE RecordVisit(a, r, WithAgent(disk, a, r, c))
      <3> DEFINE seated == WithAgent(disk, a, r, c)
                 row == VisitAt(visits, r, a, now)
      <3>1. seated.visits = disk.visits /\ "visits" \in DOMAIN seated
        BY <1>2 DEF WithAgent, TypeOK, DiskType
      <3>2. \A V : [seated EXCEPT !.visits = V].visits = V
        BY <3>1
      <3>3. \A V, W : [[seated EXCEPT !.visits = V] EXCEPT !.visits = W].visits = W
        BY <3>1
      <3> HIDE DEF seated
      <3>4. [seated EXCEPT !.visits = Upsert(@, row)].visits = Upsert(disk.visits, row)
        BY <3>1, <3>2
      <3>5. \A D : [[seated EXCEPT !.visits = Upsert(@, row)]
                      EXCEPT !.visits = Without(@, D)].visits
                   = Without(Upsert(disk.visits, row), D)
        BY <3>3, <3>4
      <3> QED
        BY <2>5, <2>2, <3>1, <3>4, <3>5 DEF RecordVisit, Recorded, StoreFails, seated
    <2> QED
      BY <2>1, <2>3, <2>4, <2>5
  <1> QED
    BY <1>4, <1>5, <1>6, <1>7, <1>8, <1>9, <1>10, <1>11, <1>12, <1>13
       DEF Next, Startup, Handler

\* A visit id names one row.
UniqueIds(rows) == \A x, y \in rows : VisitId(x) = VisitId(y) => x = y

\* SessionsApart over memory and disk together.  It is inductive because no row
\* is of the future and because memory knows of every row on disk that is no
\* stray, as late as disk does.
LogInOrder ==
  /\ UniqueIds(visits) /\ UniqueIds(disk.visits)
  /\ \A x \in visits \cup disk.visits : x.first <= now /\ x.last <= now
  /\ \A x, y \in visits \cup disk.visits :
       /\ x.room = y.room /\ x.visitor = y.visitor /\ x.first < y.first
       /\ VisitId(x) \notin strays
       => y.first - x.last > SessionWindow
  /\ \A y \in disk.visits :
       \/ VisitId(y) \in strays
       \/ \E x \in visits : VisitId(x) = VisitId(y) /\ y.last <= x.last

\* The row an arrival writes is of now, follows every earlier row of its pair by
\* more than the session window, and has none after it.
LEMMA RowFits ==
  ASSUME TypeOK, LogInOrder, NEW a \in Agents, NEW r \in Agents,
         NEW row, row = VisitAt(visits, r, a, now)
  PROVE  /\ row \in VisitRow
         /\ row.room = r /\ row.visitor = a /\ row.first <= now /\ row.last = now
         /\ \A y \in visits \cup disk.visits : y.room = r /\ y.visitor = a =>
              /\ y.first < row.first /\ VisitId(y) \notin strays
                   => row.first - y.last > SessionWindow
              /\ VisitId(row) \notin strays => ~(row.first < y.first)
  <1> DEFINE open == OpenSession(visits, r, a, now)
             all == visits \cup disk.visits
  <1>1. /\ now \in Nat /\ SessionWindow \in Nat
        /\ visits \subseteq VisitRow /\ disk.visits \subseteq VisitRow
        /\ \A x \in VisitRow : x.first \in Nat /\ x.last \in Nat
    BY VisitAssumption DEF TypeOK, DiskType, VisitRow, Time
  <1>2. row \in VisitRow
    BY VisitAtType DEF TypeOK
  <1>3. CASE open = {}
    <2>1. row = [room |-> r, visitor |-> a, first |-> now, last |-> now]
      BY <1>3 DEF VisitAt
    <2>2. ASSUME NEW x \in visits, x.room = r, x.visitor = a, VisitId(x) \notin strays
          PROVE  now - x.last > SessionWindow
      <3>1. x \notin open
        BY <1>3
      <3>2. CASE \E z \in visits : z.room = r /\ z.visitor = a /\ ~(z.first <= x.first)
        <4>1. PICK z \in visits : z.room = r /\ z.visitor = a /\ ~(z.first <= x.first)
          BY <3>2
        <4>2. x.first < z.first /\ z.first <= now
          BY <1>1, <4>1 DEF LogInOrder
        <4>3. z.first - x.last > SessionWindow
          BY <2>2, <4>1, <4>2 DEF LogInOrder
        <4> QED
          BY <1>1, <4>1, <4>2, <4>3
      <3> QED
        BY <1>1, <2>2, <3>1, <3>2 DEF OpenSession, RowsOf
    <2>3. ASSUME NEW y \in all, y.room = r, y.visitor = a, VisitId(y) \notin strays
          PROVE  now - y.last > SessionWindow
      <3>1. PICK x \in visits : VisitId(x) = VisitId(y) /\ y.last <= x.last
        BY <1>1, <2>3 DEF LogInOrder
      <3>2. x.room = r /\ x.visitor = a
        BY <2>3, <3>1 DEF VisitId
      <3>3. now - x.last > SessionWindow
        BY <2>2, <2>3, <3>1, <3>2
      <3> QED
        BY <1>1, <2>3, <3>1, <3>3
    <2> QED
      BY <1>1, <1>2, <2>1, <2>3 DEF LogInOrder
  <1>4. CASE open # {}
    <2>1. PICK x \in open : row = [x EXCEPT !.last = now]
      BY <1>4 DEF VisitAt
    <2>2. /\ x \in visits /\ x.room = r /\ x.visitor = a
          /\ now - x.last <= SessionWindow
      BY <2>1 DEF OpenSession, RowsOf
    <2>3. /\ row.room = r /\ row.visitor = a /\ row.first = x.first /\ row.last = now
          /\ VisitId(row) = VisitId(x)
      BY <1>1, <2>1, <2>2 DEF VisitRow, VisitId
    <2>4. x.first <= now
      BY <2>2 DEF LogInOrder
    <2>5. ASSUME NEW y \in all, y.room = r, y.visitor = a
          PROVE  /\ y.first < row.first /\ VisitId(y) \notin strays
                      => row.first - y.last > SessionWindow
                 /\ VisitId(row) \notin strays => ~(row.first < y.first)
      <3>1. y.first < x.first /\ VisitId(y) \notin strays => x.first - y.last > SessionWindow
        BY <2>2, <2>5 DEF LogInOrder
      <3>2. ASSUME VisitId(x) \notin strays, x.first < y.first PROVE FALSE
        <4>1. y.first - x.last > SessionWindow
          BY <2>2, <2>5, <3>2 DEF LogInOrder
        <4>2. y.first <= now
          BY <2>5 DEF LogInOrder
        <4> QED
          BY <1>1, <2>2, <2>5, <4>1, <4>2
      <3> QED
        BY <2>3, <3>1, <3>2
    <2> QED
      BY <1>2, <2>3, <2>4, <2>5
  <1> QED
    BY <1>3, <1>4

LEMMA LogInit == Init => LogInOrder
  <1> SUFFICES ASSUME Init PROVE LogInOrder
    OBVIOUS
  <1>1. visits = {} /\ disk.visits = {}
    BY DEF Init, EmptyDisk, LegacyDisk
  <1> QED
    BY <1>1 DEF LogInOrder, UniqueIds

\* Upserting keeps ids unique; deleting and pruning do, too.
LEMMA UniqueKept ==
  ASSUME NEW rows, UniqueIds(rows), NEW x, NEW kept \in SUBSET Upsert(rows, x)
  PROVE  UniqueIds(kept)
  BY DEF UniqueIds, Upsert

LEMMA RecordedInOrder ==
  ASSUME TypeOK, LogInOrder, now' = now,
         NEW a \in Agents, NEW r \in Agents, Recorded(a, r)
  PROVE  LogInOrder'
  <1> DEFINE row == VisitAt(visits, r, a, now)
             rows == Upsert(visits, row)
             stored == Upsert(disk.visits, row)
             excess == Excess(visits, rows, r)
             all == visits \cup disk.visits
  <1>1. /\ row \in VisitRow
        /\ row.room = r /\ row.visitor = a /\ row.first <= now /\ row.last = now
        /\ \A y \in all : y.room = r /\ y.visitor = a =>
             /\ y.first < row.first /\ VisitId(y) \notin strays
                  => row.first - y.last > SessionWindow
             /\ VisitId(row) \notin strays => ~(row.first < y.first)
    BY RowFits
  <1>2. /\ \A x \in rows : x = row \/ (x \in visits /\ VisitId(x) # VisitId(row))
        /\ \A x \in stored : x = row \/ (x \in disk.visits /\ VisitId(x) # VisitId(row))
        /\ row \in rows
        /\ \A x \in visits : VisitId(x) # VisitId(row) => x \in rows
    BY DEF Upsert
  <1>3. \A D : D \in SUBSET rows => \A d \in D : VisitId(d) \in Ids(D)
    BY DEF Ids
  <1>4. \A n, D : D \in Oldest(rows, r, n) => D \in SUBSET rows
    BY DEF Oldest, RowsOf
  <1>5. \A D : \A y \in Without(stored, D) : y \in stored /\ VisitId(y) \notin Ids(D)
    BY DEF Without
  <1> HIDE DEF row, rows, stored, excess
  <1>6. PICK D, G :
          /\ D \in SUBSET rows /\ G \in SUBSET D
          /\ \/ /\ visits' = rows \ D /\ disk'.visits = Without(stored, D)
                /\ strays' = strays
             \/ /\ visits' = rows /\ disk'.visits \in {disk.visits, stored}
                /\ strays' = strays
             \/ /\ visits' = rows \ D /\ disk'.visits = Without(stored, G)
                /\ strays' = strays \cup Ids(D \ G)
    <2>1. CASE \E D \in Oldest(rows, r, excess) :
                 /\ visits' = rows \ D /\ disk'.visits = Without(stored, D)
                 /\ faults' = faults /\ strays' = strays
      BY <2>1, <1>4
    <2>2. CASE /\ visits' = rows /\ disk'.visits \in {disk.visits, stored}
               /\ faults' = faults + 1 /\ strays' = strays
      BY <2>2
    <2>3. CASE \E n \in 1 .. excess : \E D \in Oldest(rows, r, n) :
                 \E gone \in {D} \cup {G \in SUBSET D : G \in Oldest(rows, r, n - 1)} :
                   /\ visits' = rows \ D /\ disk'.visits = Without(stored, gone)
                   /\ faults' = faults + 1 /\ strays' = strays \cup Ids(D \ gone)
      BY <2>3, <1>4
    <2> QED
      BY <2>1, <2>2, <2>3 DEF Recorded, row, rows, stored, excess
  <1>7. /\ visits' \subseteq rows
        /\ disk'.visits \subseteq stored \/ disk'.visits = disk.visits
        /\ strays \subseteq strays'
    BY <1>5, <1>6
  <1>8. UniqueIds(visits)' /\ UniqueIds(disk.visits)'
    <2>1. UniqueIds(visits')
      BY <1>7, UniqueKept DEF LogInOrder, rows
    <2>2. UniqueIds(disk'.visits)
      BY <1>7, UniqueKept DEF LogInOrder, stored
    <2> QED
      BY <2>1, <2>2 DEF UniqueIds
  <1>9. \A x \in (visits \cup disk.visits)' : x = row \/ x \in all
    BY <1>2, <1>7
  <1>10. now \in Nat
    BY DEF TypeOK, Time
  <1>11. \A x \in (visits \cup disk.visits)' : x.first <= now' /\ x.last <= now'
    <2>1. row.last <= now
      BY <1>1, <1>10
    <2> QED
      BY <1>1, <1>9, <2>1 DEF LogInOrder
  <1>12. ASSUME NEW x \in (visits \cup disk.visits)', NEW y \in (visits \cup disk.visits)',
                x.room = y.room, x.visitor = y.visitor, x.first < y.first,
                VisitId(x) \notin strays'
         PROVE  y.first - x.last > SessionWindow
    <2>1. VisitId(x) \notin strays
      BY <1>7, <1>12
    <2>2. CASE x \in all /\ y \in all
      BY <1>12, <2>1, <2>2 DEF LogInOrder
    <2>3. CASE x = row /\ y \in all
      BY <1>1, <1>12, <2>1, <2>3
    <2>4. CASE x \in all /\ y = row
      BY <1>1, <1>12, <2>1, <2>4
    <2>5. CASE x = row /\ y = row
      BY <1>1, <1>12, <2>5 DEF VisitRow, Time
    <2> QED
      BY <1>9, <2>2, <2>3, <2>4, <2>5
  <1>13. ASSUME NEW y \in disk'.visits, VisitId(y) \notin strays'
         PROVE  \E x \in visits' : VisitId(x) = VisitId(y) /\ y.last <= x.last
    <2>1. VisitId(y) \notin strays
      BY <1>7, <1>13
    <2>2. y = row \/ y \in disk.visits
      BY <1>2, <1>7
    <2>3. y.last <= row.last
      BY <1>1, <1>10, <2>2 DEF LogInOrder
    <2>4. PICK x \in rows : VisitId(x) = VisitId(y) /\ y.last <= x.last
      <3>1. CASE VisitId(y) = VisitId(row)
        BY <1>2, <2>3, <3>1
      <3>2. CASE VisitId(y) # VisitId(row)
        <4>1. y \in disk.visits
          BY <2>2, <3>2
        <4>2. PICK x \in visits : VisitId(x) = VisitId(y) /\ y.last <= x.last
          BY <2>1, <4>1 DEF LogInOrder
        <4> QED
          BY <1>2, <3>2, <4>2
      <3> QED
        BY <3>1, <3>2
    <2>5. CASE visits' = rows \ D /\ disk'.visits = Without(stored, D)
      <3>1. VisitId(y) \notin Ids(D)
        BY <1>5, <1>13, <2>5
      <3> QED
        BY <1>3, <1>6, <2>4, <2>5, <3>1
    <2>6. CASE visits' = rows
      BY <2>4, <2>6
    <2>7. CASE /\ visits' = rows \ D /\ disk'.visits = Without(stored, G)
               /\ strays' = strays \cup Ids(D \ G)
      <3>1. VisitId(y) \notin Ids(G) /\ VisitId(y) \notin Ids(D \ G)
        BY <1>5, <1>13, <2>7
      <3>2. x \notin G /\ x \notin D \ G
        BY <1>3, <1>6, <2>4, <3>1
      <3> QED
        BY <2>4, <2>7, <3>2
    <2> QED
      BY <1>6, <2>5, <2>6, <2>7
  <1> QED
    BY <1>8, <1>11, <1>12, <1>13 DEF LogInOrder

LEMMA LogInOrderNext ==
  ASSUME TypeOK, LogInOrder, [Next]_vars
  PROVE  LogInOrder'
  <1>1. CASE LogUntouched
    <2>1. /\ now \in Nat /\ now' \in Nat
          /\ \A x \in visits \cup disk.visits : x.first \in Nat /\ x.last \in Nat
      BY NextType DEF TypeOK, DiskType, VisitRow, Time
    <2>2. \A x \in visits \cup disk.visits : x.first <= now' /\ x.last <= now'
      BY <1>1, <2>1 DEF LogUntouched, LogInOrder
    <2> QED
      BY <1>1, <2>2 DEF LogUntouched, LogInOrder, UniqueIds
  <1>2. CASE Reloaded
    <2>1. \A y \in disk.visits : y.last <= y.last
      BY DEF TypeOK, DiskType, VisitRow, Time
    <2> QED
      BY <1>2, <2>1 DEF Reloaded, LogInOrder, UniqueIds
  <1>3. ASSUME NEW a \in Agents, NEW r \in Agents, Recorded(a, r), now' = now
        PROVE  LogInOrder'
    BY <1>3, RecordedInOrder
  <1> QED
    BY <1>1, <1>2, <1>3, LogSteps

\* The rows of one visitor in one room are sessions of their own through restarts
\* and failing commits, except for a row that was pruned but not deleted.
THEOREM SessionsStayApart == Spec => []SessionsApart
  <1>1. TypeOK /\ LogInOrder /\ [Next]_vars => LogInOrder'
    BY LogInOrderNext
  <1>2. LogInOrder => SessionsApart
    BY DEF LogInOrder, SessionsApart
  <1> QED
    BY <1>1, <1>2, LogInit, TypeCorrect, PTL DEF Spec

\* Recording a visit fails at most once.
LEMMA RecordedFaults ==
  ASSUME NEW a, NEW r, Recorded(a, r)
  PROVE  faults' = faults \/ faults' = faults + 1
  BY Zenon DEF Recorded

\* There are no more ids than rows, and as many if ids are unique.
LEMMA IdsCounted ==
  ASSUME NEW rows, IsFiniteSet(rows)
  PROVE  /\ IsFiniteSet(Ids(rows))
         /\ Cardinality(Ids(rows)) <= Cardinality(rows)
  <1> DEFINE f == [x \in rows |-> VisitId(x)]
  <1>1. f \in Surjection(rows, Ids(rows))
    BY DEF Surjection, Ids
  <1> HIDE DEF f
  <1> QED
    BY <1>1, FS_Surjection

LEMMA RowsCounted ==
  ASSUME NEW rows, UniqueIds(rows), IsFiniteSet(Ids(rows))
  PROVE  /\ IsFiniteSet(rows)
         /\ Cardinality(rows) <= Cardinality(Ids(rows))
  <1> DEFINE f == [x \in rows |-> VisitId(x)]
  <1>1. f \in Injection(rows, Ids(rows))
    BY DEF Injection, IsInjective, Ids, UniqueIds
  <1> HIDE DEF f
  <1> QED
    BY <1>1, FS_Injection

\* The ids that a room has in memory or may get back from disk.
IdsOf(S, r) == {i \in S : i[1] = r}
StraysOf(r) == IdsOf(strays, r)
KnownIds(r) == Ids(RowsOf(visits, r)) \cup StraysOf(r)

\* VisitsBounded counts what memory has; what disk has more are strays, each of
\* which cost a failing store call.
LogBounded ==
  /\ IsFiniteSet(visits) /\ IsFiniteSet(disk.visits) /\ IsFiniteSet(strays)
  /\ Cardinality(strays) <= faults
  /\ \A r \in Agents : Cardinality(KnownIds(r)) <= VisitsMax + faults

\* Every id that a room has on disk is known.
LEMMA DiskIdsKnown ==
  ASSUME LogInOrder, NEW r
  PROVE  Ids(RowsOf(disk.visits, r)) \subseteq KnownIds(r)
  <1> SUFFICES ASSUME NEW y \in disk.visits, y.room = r
               PROVE  VisitId(y) \in KnownIds(r)
    BY DEF Ids, RowsOf
  <1>1. CASE VisitId(y) \in strays
    BY <1>1 DEF KnownIds, StraysOf, IdsOf, VisitId
  <1>2. CASE VisitId(y) \notin strays
    <2>1. PICK x \in visits : VisitId(x) = VisitId(y)
      BY <1>2 DEF LogInOrder
    <2>2. x.room = r
      BY <2>1 DEF VisitId
    <2> QED
      BY <2>1, <2>2 DEF KnownIds, Ids, RowsOf
  <1> QED
    BY <1>1, <1>2

\* Finite sets of ids stay finite.
LEMMA FiniteUnion ==
  ASSUME NEW V, IsFiniteSet(V), NEW S, IsFiniteSet(S), NEW r
  PROVE  LET I == Ids(RowsOf(V, r))
             T == IdsOf(S, r)
         IN  /\ IsFiniteSet(RowsOf(V, r)) /\ IsFiniteSet(I)
             /\ IsFiniteSet(T) /\ Cardinality(T) <= Cardinality(S)
             /\ IsFiniteSet(I \cup T)
             /\ Cardinality(I \cup T) <= Cardinality(RowsOf(V, r)) + Cardinality(S)
  <1>1. IsFiniteSet(RowsOf(V, r))
    BY FS_Subset DEF RowsOf
  <1>2. /\ IsFiniteSet(Ids(RowsOf(V, r)))
        /\ Cardinality(Ids(RowsOf(V, r))) <= Cardinality(RowsOf(V, r))
    BY <1>1, IdsCounted
  <1> DEFINE I == Ids(RowsOf(V, r))
             T == IdsOf(S, r)
  <1>3. IsFiniteSet(T) /\ Cardinality(T) <= Cardinality(S)
    BY FS_Subset DEF IdsOf
  <1> HIDE DEF I, T
  <1>4. /\ IsFiniteSet(I \cup T)
        /\ Cardinality(I \cup T) = Cardinality(I) + Cardinality(T) - Cardinality(I \cap T)
    BY <1>2, <1>3, FS_Union DEF I
  <1>5. IsFiniteSet(I \cap T)
    BY <1>2, FS_Intersection DEF I
  <1>6. /\ Cardinality(I) \in Nat /\ Cardinality(T) \in Nat /\ Cardinality(I \cap T) \in Nat
        /\ Cardinality(S) \in Nat /\ Cardinality(RowsOf(V, r)) \in Nat
    BY <1>1, <1>2, <1>3, <1>5, FS_CardinalityType DEF I
  <1>7. Cardinality(I \cup T) <= Cardinality(RowsOf(V, r)) + Cardinality(S)
    BY <1>2, <1>3, <1>4, <1>6 DEF I
  <1> QED
    BY <1>1, <1>2, <1>3, <1>4, <1>7 DEF I, T

\* What is known of a room's visits is finite, in this state and the next.
LEMMA KnownFinite ==
  ASSUME IsFiniteSet(visits), IsFiniteSet(strays), NEW r
  PROVE  /\ IsFiniteSet(RowsOf(visits, r)) /\ IsFiniteSet(Ids(RowsOf(visits, r)))
         /\ IsFiniteSet(StraysOf(r)) /\ Cardinality(StraysOf(r)) <= Cardinality(strays)
         /\ IsFiniteSet(KnownIds(r))
         /\ Cardinality(KnownIds(r))
              <= Cardinality(RowsOf(visits, r)) + Cardinality(strays)
  BY FiniteUnion DEF KnownIds, StraysOf

LEMMA KnownFiniteNext ==
  ASSUME IsFiniteSet(visits'), IsFiniteSet(strays'), NEW r
  PROVE  /\ IsFiniteSet(RowsOf(visits', r)) /\ IsFiniteSet(KnownIds(r)')
         /\ Cardinality(KnownIds(r)')
              <= Cardinality(RowsOf(visits', r)) + Cardinality(strays')
  <1> DEFINE V == visits'
             S == strays'
             T == IdsOf(S, r)
  <1>1. KnownIds(r)' = Ids(RowsOf(V, r)) \cup T
    BY DEF KnownIds, StraysOf
  <1>2. IsFiniteSet(V) /\ IsFiniteSet(S)
    OBVIOUS
  <1> HIDE DEF V, S
  <1>3. /\ IsFiniteSet(RowsOf(V, r)) /\ IsFiniteSet(Ids(RowsOf(V, r)) \cup T)
        /\ Cardinality(Ids(RowsOf(V, r)) \cup T) <= Cardinality(RowsOf(V, r)) + Cardinality(S)
    BY <1>2, FiniteUnion
  <1> QED
    BY <1>1, <1>3 DEF V, S

\* LogBounded bounds the rows themselves.
LEMMA BoundedRows ==
  ASSUME TypeOK, LogInOrder, LogBounded
  PROVE  VisitsBounded
  <1> SUFFICES ASSUME NEW r \in Agents
               PROVE  /\ Cardinality(RowsOf(visits, r)) <= VisitsMax + faults
                      /\ Cardinality(RowsOf(disk.visits, r)) <= VisitsMax + faults
    BY DEF VisitsBounded, TypeOK, DiskType, VisitRow
  <1>1. IsFiniteSet(KnownIds(r)) /\ Cardinality(KnownIds(r)) <= VisitsMax + faults
    BY KnownFinite DEF LogBounded
  <1>2. VisitsMax + faults \in Nat
    BY VisitAssumption DEF TypeOK
  <1>3. ASSUME NEW rows, UniqueIds(rows), Ids(rows) \subseteq KnownIds(r)
        PROVE  Cardinality(rows) <= VisitsMax + faults
    <2>1. IsFiniteSet(Ids(rows)) /\ Cardinality(Ids(rows)) <= Cardinality(KnownIds(r))
      BY <1>1, <1>3, FS_Subset
    <2>2. IsFiniteSet(rows) /\ Cardinality(rows) <= Cardinality(Ids(rows))
      BY <1>3, <2>1, RowsCounted
    <2>3. /\ Cardinality(rows) \in Nat /\ Cardinality(Ids(rows)) \in Nat
          /\ Cardinality(KnownIds(r)) \in Nat
      BY <1>1, <2>1, <2>2, FS_CardinalityType
    <2> QED
      BY <1>1, <1>2, <2>1, <2>2, <2>3
  <1>4. UniqueIds(RowsOf(visits, r)) /\ UniqueIds(RowsOf(disk.visits, r))
    BY DEF LogInOrder, UniqueIds, RowsOf
  <1>5. Ids(RowsOf(visits, r)) \subseteq KnownIds(r)
    BY DEF KnownIds
  <1>6. Ids(RowsOf(disk.visits, r)) \subseteq KnownIds(r)
    BY DiskIdsKnown
  <1> QED
    BY <1>3, <1>4, <1>5, <1>6

\* Adding one id to known ones, when a store call fails, stays within the bound.
LEMMA OneMore ==
  ASSUME NEW S, IsFiniteSet(S), NEW x, NEW T \in SUBSET (S \cup {x}), NEW n \in Nat,
         Cardinality(S) <= n
  PROVE  IsFiniteSet(T) /\ Cardinality(T) <= n + 1
  <1>1. /\ IsFiniteSet(S \cup {x})
        /\ Cardinality(S \cup {x}) = IF x \in S THEN Cardinality(S) ELSE Cardinality(S) + 1
    BY FS_AddElement
  <1>2. IsFiniteSet(T) /\ Cardinality(T) <= Cardinality(S \cup {x})
    BY <1>1, FS_Subset
  <1>3. /\ Cardinality(S) \in Nat /\ Cardinality(T) \in Nat /\ Cardinality(S \cup {x}) \in Nat
    BY <1>1, <1>2, FS_CardinalityType
  <1> QED
    BY <1>1, <1>2, <1>3

\* A new row of a room and the pruning after it leave the room VisitsMax rows.
LEMMA PrunedRoom ==
  ASSUME TypeOK, LogBounded, NEW r \in Agents, NEW row, row.room = r,
         VisitId(row) \notin Ids(RowsOf(visits, r)),
         NEW rows, rows = Upsert(visits, row),
         NEW D \in Oldest(rows, r, Excess(visits, rows, r))
  PROVE  Cardinality(RowsOf(rows \ D, r)) <= VisitsMax
  <1> DEFINE before == RowsOf(visits, r)
             after == RowsOf(rows, r)
  <1>1. IsFiniteSet(before) /\ row \notin before
    BY KnownFinite DEF LogBounded, Ids
  <1>2. after = before \cup {row}
    BY DEF Upsert, RowsOf, Ids, VisitId
  <1>3. IsFiniteSet(after) /\ Cardinality(after) = Cardinality(before) + 1
    BY <1>1, <1>2, FS_AddElement
  <1>4. Cardinality(before) \in Nat /\ Cardinality(after) \in Nat /\ VisitsMax \in Nat
    BY <1>1, <1>3, FS_CardinalityType, VisitAssumption
  <1>5. D \subseteq after /\ Cardinality(D) = Excess(visits, rows, r)
    BY DEF Oldest
  <1>6. IsFiniteSet(D)
    BY <1>3, <1>5, FS_Subset
  <1>7. RowsOf(rows \ D, r) = after \ D /\ after \cap D = D
    BY <1>5 DEF RowsOf
  <1>8. Cardinality(after \ D) = Cardinality(after) - Cardinality(D)
    <2> HIDE DEF after
    <2>1. Cardinality(after \ D) = Cardinality(after) - Cardinality(after \cap D)
      BY <1>3, <1>6, FS_Difference
    <2> QED
      BY <1>7, <2>1
  <1>9. Excess(visits, rows, r) = IF Cardinality(after) > VisitsMax
                                  THEN Cardinality(after) - VisitsMax ELSE 0
    BY <1>3, <1>4 DEF Excess
  <1> HIDE DEF before, after
  <1>10. Cardinality(RowsOf(rows \ D, r)) = Cardinality(after \ D)
    BY <1>7, Zenon
  <1> QED
    BY <1>4, <1>5, <1>8, <1>9, <1>10

LEMMA RecordedBounded ==
  ASSUME TypeOK, TypeOK', LogInOrder, LogBounded,
         NEW a \in Agents, NEW r \in Agents, Recorded(a, r)
  PROVE  LogBounded'
  <1> DEFINE row == VisitAt(visits, r, a, now)
             rows == Upsert(visits, row)
             stored == Upsert(disk.visits, row)
             excess == Excess(visits, rows, r)
  <1>1. row.room = r
    BY RowFits
  <1>2. IsFiniteSet(rows) /\ IsFiniteSet(stored)
    <2>1. \A S : IsFiniteSet(S) => IsFiniteSet(Upsert(S, row))
      <3> SUFFICES ASSUME NEW S, IsFiniteSet(S) PROVE IsFiniteSet(Upsert(S, row))
        OBVIOUS
      <3>1. IsFiniteSet({y \in S : VisitId(y) # VisitId(row)})
        BY FS_Subset
      <3> QED
        BY <3>1, FS_AddElement DEF Upsert
    <2> QED
      BY <2>1 DEF LogBounded
  <1>3. /\ faults \in Nat /\ faults' \in Nat /\ VisitsMax \in Nat
    BY VisitAssumption DEF TypeOK
  <1>4. \A s : /\ RowsOf(rows, s) \subseteq RowsOf(visits, s) \cup {row}
               /\ s # r => RowsOf(rows, s) = RowsOf(visits, s)
    BY <1>1 DEF Upsert, RowsOf, VisitId
  <1>5. \A n, D : D \in Oldest(rows, r, n) =>
          D \subseteq RowsOf(rows, r) /\ Cardinality(D) = n /\ IsFiniteSet(D)
    <2>1. IsFiniteSet(RowsOf(rows, r))
      BY <1>2, FS_Subset DEF RowsOf
    <2> QED
      BY <2>1, FS_Subset DEF Oldest
  <1>6. \A S : IsFiniteSet(Without(stored, S)) /\ IsFiniteSet(rows \ S)
    BY <1>2, FS_Subset, FS_Difference DEF Without
  <1>7. \A s : Cardinality(KnownIds(s)) \in Nat /\ IsFiniteSet(KnownIds(s))
    BY KnownFinite, FS_CardinalityType DEF LogBounded
  <1> HIDE DEF row, rows, stored, excess
  \* No failure: what the room has beyond VisitsMax are strays of before.
  <1>8. ASSUME NEW D \in Oldest(rows, r, excess),
               visits' = rows \ D, disk'.visits = Without(stored, D),
               faults' = faults, strays' = strays
        PROVE  LogBounded'
    <2>1. IsFiniteSet(visits') /\ IsFiniteSet(disk'.visits) /\ IsFiniteSet(strays')
      BY <1>6, <1>8 DEF LogBounded
    <2>2. ASSUME NEW s \in Agents, s # r
          PROVE  KnownIds(s)' = KnownIds(s)
      <3>1. RowsOf(visits', s) = RowsOf(visits, s)
        BY <1>4, <1>5, <1>8, <2>2 DEF RowsOf
      <3> QED
        BY <1>8, <3>1 DEF KnownIds, StraysOf
    <2>3. CASE VisitId(row) \in Ids(RowsOf(visits, r))
      <3>1. Ids(RowsOf(visits', r)) \subseteq Ids(RowsOf(visits, r))
        BY <1>4, <1>8, <2>3 DEF Ids, RowsOf
      <3>2. KnownIds(r)' \subseteq KnownIds(r)
        BY <1>8, <3>1 DEF KnownIds, StraysOf
      <3>3. /\ Cardinality(KnownIds(r)') <= Cardinality(KnownIds(r))
            /\ Cardinality(KnownIds(r)') \in Nat
        BY <1>7, <3>2, FS_Subset, FS_CardinalityType
      <3>4. Cardinality(KnownIds(r)') <= VisitsMax + faults
        BY <1>3, <1>7, <3>3 DEF LogBounded
      <3> QED
        BY <1>8, <2>1, <2>2, <3>4 DEF LogBounded
    <2>4. CASE VisitId(row) \notin Ids(RowsOf(visits, r))
      <3>1. Cardinality(RowsOf(visits', r)) <= VisitsMax
        BY <1>1, <1>8, <2>4, PrunedRoom DEF rows, excess
      <3>2. /\ Cardinality(KnownIds(r)')
                 <= Cardinality(RowsOf(visits', r)) + Cardinality(strays')
            /\ IsFiniteSet(KnownIds(r)') /\ IsFiniteSet(RowsOf(visits', r))
        BY <2>1, KnownFiniteNext
      <3>3. /\ Cardinality(KnownIds(r)') \in Nat /\ Cardinality(RowsOf(visits', r)) \in Nat
            /\ Cardinality(strays') \in Nat
        BY <2>1, <3>2, FS_CardinalityType
      <3>4. Cardinality(KnownIds(r)') <= VisitsMax + faults
        BY <1>3, <1>8, <3>1, <3>2, <3>3 DEF LogBounded
      <3> QED
        BY <1>8, <2>1, <2>2, <3>4 DEF LogBounded
    <2> QED
      BY <2>3, <2>4
  \* A failure: one id more at most, and one more stray at most.
  <1>9. ASSUME NEW D, NEW G, NEW x, D \subseteq RowsOf(rows, r),
               visits' = rows \ D,
               IsFiniteSet(disk'.visits),
               faults' = faults + 1,
               strays' = strays \/ (x \in D /\ strays' = strays \cup {VisitId(x)})
        PROVE  LogBounded'
    <2>1. IsFiniteSet(visits')
      BY <1>6, <1>9
    <2>2. x \in D => x \in RowsOf(visits, r) \cup {row} /\ VisitId(x)[1] = r
      BY <1>4, <1>9 DEF RowsOf, VisitId
    <2>3. IsFiniteSet(strays') /\ Cardinality(strays') <= faults'
      <3>1. strays' \in SUBSET (strays \cup {VisitId(x)})
        BY <1>9
      <3> QED
        BY <1>3, <1>9, <3>1, OneMore DEF LogBounded
    <2>4. ASSUME NEW s \in Agents
          PROVE  Cardinality(KnownIds(s)') <= VisitsMax + faults'
      <3>1. Ids(RowsOf(visits', s)) \subseteq Ids(RowsOf(visits, s)) \cup {VisitId(row)}
        BY <1>4, <1>9 DEF Ids, RowsOf
      <3>2. StraysOf(s)' \subseteq KnownIds(s) \cup {VisitId(row)}
        BY <1>9, <2>2 DEF StraysOf, IdsOf, KnownIds, Ids
      <3>3. KnownIds(s)' \in SUBSET (KnownIds(s) \cup {VisitId(row)})
        BY <3>1, <3>2 DEF KnownIds
      <3>4. VisitsMax + faults \in Nat /\ Cardinality(KnownIds(s)) <= VisitsMax + faults
        BY <1>3 DEF LogBounded
      <3>5. Cardinality(KnownIds(s)') <= (VisitsMax + faults) + 1
        <4> DEFINE K == KnownIds(s)
                   L == KnownIds(s)'
                   m == VisitsMax + faults
                   i == VisitId(row)
        <4>1. L \in SUBSET (K \cup {i}) /\ IsFiniteSet(K) /\ m \in Nat /\ Cardinality(K) <= m
          BY <1>7, <3>3, <3>4
        <4> HIDE DEF K, L, m, i
        <4>2. Cardinality(L) <= m + 1
          BY <4>1, OneMore
        <4> QED
          BY <4>2 DEF L, m
      <3> QED
        BY <1>3, <1>9, <3>5
    <2> QED
      BY <1>9, <2>1, <2>3, <2>4 DEF LogBounded
  <1>10. CASE /\ visits' = rows /\ disk'.visits \in {disk.visits, stored}
              /\ faults' = faults + 1 /\ strays' = strays
    <2>1. visits' = rows \ {} /\ {} \subseteq RowsOf(rows, r) /\ IsFiniteSet(disk'.visits)
      BY <1>2, <1>10 DEF LogBounded
    <2> QED
      BY <1>9, <1>10, <2>1
  \* The delete is not lost: no stray.
  <1>12. ASSUME NEW n \in 1 .. excess, NEW D \in Oldest(rows, r, n),
                visits' = rows \ D, disk'.visits = Without(stored, D),
                faults' = faults + 1, strays' = strays \cup Ids(D \ D)
         PROVE  LogBounded'
    <2>1. strays' = strays
      BY <1>12 DEF Ids
    <2>2. IsFiniteSet(disk'.visits) /\ D \subseteq RowsOf(rows, r)
      BY <1>5, <1>6, <1>12
    <2> QED
      BY <1>9, <1>12, <2>1, <2>2
  <1>11. ASSUME NEW n \in 1 .. excess, NEW D \in Oldest(rows, r, n),
                NEW gone \in SUBSET D, gone \in Oldest(rows, r, n - 1),
                visits' = rows \ D, disk'.visits = Without(stored, gone),
                faults' = faults + 1, strays' = strays \cup Ids(D \ gone)
         PROVE  LogBounded'
    <2>1. IsFiniteSet(D) /\ Cardinality(D) = n /\ Cardinality(gone) = n - 1
      BY <1>5, <1>11
    <2>2. IsFiniteSet(D \ gone) /\ D \cap gone = gone
      BY <2>1, FS_Difference
    <2>3. Cardinality(D \ gone) = 1
      <3>1. Cardinality(D \ gone) = Cardinality(D) - Cardinality(D \cap gone)
        BY <2>1, FS_Difference
      <3>2. Cardinality(D \cap gone) = n - 1
        BY <2>1, <2>2, Zenon
      <3>3. n \in Int
        OBVIOUS
      <3> QED
        BY <2>1, <3>1, <3>2, <3>3
    <2>4. PICK x : D \ gone = {x}
      BY <2>2, <2>3, FS_Singleton
    <2>5. x \in D /\ Ids(D \ gone) = {VisitId(x)}
      BY <2>4 DEF Ids
    <2>6. IsFiniteSet(disk'.visits) /\ D \subseteq RowsOf(rows, r)
      BY <1>5, <1>6, <1>11
    <2> QED
      BY <1>9, <1>11, <2>5, <2>6
  <1> QED
    BY <1>8, <1>10, <1>11, <1>12 DEF Recorded, row, rows, stored, excess

LEMMA LogBoundedNext ==
  ASSUME TypeOK, TypeOK', LogInOrder, LogBounded, [Next]_vars
  PROVE  LogBounded'
  <1>1. CASE LogUntouched
    <2>1. /\ faults \in Nat /\ faults' \in Nat /\ VisitsMax \in Nat
          /\ Cardinality(strays) \in Nat
          /\ \A r : Cardinality(KnownIds(r)) \in Nat
      BY VisitAssumption, KnownFinite, FS_CardinalityType DEF TypeOK, LogBounded
    <2>2. \A r : KnownIds(r)' = KnownIds(r)
      BY <1>1 DEF LogUntouched, KnownIds, StraysOf
    <2> QED
      BY <1>1, <2>1, <2>2 DEF LogUntouched, LogBounded
  <1>2. CASE Reloaded
    <2>1. ASSUME NEW r \in Agents PROVE Cardinality(KnownIds(r)') <= VisitsMax + faults
      <3>1. KnownIds(r)' \subseteq KnownIds(r)
        BY <1>2, DiskIdsKnown DEF Reloaded, KnownIds, StraysOf
      <3>2. IsFiniteSet(KnownIds(r)) /\ Cardinality(KnownIds(r)) <= VisitsMax + faults
        BY KnownFinite DEF LogBounded
      <3>3. /\ Cardinality(KnownIds(r)') <= Cardinality(KnownIds(r))
            /\ Cardinality(KnownIds(r)') \in Nat /\ Cardinality(KnownIds(r)) \in Nat
        BY <3>1, <3>2, FS_Subset, FS_CardinalityType
      <3> QED
        BY <3>2, <3>3, VisitAssumption DEF TypeOK
    <2> QED
      BY <1>2, <2>1 DEF Reloaded, LogBounded
  <1>3. ASSUME NEW a \in Agents, NEW r \in Agents, Recorded(a, r) PROVE LogBounded'
    BY <1>3, RecordedBounded
  <1> QED
    BY <1>1, <1>2, <1>3, LogSteps

LEMMA LogBoundedInit == Init => LogBounded
  <1> SUFFICES ASSUME Init PROVE LogBounded
    OBVIOUS
  <1>1. visits = {} /\ disk.visits = {} /\ strays = {} /\ faults = 0
    BY DEF Init, EmptyDisk, LegacyDisk
  <1>2. \A r : KnownIds(r) = {}
    BY <1>1 DEF KnownIds, StraysOf, IdsOf, Ids, RowsOf
  <1> QED
    BY <1>1, <1>2, FS_EmptySet, VisitAssumption DEF LogBounded

\* The log of visits is in order whatever fails: sessions apart, and VisitsMax
\* rows in a room, and one more for each store call that failed.
THEOREM VisitLogIsKept == Spec => []VisitLogKept
  <1> DEFINE IInv == TypeOK /\ LogInOrder /\ LogBounded
  <1>1. Init => IInv
    BY InitType, LogInit, LogBoundedInit
  <1>2. IInv /\ [Next]_vars => IInv'
    BY NextType, LogInOrderNext, LogBoundedNext
  <1>3. IInv => VisitLogKept
    BY BoundedRows DEF LogInOrder, SessionsApart, VisitLogKept
  <1> QED
    BY <1>1, <1>2, <1>3, PTL DEF Spec

-----------------------------------------------------------------------------
(* What is in memory is on disk.                                           *)

\* What the database holds when every change has been committed.
Stored == [rooms |-> rooms, reg |-> reg, at |-> at, cell |-> cell,
           design |-> design, visits |-> visits]

\* NothingToLose from the moment the database is loaded, start-up included; and
\* a new room has no design to write, so register need not write one.
WrittenThrough ==
  /\ phase # "down" /\ faults = 0 => disk = Stored
  /\ \A a \in Agents \ minted : design[a] = {} /\ disk.design[a] = {}

LEMMA WrittenThroughInit == Init => WrittenThrough
  <1> SUFFICES ASSUME Init PROVE WrittenThrough
    OBVIOUS
  <1>1. \A a \in Agents : design[a] = {} /\ EmptyDisk.design[a] = {}
    BY DEF Init, EmptyDisk
  <1>2. \A d \in LegacyDisk : d.reg = Agents
    BY DEF LegacyDisk
  <1> QED
    BY <1>1, <1>2 DEF Init, WrittenThrough

\* save_agent of an agent with its new place.
LEMMA WithAgentStored ==
  ASSUME TypeOK, disk = Stored, NEW a \in reg, NEW r, NEW c
  PROVE  WithAgent(disk, a, r, c) =
           [rooms |-> rooms, reg |-> reg, at |-> [at EXCEPT ![a] = r],
            cell |-> [cell EXCEPT ![a] = c], design |-> design, visits |-> visits]
  <1>1. reg \cup {a} = reg
    OBVIOUS
  <1>2. WithAgent(disk, a, r, c) \in
          [rooms : {rooms}, reg : {reg}, at : {[at EXCEPT ![a] = r]},
           cell : {[cell EXCEPT ![a] = c]}, design : {design}, visits : {visits}]
    BY <1>1 DEF WithAgent, Stored, TypeOK, DiskType
  <1> QED
    BY <1>2

\* A failing store call counts.
LEMMA FailureCounts == TypeOK /\ StoreFails => faults' # 0
  BY DEF TypeOK, StoreFails

\* The part of a step that is about designs of rooms not handed out yet.
LEMMA BareNext ==
  ASSUME TypeOK, FreshIds, WrittenThrough, [Next]_vars
  PROVE  \A a \in Agents \ minted' : design'[a] = {} /\ disk'.design[a] = {}
  <1>1. CASE UNCHANGED vars
    BY <1>1 DEF vars, memory, WrittenThrough
  <1>2. CASE Restart
    BY <1>2 DEF Restart, WrittenThrough
  <1>3. ASSUME NEW r \in Agents, MigrateDesign(r)
        PROVE  \A a \in Agents \ minted' : design'[a] = {} /\ disk'.design[a] = {}
    <2>1. KeptPieces({}) = {}
      BY DEF KeptPieces
    <2>2. /\ design' = [design EXCEPT ![r] = KeptPieces(design[r])]
          /\ disk'.design = [disk.design EXCEPT ![r] = KeptPieces(design[r])]
          /\ minted' = minted
      BY <1>3 DEF MigrateDesign, TypeOK, DiskType
    <2> QED
      BY <2>1, <2>2 DEF WrittenThrough, TypeOK, DiskType
  <1>4. ASSUME NEW b \in Agents, Register(b)
        PROVE  \A a \in Agents \ minted' : design'[a] = {} /\ disk'.design[a] = {}
    <2>1. disk'.design = disk.design
      BY <1>4 DEF Register, Written, WithAgent, TypeOK, DiskType
    <2> QED
      BY <1>4, <2>1 DEF Register, WrittenThrough, TypeOK
  <1>5. ASSUME NEW b \in Agents, NEW r \in Agents, NEW D \in SUBSET Pieces,
               SetDesign(b, r, D)
        PROVE  \A a \in Agents \ minted' : design'[a] = {} /\ disk'.design[a] = {}
    <2>1. /\ r \in minted /\ minted' = minted
          /\ design' = [design EXCEPT ![r] = D]
          /\ \/ disk'.design = disk.design
             \/ \E E \in SUBSET D : disk'.design = [disk.design EXCEPT ![r] = E]
      BY <1>5 DEF SetDesign, Written, FreshIds, TypeOK, DiskType
    <2>2. \A c \in Agents \ minted : disk'.design[c] = disk.design[c] /\ design'[c] = design[c]
      BY <2>1 DEF TypeOK, DiskType
    <2> QED
      BY <2>1, <2>2 DEF WrittenThrough
  <1>6. CASE /\ Next /\ ~Restart
             /\ ~ \E r \in Agents : MigrateDesign(r)
             /\ ~ \E a \in Agents : Register(a)
             /\ ~ \E a, r \in Agents, D \in SUBSET Pieces : SetDesign(a, r, D)
    <2>1. design' = design /\ disk'.design = disk.design
      BY <1>6, DesignsUntouched
    <2>2. minted' = minted
      BY <1>6 DEF Next, Startup, Handler, BeginRelocation, BeginServing, KeepAgent,
                  RelocateAgent, SaveAgentRow, Enter, LifeMoveCheck, Move, MoveRejected, Tick
    <2> QED
      BY <2>1, <2>2 DEF WrittenThrough
  <1> QED
    BY <1>1, <1>2, <1>3, <1>4, <1>5, <1>6

\* Where ids are unique, deleting by id deletes just those rows.
LEMMA WithoutIsMinus ==
  ASSUME NEW rows, UniqueIds(rows), NEW D \in SUBSET rows
  PROVE  Without(rows, D) = rows \ D
  BY DEF UniqueIds, Without, Ids

\* Recording a visit without a failure commits what memory holds.
LEMMA RecordStored ==
  ASSUME TypeOK, LogInOrder, NEW a, NEW r, NEW d \in DiskType, d.visits = visits,
         RecordVisit(a, r, d), faults' = 0
  PROVE  disk' = [d EXCEPT !.visits = visits']
  <1> DEFINE row == VisitAt(visits, r, a, now)
             rows == Upsert(visits, row)
             excess == Excess(visits, rows, r)
  <1>1. ~StoreFails
    BY FailureCounts
  <1>2. PICK D \in Oldest(rows, r, excess) :
          /\ visits' = rows \ D
          /\ disk' = [[d EXCEPT !.visits = Upsert(@, row)] EXCEPT !.visits = Without(@, D)]
    BY <1>1 DEF RecordVisit
  <1>3. D \in SUBSET rows
    BY <1>2 DEF Oldest, RowsOf
  <1>4. UniqueIds(rows)
    BY UniqueKept DEF LogInOrder
  <1>5. Without(rows, D) = rows \ D
    BY <1>3, <1>4, WithoutIsMinus
  <1> HIDE DEF rows, row, excess
  <1>6. \A V, W : [[d EXCEPT !.visits = V] EXCEPT !.visits = W] = [d EXCEPT !.visits = W]
    BY DEF DiskType
  <1>7. [d EXCEPT !.visits = rows].visits = rows
    BY DEF DiskType
  <1>8. disk' = [[d EXCEPT !.visits = rows] EXCEPT !.visits = Without(rows, D)]
    BY <1>2, <1>7 DEF rows
  <1> QED
    BY <1>2, <1>5, <1>6, <1>8

\* Whichever handler runs: if no store call fails, what it leaves in memory is
\* what it leaves on disk.
LEMMA HandlerStored ==
  ASSUME TypeOK, LogInOrder, disk = Stored, faults' = 0, WrittenThrough,
         FreshIds, NEW a \in Agents, Handler(a)
  PROVE  disk' = Stored'
  <1>1. ~StoreFails
    BY FailureCounts
  <1>2. \A d, P : Written(d, P) => disk' = d
    BY <1>1 DEF Written
  <1>3. CASE Register(a)
    <2>1. PICK c :
            /\ cell' = [cell EXCEPT ![a] = c]
            /\ disk' = [WithAgent(disk, a, a, c) EXCEPT !.rooms = @ \cup {a}]
      BY <1>3, <1>2 DEF Register
    <2>2. /\ rooms' = rooms \cup {a} /\ reg' = reg \cup {a}
          /\ at' = [at EXCEPT ![a] = a] /\ visits' = visits
          /\ design' = [design EXCEPT ![a] = {}]
          /\ a \in Agents \ minted
      BY <1>3 DEF Register
    <2>3. design' = design
      BY <2>2 DEF WrittenThrough, TypeOK
    <2>4. disk' \in
            [rooms : {rooms'}, reg : {reg'}, at : {at'}, cell : {cell'},
             design : {design}, visits : {visits'}]
      BY <2>1, <2>2 DEF WithAgent, Stored, TypeOK, DiskType
    <2> QED
      BY <2>3, <2>4 DEF Stored
  <1>4. CASE SaveAgentRow(a)
    <2>1. /\ disk' = WithAgent(disk, a, at[a], cell[a])
          /\ UNCHANGED memory /\ a \in reg
      BY <1>4 DEF SaveAgentRow
    <2>2. [at EXCEPT ![a] = at[a]] = at /\ [cell EXCEPT ![a] = cell[a]] = cell
      BY DEF TypeOK
    <2> QED
      BY <2>1, <2>2, WithAgentStored DEF memory, Stored
  <1>5. ASSUME NEW r \in Agents, NEW wanted \in Floor \cup {Nobody}, Enter(a, r, wanted)
        PROVE  disk' = Stored'
    <2>1. PICK c \in (IF wanted = Nobody THEN FreeCells(r, a) ELSE {wanted} \cap Floor) :
            /\ at' = [at EXCEPT ![a] = r]
            /\ cell' = [cell EXCEPT ![a] = c]
            /\ \/ r = a /\ disk' = WithAgent(disk, a, r, c) /\ UNCHANGED <<visits, faults, strays>>
               \/ r # a /\ RecordVisit(a, r, WithAgent(disk, a, r, c))
      BY <1>1, <1>5 DEF Enter
    <2>2. a \in reg /\ UNCHANGED <<rooms, reg, design>>
      BY <1>5 DEF Enter
    <2> DEFINE d == WithAgent(disk, a, r, c)
    <2>3. d = [rooms |-> rooms, reg |-> reg, at |-> at', cell |-> cell',
               design |-> design, visits |-> visits]
      BY <2>1, <2>2, WithAgentStored
    <2>4. c \in Cell
      BY FreeCellIsFree, FloorInGrid
    <2>5. d \in DiskType
      BY <2>4, WithAgentType DEF TypeOK
    <2> HIDE DEF d
    <2>6. CASE disk' = d /\ UNCHANGED visits
      BY <2>2, <2>3, <2>6 DEF Stored
    <2>7. CASE RecordVisit(a, r, d)
      <3>1. d.visits = visits
        BY <2>3
      <3>2. disk' = [d EXCEPT !.visits = visits']
        BY <2>5, <2>7, <3>1, RecordStored
      <3> QED
        BY <2>2, <2>3, <3>2 DEF Stored
    <2> QED
      BY <2>1, <2>6, <2>7 DEF d
  <1>6. ASSUME NEW r \in Agents, NEW c \in Floor, LifeMoveCheck(a, r, c)
        PROVE  disk' = Stored'
    BY <1>6 DEF LifeMoveCheck, memory, Stored
  <1>7. CASE Move(a)
    <2>1. /\ disk' = WithAgent(disk, a, at[a], request[a].cell)
          /\ cell' = [cell EXCEPT ![a] = request[a].cell]
          /\ UNCHANGED <<rooms, reg, at, design, visits>>
      BY <1>2, <1>7 DEF Move
    <2>2. a \in reg
      BY <1>7 DEF Move, FreshIds
    <2>3. [at EXCEPT ![a] = at[a]] = at
      BY DEF TypeOK
    <2> QED
      BY <2>1, <2>2, <2>3, WithAgentStored DEF Stored
  <1>8. CASE MoveRejected(a)
    BY <1>8 DEF MoveRejected, memory, Stored
  <1>9. ASSUME NEW r \in Agents, NEW D \in SUBSET Pieces, SetDesign(a, r, D)
        PROVE  disk' = Stored'
    <2>1. /\ disk' = [disk EXCEPT !.design = [@ EXCEPT ![r] = D]]
          /\ design' = [design EXCEPT ![r] = D]
          /\ UNCHANGED <<rooms, reg, at, cell, visits>>
      BY <1>2, <1>9 DEF SetDesign
    <2> QED
      BY <2>1 DEF Stored
  <1> QED
    BY <1>3, <1>4, <1>5, <1>6, <1>7, <1>8, <1>9 DEF Handler

\* Start-up commits each repair as it makes it.
LEMMA StartupStored ==
  ASSUME TypeOK, FreshIds, Startup, Restart \/ disk = Stored
  PROVE  disk' = Stored'
  <1>1. CASE Restart
    <2>1. disk = [rooms |-> disk.rooms, reg |-> disk.reg, at |-> disk.at,
                  cell |-> disk.cell, design |-> disk.design, visits |-> disk.visits]
      BY DEF TypeOK, DiskType
    <2> QED
      BY <1>1, <2>1 DEF Restart, Stored
  <1>2. CASE BeginRelocation \/ BeginServing
    BY <1>2 DEF BeginRelocation, BeginServing, memory, Stored, Restart
  <1>3. ASSUME NEW r \in Agents, MigrateDesign(r), disk = Stored PROVE disk' = Stored'
    <2>1. /\ disk' = [disk EXCEPT !.design = [@ EXCEPT ![r] = KeptPieces(design[r])]]
          /\ design' = [design EXCEPT ![r] = KeptPieces(design[r])]
          /\ UNCHANGED <<rooms, reg, at, cell, visits>>
      BY <1>3 DEF MigrateDesign
    <2> QED
      BY <1>3, <2>1 DEF Stored
  <1>4. ASSUME NEW a \in Agents, KeepAgent(a), disk = Stored PROVE disk' = Stored'
    BY <1>4 DEF KeepAgent, memory, Stored
  <1>5. ASSUME NEW a \in Agents, RelocateAgent(a), disk = Stored PROVE disk' = Stored'
    <2>1. PICK c : /\ cell' = [cell EXCEPT ![a] = c]
                   /\ disk' = WithAgent(disk, a, at[a], c)
      BY <1>5 DEF RelocateAgent
    <2>2. a \in reg /\ UNCHANGED <<rooms, reg, at, design, visits>>
      BY <1>5 DEF RelocateAgent, FreshIds
    <2>3. [at EXCEPT ![a] = at[a]] = at
      BY DEF TypeOK
    <2> QED
      BY <1>5, <2>1, <2>2, <2>3, WithAgentStored DEF Stored
  <1> QED
    BY <1>1, <1>2, <1>3, <1>4, <1>5 DEF Startup, Restart

LEMMA WrittenThroughNext ==
  ASSUME TypeOK, FreshIds, LogInOrder, WrittenThrough, [Next]_vars
  PROVE  WrittenThrough'
  <1>1. \A a \in Agents \ minted' : design'[a] = {} /\ disk'.design[a] = {}
    BY BareNext
  <1>2. ASSUME phase' # "down", faults' = 0 PROVE disk' = Stored'
    <2>1. faults = 0
      <3>1. faults \in Nat /\ faults' \in Nat
        BY NextType DEF TypeOK
      <3>2. faults' >= faults
        BY <3>1, LogSteps, RecordedFaults DEF LogUntouched, Reloaded
      <3> QED
        BY <1>2, <3>1, <3>2
    <2>2. CASE Restart
      BY <2>2, StartupStored DEF Startup
    <2>3. CASE ~Restart /\ Startup
      <3>1. phase # "down"
        BY <2>3 DEF Startup, MigrateDesign, BeginRelocation, BeginServing, KeepAgent,
                    RelocateAgent
      <3> QED
        BY <2>1, <2>3, <3>1, StartupStored DEF WrittenThrough
    <2>4. ASSUME NEW a \in Agents, Handler(a) PROVE disk' = Stored'
      <3>1. phase = "up"
        BY <2>4 DEF Handler, Register, SaveAgentRow, Enter, LifeMoveCheck, Move,
                    MoveRejected, SetDesign
      <3> QED
        BY <1>2, <2>1, <2>4, <3>1, HandlerStored DEF WrittenThrough
    <2>5. CASE Tick \/ UNCHANGED vars
      BY <1>2, <2>1, <2>5 DEF Tick, vars, memory, Stored, WrittenThrough
    <2> QED
      BY <2>2, <2>3, <2>4, <2>5 DEF Next
  <1> QED
    BY <1>1, <1>2 DEF WrittenThrough

\* While no store call has failed, a restart brings back every place, design and
\* visit: the handlers, the pruning of visits and start-up write all they change.
THEOREM NothingIsLost == Spec => []NothingToLose
  <1> DEFINE IInv == TypeOK /\ FreshIds /\ LogInOrder /\ WrittenThrough
  <1>1. Init => IInv
    BY InitType, FreshIdsInit, LogInit, WrittenThroughInit
  <1>2. IInv /\ [Next]_vars => IInv'
    BY NextType, FreshIdsNext, LogInOrderNext, WrittenThroughNext
  <1>3. IInv => NothingToLose
    BY DEF WrittenThrough, NothingToLose, Stored
  <1> QED
    BY <1>1, <1>2, <1>3, PTL DEF Spec
=============================================================================
