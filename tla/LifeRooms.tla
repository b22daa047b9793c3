------------------------------ MODULE LifeRooms ------------------------------
(***************************************************************************)
(* Rooms, places and room designs of the Life server                       *)
(* (a-hub/life/life_server/life.py, store.py, api.py).                      *)
(*                                                                         *)
(* The server keeps its state in memory and writes every change through to *)
(* SQLite; each handler runs under one global lock, each save_* call is a  *)
(* commit of its own, and a restart reloads everything and repairs what    *)
(* it loaded.  A store call may fail (an exception leaves memory changed   *)
(* and the request answered with an error), and the process may stop at    *)
(* any time: a stop inside a handler leaves on disk what a failure after   *)
(* the same number of commits leaves, so the two share their actions.      *)
(* Nothing rolls the connection back: what a failing call had executed     *)
(* stays in its transaction, is committed with the next call that does not *)
(* fail, and is lost if none comes.  The failure decides which it will be. *)
(***************************************************************************)
EXTENDS LifeVisits

CONSTANTS
  GridW, GridH,   \* GRID_W, GRID_H: the square grid (all of it legal before protocol v4)
  FloorDepth,     \* FLOOR_DEPTH: cells with x + y < FloorDepth are floor
  Spawn,          \* <<SPAWN_X, SPAWN_Y>>
  Pieces,         \* the furniture and windows a design request may place
  Nobody,         \* "no pending request", "no cell given"
  LegacyDesigns,  \* designs a database of an older protocol may hold
  MaxFaults       \* bound on the number of failed store calls

Cell == (0 .. GridW - 1) \X (0 .. GridH - 1)

\* _is_floor_cell
Floor == {c \in Cell : c[1] + c[2] < FloorDepth}

\* A LifeObject by what it takes up: cells of the floor (occupied_cells, with
\* footprint and rotation applied) and, for a window, cells of a wall.
Piece == [window : BOOLEAN, cells : SUBSET (Nat \X Nat), wall : SUBSET (STRING \X Nat)]

OnFloor(D) == \A p \in D : ~p.window => p.cells \subseteq Floor

NoClash(D) ==
  \A p, q \in D : p # q =>
    /\ p.window /\ q.window => p.wall \cap q.wall = {}
    /\ ~p.window /\ ~q.window => p.cells \cap q.cells = {}

\* The checks of set_design on the pieces themselves.
ValidDesign(D) == OnFloor(D) /\ NoClash(D)

ASSUME RoomAssumption ==
  /\ GridW \in Nat /\ GridH \in Nat /\ FloorDepth \in Nat
  /\ Spawn \in Floor
  /\ Pieces \subseteq Piece
  /\ LegacyDesigns \subseteq SUBSET Pieces
  /\ \A D \in LegacyDesigns : NoClash(D)
  /\ Nobody \notin Cell /\ Nobody \notin [room : Agents, cell : Floor]
  /\ MaxFaults \in Nat

VARIABLES
  phase,    \* "down" (never started), "migrating", "relocating", "up"
  todo,     \* what the start-up loop still has to visit
  rooms,    \* _life: the rooms that exist
  reg,      \* _agents: the registered agents
  at,       \* at_life of each agent
  cell,     \* cell of each agent
  design,   \* design.objects of each room
  visits,   \* _visits
  strays,   \* (history) ids of the visits dropped from memory whose delete failed
  disk,     \* what SQLite has committed or will with the next commit
  minted,   \* agent ids handed out so far (they are random, never reused)
  request,  \* a life_move request between its two lock sections
  now,      \* the clock
  faults    \* failed store calls so far

memory == <<rooms, reg, at, cell, design, visits>>
vars == <<phase, todo, memory, disk, minted, request, now, faults, strays>>

-----------------------------------------------------------------------------
(* Geometry and occupancy.                                                 *)

Abs(n) == IF n < 0 THEN -n ELSE n

\* Chebyshev distance between two cells.
Dist(c, d) ==
  LET dx == Abs(c[1] - d[1])
      dy == Abs(c[2] - d[2])
  IN  IF dx > dy THEN dx ELSE dy

FurnitureCells(D) == UNION {p.cells : p \in {q \in D : ~q.window}}

Furniture(r) == IF r \in rooms THEN FurnitureCells(design[r]) ELSE {}

OthersAt(r, a) == {b \in reg \ {a} : at[b] = r}

\* Faulty: another agent does not block the cell.
OccupiedByFurniture(r, c, a) == c \in Furniture(r)

\* _occupied_locked
Occupied(r, c, a) ==
  \/ \E b \in OthersAt(r, a) : cell[b] = c
  \/ c \in Furniture(r)

\* _free_cell_locked: the cells it may return.  It prefers cells at distance
\* 3, then 2, of everyone else, and among those the ones nearest to the spawn
\* point; a hash of the agent breaks ties.  Empty when the room is full.
FreeCells(r, a) ==
  LET others == {cell[b] : b \in OthersAt(r, a)} \cap Floor
      free == Floor \ (others \cup Furniture(r))
      Clear(k) == {c \in free : \A o \in others : Dist(c, o) >= k}
      pool == IF Clear(3) # {} THEN Clear(3)
              ELSE IF Clear(2) # {} THEN Clear(2)
              ELSE free
  IN  {c \in pool : \A d \in pool : Dist(c, Spawn) <= Dist(d, Spawn)}

\* What start-up keeps of a stored design (protocol v4 dropped half the grid).
KeptPieces(D) == {p \in D : p.window \/ p.cells \subseteq Floor}

-----------------------------------------------------------------------------
(* The database.                                                           *)

EmptyDisk ==
  [rooms |-> {}, reg |-> {}, at |-> [a \in Agents |-> a],
   cell |-> [a \in Agents |-> Spawn], design |-> [a \in Agents |-> {}],
   visits |-> {}]

\* A database left by the protocol before v4: everyone registered, places
\* anywhere on the grid, designs whose furniture does not overlap.
LegacyDisk ==
  {d \in [rooms : {Agents}, reg : {Agents}, at : [Agents -> Agents],
          cell : [Agents -> Cell], design : [Agents -> LegacyDesigns],
          visits : {{}}] :
     /\ \A a, b \in Agents : a # b /\ d.at[a] = d.at[b] => d.cell[a] # d.cell[b]
     /\ \A a \in Agents : d.cell[a] \notin FurnitureCells(d.design[d.at[a]])}

\* save_agent: the whole row of agent a.
WithAgent(d, a, r, c) ==
  [d EXCEPT !.reg = @ \cup {a}, !.at = [@ EXCEPT ![a] = r], !.cell = [@ EXCEPT ![a] = c]]

StoreFails == faults < MaxFaults /\ faults' = faults + 1

\* A handler with a single store call: it commits d, or fails and leaves the
\* database as it was, or d or what d is after some of its statements for the
\* next commit.
Written(d, partial) ==
  \/ disk' = d /\ UNCHANGED faults
  \/ StoreFails /\ disk' \in {disk, d} \cup partial

-----------------------------------------------------------------------------
(* Start-up: LifeService.__init__.                                         *)

Init ==
  /\ phase = "down"
  /\ todo = {} /\ rooms = {} /\ reg = {} /\ visits = {}
  /\ at = EmptyDisk.at /\ cell = EmptyDisk.cell /\ design = EmptyDisk.design
  /\ disk \in {EmptyDisk} \cup LegacyDisk
  /\ minted = disk.reg
  /\ request = [a \in Agents |-> Nobody]
  /\ now = 0 /\ faults = 0 /\ strays = {}

\* The process stops, wherever it was, and a new one loads the database.
Restart ==
  /\ phase' = "migrating"
  /\ todo' = disk.rooms
  /\ rooms' = disk.rooms /\ reg' = disk.reg
  /\ at' = disk.at /\ cell' = disk.cell
  /\ design' = disk.design /\ visits' = disk.visits
  /\ request' = [a \in Agents |-> Nobody]
  /\ UNCHANGED <<disk, minted, now, faults, strays>>

\* Faulty: the migrated design is not saved.
MigrateInMemory(r) ==
  /\ phase = "migrating" /\ r \in todo
  /\ design' = [design EXCEPT ![r] = KeptPieces(design[r])]
  /\ todo' = todo \ {r}
  /\ UNCHANGED <<phase, rooms, reg, at, cell, visits, disk, minted, request, now, faults, strays>>

\* Drop the furniture that no longer stands on floor, one room at a time.
MigrateDesign(r) ==
  /\ phase = "migrating" /\ r \in todo
  /\ design' = [design EXCEPT ![r] = KeptPieces(design[r])]
  /\ disk' = [disk EXCEPT !.design = [@ EXCEPT ![r] = KeptPieces(design[r])]]
  /\ todo' = todo \ {r}
  /\ UNCHANGED <<phase, rooms, reg, at, cell, visits, minted, request, now, faults, strays>>

BeginRelocation ==
  /\ phase = "migrating" /\ todo = {}
  /\ phase' = "relocating"
  /\ todo' = {a \in reg : at[a] \in rooms}
  /\ UNCHANGED <<memory, disk, minted, request, now, faults, strays>>

\* Faulty: applies the spawn buffer to agents that were well placed.
StaysPutIfBuffered(a) ==
  /\ cell[a] \in Floor \ Furniture(at[a])
  /\ \A b \in OthersAt(at[a], a) : Dist(cell[a], cell[b]) >= 2

\* _relocate_invalid_agents, one agent.  `used` is where the agents already
\* visited in this room stand.  Sorted ids give the code one order; ids are
\* random, so any order is possible.
StaysPut(a) ==
  LET used == {cell[b] : b \in {b \in reg \ todo : at[b] = at[a]}}
  IN  cell[a] \in Floor \ (Furniture(at[a]) \cup used)

KeepAgent(a) ==
  /\ phase = "relocating" /\ a \in todo
  /\ StaysPut(a)
  /\ todo' = todo \ {a}
  /\ UNCHANGED <<phase, memory, disk, minted, request, now, faults, strays>>

RelocateAgent(a) ==
  /\ phase = "relocating" /\ a \in todo
  /\ ~StaysPut(a)
  /\ \E c \in FreeCells(at[a], a) :
       /\ cell' = [cell EXCEPT ![a] = c]
       /\ disk' = WithAgent(disk, a, at[a], c)
  /\ todo' = todo \ {a}
  /\ UNCHANGED <<phase, rooms, reg, at, design, visits, minted, request, now, faults, strays>>

BeginServing ==
  /\ phase = "relocating" /\ todo = {}
  /\ phase' = "up"
  /\ UNCHANGED <<todo, memory, disk, minted, request, now, faults, strays>>

-----------------------------------------------------------------------------
(* Request handlers.                                                       *)

\* register with a new name: a new agent with a room of its own.  The room is
\* inserted first (save_registration).
Register(a) ==
  /\ phase = "up" /\ a \in Agents \ minted
  /\ minted' = minted \cup {a}
  /\ rooms' = rooms \cup {a} /\ reg' = reg \cup {a}
  /\ design' = [design EXCEPT ![a] = {}]
  /\ at' = [at EXCEPT ![a] = a]
  /\ \E c \in FreeCells(a, a) :
       /\ cell' = [cell EXCEPT ![a] = c]
       /\ Written([WithAgent(disk, a, a, c) EXCEPT !.rooms = @ \cup {a}],
                  {[disk EXCEPT !.rooms = @ \cup {a}]})
  /\ UNCHANGED <<phase, todo, visits, request, now, strays>>

\* The calls that only write the agent's row again as far as places go:
\* register with a known name, _touch (last_seen, every 30 s), rename,
\* set_bubble, set_daily_line, set_hub_user, disconnect.  A disconnected
\* agent keeps its place.
SaveAgentRow(a) ==
  /\ phase = "up" /\ a \in reg
  /\ disk' = WithAgent(disk, a, at[a], cell[a])
  /\ UNCHANGED <<phase, todo, memory, minted, request, now, faults, strays>>

\* _record_visit_locked with its commits, and save_agent before it.  r # a:
\* nobody visits their own room.
RecordVisit(a, r, seated) ==
  LET row == VisitAt(visits, r, a, now)
      rows == Upsert(visits, row)
      stored == [seated EXCEPT !.visits = Upsert(@, row)]
      excess == Excess(visits, rows, r)
  IN  \/ /\ \E D \in Oldest(rows, r, excess) :
              /\ visits' = rows \ D
              /\ disk' = [stored EXCEPT !.visits = Without(@, D)]
         /\ UNCHANGED <<faults, strays>>
      \/ StoreFails /\ visits' = rows /\ disk' \in {seated, stored} /\ UNCHANGED strays
      \/ /\ StoreFails
         /\ \E n \in 1 .. excess : \E D \in Oldest(rows, r, n) :
              \E gone \in {D} \cup {G \in SUBSET D : G \in Oldest(rows, r, n - 1)} :
                /\ visits' = rows \ D
                /\ disk' = [stored EXCEPT !.visits = Without(@, gone)]
                /\ strays' = strays \cup Ids(D \ gone)

\* enter: take a cell in room r, the one asked for or one the server picks.
\* Leaving the previous room is the same assignment.
Enter(a, r, wanted) ==
  /\ phase = "up" /\ a \in reg /\ r \in rooms
  /\ \E c \in (IF wanted = Nobody THEN FreeCells(r, a) ELSE {wanted} \cap Floor) :
       /\ ~Occupied(r, c, a)
       /\ at' = [at EXCEPT ![a] = r]
       /\ cell' = [cell EXCEPT ![a] = c]
       /\ LET seated == WithAgent(disk, a, r, c)
          IN  \/ StoreFails /\ disk' \in {disk, seated} /\ UNCHANGED <<visits, strays>>
              \/ r = a /\ disk' = seated /\ UNCHANGED <<visits, faults, strays>>
              \/ r # a /\ RecordVisit(a, r, seated)
  /\ UNCHANGED <<phase, todo, rooms, reg, design, minted, request, now>>

\* POST /life/{id}/move, first lock section: me() tells the handler that the
\* caller is in room r.  One such request is in flight at a time.
LifeMoveCheck(a, r, c) ==
  /\ phase = "up" /\ a \in reg /\ c \in Floor
  /\ at[a] = r
  /\ \A b \in Agents : request[b] = Nobody
  /\ request' = [request EXCEPT ![a] = [room |-> r, cell |-> c]]
  /\ UNCHANGED <<phase, todo, memory, disk, minted, now, faults, strays>>

\* ... second lock section: move() in whatever room the agent is in by now.
Move(a) ==
  /\ phase = "up" /\ request[a] # Nobody
  /\ ~Occupied(at[a], request[a].cell, a)
  /\ cell' = [cell EXCEPT ![a] = request[a].cell]
  /\ Written(WithAgent(disk, a, at[a], request[a].cell), {})
  /\ request' = [request EXCEPT ![a] = Nobody]
  /\ UNCHANGED <<phase, todo, rooms, reg, at, design, visits, minted, now, strays>>

MoveRejected(a) ==
  /\ phase = "up" /\ request[a] # Nobody
  /\ Occupied(at[a], request[a].cell, a)
  /\ request' = [request EXCEPT ![a] = Nobody]
  /\ UNCHANGED <<phase, todo, memory, disk, minted, now, faults, strays>>

\* set_design: the owner replaces the design of a room; its rows are deleted and
\* inserted one by one (save_design).
SetDesign(a, r, D) ==
  /\ phase = "up" /\ a \in reg /\ r \in rooms
  /\ r = a
  /\ ValidDesign(D)
  /\ \A b \in reg : at[b] = r => cell[b] \notin FurnitureCells(D)
  /\ design' = [design EXCEPT ![r] = D]
  /\ Written([disk EXCEPT !.design = [@ EXCEPT ![r] = D]],
             {[disk EXCEPT !.design = [@ EXCEPT ![r] = E]] : E \in SUBSET D})
  /\ UNCHANGED <<phase, todo, rooms, reg, at, cell, visits, minted, request, now, strays>>

Tick ==
  /\ now < MaxTime /\ now' = now + 1
  /\ UNCHANGED <<phase, todo, memory, disk, minted, request, faults, strays>>

-----------------------------------------------------------------------------
Startup ==
  \/ Restart \/ BeginRelocation \/ BeginServing
  \/ \E r \in Agents : MigrateDesign(r)
  \/ \E a \in Agents : KeepAgent(a) \/ RelocateAgent(a)

Handler(a) ==
  \/ Register(a) \/ SaveAgentRow(a)
  \/ \E r \in Agents, wanted \in Floor \cup {Nobody} : Enter(a, r, wanted)
  \/ \E r \in Agents, c \in Floor : LifeMoveCheck(a, r, c)
  \/ Move(a) \/ MoveRejected(a)
  \/ \E r \in Agents, D \in SUBSET Pieces : SetDesign(a, r, D)

Next == Startup \/ (\E a \in Agents : Handler(a)) \/ Tick

Spec == Init /\ [][Next]_vars

-----------------------------------------------------------------------------
(* Properties.                                                             *)

DiskType ==
  [rooms : SUBSET Agents, reg : SUBSET Agents, at : [Agents -> Agents],
   cell : [Agents -> Cell], design : [Agents -> SUBSET Pieces],
   visits : SUBSET VisitRow]

\* The types of the server's memory, of its database and of its requests.
TypeOK ==
  /\ phase \in {"down", "migrating", "relocating", "up"}
  /\ todo \in SUBSET Agents
  /\ rooms \in SUBSET Agents /\ reg \in SUBSET Agents /\ minted \in SUBSET Agents
  /\ at \in [Agents -> Agents] /\ cell \in [Agents -> Cell]
  /\ design \in [Agents -> SUBSET Pieces]
  /\ visits \in SUBSET VisitRow
  /\ disk \in DiskType
  /\ request \in [Agents -> [room : Agents, cell : Floor] \cup {Nobody}]
  /\ now \in Time
  /\ faults \in 0 .. MaxFaults
  /\ strays \in SUBSET (Agents \X Agents \X Time)

\* Agents of A stand in their rooms on floor, off the furniture, one per cell.
Placed(A) ==
  \A a \in A : at[a] \in rooms =>
    /\ cell[a] \in Floor \ Furniture(at[a])
    /\ \A b \in A \ {a} : at[b] = at[a] => cell[b] # cell[a]

\* While the server answers requests no two agents of a room share a cell and
\* none stands in furniture, whatever stopped, failed or was loaded before:
\* enter, move, set_design and the start-up repair each check only their part.
NoOverlap == phase = "up" => Placed(reg)

\* The furniture of a room that is being served stands on floor and does not
\* overlap; set_design checks it for one request, start-up after loading.
DesignsFit == phase = "up" => \A r \in rooms : ValidDesign(design[r])

\* Rooms are fit to be served: agents, furniture and floor never contradict each
\* other.
RoomsFit == NoOverlap /\ DesignsFit

\* While no store call has failed, a restart brings back what clients were
\* told: every place, design and visit in memory is committed (write-through).
NothingToLose ==
  phase = "up" /\ faults = 0 =>
    disk = [rooms |-> rooms, reg |-> reg, at |-> at, cell |-> cell,
            design |-> design, visits |-> visits]

\* Start-up moves an agent only if its stored place is no longer legal or
\* another agent of the room has it (_relocate_invalid_agents: "only the bots
\* in an inactive or conflicting position").
OnlyInvalidRelocated ==
  [][phase = "relocating" /\ phase' = "relocating" =>
       \A a \in Agents : cell'[a] # cell[a] =>
         \/ cell[a] \notin Floor \ Furniture(at[a])
         \/ \E b \in OthersAt(at[a], a) : cell[b] = cell[a]]_vars

\* Two rows of one visitor in one room are two sessions: the later one starts
\* more than the session window after the earlier one was last extended.  The
\* exception: a row that was pruned from memory but not from disk (`strays`)
\* comes back at a restart, beside the row its visitor has begun in between.
SessionsApart ==
  \A x, y \in visits :
    /\ x.room = y.room /\ x.visitor = y.visitor /\ x.first < y.first
    /\ VisitId(x) \notin strays
    => y.first - x.last > SessionWindow

\* A room keeps at most VisitsMax rows, in memory and on disk; a store failure
\* in the middle of an arrival may leave one row more until the next arrival.
VisitsBounded ==
  \A r \in {x.room : x \in visits \cup disk.visits} :
    /\ Cardinality(RowsOf(visits, r)) <= VisitsMax + faults
    /\ Cardinality(RowsOf(disk.visits, r)) <= VisitsMax + faults

\* The log of visits stays in order through restarts and failing commits: one
\* row for a session, and no more than VisitsMax.
VisitLogKept == SessionsApart /\ VisitsBounded
=============================================================================
