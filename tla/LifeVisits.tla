----------------------------- MODULE LifeVisits -----------------------------
(***************************************************************************)
(* The inbound visit log of the Life server (a-hub/life/life_server):      *)
(* which row an arrival creates or extends, and which rows are dropped     *)
(* when a room has too many.  Only operators: LifeRooms applies them       *)
(* inside its Enter handler, as life.py applies them under the same lock.  *)
(***************************************************************************)
EXTENDS Integers, FiniteSets

CONSTANTS
  Agents,         \* agents; a room is named by the agent that owns it
  SessionWindow,  \* VISIT_SESSION_WINDOW_SECS (30 minutes)
  VisitsMax,      \* VISITS_MAX_PER_LIFE (100)
  MaxTime         \* bound on the clock

ASSUME VisitAssumption ==
  /\ SessionWindow \in Nat
  /\ VisitsMax \in Nat \ {0}
  /\ MaxTime \in Nat

Time == 0 .. MaxTime

\* One stored visit.
VisitRow == [room : Agents, visitor : Agents, first : Time, last : Time]

\* visit_id, which is random: a row is told by whose it is and when it began.
\* (Two rows that a pair begins at the same time, the first of them pruned in
\* between, are one here.)
VisitId(x) == <<x.room, x.visitor, x.first>>
Ids(rows) == {VisitId(x) : x \in rows}

RowsOf(rows, r) == {x \in rows : x.room = r}

\* Faulty: closes a session the moment its window is reached.
OpenSessionStrictly(rows, r, v, t) ==
  {x \in RowsOf(rows, r) :
     /\ x.visitor = v
     /\ \A y \in RowsOf(rows, r) : y.visitor = v => y.first <= x.first
     /\ t - x.last < SessionWindow}

\* Room r's newest row for visitor v, if its session is still open at time t.
OpenSession(rows, r, v, t) ==
  {x \in RowsOf(rows, r) :
     /\ x.visitor = v
     /\ \A y \in RowsOf(rows, r) : y.visitor = v => y.first <= x.first
     /\ t - x.last <= SessionWindow}

\* The row an arrival writes: the open session carried on to t, or a new one.
VisitAt(rows, r, v, t) ==
  LET open == OpenSession(rows, r, v, t)
  IN  IF open = {}
      THEN [room |-> r, visitor |-> v, first |-> t, last |-> t]
      ELSE [(CHOOSE x \in open : TRUE) EXCEPT !.last = t]

\* Upsert by row identity, as save_visit does.
Upsert(rows, x) == {y \in rows : VisitId(y) # VisitId(x)} \cup {x}

\* delete_visit for each row of D, by identity.
Without(rows, D) == {y \in rows : VisitId(y) \notin Ids(D)}

\* The sets of n rows of room r that may go first; last_at decides, and rows
\* with the same last_at go in list order, which is not modelled.
Oldest(rows, r, n) ==
  {D \in SUBSET RowsOf(rows, r) :
     /\ Cardinality(D) = n
     /\ \A d \in D, k \in RowsOf(rows, r) \ D : d.last <= k.last}

\* How many rows must go after a new row; an extended session prunes nothing.
Excess(before, after, r) ==
  LET n == Cardinality(RowsOf(after, r))
  IN  IF n > Cardinality(RowsOf(before, r)) /\ n > VisitsMax
      THEN n - VisitsMax
      ELSE 0
=============================================================================
