------------------------------ MODULE HubPages ------------------------------
(***************************************************************************)
(* Pages of the work hub (a-hub/work/ahub/core/services.py): the page tree *)
(* and the life of a page, under concurrent requests.                       *)
(*                                                                         *)
(* Endpoints run on a thread pool.  A single store call is atomic, a        *)
(* handler is not: it reads rows, checks them, and saves a whole row        *)
(* (INSERT OR REPLACE, put_item) built from the one it read.  So every      *)
(* handler is split here at its store calls.  The SQLite and DynamoDB       *)
(* stores hand out copies of rows; that is what is modelled.  Titles,       *)
(* bodies, visibility and flags are left out: editing them saves the row    *)
(* again, which is what matters to the tree.                                *)
(***************************************************************************)
EXTENDS Integers, FiniteSets

CONSTANTS
  Clients,  \* requests that can be in flight at a time
  Pages,    \* page ids
  Spaces,
  SpaceOf,  \* the space a page is created in; nothing changes it later
  Root,     \* parent_id = None
  MaxRequests  \* bound on the number of requests

ASSUME PagesAssumption ==
  /\ SpaceOf \in [Pages -> Spaces]
  /\ Root \notin Pages
  /\ MaxRequests \in Nat

PageStatus == {"absent", "active", "archived", "quarantined", "superseded"}

PageRow == [status : PageStatus, parent : Pages \cup {Root}, superseded_by : Pages \cup {Root}]

NoRow == [status |-> "absent", parent |-> Root, superseded_by |-> Root]

\* A request in flight.  row is the page as the handler read it; other is the
\* parent or the successor the caller names; up and seen are the cycle check's
\* cur.parent_id and visited.
Request ==
  [op : {"none", "create_page", "move_page", "edit_page", "archive_page",
         "quarantine_page", "supersede_page"},
   stage : {"check", "walk", "save"},
   page : Pages \cup {Root}, row : PageRow, other : Pages \cup {Root},
   up : Pages \cup {Root}, seen : SUBSET Pages]

Idle ==
  [op |-> "none", stage |-> "save", page |-> Root, row |-> NoRow, other |-> Root,
   up |-> Root, seen |-> {}]

VARIABLES
  pages,      \* the stored rows
  req,        \* what each request in flight holds
  begun,      \* requests so far
  raced,      \* history: pages that two requests in flight were about to save
  movesRaced  \* history: whether two moves were ever in flight together

pageVars == <<pages, req, begun, raced, movesRaced>>

Exists(p) == pages[p].status # "absent"

-----------------------------------------------------------------------------
(* Handlers, up to and including their first store call.                   *)

Busy(p) == \E c \in Clients : req[c].op # "none" /\ req[c].page = p

Moving == \E c \in Clients : req[c].op = "move_page"

\* A handler starts on page p; other is what the caller names besides p.  It
\* still has to read other, if there is one.
Begin(c, op, p, row, other) ==
  /\ req[c].op = "none"
  /\ begun < MaxRequests /\ begun' = begun + 1
  /\ req' = [req EXCEPT ![c] =
               [op |-> op, stage |-> IF other = Root THEN "save" ELSE "check",
                page |-> p, row |-> row, other |-> other, up |-> Root, seen |-> {}]]
  /\ raced' = IF Busy(p) THEN raced \cup {p} ELSE raced
  /\ movesRaced' = (movesRaced \/ (op = "move_page" /\ Moving))
  /\ UNCHANGED pages

\* create_page; with other = Root also the page resolve_issue publishes and
\* the guide page of create_space.  Ids are fresh.
CreatePage(c, p, parent) ==
  /\ ~Exists(p) /\ ~Busy(p)
  /\ Begin(c, "create_page", p, [NoRow EXCEPT !.status = "active", !.parent = parent], parent)

\* move_page.  It accepts a page of any status.
MovePage(c, p, parent) ==
  /\ Exists(p)
  /\ parent # p
  /\ Begin(c, "move_page", p, pages[p], parent)

\* edit_page, set_visibility, flag_page.
EditPage(c, p) == Exists(p) /\ Begin(c, "edit_page", p, pages[p], Root)

ArchivePage(c, p) == Exists(p) /\ Begin(c, "archive_page", p, pages[p], Root)

QuarantinePage(c, p) == Exists(p) /\ Begin(c, "quarantine_page", p, pages[p], Root)

SupersedePage(c, p, by) ==
  /\ Exists(p)
  /\ by # p
  /\ Begin(c, "supersede_page", p, pages[p], by)

-----------------------------------------------------------------------------
(* The checks on the other page.                                           *)

Rejected(c) == req' = [req EXCEPT ![c] = Idle]

\* Exists, in the page's space, and (as a parent, not as a successor) active.
Acceptable(c) ==
  LET r == req[c]
  IN  /\ Exists(r.other)
      /\ SpaceOf[r.other] = SpaceOf[r.page]
      /\ r.op # "supersede_page" => pages[r.other].status = "active"

\* Faulty: a move is not checked for cycles.
CheckOtherNoWalk(c) ==
  /\ req[c].op # "none" /\ req[c].stage = "check"
  /\ IF ~Acceptable(c) THEN Rejected(c)
     ELSE req' = [req EXCEPT ![c].stage = "save"]
  /\ UNCHANGED <<pages, begun, raced, movesRaced>>

\* The handler reads the other page.  A move goes on to look for a cycle,
\* starting at the new parent it has just read.
CheckOther(c) ==
  /\ req[c].op # "none" /\ req[c].stage = "check"
  /\ IF ~Acceptable(c) THEN Rejected(c)
     ELSE IF req[c].op # "move_page" THEN req' = [req EXCEPT ![c].stage = "save"]
     ELSE req' = [req EXCEPT ![c].stage = "walk",
                             ![c].up = pages[req[c].other].parent,
                             ![c].seen = {req[c].page, req[c].other}]
  /\ UNCHANGED <<pages, begun, raced, movesRaced>>

\* One round of the while loop: read the next page up.
WalkUp(c) ==
  LET r == req[c]
  IN  /\ r.op = "move_page" /\ r.stage = "walk"
      /\ IF r.up = Root THEN req' = [req EXCEPT ![c].stage = "save"]
         ELSE IF r.up \in r.seen THEN Rejected(c)
         ELSE req' = [req EXCEPT ![c].up = pages[r.up].parent,
                                 ![c].seen = r.seen \cup {r.up}]
      /\ UNCHANGED <<pages, begun, raced, movesRaced>>

-----------------------------------------------------------------------------
(* The save.                                                               *)

\* Faulty: an edit rebuilds the page with the default status.
EditedReset(row) == [row EXCEPT !.status = "active"]

\* An edit keeps everything this module knows of a page.
Edited(row) == row

Superseded(row, by) == [row EXCEPT !.status = "superseded", !.superseded_by = by]

\* The row a request saves, from the row it read.
Result(r) ==
  CASE r.op = "create_page" -> r.row
    [] r.op = "move_page" -> [r.row EXCEPT !.parent = r.other]
    [] r.op = "edit_page" -> Edited(r.row)
    [] r.op = "archive_page" -> [r.row EXCEPT !.status = "archived"]
    [] r.op = "quarantine_page" -> [r.row EXCEPT !.status = "quarantined"]
    [] r.op = "supersede_page" -> Superseded(r.row, r.other)

Save(c) ==
  /\ req[c].op # "none" /\ req[c].stage = "save"
  /\ pages' = [pages EXCEPT ![req[c].page] = Result(req[c])]
  /\ req' = [req EXCEPT ![c] = Idle]
  /\ UNCHANGED <<begun, raced, movesRaced>>

\* The hub stops (or a store call fails) before the save.
Dropped(c) ==
  /\ req[c].op # "none"
  /\ Rejected(c)
  /\ UNCHANGED <<pages, begun, raced, movesRaced>>

-----------------------------------------------------------------------------
PagesInit ==
  /\ pages = [p \in Pages |-> NoRow]
  /\ req = [c \in Clients |-> Idle]
  /\ begun = 0
  /\ raced = {}
  /\ movesRaced = FALSE

PagesNext ==
  \E c \in Clients :
    \/ \E p \in Pages :
         \/ \E q \in Pages \cup {Root} : CreatePage(c, p, q) \/ MovePage(c, p, q)
         \/ \E q \in Pages : SupersedePage(c, p, q)
         \/ EditPage(c, p) \/ ArchivePage(c, p) \/ QuarantinePage(c, p)
    \/ CheckOther(c) \/ WalkUp(c) \/ Save(c) \/ Dropped(c)

PagesSpec == PagesInit /\ [][PagesNext]_pageVars

-----------------------------------------------------------------------------
(* Properties.                                                             *)

PagesTypeOK ==
  /\ pages \in [Pages -> PageRow]
  /\ req \in [Clients -> Request]
  /\ begun \in 0 .. MaxRequests
  /\ raced \subseteq Pages
  /\ movesRaced \in BOOLEAN

\* A page's parent and its successor are other stored pages of its space, however
\* requests interleave.
LinksStayInSpace ==
  \A p \in Pages : Exists(p) =>
    \A q \in {pages[p].parent, pages[p].superseded_by} \ {Root} :
      q # p /\ Exists(q) /\ SpaceOf[q] = SpaceOf[p]

\* No set of pages holds the parents of all its members.
Acyclic == \A S \in SUBSET Pages : S # {} => \E p \in S : pages[p].parent \notin S

\* The cycle check works as long as nobody interferes: a cycle, whose pages
\* vanish from the tree of the space, takes two moves in flight together or two
\* requests saving the same page.
AcyclicUnlessRaced == ~movesRaced /\ raced = {} => Acyclic

\* The pages of a space form a tree, as far as requests did not race.
TreeHolds == LinksStayInSpace /\ AcyclicUnlessRaced

\* A page that was archived, quarantined or superseded never becomes active
\* again, unless requests raced to save it.
RetiredForGood ==
  [][\A p \in Pages \ raced : pages[p].status \notin {"absent", "active"} =>
       pages'[p].status \notin {"absent", "active"}]_pageVars

\* The comment on move_page: "the new parent must not be a descendant".
NoCycles == Acyclic
=============================================================================
