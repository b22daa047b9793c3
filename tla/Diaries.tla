------------------------------- MODULE Diaries -------------------------------
(***************************************************************************)
(* The mascot's diaries and its line of the day                            *)
(* (a-mate/crates/core/src/{diary/mod,pipeline,mascot,store}.rs,            *)
(* a-mate/src-tauri/src/pipeline.rs).                                       *)
(*                                                                         *)
(* After each scan the thread writes the diaries that are missing: a brief *)
(* is put together under the store's lock, the engine writes outside it,   *)
(* and the result is kept as a file and a row.  A brief leaves out what    *)
(* the diaries of the last days have dealt with, and brings along diaries  *)
(* that must not be repeated.  Then the line of the day is made anew if    *)
(* the facts it was made from have changed.                                *)
(***************************************************************************)
EXTENDS Integers, FiniteSets, FiniteSetsExt

CONSTANTS
  LastDay,      \* bound on the days
  Plans,        \* what a behaviour is about: its days, its findings, whether lines
                \* and pictures are made too, and bounds on failures (calls, lost
                \* files, transcripts read late) and quits; the first state picks one
  Backlog,      \* how many days back diaries are made up for (7)
  Lookback,     \* RECENT_DIARY_LOOKBACK
  SimilarBack,  \* SIMILAR_LOOKBACK
  SimilarMax,   \* SIMILAR_MAX
  Rest          \* weekends and holidays

DiaryAssumption ==
  /\ {LastDay, Backlog, Lookback, SimilarBack, SimilarMax} \subseteq Nat
  /\ Lookback <= SimilarBack /\ Rest \subseteq 1 .. LastDay
  /\ \A p \in Plans : p.days \in 1 .. LastDay /\ IsFiniteSet(p.findings)

Days == 1 .. LastDay
Keys == UNION {p.findings : p \in Plans}

VARIABLES
  plan,
  today,
  busy,     \* days with sessions in daily_rollup
  scope,    \* days on which the scope of a finding had sessions
  cards,    \* findings with status 'new'
  row,      \* days with a row in diary_index
  file,     \* days whose diary can be read
  brief,    \* history: the brief that the diary of a day was made from
  line,     \* the line of the day: its day, and the facts it was made from
  scan,     \* what the scan thread is doing after a scan
  todo,     \* missing dates still to do
  held,     \* the brief that is with the engine
  faults, quits

facts == <<plan, today, busy, scope, cards>>
kept == <<row, file, brief>>
mishaps == <<faults, quits>>
diaryVars == <<facts, kept, line, scan, todo, held, mishaps>>

\* quiet: an idle diary; told: the findings it is about; recent: the diaries
\* excerpted.
Brief == [day : Days, quiet : BOOLEAN, told : SUBSET Keys, recent : SUBSET Days]
NoBrief == [day |-> 0, quiet |-> FALSE, told |-> {}, recent |-> {}]
NoLine == [day |-> 0, facts |-> <<>>]

Fault == faults < plan.faults /\ faults' = faults + 1 /\ quits' = quits

-----------------------------------------------------------------------------
(* The brief of a day (assemble_brief).                                    *)

Readable == row \cap file

Kind(d) == IF d \notin busy THEN "idle" ELSE IF d \in Rest THEN "rest" ELSE "plain"

\* collect_recent_diaries
Window(d) == {e \in Readable : d - Lookback <= e /\ e < d}

\* findings_for_date_all
Of(d) == {k \in cards : d \in scope[k]}

\* Faulty: diaries of the window use up the quota.
SimilarInWindow(d) ==
  LET like == {e \in Readable : d - SimilarBack <= e /\ e < d /\ Kind(e) = Kind(d)}
  IN  IF Kind(d) = "plain" THEN {}
      ELSE {e \in like : Cardinality({f \in like : f > e}) < SimilarMax} \ Window(d)

\* collect_similar_diaries walks back until it has enough.
Similar(d) ==
  LET back[i \in 0 .. SimilarBack] ==
        IF i = 0 THEN {}
        ELSE LET e == d - i
             IN  IF /\ Cardinality(back[i - 1]) < SimilarMax
                    /\ e \in Readable \ Window(d)
                    /\ Kind(e) = Kind(d)
                 THEN back[i - 1] \cup {e} ELSE back[i - 1]
  IN  IF Kind(d) = "plain" THEN {} ELSE back[SimilarBack]

\* What the diaries of the window can have been about.
Covered(d) == UNION {Of(e) : e \in Window(d)}

BriefOf(d) ==
  [day |-> d, quiet |-> d \notin busy,
   told |-> IF d \in busy THEN Of(d) \ Covered(d) ELSE {},
   recent |-> Window(d) \cup Similar(d)]

-----------------------------------------------------------------------------
(* maybe_generate_diaries                                                  *)

\* Faulty: only the day before is looked at.
MissingYesterday == {d \in Days : d = today - 1 /\ d \notin row}
\* missing_diary_dates
Missing == {d \in Days : today - Backlog <= d /\ d < today /\ d \notin row}

ListMissing ==
  /\ scan = "idle"
  /\ scan' = "diaries" /\ todo' = Missing
  /\ UNCHANGED <<facts, kept, line, held, mishaps>>

\* The oldest one first.
Assemble ==
  /\ scan = "diaries" /\ todo # {}
  /\ held' = BriefOf(Min(todo))
  /\ todo' = todo \ {Min(todo)}
  /\ scan' = "render"
  /\ UNCHANGED <<facts, kept, line, mishaps>>

\* persist_diary: the file, then the row.
Persist ==
  /\ scan = "render"
  /\ file' = file \cup {held.day} /\ row' = row \cup {held.day}
  /\ brief' = [brief EXCEPT ![held.day] = held]
  /\ scan' = "diaries" /\ held' = NoBrief
  /\ UNCHANGED <<facts, line, todo, mishaps>>

\* The engine or the disk fails; the next date is tried.
RenderFails ==
  /\ scan = "render" /\ Fault
  /\ scan' = "diaries" /\ held' = NoBrief
  /\ UNCHANGED <<facts, kept, line, todo>>

PersistFails ==
  /\ scan = "render" /\ Fault
  /\ file' = file \cup {held.day}
  /\ scan' = "diaries" /\ held' = NoBrief
  /\ UNCHANGED <<facts, row, brief, line, todo>>

-----------------------------------------------------------------------------
(* maybe_generate_daily_line, after the diaries.                           *)

\* facts_fingerprint
Fingerprint == <<today \in busy, Cardinality(cards)>>

TakeFacts ==
  /\ scan = "diaries" /\ todo = {}
  /\ IF ~plan.lines \/ line = [day |-> today, facts |-> Fingerprint]
     THEN scan' = "cut" /\ held' = held
     ELSE /\ scan' = "line"
          /\ held' = [NoBrief EXCEPT !.day = today, !.quiet = today \notin busy, !.told = cards]
  /\ UNCHANGED <<facts, kept, line, todo, mishaps>>

\* upsert_daily_line, for the day and the facts that were taken.
StoreLine ==
  /\ scan = "line"
  /\ line' = [day |-> held.day, facts |-> <<~held.quiet, Cardinality(held.told)>>]
  /\ scan' = "cut" /\ held' = NoBrief
  /\ UNCHANGED <<facts, kept, todo, mishaps>>

\* A quiet day's line needs no engine.
LineFails ==
  /\ scan = "line" /\ ~held.quiet /\ Fault
  /\ scan' = "cut" /\ held' = NoBrief
  /\ UNCHANGED <<facts, kept, line, todo>>

-----------------------------------------------------------------------------
(* The world: sessions and findings come with scans, the rest at any time. *)

Midnight ==
  /\ today < plan.days
  /\ today' = today + 1
  /\ UNCHANGED <<plan, busy, scope, cards, kept, line, scan, todo, held, mishaps>>

\* A scan reads what was done on day d, within the scopes of K.
Work(d, K) ==
  /\ scan = "idle"
  /\ busy' = busy \cup {d}
  /\ scope' = [k \in Keys |-> IF k \in K THEN scope[k] \cup {d} ELSE scope[k]]
  /\ <<busy', scope'>> # <<busy, scope>>
  /\ UNCHANGED <<plan, today, cards, kept, line, scan, todo, held>>

WorkToday(K) == Work(today, K) /\ UNCHANGED mishaps
\* A host could not be reached, or a transcript not be read, in time.
WorkReadLate(d, K) == d < today /\ Work(d, K) /\ Fault

\* run_rules
Raise(k) ==
  /\ scan = "idle" /\ k \notin cards /\ scope[k] # {}
  /\ cards' = cards \cup {k}
  /\ UNCHANGED <<plan, today, busy, scope, kept, line, scan, todo, held, mishaps>>

\* set_finding_status
Dispose(k) ==
  /\ k \in cards
  /\ cards' = cards \ {k}
  /\ UNCHANGED <<plan, today, busy, scope, kept, line, scan, todo, held, mishaps>>

\* The vault is a folder of the user.
LoseFile(d) ==
  /\ d \in Readable /\ Fault
  /\ file' = file \ {d}
  /\ UNCHANGED <<facts, row, brief, line, scan, todo, held>>

Quitting ==
  /\ quits < plan.quits /\ quits' = quits + 1 /\ faults' = faults
  /\ scan' = "idle" /\ todo' = {} /\ held' = NoBrief

Quit == Quitting /\ UNCHANGED <<facts, kept, line>>

\* Between the file and the row.
QuitBeforeRow ==
  /\ scan = "render" /\ Quitting
  /\ file' = file \cup {held.day}
  /\ UNCHANGED <<facts, row, brief, line>>

-----------------------------------------------------------------------------

DiaryInit ==
  /\ plan \in Plans
  /\ today = 1 /\ busy = {} /\ scope = [k \in Keys |-> {}] /\ cards = {}
  /\ row = {} /\ file = {} /\ brief = [d \in Days |-> NoBrief]
  /\ line = NoLine
  /\ scan = "idle" /\ todo = {} /\ held = NoBrief
  /\ faults = 0 /\ quits = 0

Writing ==
  \/ ListMissing \/ Assemble \/ Persist \/ RenderFails \/ PersistFails
  \/ TakeFacts \/ StoreLine \/ LineFails

Outside ==
  \/ Midnight
  \/ \E K \in SUBSET plan.findings : WorkToday(K) \/ \E d \in Days : WorkReadLate(d, K)
  \/ \E k \in plan.findings : Raise(k) \/ Dispose(k)
  \/ \E d \in Days : LoseFile(d)

-----------------------------------------------------------------------------
(* Properties.                                                             *)

TypeOK ==
  /\ today \in Days /\ busy \subseteq Days /\ scope \in [Keys -> SUBSET Days]
  /\ cards \subseteq Keys /\ row \subseteq Days /\ file \subseteq Days
  /\ brief \in [Days -> Brief \cup {NoBrief}]
  /\ scan \in {"idle", "diaries", "render", "line", "cut"} /\ todo \subseteq Days

\* A finding that a diary was about is not brought up again by a diary of the next
\* days that had that diary at hand, whatever the user and the rules did to the
\* card in between.
NotToldAgain ==
  \A d, e \in row :
    d < e /\ e <= d + Lookback /\ d \in brief[e].recent =>
      brief[d].told \cap brief[e].told = {}

\* A quiet day's diary, or one of a working weekend, knows the last ones of its
\* kind, however many of them lie in the window anyway.
RemembersItsLike ==
  [][scan = "diaries" /\ scan' = "render" =>
       LET d == held'.day
           like == {e \in Readable \ Window(d) :
                      d - SimilarBack <= e /\ e < d /\ Kind(e) = Kind(d)}
       IN  Kind(d) # "plain" =>
             \A e \in like \ held'.recent :
               Cardinality({f \in like \cap held'.recent : f > e}) = SimilarMax]_diaryVars

\* Day after day the diaries differ.
DiariesVary == []NotToldAgain /\ RemembersItsLike

\* Every day of the backlog gets its diary, and the line of the day follows the
\* facts, through failing calls and quits.
EventuallyWritten ==
  /\ \A d \in Days :
       <>[](today = plan.days /\ d < today /\ today - Backlog <= d) => <>[](d \in row)
  /\ \A n \in 0 .. Cardinality(Keys), b \in BOOLEAN :
       <>[](today = plan.days /\ plan.lines /\ Cardinality(cards) = n /\ (today \in busy) = b)
         => <>[](line = [day |-> today, facts |-> <<b, n>>])
=============================================================================
