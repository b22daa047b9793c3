------------------------------ MODULE DailyCut ------------------------------
(***************************************************************************)
(* The picture of the day, drawn after the latest diary                    *)
(* (a-mate/src-tauri/src/pipeline.rs, a-mate/crates/core/src/sprite.rs).    *)
(*                                                                         *)
(* The scan draws it once for a diary, and tries a few times a day at      *)
(* most, since pictures cost money; a button draws whenever it is pressed, *)
(* in a thread of its own.  What is on show is two files, the picture and  *)
(* daily_cut.json, which holds its date and the number of attempts.        *)
(***************************************************************************)
EXTENDS Diaries

CONSTANTS
  MaxAttempts,  \* MAX_CUT_ATTEMPTS_PER_DAY
  MaxClicks     \* bound on how often the button is pressed

CutAssumption == MaxAttempts \in Nat \ {0} /\ MaxClicks \in Nat

Drawers == {"scan", "button"}

VARIABLES
  meta,    \* daily_cut.json
  png,     \* the day of the picture on show, 0 if none
  lock,    \* who holds CUT_GENERATION_LOCK
  drawer,  \* where a drawer is, with its copy of the metadata
  calls,   \* history: calls for pictures of one day
  torn,    \* history: quit between the two files, or neither could be restored
  clicks

cutVars == <<meta, png, lock, drawer, calls, torn, clicks>>
vars == <<diaryVars, cutVars>>

\* CutState
Meta == [cut : 0 .. LastDay, day : 0 .. LastDay, attempts : Nat]
Resting == [at |-> "idle", meta |-> [cut |-> 0, day |-> 0, attempts |-> 0]]

Released(t) == lock' = "free" /\ drawer' = [drawer EXCEPT ![t] = Resting]
\* A drawer that is done: the scan is over, too.
Done(t) ==
  /\ Released(t)
  /\ scan' = IF t = "scan" THEN "idle" ELSE scan
  /\ UNCHANGED <<facts, kept, line, todo, held, clicks>>

Latest == Max(row)
CanDraw == row # {} /\ Latest \in file

\* decide_cut
DecideCut ==
  /\ ~(meta.cut = Latest /\ png # 0)
  /\ ~(meta.day = Latest /\ meta.attempts >= MaxAttempts)

\* register_attempt
Attempt(m, d) ==
  [m EXCEPT !.day = d, !.attempts = IF m.day = d THEN m.attempts + 1 ELSE 1]

\* generate_daily_cut_core up to the attempt, with the lock and a diary.
Turn(t) ==
  /\ plan.draws /\ lock = "free" /\ drawer[t].at = "idle" /\ CanDraw
  /\ IF t = "scan" THEN scan = "cut" /\ DecideCut ELSE clicks < MaxClicks

Click(t) == clicks' = IF t = "button" THEN clicks + 1 ELSE clicks

\* The attempt is on disk before anything is sent.
Begin(t) ==
  /\ Turn(t)
  /\ meta' = Attempt(meta, Latest)
  /\ drawer' = [drawer EXCEPT ![t] = [at |-> "draw", meta |-> meta']]
  /\ lock' = t /\ Click(t)
  /\ UNCHANGED <<diaryVars, png, calls, torn>>

\* No record, no attempt.
BeginFails ==
  /\ Turn("scan") /\ Fault
  /\ scan' = "idle"
  /\ UNCHANGED <<facts, kept, line, todo, held, cutVars>>

Counted(t) ==
  LET d == drawer[t].meta.day
      c == IF calls.day = d THEN calls ELSE [day |-> d, auto |-> 0, all |-> 0]
  IN  calls' = [c EXCEPT !.all = @ + 1, !.auto = @ + IF t = "scan" THEN 1 ELSE 0]

Draw(t) ==
  /\ drawer[t].at = "draw"
  /\ Counted(t)
  /\ drawer' = [drawer EXCEPT ![t].at = "save"]
  /\ UNCHANGED <<diaryVars, meta, png, lock, torn, clicks>>

DrawFails(t) ==
  /\ drawer[t].at = "draw" /\ Fault
  /\ Counted(t)
  /\ Done(t)
  /\ UNCHANGED <<meta, png, torn>>

\* register_success, before the picture that lies ready in a file of its own.
SaveMeta(t) ==
  /\ drawer[t].at = "save"
  /\ meta' = [drawer[t].meta EXCEPT !.cut = drawer[t].meta.day]
  /\ drawer' = [drawer EXCEPT ![t].at = "rename"]
  /\ UNCHANGED <<diaryVars, png, lock, calls, torn, clicks>>

SaveMetaFails(t) ==
  /\ drawer[t].at = "save" /\ Fault
  /\ Done(t)
  /\ UNCHANGED <<meta, png, calls, torn>>

Rename(t) ==
  /\ drawer[t].at = "rename"
  /\ png' = drawer[t].meta.day /\ torn' = FALSE
  /\ Done(t)
  /\ UNCHANGED <<meta, calls, mishaps>>

\* Faulty: the metadata stays.
RenameFailsKept(t) ==
  /\ drawer[t].at = "rename" /\ Fault
  /\ Done(t)
  /\ UNCHANGED <<meta, png, calls, torn>>
\* The picture cannot be put in place: the metadata goes back.
RenameFails(t) ==
  /\ drawer[t].at = "rename" /\ Fault
  /\ meta' = drawer[t].meta
  /\ Done(t)
  /\ UNCHANGED <<png, calls, torn>>

\* Neither can.
RestoreFails(t) ==
  /\ drawer[t].at = "rename" /\ Fault
  /\ torn' = TRUE
  /\ Done(t)
  /\ UNCHANGED <<meta, png, calls>>

\* It is switched off (daily_cut_enabled), somebody else is drawing, there is no
\* diary, or decide_cut says no.
SkipCut ==
  /\ scan = "cut" /\ drawer["scan"].at = "idle"
  /\ ~(plan.draws /\ lock = "free" /\ CanDraw /\ DecideCut)
  /\ scan' = "idle"
  /\ UNCHANGED <<facts, kept, line, todo, held, mishaps, cutVars>>

LosePng ==
  /\ png # 0 /\ lock = "free" /\ Fault
  /\ png' = 0
  /\ UNCHANGED <<facts, kept, line, scan, todo, held, meta, lock, drawer, calls, torn, clicks>>

\* The app is quit, at any point of a diary or a picture.
Stop ==
  /\ Quit \/ QuitBeforeRow
  /\ lock' = "free" /\ drawer' = [t \in Drawers |-> Resting]
  /\ torn' = (torn \/ \E t \in Drawers : drawer[t].at = "rename")
  /\ UNCHANGED <<meta, png, calls, clicks>>

-----------------------------------------------------------------------------

Init ==
  /\ DiaryInit
  /\ meta = Resting.meta /\ png = 0
  /\ lock = "free" /\ drawer = [t \in Drawers |-> Resting]
  /\ calls = [day |-> 0, auto |-> 0, all |-> 0] /\ torn = FALSE /\ clicks = 0

Drawing(t) ==
  \/ Begin(t) \/ Draw(t) \/ DrawFails(t)
  \/ SaveMeta(t) \/ SaveMetaFails(t)
  \/ Rename(t) \/ RenameFails(t) \/ RestoreFails(t)

Diary == (Writing \/ Outside) /\ UNCHANGED cutVars

Next ==
  \/ Diary
  \/ \E t \in Drawers : Drawing(t)
  \/ BeginFails \/ SkipCut \/ LosePng \/ Stop

Spec == Init /\ [][Next]_vars

\* Scans go on, with all their steps.
FairSpec ==
  /\ Spec
  /\ WF_vars(Writing /\ UNCHANGED cutVars)
  /\ WF_vars(SkipCut) /\ WF_vars(Drawing("scan"))

-----------------------------------------------------------------------------
(* Properties.                                                             *)

CutTypeOK ==
  /\ TypeOK /\ meta \in Meta /\ png \in 0 .. LastDay
  /\ lock \in Drawers \cup {"free"}

\* The date and caption on show are those of the picture on show, unless the app
\* was quit between the two files or neither could be put back (until the next
\* picture).
PairFits == lock = "free" /\ png # 0 /\ ~torn => meta.cut = png

\* No picture is asked for that is not on record, and the scan asks for no more
\* than MaxAttempts in a day, although the button and quits come in between.
OnBudget ==
  /\ calls.auto <= MaxAttempts
  /\ meta.day = calls.day => calls.all <= meta.attempts

\* The picture of the day: its pair of files fits, and it is drawn on budget.
CutInOrder == PairFits /\ OnBudget
=============================================================================
