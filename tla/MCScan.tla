------------------------------- MODULE MCScan -------------------------------
(***************************************************************************)
(* The first stage of a scan and the last ones, checked in one run; `part` *)
(* says which of them a behaviour is about, the variables of the others    *)
(* keep their first values.  "ingestion": two sessions of three lines, of which *)
(* one may be a copy of the other; a session calls a skill, gets an answer *)
(* that calls a tool, and gets the result together with another prompt.    *)
(* "days": a few days of diaries, of lines of the day, and of pictures.    *)
(* "talk": two days, two scans and two whims of the owner; the engine's    *)
(* answer has lines of every layout, of which two are left empty.          *)
(***************************************************************************)
EXTENDS Ingestion

CONSTANTS LastDay, Plans, Backlog, Lookback, SimilarBack, SimilarMax, Rest
CONSTANTS Findings, Drafts, PoolSize, LastNight, TalkScans, MaxWhims  \* of SmallTalk

VARIABLES part
VARIABLES plan, today, busy, scope, cards, row, file, brief, line, scan, todo, held,
          faults, quits, meta, png, lock, drawer, calls, torn, presses

diaryVars == <<plan, today, busy, scope, cards, row, file, brief, line, scan, todo, held,
               faults, quits>>
cutVars == <<meta, png, lock, drawer, calls, torn, presses>>
VARIABLES knowing, date, pool, pass, spoken, scans, whims

talkVars == <<knowing, date, pool, pass, spoken, scans, whims>>
dayVars == <<diaryVars, cutVars>>
scanVars == <<vars, dayVars, talkVars, part>>

Cut == INSTANCE DailyCut WITH clicks <- presses

\* "q" is a quotation mark.
Laid ==
  {<< <<"-", " ", "q", "x", " ", "q">>, <<" ">>, <<"1.", " ", "-", " ">>, <<"q", " ", "q">>,
      <<"y">>, <<"z">> >>}

Talk ==
  INSTANCE SmallTalk WITH
    LastDay <- LastNight, MaxScans <- TalkScans, facts <- knowing, today <- date

ASSUME DaysAssumption == Talk!TalkAssumption /\ Cut!DiaryAssumption /\ Cut!CutAssumption

L(m, c, r, p) == [msg |-> m, calls |-> c, results |-> r, prompt |-> p]

Session ==
  <<L(0, {}, {}, "command"), L(1, {1}, {}, "none"), L(0, {}, {1}, "text")>>

Copy == [f \in Files |-> "a"]

Plan(days, findings, lines, draws, bad) ==
  [days |-> days, findings |-> findings, lines |-> lines, draws |-> draws,
   faults |-> bad, quits |-> bad]

Drawings == Plan(3, {}, FALSE, TRUE, 1)

Each ==
  {Plan(5, {"f"}, FALSE, FALSE, 0), Plan(4, {"f"}, FALSE, FALSE, 1),
   Plan(2, {"f"}, TRUE, FALSE, 1), Drawings}

MCInit ==
  /\ part \in {"ingestion", "days", "talk"}
  /\ Init /\ Cut!Init /\ Talk!TalkInit
  /\ part # "days" => plan = Drawings

MCNext ==
  \/ part = "ingestion" /\ Next /\ UNCHANGED <<dayVars, talkVars, part>>
  \/ part = "days" /\ Cut!Next /\ UNCHANGED <<vars, talkVars, part>>
  \/ part = "talk" /\ Talk!TalkNext /\ UNCHANGED <<vars, dayVars, part>>

\* Those of the two FairSpecs.
Fairness ==
  /\ WF_vars(part = "ingestion" /\ ScanStep) /\ WF_vars(part = "ingestion" /\ Loop)
  /\ WF_vars(part = "ingestion" /\ Start) /\ WF_vars(part = "ingestion" /\ OtherChange)
  /\ SF_vars(part = "ingestion" /\ TimeOut)
  /\ \A f \in Files : WF_vars(part = "ingestion" /\ tail[f] # "none" /\ WriteLine(f))
  /\ WF_dayVars(part = "days" /\ Cut!Writing /\ UNCHANGED cutVars)
  /\ WF_dayVars(part = "days" /\ Cut!SkipCut)
  /\ WF_dayVars(part = "days" /\ Cut!Drawing("scan"))

MCSpec == MCInit /\ [][MCNext]_scanVars /\ Fairness

\* What the mascot says is of now, in lines that are clean (SaysOfNow, LinesClean).
TalkFits == part = "talk" => Talk!TalkFits

\* Those of DailyCut and Diaries.
CutInOrder == Cut!CutInOrder
DiariesVary == Cut!DiariesVary
EventuallyWritten == Cut!EventuallyWritten
=============================================================================
