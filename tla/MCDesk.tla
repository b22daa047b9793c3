------------------------------- MODULE MCDesk -------------------------------
(***************************************************************************)
(* Small instances of parts that share no state, checked in one run;       *)
(* `part` says which of them goes on, and the variables of the others keep *)
(* their first values.                                                     *)
(*                                                                         *)
(* "clusters": three prompts, the first like both others (Star), so that   *)
(* it decides which are in one cluster; anchors move, clusters grow past   *)
(* and shrink below half of what was dismissed; one card was resolved      *)
(* before baselines existed.  "verdicts": two prompts that resemble each   *)
(* other, with retries, and scans and answers are fair.                    *)
(* "skills": two cards that share a prompt, with slugs of two letters.     *)
(* "ladder": up to two events of a kind, and two old findings.             *)
(* "chat": two questions, the tab left once, memories of which two fit.    *)
(* "pages": pages of the work hub that can form chains and cycles in one   *)
(* space, and one of another.                                              *)
(***************************************************************************)
EXTENDS PatternFindings, HubPages, TLC

CONSTANTS VerdictCount, Tries  \* MaxCount and MaxAttempts of "verdicts"
CONSTANTS Home, Away, Stranger
CONSTANTS  \* of SkillDrafts
  Cards, NormsOf, Title, Suggested, Replies, Sessions, SlugLimit, MaxPrompts, MaxDrafts, MaxSaves
CONSTANTS OldFindings, MaxTurns  \* of Ladder
CONSTANTS  \* of Chat
  Questions, Letters, Digits, Coaching, Quantity, CallLists, SizeOf, Blank, Broken, Nameless,
  MaxMemories, MaxMemoryChars, MaxHistory, MaxRounds, MaxSends, MaxFailures, MaxEdits, MaxLeaves

VARIABLES part
VARIABLES cards, stage, waiting, worthy, taken, hidden
VARIABLES prompts, counted, calls, panel, disk, saves, overlapped, moved, mine
VARIABLES events, findings
VARIABLES messages, tab, command, memories, sends, failures, edits

verdictVars == <<cards, stage, waiting, worthy, taken, hidden>>
draftVars == <<prompts, counted, calls, panel, disk, saves, overlapped, moved, mine>>
ladderVars == <<events, findings>>
chatVars == <<messages, tab, command, memories, sends, failures, edits>>
deskVars == <<vars, verdictVars, draftVars, ladderVars, chatVars, pageVars, part>>

-----------------------------------------------------------------------------
Star == {<<1, m>> : m \in 2 .. N}
FirstKey == {1}
OneAway == [p \in Pages |-> IF p = Stranger THEN Away ELSE Home]

Verdicts ==
  INSTANCE PatternFindings WITH
    N <- 2, Similar <- {<<1, 2>>}, MaxCount <- VerdictCount, MaxAttempts <- Tries,
    rows <- cards, phase <- stage, asked <- waiting,
    approved <- worthy, accepted <- taken, silenced <- hidden

NormsOfCards == "A" :> {"p", "q"} @@ "B" :> {"q"}
Titles == "A" :> <<"a", " ", "b">> @@ "B" :> <<" ">>
Suggestions == "A" :> <<>> @@ "B" :> <<" ", "a">>
OneReply == {<<"a", " ", "b", " ">>}

Skills == INSTANCE SkillDrafts WITH Answers <- Replies, raced <- overlapped

Ladder == INSTANCE Ladder

\* "r" marks coaching, "n" and "hm" a number; "h" and "m" are not ASCII letters.
Asked == {<<"p", "r", " ", "r", "1", " ", "n">>, <<"p", "r", " ", "r", "h", "m">>}
Ascii == {"r", "p", "n"}
CoachingMarks == {<<"r">>}
NumberMarks == {<<"n">>, <<"h", "m">>}
Calls == {<<"short">>, <<"nameless">>, <<"blank", "nameless", "long">>}
Sizes == "short" :> 1 @@ "long" :> 4

Chat == INSTANCE Chat WITH history <- messages

ASSUME DeskAssumption ==
  /\ Skills!DraftAssumption /\ Ladder!LadderAssumption /\ Chat!ChatAssumption

-----------------------------------------------------------------------------
MCInit ==
  /\ part \in {"clusters", "verdicts", "skills", "ladder", "chat", "pages"}
  /\ Init /\ Verdicts!Init /\ PagesInit
  /\ Skills!DraftInit /\ Chat!ChatInit
  /\ Ladder!LadderInit /\ (part # "ladder" => findings = {})

MCNext ==
  \/ /\ part = "clusters" /\ Next
     /\ UNCHANGED <<verdictVars, draftVars, ladderVars, chatVars, pageVars, part>>
  \/ /\ part = "verdicts" /\ Verdicts!Next
     /\ UNCHANGED <<vars, draftVars, ladderVars, chatVars, pageVars, part>>
  \/ /\ part = "skills" /\ Skills!DraftNext
     /\ UNCHANGED <<vars, verdictVars, ladderVars, chatVars, pageVars, part>>
  \/ /\ part = "ladder" /\ Ladder!LadderNext
     /\ UNCHANGED <<vars, verdictVars, draftVars, chatVars, pageVars, part>>
  \/ /\ part = "chat" /\ Chat!ChatNext
     /\ UNCHANGED <<vars, verdictVars, draftVars, ladderVars, pageVars, part>>
  \/ /\ part = "pages" /\ PagesNext
     /\ UNCHANGED <<vars, verdictVars, draftVars, ladderVars, chatVars, part>>

\* The fairness is that of FairSpec of PatternFindings, for "verdicts".
MCSpec ==
  /\ MCInit
  /\ [][MCNext]_deskVars
  /\ WF_verdictVars(part = "verdicts" /\ Verdicts!Scans)
  /\ SF_verdictVars(part = "verdicts" /\ Verdicts!Takes)
  /\ SF_verdictVars(part = "verdicts" /\ Verdicts!Answers)

-----------------------------------------------------------------------------
VerdictsComeEventually == part = "verdicts" => Verdicts!EventuallyJudged
SkillsSafe == part = "skills" => Skills!SkillsSafe
LadderClimbs == [][part = "ladder" => Ladder!Climbs]_ladderVars
ChatHolds == part = "chat" => Chat!ChatHolds
=============================================================================
