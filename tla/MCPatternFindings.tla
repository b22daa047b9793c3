-------------------------- MODULE MCPatternFindings --------------------------
(***************************************************************************)
(* Two small instances of PatternFindings, checked in one run; `part` says *)
(* which of them goes on, the variables of the other keep their first      *)
(* values.  "clusters": three prompts, the first like both others (Star),  *)
(* so that it decides which are in one cluster; anchors move, clusters     *)
(* grow past and shrink below half of what was dismissed; one card was      *)
(* resolved before baselines existed.  "verdicts": two prompts that        *)
(* resemble each other, with retries, and scans and answers are fair.      *)
(***************************************************************************)
EXTENDS PatternFindings

CONSTANTS VerdictCount, Tries  \* MaxCount and MaxAttempts of the second instance

VARIABLES part, cards, stage, waiting, worthy, taken, hidden

verdictVars == <<cards, stage, waiting, worthy, taken, hidden>>

Star == {<<1, m>> : m \in 2 .. N}
FirstKey == {1}

Verdicts ==
  INSTANCE PatternFindings WITH
    N <- 2, Similar <- {<<1, 2>>}, MaxCount <- VerdictCount, MaxAttempts <- Tries,
    rows <- cards, phase <- stage, asked <- waiting,
    approved <- worthy, accepted <- taken, silenced <- hidden

MCInit == Init /\ Verdicts!Init /\ part \in {"clusters", "verdicts"}

MCNext ==
  \/ part = "clusters" /\ Next /\ UNCHANGED <<verdictVars, part>>
  \/ part = "verdicts" /\ Verdicts!Next /\ UNCHANGED <<vars, part>>

\* The fairness is that of FairSpec, for the second instance.
MCSpec ==
  /\ MCInit /\ [][MCNext]_<<vars, verdictVars, part>>
  /\ WF_verdictVars(part = "verdicts" /\ Verdicts!Scans)
  /\ SF_verdictVars(part = "verdicts" /\ Verdicts!Takes)
  /\ SF_verdictVars(part = "verdicts" /\ Verdicts!Answers)

VerdictsComeEventually == part = "verdicts" => Verdicts!EventuallyJudged
=============================================================================
