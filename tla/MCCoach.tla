------------------------------- MODULE MCCoach -------------------------------
(***************************************************************************)
(* Two parts of the coach that share no state, each checked by itself in   *)
(* one run: the initial state says whose turn it is, and the variables of  *)
(* the other part keep their first values.                                 *)
(***************************************************************************)
EXTENDS Naturals, FiniteSets

CONSTANTS Plugins, Served, Catalog, Sessions, MinMatched, JudgeBatch, MaxTries, WindowDays,
          MaxDay, MaxMoves
CONSTANTS OpusSessions, Silent, MinConfirmed, BurstTurns, BurstSessions, CandidateWindow,
          AskLimit, MaxAttempts, MaxClock, MaxWork, MaxDisposals

VARIABLES machine, unreadable, moves, today, lastUse, lastTurn, listed, sight, judged,
          advice, stamped, stage
VARIABLES clock, facts, worked, srow, card, disposals, engine, pass, outside
VARIABLE part

adviceVars == <<machine, unreadable, moves, today, lastUse, lastTurn, listed, sight,
                judged, advice, stamped, stage>>
cardVars == <<clock, facts, worked, srow, card, disposals, engine, pass, outside>>
vars == <<adviceVars, cardVars, part>>

Advice == INSTANCE PluginAdvice
Cards == INSTANCE SessionCards

ASSUME CoachAssumption == Cards!CardsAssumption

Init ==
  /\ part \in {"advice", "cards"}
  /\ Advice!AdviceInit /\ Cards!CardsInit
  /\ part = "advice" => engine

Next ==
  \/ part = "advice" /\ Advice!AdviceNext /\ UNCHANGED <<cardVars, part>>
  \/ part = "cards" /\ Cards!CardsNext /\ UNCHANGED <<adviceVars, part>>

\* Those of Advice!AdviceFairSpec and Cards!CardsFairSpec, each while it is its turn.
Fairness ==
  /\ WF_adviceVars(part = "advice" /\ Advice!RunInventory)
  /\ WF_adviceVars(part = "advice" /\ \E f \in BOOLEAN : Advice!CurateAdvice(f))
  /\ WF_adviceVars(part = "advice" /\ Advice!StampExpires)
  /\ SF_adviceVars(part = "advice" /\ Advice!CurateAdvice(TRUE))
  /\ WF_adviceVars(part = "advice" /\ Advice!JudgeKinds(FALSE))
  /\ SF_adviceVars(part = "advice" /\ Advice!JudgeKinds(TRUE))
  /\ WF_cardVars(part = "cards" /\ (\/ Cards!Mine \/ Cards!TakeSessions
                                \/ Cards!Answers \/ Cards!RollUp))

Spec ==
  /\ Init /\ [][Next]_vars
  /\ Fairness

\* Advice on a plugin fits what the scan read.
AdviceFits == Advice!AdviceFits

\* Advice to install what is there goes in the end (AdviceGoes), and every session is
\* classified, given up or leaves the window (KindsSettle).
AdviceSettles == Advice!AdviceGoes /\ (part = "advice" => Advice!KindsSettle)

\* CardGoes and DispositionOutlivesRollup of SessionCards.
CardGoes == Cards!CardGoes
DispositionOutlivesRollup == Cards!DispositionOutlivesRollup
=============================================================================
