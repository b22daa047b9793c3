------------------------------- MODULE Ladder -------------------------------
(***************************************************************************)
(* The ladder of skills (a-mate/crates/core/src/profile.rs): five rungs,   *)
(* each judged from what was ingested and from the findings that are still *)
(* active; the lowest rung not mastered is the frontier, what the coach    *)
(* and the reading list teach next.  profile_inner shows it to the owner.  *)
(***************************************************************************)
EXTENDS Integers, FiniteSets

CONSTANTS
  OldFindings,  \* findings of the retired rules a database may still hold
  MaxTurns      \* bound on the events of each kind

VARIABLES
  events,   \* how many events of each kind the store holds
  findings  \* the rules with a finding neither dismissed nor resolved

ladderVars == <<events, findings>>

\* A turn of the upper model is a chore when it answers fewer than
\* TRIVIAL_OUTPUT_TOKENS tokens.
Kinds == {"chore", "work", "cheaper", "skill", "delegated", "mcp", "other"}

Dimensions == <<"model", "context", "skills", "automation", "orchestration">>
Rungs == 1 .. 5

NotStarted == 0
InProgress == 1
Mastered == 2

LadderAssumption == MaxTurns \in Nat \ {0}

-----------------------------------------------------------------------------
Opus(e) == e["chore"] + e["work"]
Total(e) == e["chore"] + e["work"] + e["cheaper"] + e["skill"] + e["delegated"]
            + e["mcp"] + e["other"]

\* trivial_pct; integer division.
ChoresPercent(e) == (e["chore"] * 100) \div Opus(e)

\* Mastered by mixing the tiers, or by keeping the upper one for real work.
ModelLiteracy(e) ==
  IF Opus(e) + e["cheaper"] = 0 THEN NotStarted
  ELSE IF e["cheaper"] * 5 >= Opus(e) THEN Mastered
  ELSE IF ChoresPercent(e) >= 40 THEN NotStarted
  ELSE IF ChoresPercent(e) >= 20 THEN InProgress
  ELSE Mastered

Unless(bad, e, best) == IF bad \/ Total(e) = 0 THEN NotStarted ELSE best

\* detect_profile; hooks and commands are not measured, so automation is never mastered.
Profile(e, f) ==
  << ModelLiteracy(e),
     Unless({"R1", "R2"} \cap f # {}, e, Mastered),
     IF e["skill"] > 0 THEN Mastered ELSE NotStarted,
     Unless({"R10", "R11"} \cap f # {}, e, InProgress),
     IF e["delegated"] > 0 THEN Mastered ELSE NotStarted >>

\* Faulty: what is in progress needs no teaching.
FrontierNotStarted(p) ==
  IF \A r \in Rungs : p[r] # NotStarted THEN 0
  ELSE CHOOSE r \in Rungs : p[r] = NotStarted /\ \A q \in 1 .. r - 1 : p[q] # NotStarted
\* 0 when there is none.
Frontier(p) ==
  IF \A r \in Rungs : p[r] = Mastered THEN 0
  ELSE CHOOSE r \in Rungs : p[r] # Mastered /\ \A q \in 1 .. r - 1 : p[q] = Mastered

ActiveTags(e, f) ==
  {t \in {"mcp", "skill"} : IF t = "mcp" THEN e["mcp"] > 0 \/ "R1" \in f
                            ELSE e["skill"] > 0 \/ "R12" \in f}

\* profile_inner
View(e, f) ==
  [r \in Rungs |-> [mastery |-> Profile(e, f)[r], frontier |-> Frontier(Profile(e, f)) = r]]

-----------------------------------------------------------------------------
Ingest(k) ==
  /\ events[k] < MaxTurns
  /\ events' = [events EXCEPT ![k] = @ + 1]
  /\ UNCHANGED findings

\* Dismissed or resolved; no rule that runs today reports one of these again.
Settle(r) == r \in findings /\ findings' = findings \ {r} /\ UNCHANGED events

LadderInit ==
  /\ events = [k \in Kinds |-> 0]
  /\ findings \in SUBSET OldFindings

LadderNext == \/ \E k \in Kinds : Ingest(k)
              \/ \E r \in OldFindings : Settle(r)

LadderSpec == LadderInit /\ [][LadderNext]_ladderVars

-----------------------------------------------------------------------------
LadderTypeOK ==
  /\ events \in [Kinds -> 0 .. MaxTurns]
  /\ findings \subseteq OldFindings

\* What is shown has exactly one frontier (automation, which is never mastered, at the
\* latest), it is not mastered and all below it is (CompetencyProfile::frontier,
\* profile_inner).
FrontierIsFirstGap ==
  LET v == View(events, findings)
      taught == {r \in Rungs : v[r].frontier}
  IN /\ Cardinality(taught) = 1
     /\ \A r \in taught : v[r].mastery # Mastered
     /\ \A r \in taught, q \in Rungs : q < r => v[q].mastery = Mastered

\* No rung is lost, and what is taught does not step back, unless the upper model is
\* used again: a turn of a cheaper model, a skill, a delegation or a finding that is
\* settled can only lift (detect_profile).
OnlyUpperTurnsLower ==
  Opus(events') = Opus(events) =>
    \A r \in Rungs : View(events', findings')[r].mastery >= View(events, findings)[r].mastery

Climbs == FrontierIsFirstGap' /\ OnlyUpperTurnsLower

LadderClimbs == [][Climbs]_ladderVars
=============================================================================
