---------------------------- MODULE SessionCards ----------------------------
(***************************************************************************)
(* Rule R7 of the coach, "Opus for trivial work": candidates are sessions, *)
(* what the user sees is one card per project that a roll-up makes of the  *)
(* judged sessions (a-mate/crates/core/src/rules/r7_opus_trivial.rs,        *)
(* r7_judge.rs, session_stats.rs, judge.rs, store.rs;                       *)
(* a-mate/src-tauri/src/pipeline.rs), for one project of one host.          *)
(*                                                                         *)
(* A scan inserts a row for each session that qualifies; the judging pass  *)
(* takes a batch, asks the engine with the store unlocked, stores the      *)
(* verdicts and rolls them up.  Sessions go on and the user disposes of    *)
(* the card in between; without an engine the whole pass does not happen.  *)
(***************************************************************************)
EXTENDS FindingRows, FiniteSets

CONSTANTS
  OpusSessions,  \* sessions with turns of Opus on the main chain, by number
  Silent,        \* those of them without a prompt of the user
  MinConfirmed,  \* three
  BurstTurns,    \* BURST_MAX_TURNS
  BurstSessions, \* BURST_MIN_SESSIONS
  CandidateWindow, \* length of the window
  AskLimit,      \* candidates judged per pass (10)
  MaxClock,      \* bound on time
  MaxWork,       \* bound on what the sessions do
  MaxDisposals   \* bound on the user's dispositions

VARIABLES
  clock,      \* the time, in units of BURST_MAX_GAP_SECS
  facts,      \* of each session its first and last event, turns and heavy tools
  worked,     \* steps of the sessions so far
  srow,       \* the rows with scope "session"
  card,       \* the row with scope "project"
  disposals,  \* dispositions so far
  engine,     \* an engine is configured
  pass,       \* the scan thread: "idle", "mined", "asking", "answered"
  outside     \* the sessions that the engine is asked about

CardsAssumption == IsFiniteSet(OpusSessions) /\ AttemptsAssumption

cardVars == <<clock, facts, worked, srow, card, disposals, engine, pass, outside>>
sessions == <<clock, facts, worked>>

Unstarted == [first |-> 0, last |-> 0, turns |-> 0, heavy |-> FALSE]

CardsInit ==
  /\ clock = 1 /\ worked = 0 /\ disposals = 0
  /\ facts = [s \in OpusSessions |-> Unstarted]
  /\ srow = [s \in OpusSessions |-> Absent]
  /\ card = Absent
  /\ engine \in BOOLEAN /\ pass = "idle" /\ outside = {}

-----------------------------------------------------------------------------
(* The sessions and the user.                                              *)

\* A turn, perhaps with a heavy tool: a sub-agent, an MCP call, the web.
SessionWorks(s) ==
  /\ pass = "idle" /\ worked < MaxWork /\ worked' = worked + 1
  /\ \E heavy \in BOOLEAN :
       facts' = [facts EXCEPT ![s] =
                   [first |-> IF @.first = 0 THEN clock ELSE @.first, last |-> clock,
                    turns |-> @.turns + 1, heavy |-> @.heavy \/ heavy]]
  /\ UNCHANGED <<clock, srow, card, disposals, engine, pass, outside>>

TimePasses ==
  /\ clock < MaxClock /\ clock' = clock + 1
  /\ UNCHANGED <<facts, worked, srow, card, disposals, engine, pass, outside>>

DisposeCard ==
  /\ card.status # "absent" /\ disposals < MaxDisposals
  /\ \E status \in {"new", "resolved", "dismissed"} \ {card.status} :
       card' = Disposed(card, status)
  /\ disposals' = disposals + 1
  /\ UNCHANGED <<sessions, srow, engine, pass, outside>>

EngineSwitched ==
  /\ pass = "idle" /\ disposals < MaxDisposals /\ disposals' = disposals + 1
  /\ engine' = ~engine
  /\ UNCHANGED <<sessions, srow, card, pass, outside>>

-----------------------------------------------------------------------------
(* Mining (R7OpusTrivial::evaluate in run_rules).                          *)

\* detect_bursts: a chain of light sessions in the order they began, none of which
\* begins later than BURST_MAX_GAP_SECS, one unit of time, after the one before it.
Light == {s \in OpusSessions : facts[s].first > 0 /\ facts[s].turns <= BurstTurns}
Before(t, u) == facts[t].first < facts[u].first \/ (facts[t].first = facts[u].first /\ t < u)
Follows(t, u) ==
  Before(t, u) /\ ~\E v \in Light : Before(t, v) /\ Before(v, u)
Bursting(s) ==
  \E C \in SUBSET Light :
    /\ s \in C /\ Cardinality(C) >= BurstSessions
    /\ \A u \in C : (\E t \in C : Before(t, u)) =>
         \E t \in C : Follows(t, u) /\ facts[u].first <= facts[t].last + 1
\* A session's first event is fixed, so that the roll-up, which goes by the one noted when
\* the session was last mined, sees the same: events older than it are not read later here.
Recent(s) == facts[s].first > 0 /\ facts[s].first + CandidateWindow >= clock
Candidates == {s \in OpusSessions : Recent(s) /\ ~facts[s].heavy /\ ~Bursting(s)}

Mine ==
  /\ pass = "idle"
  /\ srow' = [s \in OpusSessions |->
                IF s \in Candidates THEN Upserted(srow[s], "pending", 0, {}) ELSE srow[s]]
  /\ pass' = IF engine THEN "mined" ELSE "idle"
  /\ UNCHANGED <<sessions, card, disposals, engine, outside>>

-----------------------------------------------------------------------------
(* Judging (run_coaching_judgments with R7Judge).                          *)

\* pending_for_judgment, then build_prompt: a session without prompts counts as
\* a failed attempt.
TakeSessions ==
  /\ pass = "mined"
  /\ \E B \in SUBSET {s \in OpusSessions : Judgeable(srow[s])} :
       /\ Cardinality(B) <= AskLimit
       /\ B = {} => ~\E s \in OpusSessions : Judgeable(srow[s])
       /\ outside' = B \ Silent
       /\ srow' = [s \in OpusSessions |->
                     IF s \in B \cap Silent THEN FailedTry(srow[s], srow[s].attempts + 1)
                     ELSE srow[s]]
  /\ pass' = "asking"
  /\ UNCHANGED <<sessions, card, disposals, engine>>

\* The engine is asked outside the lock, some requests fail, and the rest is stored.
Answers ==
  /\ pass = "asking"
  /\ \E A \in SUBSET outside : \E v \in [A -> {"confirmed", "rejected", "malformed"}] :
       srow' = [s \in OpusSessions |->
                  IF s \in A THEN Judged(srow[s], v[s], srow[s].attempts + 1) ELSE srow[s]]
  /\ outside' = {} /\ pass' = "answered"
  /\ UNCHANGED <<sessions, card, disposals, engine>>

\* The app is quit in the middle of a pass.
QuitInPass ==
  /\ pass # "idle" /\ disposals < MaxDisposals /\ disposals' = disposals + 1
  /\ pass' = "idle" /\ outside' = {}
  /\ UNCHANGED <<sessions, srow, card, engine>>

-----------------------------------------------------------------------------
(* The roll-up (rollup_project_cards).                                     *)

InRollup(status) == {s \in OpusSessions : srow[s].status \in status /\ Recent(s)}
Confirmed == Cardinality(InRollup({"confirmed"}))
Decided == Cardinality(InRollup({"confirmed", "rejected"}))
Qualifies == Confirmed >= MinConfirmed /\ Confirmed * 2 > Decided

\* Faulty: a card that no longer qualifies stays.
RolledUpOnly(row) ==
  IF Qualifies THEN Upserted(row, "new", Confirmed, {}) ELSE row
\* Faulty: the stale card is deleted whatever its status, and made anew.
RolledAnew(row) ==
  IF Qualifies THEN (IF row.status \in {"absent", "dismissed"}
                     THEN Inserted("new", Confirmed, {})
                     ELSE Upserted(row, "new", Confirmed, {}))
  ELSE Absent
\* A shown card that no longer qualifies is deleted; one the user disposed of stays.
RolledUp(row) ==
  IF Qualifies THEN Upserted(row, "new", Confirmed, {})
  ELSE IF row.status = "new" THEN Absent
  ELSE row

RollUp ==
  /\ pass = "answered"
  /\ card' = RolledUp(card)
  /\ pass' = "idle"
  /\ UNCHANGED <<sessions, srow, disposals, engine, outside>>

CardsNext ==
  \/ \E s \in OpusSessions : SessionWorks(s)
  \/ TimePasses \/ DisposeCard \/ EngineSwitched
  \/ Mine \/ TakeSessions \/ Answers \/ QuitInPass \/ RollUp

CardsSpec == CardsInit /\ [][CardsNext]_cardVars
\* Scans recur as long as transcripts change or the user asks for one; the steps
\* of a pass follow each other on the scan thread.
CardsFairness ==
  WF_cardVars(Mine \/ TakeSessions \/ Answers \/ RollUp)
CardsFairSpec == CardsSpec /\ CardsFairness

-----------------------------------------------------------------------------
(* What the card is worth.                                                 *)

\* While the pass runs at all, a card does not outlive its evidence: once too few
\* confirmed sessions are left in the window, it is not shown for ever.
CardGoes == <>[](engine /\ ~Qualifies) => []<>(card.status # "new")

\* Scans and roll-ups respect the user's disposition: a dismissed card stays, also
\* when it stops to qualify and qualifies again, and a resolved one comes back
\* with more sessions than it counted when it was resolved, never with fewer.
DispositionOutlivesRollup ==
  [][disposals' = disposals =>
       /\ card.status = "dismissed" => card'.status = "dismissed"
       /\ card.status = "resolved" /\ card'.status # "resolved" =>
            card'.status = "new" /\ card'.n > card.base]_cardVars
=============================================================================
