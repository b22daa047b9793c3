----------------------------- MODULE HubPushes -----------------------------
(***************************************************************************)
(* What a mate publishes in the work hub by itself: the figures of         *)
(* yesterday (telemetry) and retrospectives of sessions that struggled and *)
(* recovered.  One scan does first the one, then the others:                *)
(* maybe_push_telemetry and maybe_post_retros (a-mate/src-tauri/src/         *)
(* pipeline.rs), with hub.rs and store.rs of a-mate/crates/core/src, and     *)
(* the hub's accounts and spaces (a-hub/work/ahub/core/services.py).         *)
(*                                                                         *)
(* Every call may fail before or after the hub carries it out, the app may *)
(* quit between two steps, sessions go on meanwhile, and another machine   *)
(* of the same user registers the same account.                            *)
(***************************************************************************)
EXTENDS Integers, Sequences, FiniteSets

CONSTANTS
  Struggles,    \* sessions
  MaxDay,       \* bound on time
  MaxTurns,     \* bound on results of tools, over all sessions
  MaxFaults,    \* bound on failing calls and quits
  MaxAdmin      \* bound on what administrators and other machines do

VARIABLES
  spaces,     \* hub: its spaces, "plain" as a mate creates them or "managed"
  account,    \* hub: the spaces that the user's account is a member of
  twin,       \* hub: a registration by the other machine, between load and save
  issues,     \* hub: the issue opened for a session, by id
  pages,      \* hub: pages, each of a day or of a session
  admin,      \* steps of administrators and other machines so far
  facts,      \* what the store knows of the sessions
  turns,      \* results of tools so far
  today,      \* the date
  busy,       \* the days with activity
  token,      \* the mate holds a token of the account
  row,        \* hub_share_state by day and session; 0 is NULL
  push,       \* where the scan is, and what it holds
  failed,     \* failing calls and quits so far
  clean,      \* history: nothing failed since the scan began
  expelled    \* history: a registration took the account out of the team

pushHub == <<spaces, account, twin, issues, pages, admin>>
sessionVars == <<facts, turns, today, busy>>
mate == <<token, row>>
history == <<failed, clean, expelled>>
pushVars == <<pushHub, sessionVars, mate, push, history>>

Days == 1 .. MaxDay
Subjects == Days \cup Struggles

\* A day and a session never have the same key in hub_share_state.
PushAssumption ==
  /\ MaxDay \in Nat \ {0} /\ {MaxTurns, MaxFaults, MaxAdmin} \subseteq Nat
  /\ Days \cap Struggles = {}

Resting == [stage |-> "idle", day |-> 0, of |-> 0, issue |-> 0, page |-> 0,
            todo |-> {}]

PushInit ==
  /\ \E before \in {"none", "plain"} :
       spaces = [s \in {"team", "telemetry"} |-> IF s = "team" THEN "managed" ELSE before]
  /\ account = {} /\ twin = [space |-> "none", loaded |-> {}]
  /\ issues = <<>> /\ pages = <<>> /\ admin = 0
  /\ facts = [s \in Struggles |-> [began |-> 0, hard |-> FALSE, ok |-> FALSE, quiet |-> FALSE]]
  /\ turns = 0 /\ today = 1 /\ busy = {}
  /\ token = FALSE
  /\ row = [k \in Subjects |-> [issue |-> 0, page |-> 0]]
  /\ push = Resting
  /\ failed = 0 /\ clean = TRUE /\ expelled = FALSE

-----------------------------------------------------------------------------
(* The sessions, other machines and administrators.                        *)

\* A tool of session s returns; hard once the errors and events reach their minima.
ToolReturns(s) ==
  /\ turns < MaxTurns /\ turns' = turns + 1
  /\ \E ok \in BOOLEAN, hard \in BOOLEAN :
       facts' = [facts EXCEPT ![s] =
                   [began |-> IF @.began = 0 THEN today ELSE @.began,
                    hard |-> @.hard \/ hard, ok |-> ok, quiet |-> FALSE]]
  /\ busy' = busy \cup {today}
  /\ UNCHANGED <<pushHub, today, mate, push, history>>

\* RETRO_SETTLE_MINUTES pass without an event.
Settles(s) ==
  /\ facts[s].began > 0 /\ ~facts[s].quiet
  /\ facts' = [facts EXCEPT ![s].quiet = TRUE]
  /\ UNCHANGED <<pushHub, turns, today, busy, mate, push, history>>

Midnight ==
  /\ today < MaxDay /\ today' = today + 1
  /\ UNCHANGED <<pushHub, facts, turns, busy, mate, push, history>>

Administers == admin < MaxAdmin /\ admin' = admin + 1

\* register_agent for the other machine reads the account, adds a space, and
\* saves the whole of it.
TwinLoads(s) ==
  /\ Administers
  /\ twin.space = "none" /\ spaces[s] # "none"
  /\ twin' = [space |-> s, loaded |-> account]
  /\ UNCHANGED <<spaces, account, issues, pages, sessionVars, mate, push, history>>
TwinSaves ==
  /\ twin.space # "none"
  /\ account' = twin.loaded \cup {twin.space}
  /\ twin' = [space |-> "none", loaded |-> {}]
  /\ expelled' = (expelled \/ "team" \in account \ account')
  /\ clean' = FALSE
  /\ UNCHANGED <<spaces, issues, pages, admin, sessionVars, mate, push, failed>>

\* update_space or archive_space of the space for telemetry.
ManageSpace ==
  /\ Administers
  /\ spaces["telemetry"] = "plain"
  /\ spaces' = [spaces EXCEPT !["telemetry"] = "managed"]
  /\ UNCHANGED <<account, twin, issues, pages, sessionVars, mate, push, history>>

-----------------------------------------------------------------------------
(* What the hub does with a request.                                       *)

Registered(s) == spaces[s] # "none" /\ account' = account \cup {s}
\* create_space does not ask whether there is one of that name: the row is replaced.
Created == spaces' = [spaces EXCEPT !["telemetry"] = "plain"]
Paged == "telemetry" \in account /\ pages' = Append(pages, [of |-> push.day, issue |-> 0])
Opened == "team" \in account /\ issues' = Append(issues, push.of)
\* The steps claim that the last tool ran without an error.
Resolved ==
  /\ "team" \in account
  /\ pages' = Append(pages, [of |-> push.of, issue |-> push.issue])

\* The request of the stage at hand is carried out.
Serve ==
  \/ push.stage \in {"register", "register_retro"} /\ Registered("team")
       /\ UNCHANGED <<spaces, twin, issues, pages, admin>>
  \/ push.stage = "join" /\ Registered("telemetry")
       /\ UNCHANGED <<spaces, twin, issues, pages, admin>>
  \/ push.stage = "space" /\ Created /\ UNCHANGED <<account, twin, issues, pages, admin>>
  \/ push.stage \in {"send", "resend"} /\ Paged
       /\ UNCHANGED <<spaces, account, twin, issues, admin>>
  \/ push.stage = "open" /\ Opened /\ UNCHANGED <<spaces, account, twin, pages, admin>>
  \/ push.stage = "resolve" /\ Resolved /\ UNCHANGED <<spaces, account, twin, issues, admin>>

Refuses ==
  \/ push.stage \in {"send", "resend"} /\ "telemetry" \notin account
  \/ push.stage = "join" /\ spaces["telemetry"] = "none"
  \/ push.stage \in {"open", "resolve"} /\ "team" \notin account

-----------------------------------------------------------------------------
(* The scan: telemetry.                                                    *)

Goes(stage) == push' = [push EXCEPT !.stage = stage]
\* On to the retrospectives, or to the next of them.
ToRetros == push' = [push EXCEPT !.stage = "retros", !.page = 0, !.issue = 0]
NextRetro == push' = [push EXCEPT !.stage = "retro", !.of = 0, !.page = 0, !.issue = 0]

\* A day without activity is not published, and not marked.
Unsent(d) == d \in busy /\ row[d].issue = 0 /\ row[d].page = 0

BeginScan ==
  /\ push.stage = "idle" /\ clean' = TRUE
  /\ push' = [Resting EXCEPT !.day = today - 1,
                !.stage = IF today = 1 \/ ~Unsent(today - 1) THEN "retros"
                          ELSE IF token THEN "send" ELSE "register"]
  /\ UNCHANGED <<pushHub, sessionVars, mate, failed, expelled>>

\* Faulty: a failing publication is not followed by joining the space.
NextStageUnjoined == [register |-> "send", send |-> "mark_day", space |-> "resend",
                      join |-> "resend", resend |-> "mark_day"]
\* Where an answer leads to.
NextStage == [register |-> "send", send |-> "mark_day", space |-> "join",
              join |-> "resend", resend |-> "mark_day"]

TelemetryAnswered ==
  /\ push.stage \in DOMAIN NextStage
  /\ Serve
  /\ push' = [push EXCEPT !.stage = NextStage[@],
                          !.page = IF pages' # pages THEN Len(pages') ELSE @]
  /\ token' = (token \/ push.stage \in {"register", "join"})
  /\ UNCHANGED <<sessionVars, row, history>>

\* A first failure to publish leads to creating the space, whose failure is
\* ignored; every other failure leaves the day to the next scan.
AfterTelemetryFailure ==
  CASE push.stage = "send" -> Goes("space")
    [] push.stage = "space" -> Goes("join")
    [] OTHER -> ToRetros

\* hub_mark_published.
MarkDay ==
  /\ push.stage = "mark_day"
  /\ row' = [row EXCEPT ![push.day].page = push.page]
  /\ ToRetros
  /\ UNCHANGED <<pushHub, sessionVars, token, history>>

-----------------------------------------------------------------------------
(* The scan: retrospectives.                                               *)

\* select_retros: struggle_sessions that recovered, are over or have a closed day,
\* and were not taken before.
Selected ==
  {s \in Struggles : /\ facts[s].hard /\ facts[s].ok
                     /\ facts[s].quiet \/ facts[s].began < today
                     /\ row[s].issue = 0 /\ row[s].page = 0}
\* Faulty: an issue left open stays so.
ResumableNever == {}
\* retro_pendings, whatever became of the session.
Resumable == {s \in Struggles : row[s].issue # 0 /\ row[s].page = 0}

TakeRetros ==
  /\ push.stage = "retros"
  /\ push' = IF Selected \cup Resumable = {} THEN Resting
             ELSE [push EXCEPT !.stage = IF token THEN "retro" ELSE "register_retro",
                     !.todo = Selected \cup Resumable]
  /\ UNCHANGED <<pushHub, sessionVars, mate, history>>

\* The engine writes the next summary, pendings first; or it does not, and the
\* session waits for another scan.
WriteRetro ==
  /\ push.stage = "retro" /\ push.todo # {}
  /\ \E s \in push.todo :
       /\ Resumable \cap push.todo # {} => s \in Resumable
       /\ push' = [push EXCEPT !.todo = @ \ {s}, !.of = s, !.issue = row[s].issue,
                     !.stage = IF s \in Resumable THEN "resolve" ELSE "open"]
  /\ UNCHANGED <<pushHub, sessionVars, mate, history>>
EngineFails ==
  /\ push.stage = "retro" /\ failed < MaxFaults /\ failed' = failed + 1
  /\ \E s \in push.todo : push' = [push EXCEPT !.todo = @ \ {s}]
  /\ UNCHANGED <<pushHub, sessionVars, mate, clean, expelled>>

EndScan ==
  /\ push.stage = "retro" /\ push.todo = {}
  /\ push' = Resting
  /\ UNCHANGED <<pushHub, sessionVars, mate, history>>

RetroAnswered ==
  /\ push.stage \in {"register_retro", "open", "resolve"}
  /\ Serve
  /\ \/ push.stage = "register_retro" /\ Goes("retro")
     \/ push.stage = "open" /\ push' = [push EXCEPT !.stage = "mark_issue", !.issue = Len(issues')]
     \/ push.stage = "resolve" /\ push' = [push EXCEPT !.stage = "mark_page", !.page = Len(pages')]
  /\ token' = TRUE
  /\ UNCHANGED <<sessionVars, row, history>>

AfterRetroFailure == IF push.stage = "register_retro" THEN push' = Resting ELSE NextRetro

\* hub_mark_issue, then hub_mark_published.
MarkRetroIssue ==
  /\ push.stage = "mark_issue"
  /\ row' = [row EXCEPT ![push.of].issue = push.issue]
  /\ Goes("resolve")
  /\ UNCHANGED <<pushHub, sessionVars, token, history>>
MarkRetro ==
  /\ push.stage = "mark_page"
  /\ row' = [row EXCEPT ![push.of].page = push.page]
  /\ NextRetro
  /\ UNCHANGED <<pushHub, sessionVars, token, history>>

-----------------------------------------------------------------------------
(* Failures.                                                               *)

Calling == push.stage \notin {"idle", "retros", "retro", "mark_day", "mark_issue", "mark_page"}
AfterFailure ==
  IF push.stage \in DOMAIN NextStage THEN AfterTelemetryFailure ELSE AfterRetroFailure

Refused ==
  /\ Refuses /\ AfterFailure
  /\ UNCHANGED <<pushHub, sessionVars, mate, history>>

\* The call gets no answer, carried out or not.
CallFails ==
  /\ Calling /\ failed < MaxFaults /\ failed' = failed + 1 /\ clean' = FALSE
  /\ Serve \/ UNCHANGED pushHub
  /\ AfterFailure
  /\ UNCHANGED <<sessionVars, mate, expelled>>

QuitScan ==
  /\ push.stage # "idle" /\ failed < MaxFaults /\ failed' = failed + 1
  /\ push' = Resting /\ clean' = FALSE
  /\ UNCHANGED <<pushHub, sessionVars, mate, expelled>>

ScanSteps ==
  \/ BeginScan \/ TelemetryAnswered \/ MarkDay
  \/ TakeRetros \/ WriteRetro \/ EndScan \/ RetroAnswered \/ MarkRetroIssue \/ MarkRetro
  \/ Refused

PushNext ==
  \/ \E s \in Struggles : ToolReturns(s) \/ Settles(s)
  \/ Midnight \/ (\E s \in DOMAIN spaces : TwinLoads(s)) \/ TwinSaves \/ ManageSpace
  \/ ScanSteps \/ EngineFails \/ CallFails \/ QuitScan

PushSpec == PushInit /\ [][PushNext]_pushVars

\* Scans recur and go on; sessions come to rest.
PushFairness ==
  /\ WF_pushVars(ScanSteps)
  /\ \A s \in Struggles : WF_pushVars(Settles(s))
PushFairSpec == PushSpec /\ PushFairness

-----------------------------------------------------------------------------
(* Properties.                                                             *)

MadeOf(k) == Cardinality({p \in DOMAIN pages : pages[p].of = k})
OpenedFor(s) == Cardinality({i \in DOMAIN issues : issues[i] = s})

\* A day's figures are published once, a session has one issue and one
\* retrospective: it takes a failing call or a quit to have more, one each.  What
\* is marked as published is a page of that day or session, out of its issue.
PushedOnce ==
  /\ \A k \in Subjects : MadeOf(k) <= 1 + failed
  /\ \A s \in Struggles : OpenedFor(s) <= 1 + failed
  /\ \A k \in Subjects : row[k].page # 0 =>
       pages[row[k].page].of = k /\ pages[row[k].page].issue = row[k].issue

\* A scan during which nothing fails leaves the figures of an active yesterday
\* published, also where there is no account, no space and no membership yet.
YesterdayGoesOut ==
  [][push.stage \notin {"idle", "retros"} /\ push'.stage = "retros" /\ clean' =>
       row'[push.day].page # 0]_pushVars

\* A session that struggled and recovered for good gets its retrospective, whatever
\* fails on the way, unless the account lost its place in the team meanwhile.
RecoveriesTold ==
  \A s \in Struggles :
    <>[](facts[s].hard /\ facts[s].ok) => []<>(row[s].page # 0 \/ expelled)
=============================================================================
