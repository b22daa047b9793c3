---------------------------- MODULE PluginAdvice ----------------------------
(***************************************************************************)
(* Which plugin to use or to install (a-mate/crates/core/src/inventory.rs, *)
(* hosts.rs, ops.rs, plugin_reco.rs, curation.rs, store.rs;                 *)
(* a-mate/src-tauri/src/pipeline.rs), for one host.                         *)
(*                                                                         *)
(* A scan reads the settings of Claude Code and the caches of its plugins  *)
(* into the store, makes the cards from what the store holds, and then has *)
(* an engine say what kind of work the recent sessions were.  The files    *)
(* may be unreadable one by one, the catalogue of the marketplace is asked *)
(* once a day, and the user goes on working and installing in between.     *)
(*                                                                         *)
(* Each kind of work has one plugin to recommend (plugin_recos_for), so a  *)
(* kind goes by the name of its plugin.                                    *)
(***************************************************************************)
EXTENDS Naturals, FiniteSets

CONSTANTS
  Plugins,      \* the plugins recommended for some kind of work
  Served,       \* those that are also known by the name of an MCP server
  Catalog,      \* those that the official marketplace lists
  Sessions,     \* sessions of the host
  MinMatched,   \* MIN_MATCHED_SESSIONS
  JudgeBatch,   \* WORK_KIND_BATCH_CAP
  MaxTries,     \* three
  WindowDays,   \* WORK_KIND_WINDOW_DAYS
  MaxDay,       \* bound on time
  MaxMoves      \* bound on what the user changes about plugins and files

VARIABLES
  machine,      \* the configuration on disk
  unreadable,   \* the files that cannot be read or parsed now
  moves,        \* changes of the user so far
  today,        \* the date
  lastUse,      \* the day of the last call of a plugin's skill or server; 0: none
  lastTurn,     \* the day of a session's last event; 0: it has not begun
  listed,       \* mcp_inventory, plugin_inventory and installed_plugins
  sight,        \* history: what the settings said when they were last readable
  judged,       \* session_work_kinds
  advice,       \* the cards: "none", "use" what is installed, or "install"
  stamped,      \* the catalogue was fetched less than 24 hours ago
  stage         \* where the scan is

adviceVars == <<machine, unreadable, moves, today, lastUse, lastTurn, listed, sight,
                judged, advice, stamped, stage>>
log == <<lastUse, lastTurn>>
user == <<machine, unreadable, moves, today, log>>

\* An enabled plugin offers skills, or its active version is an MCP server only.
Presence == {"absent", "disabled", "skills", "server"}
Files == {"settings", "project", "skills"}
Unscanned == [taken |-> FALSE, keys |-> {}]
Unjudged == [kinds |-> {}, done |-> FALSE, tries |-> 0, day |-> 0]

AdviceInit ==
  /\ machine = [plugin |-> [p \in Plugins |-> "absent"], own |-> {}]
  /\ unreadable = {} /\ moves = 0 /\ today = 1
  /\ lastUse = [p \in Plugins |-> 0] /\ lastTurn = [s \in Sessions |-> 0]
  /\ listed = [servers |-> {}, plugins |-> {}, installed |-> Unscanned]
  /\ sight = [plugin |-> machine.plugin, own |-> {}, whole |-> FALSE]
  /\ judged = [s \in Sessions |-> Unjudged]
  /\ advice = [p \in Plugins |-> "none"]
  /\ stamped = FALSE /\ stage = "idle"

-----------------------------------------------------------------------------
(* The user.                                                               *)

Moved == moves < MaxMoves /\ moves' = moves + 1

\* enabledPlugins of settings.json; mcpServers of .claude.json for an own server.
Configure ==
  /\ Moved
  /\ \/ \E p \in Plugins, to \in Presence :
          /\ to = "server" => p \in Served
          /\ machine' = [machine EXCEPT !.plugin[p] = to]
     \/ \E p \in Served : machine' = [machine EXCEPT !.own = @ \cup {p}]
  /\ UNCHANGED <<unreadable, today, log, listed, sight, judged, advice, stamped, stage>>

\* A file is locked or half-written, or whole again.
FileBreaks ==
  /\ Moved
  /\ \E f \in Files \ unreadable : unreadable' = unreadable \cup {f}
  /\ UNCHANGED <<machine, today, log, listed, sight, judged, advice, stamped, stage>>
FileMends ==
  /\ unreadable' = {} /\ unreadable # {}
  /\ UNCHANGED <<machine, moves, today, log, listed, sight, judged, advice, stamped, stage>>

Present(p) == machine.plugin[p] \in {"skills", "server"} \/ p \in machine.own

\* A session goes on, perhaps with a skill or a server of a plugin.
Work(s) ==
  /\ stage = "idle"
  /\ lastTurn' = [lastTurn EXCEPT ![s] = today]
  /\ \/ lastUse' = lastUse
     \/ \E p \in Plugins : Present(p) /\ lastUse' = [lastUse EXCEPT ![p] = today]
  /\ lastTurn' # lastTurn \/ lastUse' # lastUse
  /\ UNCHANGED <<machine, unreadable, moves, today, listed, sight, judged, advice,
                 stamped, stage>>

NextDay ==
  /\ stage = "idle" /\ today < MaxDay /\ today' = today + 1
  /\ UNCHANGED <<machine, unreadable, moves, log, listed, sight, judged, advice,
                 stamped, stage>>

StampExpires ==
  /\ stamped /\ stamped' = FALSE
  /\ UNCHANGED <<user, listed, sight, judged, advice, stage>>

-----------------------------------------------------------------------------
(* The inventory of a scan (run_inventory).                                *)

\* collect_host_inventory: what the projects configure, and the plugins' servers.
Servers ==
  machine.own \cup {p \in Plugins \cap Served : machine.plugin[p] = "server"}
\* scan_plugin_inventory: the enabled plugins that offer skills.
Skillful == {p \in Plugins : machine.plugin[p] = "skills"}
\* enabledPlugins, with the disabled ones.
Keys == {p \in Plugins : machine.plugin[p] # "absent"}

\* Faulty: the snapshot waits for a complete scan of the skills.
ReadWhole ==
  [servers |-> IF "project" \in unreadable THEN listed.servers ELSE Servers,
   plugins |-> IF "skills" \in unreadable THEN listed.plugins ELSE Skillful,
   installed |-> IF "skills" \in unreadable THEN listed.installed
                 ELSE [taken |-> TRUE, keys |-> Keys]]
\* Each inventory is replaced only when all it is made from could be read; the
\* snapshot of the installed plugins is made from the settings alone.
Read ==
  [servers |-> IF "project" \in unreadable THEN listed.servers ELSE Servers,
   plugins |-> IF "skills" \in unreadable THEN listed.plugins ELSE Skillful,
   installed |-> [taken |-> TRUE, keys |-> Keys]]

RunInventory ==
  /\ stage = "idle"
  /\ IF "settings" \in unreadable THEN UNCHANGED <<listed, sight>>
     ELSE /\ listed' = Read
          /\ sight' = [plugin |-> machine.plugin, own |-> machine.own,
                       whole |-> unreadable = {}]
  /\ stage' = "read"
  /\ UNCHANGED <<user, judged, advice, stamped>>

-----------------------------------------------------------------------------
(* The cards (plugin_reco_items in run_curation).                          *)

InWindow(day) == day > 0 /\ day + WindowDays >= today
Matching(p) ==
  {s \in Sessions : judged[s].done /\ InWindow(judged[s].day) /\ p \in judged[s].kinds}
Installed(p) == p \in listed.plugins \/ p \in listed.servers \cap Served

\* A plugin is to be installed only when the snapshot shows it is absent and
\* the catalogue has it; what is in use needs no advice.
Reco(p, catalog) ==
  IF Cardinality(Matching(p)) < MinMatched \/ InWindow(lastUse[p]) THEN "none"
  ELSE IF Installed(p) THEN "use"
  ELSE IF listed.installed.taken /\ p \notin listed.installed.keys /\ p \in catalog
  THEN "install" ELSE "none"

\* Only a card that needs the catalogue survives a scan that did not ask for it.
Exempt(p, skipped) == skipped /\ advice[p] = "install"

CurateAdvice(fetched) ==
  LET catalog == IF fetched /\ ~stamped THEN Catalog ELSE {}
      Card(p) == IF Reco(p, catalog) = "none" /\ Exempt(p, stamped) THEN "install"
                 ELSE Reco(p, catalog)
  IN /\ stage = "read"
     /\ advice' = [p \in Plugins |-> Card(p)]
     /\ stamped' = (stamped \/ fetched)
     /\ stage' = "curated"
     /\ UNCHANGED <<user, listed, sight, judged>>

-----------------------------------------------------------------------------
(* The engine's verdicts on the kinds of work (maybe_judge_work_kinds).    *)

\* pending_work_kind_sessions.
Undecided == {s \in Sessions : /\ InWindow(lastTurn[s]) /\ ~judged[s].done
                               /\ judged[s].tries < MaxTries}
\* The most recent ones, at most JudgeBatch.
Batches == {b \in SUBSET Undecided :
              /\ Cardinality(b) = IF Cardinality(Undecided) < JudgeBatch
                                  THEN Cardinality(Undecided) ELSE JudgeBatch
              /\ \A s \in b, t \in Undecided \ b : lastTurn[s] >= lastTurn[t]}

\* Faulty: an answer that cannot be parsed is not a try.
JudgedUncounted(s, answer) ==
  [judged[s] EXCEPT !.kinds = IF answer.ok THEN answer.kinds ELSE @,
                    !.done = answer.ok, !.day = lastTurn[s],
                    !.tries = IF answer.ok THEN @ + 1 ELSE @]
\* set_session_work_kinds.
Judged(s, answer) ==
  [judged[s] EXCEPT !.kinds = IF answer.ok THEN answer.kinds ELSE @,
                    !.done = answer.ok, !.day = lastTurn[s], !.tries = @ + 1]

\* Of a batch some are answered, with kinds of work or with something that
\* parse_work_kinds refuses; the others meet a transport failure.
JudgeKinds(all) ==
  /\ stage = "curated"
  /\ \E b \in Batches :
       \E answered \in IF all THEN {b} ELSE SUBSET b :
         \E ok \in SUBSET answered : \E kinds \in [ok -> SUBSET Plugins] :
           judged' = [s \in Sessions |->
                        CASE s \in ok -> Judged(s, [ok |-> TRUE, kinds |-> kinds[s]])
                          [] s \in answered \ ok -> Judged(s, [ok |-> FALSE])
                          [] OTHER -> judged[s]]
  /\ stage' = "idle"
  /\ UNCHANGED <<user, listed, sight, advice, stamped>>

AdviceNext ==
  \/ Configure \/ FileBreaks \/ FileMends \/ NextDay \/ StampExpires
  \/ \E s \in Sessions : Work(s)
  \/ RunInventory
  \/ \E fetched \in BOOLEAN : CurateAdvice(fetched)
  \/ JudgeKinds(FALSE)

AdviceSpec == AdviceInit /\ [][AdviceNext]_adviceVars

\* Scans go on, the stamp of the catalogue runs out, and neither the marketplace
\* nor the engine is out of reach for ever.
AdviceFairness ==
  /\ WF_adviceVars(RunInventory)
  /\ WF_adviceVars(\E f \in BOOLEAN : CurateAdvice(f))
  /\ WF_adviceVars(StampExpires) /\ SF_adviceVars(CurateAdvice(TRUE))
  /\ WF_adviceVars(JudgeKinds(FALSE)) /\ SF_adviceVars(JudgeKinds(TRUE))
AdviceFairSpec == AdviceSpec /\ AdviceFairness

-----------------------------------------------------------------------------
(* What the advice is worth.                                               *)

\* A card that a scan makes anew fits what the scan could read: the settings did
\* not list the plugin that it says to install, not even as disabled; when every
\* file was readable the user had no server of that name either, and what the
\* card says to use was there; and nobody is told of what was used in the window.
AdviceFits ==
  [][stage = "read" /\ stage' = "curated" /\ ~stamped =>
       \A p \in Plugins : advice'[p] # "none" =>
         /\ ~InWindow(lastUse[p])
         /\ advice'[p] = "install" => sight.plugin[p] = "absent"
         /\ sight.whole =>
              (advice'[p] = "use"
                 <=> sight.plugin[p] \in {"skills", "server"} \/ p \in sight.own)]_adviceVars

\* An advice to install does not outlive the installation for good: while the
\* settings list the plugin and can be read, the card goes in the end, although
\* scans that do not ask for the catalogue spare it.
AdviceGoes ==
  \A p \in Plugins :
    <>[](machine.plugin[p] # "absent" /\ "settings" \notin unreadable)
      => []<>(advice[p] # "install")

\* Every session is classified, given up after MaxTries answers that could not be
\* parsed, or leaves the window: failures do not keep it pending for ever.
KindsSettle ==
  \A s \in Sessions : []<>(s \notin Undecided)
=============================================================================
