------------------------------ MODULE Ingestion ------------------------------
(***************************************************************************)
(* Scans of A-Mate: file changes are debounced, transcripts read from where *)
(* the last scan stopped, their events stored, and the rules evaluated     *)
(* (a-mate/crates/core/src/{pipeline,ops,adapter,store}.rs,                 *)
(* a-mate/src-tauri/src/pipeline.rs).                                       *)
(*                                                                         *)
(* Claude Code appends lines to one transcript per session, and resuming a *)
(* session copies its transcript: ids of messages, of tool calls and times *)
(* stay the same in the copy, ids of lines do not.  The scan thread reads  *)
(* files one by one, each in a critical section.  The app may be quit at   *)
(* any commit, and started again as a newer version that reads everything  *)
(* anew.  What a scan does after the rules is in other modules.            *)
(***************************************************************************)
EXTENDS FindingRows, Sequences, FiniteSets

CONSTANTS
  Files,      \* transcripts, one session each
  Origin,     \* the session that a session resumes, itself if none
  Script,     \* the lines of a session: a sequence of Line
  MinCalls,   \* R8McpLargeResult.min_calls
  MaxChan,    \* bound on the messages in the channel
  MaxLines,   \* bound on the lines of all transcripts
  MaxMishaps, \* bound on lines left half-written, failing files and scans, quits
  MaxClicks   \* bound on what the user does

\* One line of a transcript, by what ClaudeCodeAdapter::map makes of it.
Line == [msg : Nat,                           \* an assistant turn, 0 if none
         calls : SUBSET Nat,                  \* tool_use blocks
         results : SUBSET Nat,                \* tool_result blocks, large ones
         prompt : {"none", "text", "command"}]

ASSUME IngestionAssumption ==
  /\ IsFiniteSet(Files) /\ Origin \in [Files -> Files] /\ Script \in Seq(Line) \ {<<>>}
  /\ {MinCalls, MaxChan, MaxLines, MaxMishaps, MaxClicks} \subseteq Nat /\ MinCalls > 0 /\ MaxChan > 0

VARIABLES
  text,     \* the complete lines of each transcript, as <<session, position>>
            \* of where the line was first written
  tail,     \* an incomplete last line; "broken" inside a character
  chan,     \* messages on the way to the scan thread
  thread,   \* where the scan thread is, "off" while the app is not running
  work,     \* files this scan has still to read
  program,  \* version of the program
  version,  \* PRAGMA user_version
  events,   \* rows of `events`
  mined,    \* keys of prompt_events
  first,    \* sessions.first_prompt: its line, 0 if none
  offset,   \* ingest_state, in lines
  card,     \* the card of rule R8 about the one server, a row of FindingRows
  raised,   \* history: how often the rules made the card active
  notes,    \* history: how often it was announced
  missed,   \* history: how often a scan ended in between
  mishaps, clicks

transcripts == <<text, tail>>
store == <<version, events, mined, first, offset>>
coach == <<card, raised, notes, missed>>
vars == <<transcripts, chan, thread, work, program, store, coach, mishaps, clicks>>

Running == thread # "off"
Mishap == mishaps < MaxMishaps /\ mishaps' = mishaps + 1

-----------------------------------------------------------------------------
(* What a line says (ClaudeCodeAdapter::map), and under which key it goes   *)
(* into the store (upsert_events).                                         *)

LineOf(f, i) == Script[text[f][i][2]]

\* Faulty: the key of a turn names the line, as for events without an id.
TurnKeyOfLine(f, i) == <<"at", text[f][i][1], LineOf(f, i).msg, f, i>>
TurnKey(f, i) == <<"at", text[f][i][1], LineOf(f, i).msg>>

\* Calls and results are numbered within the session that wrote them.
Keys(f, i) ==
  LET home == text[f][i][1]
      line == LineOf(f, i)
  IN  (IF line.msg = 0 THEN {} ELSE {TurnKey(f, i)})
        \cup {<<"tc", home, c>> : c \in line.calls}
        \cup {<<"tr", home, r>> : r \in line.results}

\* A prompt that calls a skill or a command is not mined, since version 8.
Mined(f, i) ==
  LineOf(f, i).prompt \in {"text"} \cup IF program < 8 THEN {"command"} ELSE {}

PromptKey(f, i) == <<"up", text[f][i]>>

StoredKeys == {e.key : e \in events}

-----------------------------------------------------------------------------
(* ingest_file: one critical section, but two commits.                     *)

\* Faulty: what stands after the last newline counts as read.
NewOffsetWithTail(f) == Len(text[f]) + IF tail[f] = "none" THEN 0 ELSE 1
\* read_incremental stops at the last newline.
NewOffset(f) == Len(text[f])

\* The file may have shrunk below a faulty offset only.
Unread(f) == {i \in 1 .. Len(text[f]) : i > offset[f]}

\* The first prompt among the lines just read.
FirstPromptOf(f) ==
  LET prompts == {i \in Unread(f) : LineOf(f, i).prompt # "none"}
  IN  IF prompts = {} THEN first[f] ELSE CHOOSE i \in prompts : \A j \in prompts : i <= j
\* COALESCE(sessions.first_prompt, ..)
FirstPrompt(f) == IF first[f] # 0 THEN first[f] ELSE FirstPromptOf(f)

\* upsert_events, one transaction: INSERT OR IGNORE by key.
Upsert(f) ==
  /\ events' = events \cup
       {[key |-> k, session |-> f] : k \in (UNION {Keys(f, i) : i \in Unread(f)}) \ StoredKeys}
  /\ mined' = mined \cup {PromptKey(f, i) : i \in {j \in Unread(f) : Mined(f, j)}}
  /\ first' = [first EXCEPT ![f] = FirstPrompt(f)]

\* A file that does not decode is left for the next scan.
IngestFile(f) ==
  /\ thread = "ingest" /\ f \in work /\ tail[f] # "broken"
  /\ Upsert(f)
  /\ offset' = [offset EXCEPT ![f] = NewOffset(f)]
  /\ work' = work \ {f}
  /\ UNCHANGED <<transcripts, chan, thread, program, version, coach, mishaps, clicks>>

SkipBroken(f) ==
  /\ thread = "ingest" /\ f \in work /\ tail[f] = "broken"
  /\ work' = work \ {f}
  /\ UNCHANGED <<transcripts, chan, thread, program, store, coach, mishaps, clicks>>

SkipFile(f) ==
  /\ thread = "ingest" /\ f \in work /\ Mishap
  /\ work' = work \ {f}
  /\ UNCHANGED <<transcripts, chan, thread, program, store, coach, clicks>>

-----------------------------------------------------------------------------
(* The channel and its debouncing (debounce_loop).                         *)

\* A change is news only after something else.
Push(m) ==
  IF chan # <<>> /\ chan[Len(chan)] = m THEN chan ELSE Append(chan, m)

\* spawn_watchers: the app hears of changes while it is running.
FileChanged == chan' = IF Running THEN Push("changed") ELSE chan
Room == \A i \in MaxChan .. Len(chan) : chan[i] = "changed"

Receive ==
  /\ thread = "wait" /\ chan # <<>>
  /\ thread' = IF Head(chan) = "now" THEN "discover" ELSE "debounce"
  /\ chan' = Tail(chan)
  /\ UNCHANGED <<transcripts, work, program, store, coach, mishaps, clicks>>

\* Another change moves the deadline, RunNow does not wait for it.
ReceiveMore ==
  /\ thread = "debounce" /\ chan # <<>>
  /\ thread' = IF Head(chan) = "now" THEN "discover" ELSE "debounce"
  /\ chan' = Tail(chan)
  /\ UNCHANGED <<transcripts, work, program, store, coach, mishaps, clicks>>

\* The window passed without a message.
TimeOut ==
  /\ thread = "debounce" /\ chan = <<>>
  /\ thread' = "discover"
  /\ UNCHANGED <<transcripts, chan, work, program, store, coach, mishaps, clicks>>

-----------------------------------------------------------------------------
(* A scan (run_pipeline_once).                                             *)

\* discover_work
Discover ==
  /\ thread = "discover"
  /\ work' = {f \in Files : text[f] # <<>> \/ tail[f] # "none"}
  /\ thread' = "ingest"
  /\ UNCHANGED <<transcripts, chan, program, store, coach, mishaps, clicks>>

EndIngest ==
  /\ thread = "ingest" /\ work = {}
  /\ thread' = "rules"
  /\ UNCHANGED <<transcripts, chan, work, program, store, coach, mishaps, clicks>>

\* mcp_large_results: results whose call is in the same session.
LargeResults ==
  Cardinality({r \in events : r.key[1] = "tr" /\
    \E c \in events : c.key[1] = "tc" /\ c.key[3] = r.key[3] /\ c.session = r.session})

\* run_rules
RulesCard ==
  IF LargeResults >= MinCalls THEN Upserted(card, "new", LargeResults, {}) ELSE card

\* Faulty: cards are compared whatever their status.
FreshKey(old, new) == old.status = "absent" /\ new.status = "new"
\* diff_findings on active_finding_severities, before and after the rules
Fresh(old, new) == old.status # "new" /\ new.status = "new"

RunRules ==
  /\ thread = "rules"
  /\ card' = RulesCard
  /\ raised' = raised + IF card'.status # card.status THEN 1 ELSE 0
  /\ notes' = notes + IF Fresh(card, card') THEN 1 ELSE 0
  /\ thread' = "wait"
  /\ UNCHANGED <<transcripts, chan, work, program, store, missed, mishaps, clicks>>

\* The cards are committed, and then something fails before they are announced.
RulesFail ==
  /\ thread = "rules" /\ Mishap
  /\ card' = RulesCard
  /\ raised' = raised + IF card'.status # card.status THEN 1 ELSE 0
  /\ missed' = missed + IF Fresh(card, card') THEN 1 ELSE 0
  /\ thread' = "wait"
  /\ UNCHANGED <<transcripts, chan, work, program, store, notes, clicks>>

\* A step that fails ends the scan.
ScanFails ==
  /\ thread \in {"ingest", "rules"} /\ Mishap
  /\ thread' = "wait" /\ work' = {}
  /\ UNCHANGED <<transcripts, chan, program, store, coach, clicks>>

-----------------------------------------------------------------------------
(* Claude Code.                                                            *)

Last(f) == text[f][Len(text[f])]
More(f) ==
  IF text[f] = <<>> THEN Origin[f] = f ELSE Last(f)[2] < Len(Script)
Begun == (UNION {{f} \X (DOMAIN text[f]) : f \in Files})
           \cup {<<f, 0>> : f \in {g \in Files : tail[g] # "none"}}
NextLine(f) == <<f, IF text[f] = <<>> THEN 1 ELSE Last(f)[2] + 1>>

\* A part of a line is written, up to the middle of a character or not.
WritePart(f, t) ==
  /\ Room /\ More(f) /\ tail[f] = "none" /\ Cardinality(Begun) < MaxLines /\ t \in {"part", "broken"}
  /\ Mishap
  /\ tail' = [tail EXCEPT ![f] = t]
  /\ FileChanged
  /\ UNCHANGED <<text, thread, work, program, store, coach, clicks>>

WriteLine(f) ==
  /\ Room /\ More(f)
  /\ tail[f] = "none" => Cardinality(Begun) < MaxLines
  /\ text' = [text EXCEPT ![f] = Append(@, NextLine(f))]
  /\ tail' = [tail EXCEPT ![f] = "none"]
  /\ FileChanged
  /\ UNCHANGED <<thread, work, program, store, coach, mishaps, clicks>>

\* A session is resumed from some point of another one.
Resume(f) ==
  /\ Room /\ Origin[f] # f /\ text[f] = <<>>
  /\ \E n \in {k \in DOMAIN text[Origin[f]] : Cardinality(Begun) + k <= MaxLines} :
       text' = [text EXCEPT ![f] = SubSeq(text[Origin[f]], 1, n)]
  /\ FileChanged
  /\ UNCHANGED <<tail, thread, work, program, store, coach, mishaps, clicks>>

\* Something else changes below the projects directory.
OtherChange ==
  /\ Running /\ Room
  /\ FileChanged
  /\ UNCHANGED <<transcripts, thread, work, program, store, coach, mishaps, clicks>>

-----------------------------------------------------------------------------
(* The user.                                                               *)

Click == clicks < MaxClicks /\ clicks' = clicks + 1

\* scan_now
ScanNow ==
  /\ Running /\ Len(chan) < MaxChan /\ Click
  /\ chan' = Push("now")
  /\ UNCHANGED <<transcripts, thread, work, program, store, coach, mishaps>>

\* set_finding_status
Dispose(s) ==
  /\ Running /\ Click /\ card.status \notin {"absent", s}
  /\ card' = Disposed(card, s)
  /\ UNCHANGED <<transcripts, chan, thread, work, program, store, raised, notes, missed, mishaps>>

Off ==
  /\ Mishap
  /\ thread' = "off" /\ chan' = <<>> /\ work' = {}

Quit ==
  /\ Running /\ Off
  /\ UNCHANGED <<transcripts, program, store, coach, clicks>>

\* Between the two commits of ingest_file.
QuitBeforeOffset(f) ==
  /\ thread = "ingest" /\ f \in work /\ tail[f] # "broken" /\ Off
  /\ Upsert(f)
  /\ UNCHANGED <<transcripts, program, version, offset, coach, clicks>>

\* Between committing the cards and announcing them.
QuitBeforeEmit ==
  /\ thread = "rules" /\ Off
  /\ card' = RulesCard
  /\ raised' = raised + IF card'.status # card.status THEN 1 ELSE 0
  /\ missed' = missed + IF Fresh(card, card') THEN 1 ELSE 0
  /\ UNCHANGED <<transcripts, program, store, notes, clicks>>

-----------------------------------------------------------------------------
(* Starting: open, migrate (statement by statement, each committed), scan.  *)

\* The first n statements of the last block of migrate.
Migrated(n) ==
  /\ events' = IF n > 0 THEN {} ELSE events
  /\ first' = IF n > 1 THEN [f \in Files |-> 0] ELSE first
  /\ offset' = IF n > 2 THEN [f \in Files |-> 0] ELSE offset
  /\ mined' = IF n > 3 THEN {} ELSE mined
  /\ version' = IF n > 4 THEN 8 ELSE version

Start ==
  /\ ~Running
  /\ IF version < program THEN Migrated(5) ELSE UNCHANGED store
  /\ thread' = "discover"
  /\ UNCHANGED <<transcripts, chan, work, program, coach, mishaps, clicks>>

StartCut ==
  /\ ~Running /\ version < program
  /\ Mishap
  /\ \E n \in 1 .. 4 : Migrated(n)
  /\ UNCHANGED <<transcripts, chan, thread, work, program, coach, clicks>>

Update ==
  /\ ~Running /\ program < 8
  /\ program' = 8
  /\ UNCHANGED <<transcripts, chan, thread, work, store, coach, mishaps, clicks>>

-----------------------------------------------------------------------------

Init ==
  /\ text = [f \in Files |-> <<>>] /\ tail = [f \in Files |-> "none"]
  /\ chan = <<>> /\ thread = "off" /\ work = {}
  /\ program = 7 /\ version = 7
  /\ events = {} /\ mined = {}
  /\ first = [f \in Files |-> 0] /\ offset = [f \in Files |-> 0]
  /\ card = Absent /\ raised = 0 /\ notes = 0 /\ missed = 0
  /\ mishaps = 0 /\ clicks = 0

ScanStep ==
  \/ Discover \/ EndIngest \/ RunRules \/ RulesFail \/ ScanFails
  \/ \E f \in Files : IngestFile(f) \/ SkipBroken(f) \/ SkipFile(f)

Loop == Receive \/ ReceiveMore

Claude ==
  \E f \in Files : WriteLine(f) \/ Resume(f) \/ \E t \in {"part", "broken"} : WritePart(f, t)

User ==
  \/ ScanNow \/ Quit \/ QuitBeforeEmit
  \/ \E s \in {"new", "resolved", "dismissed"} : Dispose(s)
  \/ \E f \in Files : QuitBeforeOffset(f)

Next == ScanStep \/ Loop \/ TimeOut \/ Claude \/ OtherChange \/ User \/ Start \/ StartCut \/ Update

Spec == Init /\ [][Next]_vars

\* The app is started again, its thread runs on, a line once begun is finished,
\* files go on to change (a scan that failed is not repeated before that), and
\* again and again a minute passes without a change of any.
FairSpec ==
  /\ Spec
  /\ WF_vars(ScanStep) /\ WF_vars(Loop) /\ WF_vars(Start) /\ WF_vars(OtherChange)
  /\ SF_vars(TimeOut)
  /\ \A f \in Files : WF_vars(tail[f] # "none" /\ WriteLine(f))

-----------------------------------------------------------------------------
(* Properties.                                                             *)

\* What lies before an offset is in the store: neither a half-written line, a quit
\* between the two commits of ingest_file nor a migration cut short makes a scan
\* skip a line for good.
OffsetsCovered ==
  Running => \A f \in Files : \A i \in 1 .. offset[f] :
    i <= Len(text[f]) /\ Keys(f, i) \subseteq StoredKeys

\* A transcript that is resumed, read again after a crash or re-read by a new
\* version counts each of its messages once, and in the end counts them all.
Said == {<<l[1], Script[l[2]].msg>> : l \in UNION {{text[f][i] : i \in 1 .. Len(text[f])} : f \in Files}}
Turns == {e.key : e \in {r \in events : r.key[1] = "at"}}
Ledger ==
  INSTANCE UsageLedger WITH
    Messages <- Files \X {line.msg : line \in {Script[n] : n \in DOMAIN Script}},
    said <- {m \in Said : m[2] # 0},
    counted <- {<<k[2], k[3]>> : k \in Turns},
    tally <- Cardinality(Turns)
CountsOnce == Ledger!LedgerSpec

\* The prompt that names a session is its first one, whatever is read when.
NamedByFirstPrompt ==
  \A f \in Files : first[f] # 0 =>
    /\ LineOf(f, first[f]).prompt # "none"
    /\ \A i \in 1 .. first[f] - 1 : LineOf(f, i).prompt = "none"

\* Once a database is of version 8, prompts that call commands are never mined,
\* neither from lines read before the update nor after a migration cut short.
CommandsNotMined ==
  Running /\ version = 8 => \A k \in mined : Script[k[2][2]].prompt = "text"

\* What counts as a prompt is read right, by whichever version reads it.
PromptsReadRight == NamedByFirstPrompt /\ CommandsNotMined

\* Nothing is skipped for good, and prompts are read right, through half-written lines,
\* quits, failing files and migrations cut short (ingest_file, upsert_events, migrate).
LinesReadRight == OffsetsCovered /\ PromptsReadRight

\* A card that the rules make active is announced, and nothing else is: not the
\* undoing of a disposition while the scan was on its way.
RaisedIsAnnounced == notes + missed = raised
=============================================================================
