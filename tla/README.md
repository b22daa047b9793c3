# Verification of Space A

TLA+ models of the parts of Space A whose correctness depends on the order in
which things happen, model-checked with TLC on small instances and, for the
main properties, proved with TLAPS for every instance.

Space A is made of four programs:

| program | language | what it is |
|---|---|---|
| `a-hub/life` | Python | the Life server: rooms, agents walking in them, visits, diaries, guestbook |
| `a-hub/work` | Python | the work hub: issues, knowledge pages, reuse events, spaces, tokens |
| `a-mate` | Rust, Tauri, Svelte | the desktop companion: reads session transcripts, derives findings, has them judged by a language model, shares knowledge with the work hub, keeps a mascot with diaries and pictures, lives in a room of the Life server |
| `a-lens` | Python, TypeScript | a viewer: polls both hubs and draws them |

A mate calls the Life server and the work hub over HTTP; the hubs never call
anybody. Each mate has a local SQLite store behind one mutex, which the scan
thread, the polling threads and the commands of the user interface share;
network and model calls are made with the mutex released, and files are written
without it. The Life server has one lock and writes memory through to SQLite.
The work hub runs its endpoints on a thread pool with no lock around a handler.
A-Lens reads both hubs into a snapshot.

Most of the code, and most of what is modelled, is the mate's Rust code. Its
heart is the scan: one thread that waits for files to settle, reads transcripts,
evaluates rules, and then goes through a list of stages (judgement, curation,
sharing, diaries, replies, visits, pictures, small talk), each of which reads
the store under the lock, works without it, and writes back under it.

## Inventory

For each part: its state, its operations, what is hard, and what makes it
correct. `PROJECT.json` names the files and lists the hazards by line.

| part | state | operations | hard | correct when |
|---|---|---|---|---|
| Life: rooms, agents, designs, visits | memory and SQLite: rooms, agents with room and cell, designs, visit log | register, enter, move, set_design, disconnect, restart with migration and relocation | a move checks and acts under two locks; handlers commit several times or fail after changing memory; restarts onto older databases | no two agents on a cell; legal designs; nothing acknowledged is lost; relocation disturbs only who must move; visits are separate sessions and bounded |
| Life: social content | diaries, guestbook, friends, bubbles, images | share, visibility, add and delete entries | two commits for one change of visibility | private content is not shown again; no reply without its entry |
| Mate: repeated prompts (R6), skills | `findings` rows, skill directories | scan, judge, dispose, undo; draft and save a skill | verdicts fetched without the lock; clusters change their key; free directories are looked for and then made | only judged cards are shown; dispositions stick; every candidate is judged; no skill is overwritten |
| Mate: session judgement (R7) | rows of sessions, project cards | mine, judge, roll up | sessions go on while they are judged; cards are made of other rows | a card goes with its evidence; dispositions outlive roll-ups |
| Mate: plugin advice | inventories, kinds of work, cards | read files, curate, judge kinds | files fail one by one; the catalogue is asked once a day | advice fits what was read and goes in the end |
| Mate: other rules | none of their own | evaluate | - | pure queries |
| Mate: scan loop, ingestion | debounce deadline, offsets, events, migrations | file changes, ingest, rebuild | half lines, copies of transcripts, replay after a crash, migrations cut short | every message counted once, and in the end; nothing skipped |
| Mate: sharing | `hub_share_state`, token | search, open issue, publish or cite, telemetry, retrospectives | lost answers, late execution, quits between call and mark | each thing published once, and published |
| Mate: connection | settings, token, picture | connect, rename, disconnect, upload | commands overlap; servers lose accounts | same room again; credentials fit their server |
| Mate: visits | rows of visits, where the bot is | daily trip, visit by hand | the user moves while the bot travels | trips leave no trace; friends take turns as long as their visits are remembered |
| Mate: notices, replies | cursors, announcement marks | poll, reply | two pollers; mark before or after emit | each notice shown once; one answer for an entry |
| Mate: content | stamped sources, cards, translations | fetch, rank, replace, translate, announce | a card changes its text while it is translated; sources fail | a translation is of its text; what was dismissed stays so |
| Mate: diaries, line and picture of the day | rows, files, attempts | write, draw, show | late days, two-file commits, a budget of attempts | diaries differ and are all written; caption and picture fit |
| Mate: mascot and pictures | picture and seed files, markers | draw, preview, save, draw others | three writers of two files each; pictures cost money | what is saved was seen; nobody is paid for twice |
| Mate: small talk | pool of lines with a fingerprint | make, speak | facts change while lines are written | lines are of the moment |
| Mate: chat and memory | history, memories | ask, call tools, edit | the history outlives the tab, its guard does not | questions and answers alternate |
| Mate: ladder | events, findings | judge five rungs | - | one frontier, the first gap |
| Mate: shell and UI | windows | render, forward | - | - |
| Work hub: pages | rows of pages | create, move, edit, archive, quarantine, supersede, flag | read-check-save without a lock | a tree; links within a space; retired pages stay retired |
| Work hub: issues, reuse | rows of issues, pages, events | open, resolve, search, cite | two saves in one handler | an event has its page and issue |
| Work hub: accounts | agents, tokens, memberships | register, add, remove, rotate, revoke | whole rows saved over each other | a member who was added is a member |
| Work hub: MCP, Lambda, other stores; A-Lens | - | adapters; snapshot | two threads publish a snapshot | - |

## Modules

| module | models | checked in |
|---|---|---|
| `LifeVisits`, `LifeRooms` | `LifeService` with its store and the endpoints that touch places; the visit log | `MCLifeRooms` |
| `LifeConnection` | `hub_connect`, `hub_disconnect`, renaming and upload against several servers | `MCLifeMate` |
| `Visits` | the bot's trips to friends and the visits by hand | `MCLifeMate` |
| `Backdrop` | `make_background_transparent` and `crop_face` | `MCLifeMate` |
| `Looks` | picture, seed, preview, saving, robot in the picture of the day | `MCLifeMate` |
| `Occupants` | `request_occupant_sprite` | `MCLifeMate` |
| `FindingRows` | one row of `findings`: insert, revive, judge, dispose | with its users |
| `PatternFindings` | rule R6: scan, prune, judgement pass, the user | `MCDesk`, `MCPatternFindings` |
| `SkillDrafts` | drafts of skills from cards, and their saving | `MCDesk` |
| `Ladder` | `detect_profile`, frontier, view | `MCDesk` |
| `Chat` | tab, routing, memory block, loop of tool calls | `MCDesk`, `MCChat` |
| `HubPages` | page handlers of the work hub, split at store calls | `MCDesk`, `MCHubPages` |
| `SessionCards` | rule R7: sessions and the card of a project | `MCCoach` |
| `PluginAdvice` | inventories, kinds of work, advice on plugins | `MCCoach` |
| `HubShare` | `maybe_share_findings` of several mates with the hub's handlers | `MCHub` |
| `HubPushes` | telemetry and retrospectives, accounts and spaces | `MCHub` |
| `HubCredit` | `HubShare` with the recognition loop `maybe_poll_reuse` | `MCHubCredit` |
| `Guestbook` | the guestbook of a room, its notices and automatic replies | `MCNotices` |
| `ContentCards` | sources, curation, translation, announcements | `MCNotices` |
| `Ingestion` | debounce, reading of transcripts, offsets, migration, rule R8 and its notice | `MCScan` |
| `UsageLedger` | abstract: messages are counted once, and in the end | implemented by `Ingestion` |
| `Diaries`, `DailyCut` | diaries, line of the day, picture of the day | `MCScan` |
| `SmallTalk` | the pool of lines and its fingerprint | `MCScan` |
| `LifeRoomsProofs` | theorems about `LifeRooms` | - |
| `HubProofs`, `LifeMateProofs`, `NoticesProofs`, `ScanProofs`, `DeskProofs`, `CoachProofs` | theorems about the modules that `MCHub`, `MCLifeMate`, ... put together, see Proofs | - |
| `FoldLemmas` | lemmas: what `FoldLeft` and `FoldRight` compute, for any operator | `ScanProofs`, `DeskProofs` |

An `MC` module gives several modules their small instances and checks them in
one run. Parts that share no state in the code would only multiply each other's
states, so a variable `part`, chosen in the first state, says which of them goes
on; the variables of the others keep their first values, and a property of one
part is trivially true in the behaviours of another. Where parts do share state
they are composed instead: `HubCredit` with `HubShare`, `DailyCut` with `Diaries`
(one scan thread), `FindingRows` with each of its users.

The same names recur. A component's next-state relation has one action per
critical section of the code; steps on either side of a network or model call
are separate actions, and everything else may come between them. Failing calls,
quits and the owner's commands are bounded by constants named `Max...`.
Variables whose comment begins with "history" record what happened so that a
property can speak of it.

### LifeRooms

Memory (`rooms, reg, at, cell, design, visits`) and `disk`, what SQLite has
committed or will with the next commit, are separate variables. The handlers of `life.py` run under one lock,
so each is one action that changes both; where a handler commits more than once
(`enter` saves the agent, then the visit, then deletes old visits) the action
has a disjunct for a failure at each commit: memory has changed and the
remaining commits are missing. `SqliteStore` never rolls back, so what a failing
call had executed stays pending and goes along with the next commit; the model
decides at the failure whether it leaves nothing, all or a part of its change
(`Written`), since no read of the disk comes between. A process that stops inside a handler leaves
the same on disk as such a failure followed by `Restart`. `Restart` may happen
at any time; start-up then migrates the designs room by room (`MigrateDesign`,
a commit each), relocates agents one by one (`KeepAgent`, `RelocateAgent`) and
begins to serve. A room is named by the agent who owns it, which the code
guarantees (a room is made in `register` and its owner never changes).
`POST /life/{id}/move` takes the lock twice, hence `LifeMoveCheck` and `Move`.
The clock is a counter; the thirty minutes of a visit session are
`SessionWindow` ticks. Orders that depend on random ids (who is relocated
first, which free cell the hash picks) are left open. `strays` (history) are the
visit rows that were dropped from memory while their deletion from disk failed:
they come back at the next start, beside a row that the same visitor has begun in
between, against the docstring of `_record_visit_locked` (`life.py:660`).

### LifeConnection and Visits

`LifeConnection` has the servers' `accounts` with an `epoch` that a server which
lost its data begins anew, the mate's settings (`conn`: URL, token, room) and its
profile. A command of a window is a record that goes through the steps of
`hub_connect`: rename or register, then store; each reads the settings first and
writes them last, and two windows may be at it. `upload` holds the pictures on
their way. `mixed` (history) names what two overlapping commands or a quit between
two settings may have left inconsistent; "overlap" stays in it until a command
begins alone, because a command that has outlived another one may still store what
it read before. Only a command without such company establishes which room is the
owner's `home`.

`Visits` counts time in half days, and its rows go after the `Retention`. `run` is the one trip that the lock SIGNING
admits, with the steps of `prepare_visit`, `maybe_auto_visit` and `commit_visit`:
look where the bot is, enter, wait for the engine, look at the guestbook again,
post, record, look again, return. The user's own moves take no lock and may come
anywhere. `crossed` and `overtaken` name the two gaps in which a move or an entry
of the user escapes the bot's looks.

### Looks, Occupants, Backdrop

A picture and its seed are two files. `scan`, `preview` and `commit` are the three
that write them, each in two steps after a long drawing; `cut` is the picture of
the day, which asks for the robot whose seed is on disk. `mixed` says whose pair
was written by two at once or cut off, and `window` what the settings window
shows. `Occupants` has a call per request and the two files (`picture`, `marker`)
that calls look at one at a time; `paid` counts drawings. `Backdrop` is the flood
fill on pixels by index, queue and all, compared with the definition of the
outside by connectedness, and the arithmetic of the crop.

### FindingRows, PatternFindings, SkillDrafts

Prompts are numbers in lexicographic order, `Similar` says which resemble each
other, and a cluster is a connected component of the prompts that occur in the
window, keyed by its least member as in `r6_cluster.rs`. `Scan` is the
transaction of `run_rules` and the pruning after it, `ScanCut` a stop between
the two. The judging pass is `TakeBatch` (under the lock), an answer of any
form for each candidate, and `StoreVerdicts` (under the lock again); the user's
`Dispose` and `Undo` may come in between, and so may `PassDropped`. The scan
thread does the scan and the pass one after the other, so no scan falls between
`TakeBatch` and `StoreVerdicts`. `approved`, `accepted` and `silenced` are history
variables: what the judge approved, and what the user saw when disposing.

`SkillDrafts` takes the cards from there: `calls` are drafts being written by the
model, `panel` what the coach's tab shows, `saves` the saves under way, each of
which looks for a free directory, makes it and writes; `disk` are the user's
skills. Slugs are computed on letters, since the directory's name depends on
where a slug is cut.

### SessionCards and PluginAdvice

Both follow the same pass as R6. `SessionCards` has a row per session (`srow`) and
one `card` per project, which `RollUp` makes, refreshes or deletes from the
confirmed sessions in the window; without an engine the pass does not happen at
all. A session's first event is fixed in the model, so that the roll-up, which reads it
from the evidence of the last mining (`r7_judge.rs:71`), sees what mining sees;
transcripts that bring earlier events afterwards are left out. `PluginAdvice` reads the settings file and the plugin caches one by one
(`RunInventory`, each may be unreadable), makes the cards from what the store
holds (`CurateAdvice`), and judges what kind of work sessions were, in batches
(`JudgeKinds`). `sight` is what the settings said when they were last readable.

### HubPages

A store call is atomic and a handler is not, so a request is a record: what it
read (`row`), which stage it is in, and the state of the cycle check (`up`,
`seen`). `Begin` is the first read, `CheckOther` the read and the checks of the
parent or successor, `WalkUp` one round of the `while` loop in `move_page`,
`Save` the write of the whole row. `Dropped` is a hub that stops before the
save. `raced` and `movesRaced` are history variables: pages that two requests
in flight were about to save, and whether two moves were ever in flight
together.

### HubShare, HubCredit, HubPushes

Every mate has one finding worth sharing, and all carry the same marker: the
case in which search, citation and duplicates matter. `scan[m]` is where the
thread of mate `m` is in `maybe_share_findings`; each call and each mark in
`hub_share_state` is a step. A call may fail (`Fails`) in four ways: the hub never
sees it; it is served and the answer is lost; the hub stops between the two
writes of the handler; or the mate gives up after its ten seconds and the hub
serves it later (`late`, `ServeLate`). `Quit` is the app ending anywhere in a
scan. `Withdraw` is a page being archived, quarantined or superseded.
`HubCredit` adds `PollReuse` with its cursor.

`HubPushes` is the rest of what a mate publishes: the figures of yesterday and the
retrospectives of sessions that struggled (`facts`), each with the registration
of the account, the creation of its space and the joining, all of which the hub
does by loading and saving whole rows; `twin` is another machine of the same user
that registers between a load and a save.

### Guestbook and ContentCards

The server's handlers (`Sign`, `OwnerReplies`, `DeleteGuestbook`) are atomic, as
under its lock, and ids stand for `created_at`, which is taken under it too.
The mate has two threads: the scan, which lists the entries to answer, answers
them one by one (a second look after the language model has written, then the
post) and then polls for notices; and the one `notices_ready` starts once the
window listens, which polls once. Both read the stored cursor first and write
it back after the network, so the cursor may go back. An event emitted while no
window listens is lost, which is why a poll waits for `ready`. A reply that is
given up may have been written, or be written later (`late`); `Quit` ends both
threads anywhere. Three history variables name what the code allows: `old`, the
entries present when a poll found no cursor, which count as seen without having
been shown (so the first entry of an empty guestbook makes no notice);
`overlapped`, two polls at once, which may show an entry twice; and `crossed`,
entries answered between the second look and the post, or answered late.

`ContentCards` has one item for each kind of source: the changelog, whose id stays
when its text changes; tips of a page; pages of the hub, which the owner can
switch off; an announcement; a built-in tip; two lessons from the user's log.
`fresh` are the sources whose stamp has not expired, which a scan does not ask and
whose cards it must keep. A scan fetches, ranks and replaces the table
(`rows`), takes a batch for translation, stores it, and announces; the window,
when it opens, announces too.

### Ingestion, UsageLedger

A transcript is a sequence of lines, each known by the session and place where it
was first written, since resuming a session copies its file. `tail` is a line
that is half written, perhaps inside a character. The scan thread takes file
changes from a channel, waits for them to settle, then reads file after file:
events first (keys computed from message ids as in `upsert_events`), then the
offset, with `QuitBeforeOffset` between. `Start` migrates: a new version deletes
what it has read, table after table, and raises the version last; `StartCut` is a
migration that stops halfway. Rule R8 and its card stand for the rules, since
what matters is which of its transitions are announced.

`UsageLedger` is the abstract specification of the figures: a message is said,
later counted once, and a new version may start over. `Ingestion` implements it
(`CountsOnce`) with `said` mapped to the messages of all transcripts, `counted` to
the keys of the stored turns and `tally` to their number. The refinement includes
the fairness of `Count`: under the fairness of `Ingestion`, what was said is
counted in the end.

### Diaries, DailyCut, SmallTalk

One thread writes the diaries that are missing, oldest first (`ListMissing`,
`Assemble` under the lock, `Persist` with the file before the row), then the line
of the day, then the picture. A brief tells the findings that no brief of the
last days has told, and brings along the days it must not resemble. Work read
late, deleted files and quits make days come out of order. `DailyCut` adds the
two files of the picture (`png`, `meta`), written by scan and button under one
lock, with a rename that may fail and a restoring of the metadata that may fail
too; `calls` counts what was asked of the drawing service. `SmallTalk` is the pool
of lines: fingerprint and facts read under the lock, the engine asked outside it,
the answer parsed (bullets, numbers, quotation marks) and stored under it.

### Chat and Ladder

`Chat` has the `history`, which outlives the tab, and `tab`, which does not; a
`command` per question, with the snapshot of history and memories it was started
with and the conversation it holds with the engine. Questions are sequences of
characters, because the routing depends on where a word begins and ends;
memories are known by their length. A request that offers tools carries calls and
answers; the plain one, without tools, roles and texts only (`Plain`). `Ladder` computes the five rungs from the
counts of events of each kind and from findings of rules that no longer run but
may still be in the database.

## Runs

| run | states | parts | what it shows |
|---|---|---|---|
| `life_rooms` | 404,000 | `rooms`, `visits` | `RoomsFit` (no overlaps, legal designs), `NothingToLose`, `OnlyInvalidRelocated`, `VisitLogKept` |
| `desk` | 1,141,000 | `clusters`, `verdicts`, `skills`, `ladder`, `chat`, `pages` | R6: `ShownWasApproved`, `DecisionsHold`, `VerdictsComeEventually`; `SkillsSafe` (nothing overwritten, path and draft fit); `LadderClimbs`; `ChatHolds` (newest memories, routing by words, calls answered when tools are offered again, history alternates); pages: `TreeHolds`, `RetiredForGood` |
| `hub` | 371,000 | `share`, `pushes` | `PublishedOnce`, `KnowledgeIsShared` (no self-citation, one page for a diagnosis), `SharesEnd`, `YesterdayGoesOut`, `RecoveriesTold` |
| `life_mate` | 1,257,000 | `visits`, `crowd`, `connection`, `looks`, `occupants`, `fill`, `face` | `NothingMisplaced` (trips go unnoticed, credentials fit), `EntriesSpaced`, `RoundsEnd` (every friend again and again, but those whom forgotten ones go before), `SameRoomAgain`, `FaceFollows`, `LooksKept`, `PicturesFit` |
| `notices` | 375,000 | `guestbook`, `content` | `EachOnce` (one notice, one answer), `AllServed`, `CardsTell` (translations fit, announced once), `CardsHold`, `ScansCatchUp` |
| `scan` | 397,000 | `ingestion`, `days`, `talk` | `CountsOnce` (refinement), `LinesReadRight`, `RaisedIsAnnounced`, `DiariesVary`, `EventuallyWritten`, `CutInOrder`, `TalkFits` |
| `coach` | 522,000 | `advice`, `cards` | `AdviceFits` (advice says what the scan could read), `AdviceSettles` (it goes when its reason does, kinds of work are judged), `CardGoes`, `DispositionOutlivesRollup` |
| `hub_page_cycle`, `pattern_resurfaces`, `hub_credit`, `identity_follows`, `chat_takes_back` | - | - | each finds the code to violate one statement of the repository, see Findings |

Several properties are conjunctions of named parts, each stated with a comment in
the module it is about; a run lists the conjunction. Every property of a passing
run has a mutant in `PROJECT.json`, a change to one definition of the kind a bug
in that code would be, under which the run fails. The mutated forms stand before
the definitions they replace, marked "Faulty".

### Bounds, and why they are enough

* `life_rooms`: an overlap needs two agents in one room, so two agents suffice in
  `rooms`; in `visits` a third one owns the room that the two visit, and one
  visitor's row can push out the other's.
  The 3x3 grid has a cell outside the floor, a piece that covers spawn, two pieces
  that collide, one that is legal only before protocol v4, and a window. Older
  databases are enumerated: every placement without overlaps with three
  designs. In `visits`, two commits fail, each at any commit of any handler, and
  `VisitsMax = 1`, `SessionWindow = 1` with three clock values let a visit fall
  inside, on and after the window and let the log be full. In `rooms` no commit
  fails, so a registration or a design written in part is left to the proofs, which
  do not depend on any bound.
* `desk`: three prompts are the fewest with which a cluster loses a member and
  keeps its key (`pattern_resurfaces` needs four); two attempts stand for the three
  of the code. Two cards that share a prompt and slugs cut after two letters make
  slugs collide and end in "-". Two questions, a tab left once and memories of which
  two fit make the chat's cuts happen. Two requests in flight are the fewest that
  race; five in all create three pages, move two and archive one.
* `hub`: two machines of one user and one of another are the fewest with which
  both citing and refusing to cite oneself happen. One fault of any kind at any
  point, one withdrawn page; `SearchLimit = 2` is less than the number of pages
  there can be. For the pushes one session, two days and two faults: a call lost on
  one day and a repeat on the other.
* `life_mate`: two friends take turns; retention is longer than the cooldown, as in
  the code. In `crowd` there are three, one more than the rest days before a row is
  forgotten; with the 30 days of the code that takes about ten. Two servers, of which one cannot rename. Two previews and one fault; 3x4
  pixels are the smallest picture with an inside of two; every size of crop up to
  24x24.
* `notices`: with two entries by people one is there before the cursor is and one
  comes after it, and with `ReplyCap = 1`, for the three of the code, the second
  waits for another scan. Two faults let a call fail and the app quit in one
  behaviour. Cards come in pairs of items that have to do with each other.
* `scan`: two transcripts of three lines, one of which may be a copy of the other;
  two mishaps, so that a migration cut short can follow a quit. Five days of which two are
  free, backlog of three and a lookback of two, so that a brief may reach days that
  were written late. Talk: two days, two scans, two changes by the owner.
* `coach`: three sessions of which one has no prompt, two sessions to classify, one
  at a time. One plugin, since advice on one does not depend on another.
* The deadlock check is off where bounds on requests, faults or time let the
  system come to rest, and on in `life_rooms` and `scan`.

### Fairness

Safety needs none. Every liveness property is checked under the fairness of its
component's `FairSpec`; in an `MC` module the same conditions are repeated with the
part as a guard. Failures and quits are never fair, and are bounded.

* R6, R7: scans recur (at start, after a change of a transcript, by the tray),
  weakly fair; for `VerdictsComeEventually` the pass is strongly fair to take a
  candidate and to get an answer (an engine is configured again and again, calls do
  not fail in transport for ever). Nothing is assumed about what a model answers:
  malformed answers use up the attempts. `CardGoes` assumes that the pass's steps
  follow each other.
* Plugin advice: scans go on, the stamp of the catalogue expires, and neither the
  marketplace nor the engine is out of reach for ever (strong).
* Sharing and pushing: each mate's scans go on; sessions come to rest.
* Guestbook and cards: scans, the polling thread once started, and `NoticesReady`
  (the window opens after a start); stamps expire and cooldowns end.
* Visits: time passes with a scan in every half day that is not counted as a
  fault, and trips end. Connection: commands end, uploads are repeated by scans.
* Ingestion: the app is started again, its thread runs on, a line once begun is
  finished, other files change now and then (a scan that failed is repeated only
  after a change), and again and again a minute passes without a change: strong
  fairness of `TimeOut`, since every change moves the deadline and no timer starts a
  scan by itself.
* Diaries and picture: the thread goes on with its stages.

## Findings

Each is a statement of the repository that the code, as modelled, violates; the
run named produces the counterexample.

1. `pattern_resurfaces`: prompts the user dismissed come back under another
   key, because upserting a dismissed row overwrites the members that were
   dismissed (`store.rs:598`, against the rule at `store.rs:1127`).
2. `hub_page_cycle`: two moves at once make two pages each other's ancestor,
   and both vanish from the tree of their space (`services.py:369`).
3. `hub_credit`: `hub_share_state` records cited pages as published ones, so a
   user who cited a page is congratulated when somebody else cites it too
   (`store.rs:1874`).
4. `identity_follows`: renaming is said to carry the owner's work account along; the
   server's rename takes the name alone (`life_client.rs:174`).
5. `chat_takes_back`: a failed exchange takes back "always this message"; after the
   tab was left and another question asked it takes back the other
   (`ChatTab.svelte:36`).

### What the models show besides

Deviations from comments or expectations that no run isolates, found while
translating; the models contain them, and the properties say where they except
them.

* Life server: a move addressed to a room is carried out in another one when the
  agent enters that one between check and move (`api.py:274`). After a failing
  commit in `register` the next save writes an agent without its room
  (`life.py:247`).
* Work hub: the comment on `create_space` in `hub.rs` says an existing space is
  refused; the stores replace it (`services.py:40`, INSERT OR REPLACE). Telemetry of
  a day is not sent later when the hub is out of reach the next day; a rejected
  token is renewed by the telemetry path alone. `select_new_reuses` without a cursor
  swallows the first citation, and `list_reuse_events` returns the oldest 200.
* Connection: a quit between storing token and room is not repaired by connecting
  again with a renaming server; the name written back may be older than the one
  edited meanwhile; a token that does not match a server without renaming stays.
  Renaming does not check that the name is free. A trip whose answer was lost
  leaves the bot in the friend's room.
* Visits: a friend whose row was pruned after 30 days counts as never visited and goes,
  with a lower id, before those who really never were (`visit.rs:276`, core, against
  its comment "never visited first, then the one visited longest ago"). With more
  friends than rest days in that time (about ten) the ones with the highest ids are
  never reached, without any failure; in `crowd` three friends show it, and `RoundsEnd` excepts
  exactly these. With unreadable guestbooks, which leave no row, fewer
  friends are enough.
* Coach: the recency that `r7_judge.rs:60` claims needs an engine, without which no
  roll-up happens. A due source whose fetch fails has its cards pruned. A praise
  (`content.rs:757`) replaces the lesson it depends on, so that the next scan of the
  day scolds again.
* Skills: with a "-2" suffix, or a slug cut at "-", directory and front-matter name
  differ; a draft counts the sessions of all time and its card those of the window;
  a late draft replaces the panel, and a late answer of saving marks what is shown
  then.
* Ladder: automation is never mastered, so there always is a frontier, orchestration
  is never taught, and the chat's congratulation on all five rungs is unreachable.
  A substantive turn of the upper model can lower a rung.
* Diaries: a finding named in a brief counts as told although the diary did not use
  it.
* Looks: a seed that fails to be written is not harmless for mascots with a name
  (against `pipeline.rs:1181`); after renaming without redrawing the picture of the
  day shows another robot; the automatic picture replaces one saved meanwhile; with
  the window reopened, what is saved may not be what was seen.
* Occupants: a marker left by a quit keeps an occupant undrawn for good; the marker
  goes before the picture is written, so a request in between pays again, and a
  failed write is silently paid again.
* Small talk: which findings there are and what they would save is not in the
  fingerprint, so lines may name old ones.
* Chat: a failed exchange keeps the memories it saved, so that asking again saves
  them twice; the tool answers "saved" when nothing was; the closing plain request, and
  the one made when the engine refuses tools, send `tool` messages that name no call,
  since `chat` keeps role and text only (`engine.rs:200`; `Plain` of `Chat`); the last twenty messages may begin with an
  answer; figures and narrative questions get the same prompt.

## Proofs

`tlapm` checks all of them. A theorem holds for every value of the constants that
satisfies the named assumptions of its modules, which TLC evaluates in the passing
runs. In each the theorem follows from an inductive invariant with a lemma for the
first state, one for each action, and temporal logic only in the last step. Each
invariant was first checked by TLC on the instance of its run.

Where an `MC` module puts several components together, the theorem is about
that module's specification, so that it states the property the run checks. The
bounds of the components are then CONSTANTS of the `MC` module and universally
quantified too; what the `MC` module itself fixes (the stories of `MCScan`, the pairs
of cards of `MCNotices`, the one thing a user does in `MCLifeMate`) stays fixed,
except where the lemmas below it do not use it. While one part goes on the variables
of the others rest, so the invariants of the parts simply hold side by side.

**`LifeRoomsProofs`**: `TypeCorrect`, `PlacesExclusive` (`NoOverlap`),
`RelocationIsMinimal` (`OnlyInvalidRelocated`), `ServedDesignsFit` (`DesignsFit`),
`RoomsStayFit` (`RoomsFit`), `NothingIsLost` (`NothingToLose`), `SessionsStayApart` and
`VisitLogIsKept` (`VisitLogKept`), for any grid, agents, furniture and number of
failing commits.
`NoOverlap` speaks of a serving server only and is not inductive: start-up begins
with whatever the database held. `Places` strengthens it for the time of
relocation: the agents already visited are placed, and `FreeCells` avoids
everybody, visited or not. `FreshIds` says that a new id belongs to no registered
agent. `DesignsFit` is carried from the designs of the disk, which never have
clashing pieces, and from the migration, which drops what is off the floor.
`WrittenThrough` is `NothingToLose` from the moment the database is loaded. For the
visit log, `LogInOrder` relates memory and disk: every row on disk that is no stray
is known to memory, and extended there at least as late; that is why a restart
takes nothing back. `LogBounded` counts the rows of memory and the strays
together, and each stray costs a failing commit.

**`HubProofs`**: `TypeCorrect` and `SecondCites` (`KnowledgeIsShared`), `DealsOnce`,
`PublishesOnce` (`PublishedOnce`), `YesterdayIsSent` (`YesterdayGoesOut`), for any mates,
users, sessions, days and number of faults. `ShareInv` says what a scan under way
and a request that the hub serves late may refer to. That two users do not publish
the same thing needs `OnePublisher`: in calm (nothing failed, no page was withdrawn,
no scans overlapped) all there is has one user, and that is the user of the one mate
about to publish; a search that finds nothing to cite proves it, since it sees at least one
page. `OnceInv` and `PushInv` count: what a mate has made is bounded by what it
remembers, or is about to mark, and one more for each fault. `CleanFits` is what
a scan without failures has established before each of its calls.

**`LifeMateProofs`**: `EntriesKeepApart` (`EntriesSpaced`), `NothingIsMisplaced`
(`NothingMisplaced`), `SameRoomKept` (`SameRoomAgain`), `LooksStayTrue` (`LooksKept`),
`PicturesStayFit` (`PicturesFit`), `DrawnOnce` (`OccupantsInOrder`).
* Trips: `VisitInv`, for any set of friends. `InPlace` tells, for each step of a trip, where the bot is and
  whether it knows the way back; `OneADay` counts trips without a row.
* Connection: `ConnInv` (what a command has read is still what the settings say,
  unless commands overlapped) and `HomeInv`, whose part `Ways` follows the account that
  is `home` through a command: the name it was begun under, the token it obtained,
  the epoch of its server.
* Looks: `RobotInv` (which pair of files is whose, while a writer that is alone is
  between its two files) and `SeenInv` (what a window shows is still in the file).
* Pictures: `FillInv` is the loop invariant of the flood fill: every set that encloses
  the rim's background contains what was reached, and what was reached is such a
  set but for the queue. So at the end it is the least one, which is the definition
  by connectedness; no induction over paths is needed. The crop is arithmetic.
* Occupants: an occupant nobody was caught in a gap for has at most one call between
  marker and picture (`Apart`), is not paid for before (`DrawnMarked`), and what was
  paid for is on disk or about to be (`PaidKept`).

**`NoticesProofs`**: `EntriesServedOnce` (`EachOnce`), `CardsTellOfNow` (`CardsTell`), and
of `CardsHold` the parts that are not liveness, `FreshCardsStay` (`KeptWhileFresh`) and
`DismissalsStay` (`DismissedForGood`). `BookInv`: everything up to a cursor, stored or
held by a thread, was shown or is old; as long as polls do not overlap the thread's
cursor is the stored one. `Translating` says that what is with the engine is still the
card's text, because only the curation changes texts and it is a step of the same thread;
`Announcing` counts emissions made and under way; `AskedApart` says that what a
fetch asks for is not fresh.

**`ScanProofs`**: `LinesAreReadRight` (`LinesReadRight`), `CountsLikeLedger`,
`WhatIsRaisedIsTold` (`RaisedIsAnnounced`), `PictureIsInOrder` (`CutInOrder`),
`DiariesDiffer` (`DiariesVary`), `TalkStaysFit` (`TalkFits`). A lemma sorts the steps of `Ingestion` by what
they do to transcripts and store (reading, growing, migrating, nothing).
`Covered` (what lies before an offset is stored) holds only while the database has
the version of the program, because a migration cut short deletes rows before
offsets; `VersionOK` says that a running program has migrated. For the refinement,
keys of turns and messages correspond one to one and are finitely many, so that a
set of keys that grows by reading grows in number as its messages do; a copied line
says nothing new. `CutInv` adds the copy of the metadata that a drawer holds
(`DrawerFits`), which nobody else changes as long as it has the lock, and that a
picture's day never lies after the latest diary. `DiaryInv`: what a brief tells had
sessions in its scope on that day, and the brief that is being written is for a day
without a row and tells nothing that the diaries it brings along tell. The
walk back through the days (`Similar`, a recursive function) is unfolded by hand: that
there is a function which satisfies its equation, and what it then holds, follow
from the least number of days for which they would not (`WalkExists`, `WalkFinds`). `TalkInv`: a row of the pool carries
the fingerprint of what its lines were made from. `LinesInv`: pools, and the pass that is
on its way to one, hold clean lines only; that parsing yields such lines whatever the
engine writes is `ParsedClean`, by induction along the fold.

**`DeskProofs`**:
* Repeated prompts: `PatternsTyped`, `CandidatesCanBeTaken`, `CardsAreApproved`
  (`ShownWasApproved`), `RejectionIsFinal`, `DismissalHolds`, `RecurrenceNeedsMore`,
  `DecisionsKept` (`DecisionsHold`). `PatternInv` adds `OnlyPendingAsked` (while a candidate is
  with the model its row is still pending, because the user only disposes of shown
  cards and the one thread that scans is waiting) and `BaselineIsAccepted` (the stored
  baseline of a resolved row is the number its card showed). Nothing is used of
  `Similar`: the theorems hold for any clustering.
* `LadderIsClimbed` (`LadderClimbs`), for any number of events.
* Chat: `ChatKeepsFaith` (`ChatHolds`), with `TurnsKept` (`HistoryAlternates`) and
  `QuestionsAreRouted` (`RoutedByWords`) on the way, for any questions, markers, memories and
  limits; and `OwnQuestionUntilLeft`, the comment that `chat_takes_back` refutes, for as
  long as the tab was not left. `OneAtATime` is what leaving breaks: the guard admits one
  command, and the last message is its question. `ConvoInv` says of a conversation how many answers its last turn
  of calls still waits for (`Open`): as many as there are calls left to handle, and
  none whenever the engine is offered tools. `HoldInv` keeps a new prompt's block with the
  memories it was made from; `Taken` is the loop invariant of `memory_block`: the lines taken
  so far are the newest, their length is what was counted, and when it is full one
  more would not have fitted (`BlockIsNewest`).
* `SkillsAreSafe` (`SkillsSafe`), with `SkillsKept` (`NothingClobbered` and `PathFits`) on the way. `SaveFits`
  says, for each save, what it has looked at: the directory it is about to make is
  free unless another save was about to take it. `DraftInv`: a call under way has the
  material of all its card counted, since prompts only grow. A slug is `Tidy` (no "-" first
  or twice in a row), a tidy name is joined to itself (`TidyStays`), so a slug of a
  slug changes only at a "-" it was cut after (`SlugOfSlug`).
* Pages: `PagesTyped`, `LinksHold` (`LinksStayInSpace`), `CyclesNeedRaces`
  (`AcyclicUnlessRaced`), `TreeKept` (`TreeHolds`), `RetirementHolds` (`RetiredForGood`). `Linked`
  extends the links to the rows that requests carry: a link checked once stays
  good, because no handler deletes a page or changes its space. For the tree,
  `WalkOK` says that the pages a cycle check has seen, but for the page that moves,
  form a chain of parents that ends at the next page to read. When the walk reaches
  the root that set is closed under parents and does not contain the page that
  moves, so no cycle can pass through the new edge; it stays closed because
  no other move is in flight, no page has two requests, and new pages are
  linked from nowhere.

**`CoachProofs`**: `AdviceFitsScan` (`AdviceFits`), `VerdictsMeetCandidates`,
`DispositionsLast` (`DispositionOutlivesRollup`). `ListedIsSeen` ties the inventory in the
store to what the settings said when they were last readable; `Asked` is the
counterpart of `OnlyPendingAsked` for sessions.

**`FoldLemmas`** holds no result about the system but the lemmas `FoldLeftHolds` and `FoldRightHolds`
that the others use. What is
folded is a CONSTANT operator of the module, which the proofs that need it instantiate. The
folds of the community modules are recursive functions over sets of positions; that the recursion
has a solution, and what it then holds, follow from the least length for which
it would not (`LeastNatural`). Parsing, the memory block, the pairs of calls and
answers and the slugs rest on it.

What the constants have to satisfy, beyond being numbers and finite sets: there is an
attempt to make (`AttemptsAssumption`, `CutAssumption`); a cooldown takes time and does not
outlast the memory of visits (`VisitsAssumption`); no marker of a question is empty, and
an argument that cannot be saved is no text (`ChatAssumption`); what an engine may answer
and a skill may be called are sequences (`TalkAssumption`, `ChatAssumption`, `DraftAssumption`); no server is called
"none" (`ConnectionAssumption`); days and sessions are told apart (`PushAssumption`).

Proof attempts corrected the models in three places, each a history variable that
noted too little, so that a property made an exception too many or too few: `mixed` of
`LifeConnection` did not note that a command goes on after the one it overlapped has
ended (`SameRoomAgain` fails in a larger instance than that of the run); `raced` of
`SkillDrafts` did not name the directory; and the log of visits had no `strays`.

### Only model-checked

* Liveness: `SharesEnd`, `RecoveriesTold`, `RoundsEnd`, `FaceFollows`, `AllServed`, `OptOutHides`
  and `CooldownEnds` of `CardsHold`, `ScansCatchUp`, `EventuallyWritten`, `AdviceSettles`, `CardGoes`,
  `VerdictsComeEventually`, and the fairness part of `CountsOnce`. The prover has neither
  fairness nor ENABLED.
* The five runs that expect a violation.

## Not modelled

* Life server: diaries with their visibility, friends, bubbles and images: one
  critical section per call. The two-commit change of visibility is a hazard
  without a property.
* Work hub: `rotate_token` and `revoke_agent`, membership checks as guards, MCP
  server, Lambda and the DynamoDB and memory stores. `HubPages` assumes that a store
  call is atomic and returns a copy, as the SQLite and DynamoDB stores do; the
  memory store shares row objects and serves the tests.
* A-Lens: it has no state but the snapshot that two threads publish, a hazard
  without a property.
* Mate: rules other than R6, R7, R8 and plugin advice (R1, R2, R5 and R9 to R12 are
  no longer run; the others are queries that reach the state through
  `upsert_finding`), the second host's transcript format, truncated transcripts, the
  command line as a second writer of the database, occasions, tray and windows.
* Text and images: prompts to models, rendering, scrubbing, similarity,
  thresholds, titles, colours. They are data of the models above, or left open.
