---------------------------- MODULE ContentCards ----------------------------
(***************************************************************************)
(* The cards of the coaching tab: curation, translation, announcements     *)
(* (a-mate/crates/core/src/content.rs, ops.rs, announcements.rs, store.rs;  *)
(* a-mate/src-tauri/src/pipeline.rs, commands.rs).                          *)
(*                                                                         *)
(* The scan thread asks the sources whose stamp has expired, ranks what    *)
(* they sent together with the local items, replaces the table of cards,   *)
(* has the foreign ones translated and announces the notices.  It holds    *)
(* the store's lock for single steps only: the user disposes of cards,     *)
(* sources publish and the window of notices opens in between.             *)
(*                                                                         *)
(* One item stands for what each source has to say: "news" (the changelog, *)
(* one id, changing text), "boris" (tips of a web page), "page" (a page of *)
(* the team's hub), "notice" (an announcement in claude.json), "tip" (a    *)
(* built-in tip), and two lessons from the user's own log: "cache" (too    *)
(* much was re-read yesterday) and "praise" (much less than the day        *)
(* before).                                                                *)
(***************************************************************************)
EXTENDS Naturals, FiniteSets

CONSTANTS
  Mixes,      \* the items a machine may come across, each with the number of texts
              \* it goes through: the first state picks one
  Levels,     \* tokens re-read in a day, in units of 10 million
  Batch,      \* TRANSLATE_BATCH
  MaxFaults,  \* bound on failed fetches, curations and translations
  MaxQuits    \* bound on the times the app is quit

Items == {"news", "boris", "page", "notice", "tip", "cache", "praise"}
Feeds == {"news", "boris", "page"}              \* FEED_SOURCES, one item each
Foreign == {"news", "boris", "notice"}          \* translate_kind_for
SameAxis == {"tip", "boris"}                    \* items that share a dimension

ContentAssumption ==
  /\ \A m \in Mixes : DOMAIN m \subseteq Items /\ \A i \in DOMAIN m : m[i] \in Nat
  /\ Levels \subseteq Nat
  /\ Batch \in Nat \ {0} /\ MaxFaults \in Nat /\ MaxQuits \in Nat

VARIABLES
  mix,      \* the items this machine comes across, and their texts
  offer,    \* what each source publishes now: 0, or the number of a text
  fresh,    \* the feeds whose stamp has not expired
  hubOn,    \* the hub is configured and sharing is not switched off
  known,    \* detect_profile: the dimension is mastered
  reread,   \* cache re-reads of the day before yesterday and of yesterday
  rows,     \* content_items
  kept,     \* content_first_seen
  scan,     \* where the scan thread is
  got,      \* what it brought along from outside the lock
  window,   \* the thread that the window of notices starts
  ready,    \* notices_ready
  told,     \* announcement_notified_ids holds the notice
  heard,    \* how often the notice was emitted
  lost,     \* the app was quit between the two
  faults,   \* failures so far
  quits     \* times the app was quit

world == <<mix, offer, known, reread>>
notices == <<window, ready, told, heard, lost>>
mishaps == <<faults, quits>>
vars == <<world, fresh, hubOn, rows, kept, scan, got, notices, mishaps>>

Status == {"none", "new", "resolved", "dismissed"}
\* good: the score is not negative; recent: the disposition is younger than the
\* cooldown; ko: the text that summary_ko translates.
Row == [status : Status, text : Nat, good : BOOLEAN,
        ko : Nat, recent : BOOLEAN]
NoRow == [status |-> "none", text |-> 0, good |-> FALSE, ko |-> 0, recent |-> FALSE]
Stored(i) == rows[i].status # "none"
Nothing == [due |-> {}, text |-> [i \in {} |-> 0], complete |-> {}]

Fault(n) == faults + n <= MaxFaults /\ faults' = faults + n /\ quits' = quits

-----------------------------------------------------------------------------
(* Fetching: the plan is made under the lock, the sources are asked outside. *)

\* FeedPlan::resolve and the configured hub (pull_source).
Asked == {f \in Feeds \cap DOMAIN mix : f \notin fresh /\ (f = "page" => hubOn)}

\* mark_unavailable: a source that is switched off takes part with no items.
Due == Asked \cup (IF hubOn THEN {} ELSE {"page"})

\* fetch_feed_items: a source that fails sends nothing and is not stamped; of
\* the hub's pages some may arrive although others failed.
Fetch ==
  /\ scan = "idle"
  /\ \E failed \in SUBSET Asked, partial \in SUBSET {"page"} :
       /\ partial \subseteq failed
       /\ Fault(Cardinality(failed))
       /\ got' = [due |-> Due,
                  text |-> [f \in (Asked \ failed) \cup partial |-> offer[f]],
                  complete |-> Asked \ failed]
  /\ scan' = "fetched"
  /\ UNCHANGED <<world, fresh, hubOn, rows, kept, notices>>

-----------------------------------------------------------------------------
(* Curation: one critical section.                                         *)

\* personal_lessons: at least 30% less than the day before, and the lesson about
\* the cache has been a card; a praise replaces that lesson.
Praised ==
  /\ Stored("cache")
  /\ reread[1] > 5 /\ reread[2] * 10 <= reread[1] * 7
Nagging == ~Praised /\ reread[2] > 5

\* What takes part in this curation, with its text; 0 for what does not.
Text(i) ==
  IF i \notin DOMAIN mix THEN 0
  ELSE CASE i \in Feeds -> IF i \in DOMAIN got.text THEN got.text[i] ELSE 0
         [] i = "cache" -> IF Nagging THEN 1 ELSE 0
         [] i = "praise" -> IF Praised THEN 1 ELSE 0
         [] OTHER -> offer[i]

\* score: a mastered dimension silences its tips.
Good(i) == i \in SameAxis => ~known

\* Faulty: the translation outlives the text it translates.
UpsertedWithSummary(i, r) ==
  [r EXCEPT !.status = IF r.status = "none" THEN "new" ELSE r.status,
            !.text = Text(i), !.good = Good(i)]
\* INSERT .. ON CONFLICT: the user's status stays, and the translation does while
\* the text is the same.
Upserted(i, r) ==
  [r EXCEPT !.status = IF r.status = "none" THEN "new" ELSE r.status,
            !.text = Text(i), !.good = Good(i),
            !.ko = IF r.text = Text(i) THEN r.ko ELSE 0]

\* Faulty: a source that was not asked has nothing to say.
SkippedNothing == {}
\* skipped_item_tags: feeds that this scan did not ask.
Skipped == Feeds \ got.due

\* The prune of replace_content_items (the built-in tips make sure that the
\* ranking is never empty).
Stale(i) == Text(i) = 0 /\ i \notin Skipped /\ rows[i].status \in {"new", "resolved"}

\* INSERT OR IGNORE INTO content_first_seen.
FirstSeen == {i \in Items : Text(i) > 0 /\ Good(i)}

\* run_curation, then mark_feed_fetched.
Curate ==
  /\ scan = "fetched"
  /\ rows' = [i \in Items |-> IF Text(i) > 0 THEN Upserted(i, rows[i])
                              ELSE IF Stale(i) THEN NoRow ELSE rows[i]]
  /\ kept' = kept \cup FirstSeen
  /\ fresh' = fresh \cup got.complete
  /\ scan' = "curated" /\ got' = Nothing
  /\ UNCHANGED <<world, hubOn, notices, mishaps>>

\* The transaction fails: nothing is stored, and nothing is stamped.
CurateFails ==
  /\ scan = "fetched" /\ Fault(1)
  /\ scan' = "curated" /\ got' = Nothing
  /\ UNCHANGED <<world, fresh, hubOn, rows, kept, notices>>

-----------------------------------------------------------------------------
(* Translation: picked and stored under the lock, done outside.            *)

Score(i) == CASE i = "boris" -> IF known THEN 0 ELSE 506
              [] i = "notice" -> 320
              [] OTHER -> 25

\* content_needing_translation, best score first.
Untranslated == {i \in Foreign : rows[i].status = "new" /\ rows[i].ko = 0}

\* Faulty: dismissed and translated cards use up the batch.
PickedFromAll ==
  {i \in Untranslated :
     Cardinality({j \in Foreign : Stored(j) /\ Score(j) > Score(i)}) < Batch}
Picked ==
  {i \in Untranslated :
     Cardinality({j \in Untranslated : Score(j) > Score(i)}) < Batch}

TakeUntranslated ==
  /\ scan = "curated"
  /\ IF Picked = {}
     THEN scan' = "translated" /\ got' = got
     ELSE /\ scan' = "translating"
          /\ got' = [Nothing EXCEPT !.text = [i \in Picked |-> rows[i].text]]
  /\ UNCHANGED <<world, fresh, hubOn, rows, kept, notices, mishaps>>

\* set_content_translation for those that the engine translated.
StoreTranslations ==
  /\ scan = "translating"
  /\ \E failed \in SUBSET DOMAIN got.text :
       /\ Fault(Cardinality(failed))
       /\ rows' = [i \in Items |->
            IF i \in DOMAIN got.text \ failed /\ Stored(i)
            THEN [rows[i] EXCEPT !.ko = got.text[i]] ELSE rows[i]]
  /\ scan' = "translated" /\ got' = Nothing
  /\ UNCHANGED <<world, fresh, hubOn, kept, notices>>

-----------------------------------------------------------------------------
(* What the user sees and does.                                            *)

\* list_content: neither hidden by its score nor by a recently dismissed card of
\* the same dimension.
Visible(i) ==
  /\ rows[i].status = "new" /\ rows[i].good
  /\ i \in SameAxis => \A d \in SameAxis : ~(rows[d].status = "dismissed" /\ rows[d].recent)

\* set_content_status
SetStatus(i, s) ==
  /\ Stored(i) /\ rows[i].status # s
  /\ rows' = [rows EXCEPT ![i].status = s,
                          ![i].recent = s = "dismissed" /\ i \in SameAxis]
  /\ UNCHANGED <<world, fresh, hubOn, kept, scan, got, notices, mishaps>>

\* The settings of the hub: another token, or sharing off.
SwitchHub ==
  /\ "page" \in DOMAIN mix
  /\ hubOn' = ~hubOn
  /\ UNCHANGED <<world, fresh, rows, kept, scan, got, notices, mishaps>>

\* maybe_notify_announcements: nobody listens before the window says so.
FreshNotice == ready /\ Visible("notice") /\ ~told

\* take_unnotified_announcements by the scan thread.
Announce ==
  /\ scan = "translated"
  /\ told' = (told \/ FreshNotice)
  /\ scan' = IF FreshNotice THEN "emit" ELSE "idle"
  /\ UNCHANGED <<world, fresh, hubOn, rows, kept, got, window, ready, heard, lost, mishaps>>

\* The emission reaches whoever listens.
Emit == heard' = IF ready /\ heard < 2 THEN heard + 1 ELSE heard

EmitFromScan ==
  /\ scan = "emit" /\ Emit
  /\ scan' = "idle"
  /\ UNCHANGED <<world, fresh, hubOn, rows, kept, got, window, ready, told, lost, mishaps>>

\* notices_ready starts a thread that makes up for scans that came too early.
NoticesReady ==
  /\ "notice" \in DOMAIN mix /\ ~ready /\ window = "idle"
  /\ ready' = TRUE /\ window' = "look"
  /\ UNCHANGED <<world, fresh, hubOn, rows, kept, scan, got, told, heard, lost, mishaps>>

AnnounceFromWindow ==
  /\ window = "look"
  /\ told' = (told \/ FreshNotice)
  /\ window' = IF FreshNotice THEN "emit" ELSE "idle"
  /\ UNCHANGED <<world, fresh, hubOn, rows, kept, scan, got, ready, heard, lost, mishaps>>

EmitFromWindow ==
  /\ window = "emit" /\ Emit
  /\ window' = "idle"
  /\ UNCHANGED <<world, fresh, hubOn, rows, kept, scan, got, ready, told, lost, mishaps>>

\* The app is quit and started again.
Quit ==
  /\ quits < MaxQuits /\ quits' = quits + 1
  /\ scan' = "idle" /\ got' = Nothing
  /\ window' = "idle" /\ ready' = FALSE
  /\ lost' = (lost \/ scan = "emit" \/ window = "emit")
  /\ UNCHANGED <<world, fresh, hubOn, rows, kept, told, heard, faults>>

-----------------------------------------------------------------------------
(* The world.                                                              *)

Publish(i, t) ==
  /\ offer[i] # t
  /\ offer' = [offer EXCEPT ![i] = t]
  /\ UNCHANGED <<mix, known, reread, fresh, hubOn, rows, kept, scan, got, notices, mishaps>>

\* The TTL of a source passes.
Expire(f) ==
  /\ f \in fresh
  /\ fresh' = fresh \ {f}
  /\ UNCHANGED <<world, hubOn, rows, kept, scan, got, notices, mishaps>>

\* CONTENT_COOLDOWN_DAYS pass for a dismissed card.
CoolDown(i) ==
  /\ rows[i].recent
  /\ rows' = [rows EXCEPT ![i].recent = FALSE]
  /\ UNCHANGED <<world, fresh, hubOn, kept, scan, got, notices, mishaps>>

Learn ==
  /\ DOMAIN mix \cap SameAxis # {}
  /\ known' = ~known
  /\ UNCHANGED <<mix, offer, reread, fresh, hubOn, rows, kept, scan, got, notices, mishaps>>

Midnight(n) ==
  /\ "cache" \in DOMAIN mix
  /\ reread' = <<reread[2], n>>
  /\ UNCHANGED <<mix, offer, known, fresh, hubOn, rows, kept, scan, got, notices, mishaps>>

Init ==
  /\ mix \in Mixes
  /\ offer = [i \in Feeds \cup {"notice", "tip"} |-> IF i = "tip" THEN 1 ELSE 0]
  /\ fresh = {} /\ hubOn = ("page" \in DOMAIN mix)
  /\ known \in IF DOMAIN mix \cap SameAxis = {} THEN {FALSE} ELSE BOOLEAN
  /\ reread = <<0, 0>>
  /\ rows = [i \in Items |-> NoRow] /\ kept = {}
  /\ scan = "idle" /\ got = Nothing
  /\ window = "idle" /\ ready = FALSE /\ told = FALSE /\ heard = 0 /\ lost = FALSE
  /\ faults = 0 /\ quits = 0

Scan ==
  \/ Fetch \/ Curate \/ CurateFails
  \/ TakeUntranslated \/ StoreTranslations
  \/ Announce \/ EmitFromScan

Window == AnnounceFromWindow \/ EmitFromWindow

World ==
  \/ \E i \in DOMAIN mix \cap (Feeds \cup {"notice"}) : \E t \in 0 .. mix[i] : Publish(i, t)
  \/ \E f \in Feeds : Expire(f)
  \/ \E i \in Items : CoolDown(i)
  \/ Learn
  \/ \E n \in Levels : Midnight(n)

User ==
  \/ \E i \in Items, s \in Status \ {"none"} : SetStatus(i, s)
  \/ SwitchHub
  \/ NoticesReady
  \/ Quit

Next == Scan \/ Window \/ World \/ User

Spec == Init /\ [][Next]_vars

\* The threads run on; stamps expire, cooldowns end and the window of notices
\* opens some time after every start.
FairSpec ==
  /\ Spec
  /\ WF_vars(Scan) /\ WF_vars(Window) /\ WF_vars(NoticesReady)
  /\ \A f \in Feeds : WF_vars(Expire(f))
  /\ \A i \in SameAxis : WF_vars(CoolDown(i))

-----------------------------------------------------------------------------
(* Properties.                                                             *)

TypeOK ==
  /\ offer \in [Feeds \cup {"notice", "tip"} -> Nat]
  /\ fresh \subseteq Feeds /\ kept \subseteq Items
  /\ rows \in [Items -> Row]
  /\ scan \in {"idle", "fetched", "curated", "translating", "translated", "emit"}
  /\ window \in {"idle", "look", "emit"}
  /\ heard \in 0 .. 2 /\ faults \in 0 .. MaxFaults /\ quits \in 0 .. MaxQuits

\* A translation is always one of the text it stands next to, although the
\* changelog keeps its id when its text changes and the engine works outside the
\* lock (replace_content_items, set_content_translation).
TranslationFits == \A i \in Items : rows[i].ko \in {0, rows[i].text}

\* A scan that does not ask a source keeps what came from it: as long as the stamp
\* is fresh a card goes only because the hub is switched off (skipped_item_tags).
KeptWhileFresh ==
  [][\A f \in Feeds : f \in fresh \cap fresh' /\ Stored(f) /\ rows'[f] = NoRow
                       => f = "page" /\ "page" \in got.due]_vars

\* Switching the hub off hides its pages, whether the stamp is fresh or not; only
\* dismissals are remembered (mark_unavailable).
OptOutHides ==
  <>[](~hubOn) => []<>(rows["page"].status \in {"none", "dismissed"})

\* Only the user takes a dismissal back: no source does by sending the item
\* again or by not sending it any more.
DismissedForGood ==
  [][\A i \in Items : rows[i].status = "dismissed" /\ rows'[i].status # "dismissed"
                       => UNCHANGED <<scan, kept, fresh>>]_vars

\* A dismissed card quietens its dimension for a time only, although curation
\* goes on storing it (list_content goes by status_ts, not last_seen).
CooldownEnds ==
  <>[](rows["tip"].status = "new" /\ rows["tip"].good /\ rows["boris"].status = "dismissed")
    => <>[]Visible("tip")

\* A disposition holds for as long as it should: the dismissal of an item for
\* good, the silence of its dimension until the cooldown is over.
DispositionsHold == DismissedForGood /\ CooldownEnds

\* A card stays, hides and comes back only for the reasons the user knows of.
CardsHold == KeptWhileFresh /\ OptOutHides /\ DispositionsHold

\* A notice is emitted once, to a window that listens: two threads look for new
\* notices, and whoever records one emits it unless the app is quit in between.
AnnouncedOnce ==
  LET inFlight == Cardinality({t \in {<<"scan", scan>>, <<"window", window>>} : t[2] = "emit"})
  IN  IF told THEN lost \/ heard + inFlight = 1 ELSE heard + inFlight = 0

\* A notice that stays on the list is announced in the end, even if all scans so
\* far were over before the window listened.
EventuallyAnnounced ==
  <>[](ready /\ Visible("notice")) => []<>(heard = 1 \/ lost)

\* A card that stays and keeps its text is translated in the end, whatever else
\* waits for the engine and however often it failed.
EventuallyTranslated ==
  \A i \in Foreign :
    <>[](rows[i].status = "new") => []<>(rows[i].ko = rows[i].text)

\* Later scans make up for what earlier ones missed.
ScansCatchUp == EventuallyAnnounced /\ EventuallyTranslated
=============================================================================
