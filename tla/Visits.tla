------------------------------- MODULE Visits -------------------------------
(***************************************************************************)
(* The mate's visits to the rooms of friends.  On a rest day the bot goes  *)
(* to the friend it has not seen for longest, signs the guestbook and      *)
(* comes back (auto); where the user goes by hand, it may sign too         *)
(* (manual).  prepare_visit, maybe_auto_visit and commit_visit of          *)
(* a-mate/src-tauri/src/visit.rs with the decisions in a-mate/crates/core/ *)
(* src/visit.rs and the rows of life_visits (store.rs).                    *)
(*                                                                         *)
(* A lock (SIGNING) lets one visit run at a time, but the user's own moves *)
(* do not take it, and the life server carries each call out when it       *)
(* arrives.  Time passes in half days.  Settings, the engine and the list  *)
(* of friends stay as they are.                                            *)
(***************************************************************************)
EXTENDS Integers, FiniteSets

CONSTANTS
  Friends,     \* the rooms of friends, numbers for the order of their ids
  Cooldown,    \* half days between two entries in one guestbook
  LongTime,    \* half days after which a visit is one after a long time
  Retention,   \* half days that the rows of visits are kept
  MaxEvents    \* bounds on what the user does ("moves": moves and entries), and on
               \* failures ("faults": failing calls, half days without a scan)

ASSUME VisitsAssumption ==
  /\ Friends \subseteq Nat \ {0}
  /\ {Cooldown, LongTime, Retention} \subseteq Nat
  /\ 0 < Cooldown /\ Cooldown <= LongTime /\ LongTime <= Retention

VARIABLES
  at,        \* life server: the room the mate is in; 0 is its own
  entry,     \* life server: the age of my newest entry in a guestbook, or None
  seen,      \* the age of the newest row of a friend in life_visits, or None
  autoSeen,  \* the age of the newest row of an auto visit, or None
  threads,   \* threads of life_goto that wait for the lock
  run,       \* the visit that holds the lock
  afternoon, \* the half of the day
  dayKind,   \* "work", "weekend" or "holiday"
  scanned,   \* a scan came by in this half day
  wanted,    \* history: where the user last went
  crossed,   \* history: a move of the user met the trip where it does not look
  overtaken, \* history: an entry was written between the last check and the post
  trips,     \* history: trips of the bot begun today
  events     \* moves, entries and faults so far

server == <<at, entry>>
rows == <<seen, autoSeen>>
time == <<afternoon, dayKind, scanned>>
tale == <<wanted, crossed, overtaken, trips>>
visitVars == <<server, rows, threads, run, time, tale, events>>

None == -1
Rooms == {0} \cup Friends
NoRun == [pc |-> "none", mode |-> "auto", target |-> 0, back |-> 0,
          age |-> 0, sign |-> FALSE, reason |-> FALSE, retried |-> FALSE]

VisitInit ==
  /\ at = 0 /\ entry = [f \in Friends |-> None]
  /\ seen = [f \in Friends |-> None] /\ autoSeen = None
  /\ threads = [f \in Friends |-> 0] /\ run = NoRun
  /\ afternoon = FALSE /\ dayKind = "work" /\ scanned = FALSE
  /\ wanted = 0 /\ crossed = FALSE /\ overtaken = FALSE /\ trips = 0
  /\ events = [moves |-> 0, faults |-> 0]

Happens(what) ==
  /\ events[what] < MaxEvents[what]
  /\ events' = [events EXCEPT ![what] = @ + 1]
Faults == Happens("faults")
Fine == UNCHANGED events

-----------------------------------------------------------------------------
(* The user and time.                                                      *)

\* life_goto: enter, and a thread that signs.  The answer may be lost: no thread.
UserGoes(r) ==
  /\ at' = r /\ wanted' = r
  /\ \/ Happens("moves") /\ threads' = IF r = 0 THEN threads ELSE [threads EXCEPT ![r] = @ + 1]
     \/ Faults /\ UNCHANGED threads
  /\ crossed' = (\/ crossed \/ run.pc \in {"enter", "return"}
                 \/ /\ run.mode = "auto" /\ r = run.target
                    /\ run.pc \in {"recheck", "post", "record", "check"})
  /\ UNCHANGED <<entry, rows, run, time, overtaken, trips>>

UserWrites(f) ==
  /\ Happens("moves")
  /\ entry' = [entry EXCEPT ![f] = 0]
  /\ overtaken' = (overtaken \/ (run.pc = "post" /\ run.target = f))
  /\ UNCHANGED <<at, rows, threads, run, time, wanted, crossed, trips>>

Older(a, cap) == IF a = None \/ a = cap THEN a ELSE a + 1

\* Half a day passes, with a scan in it, or a visit that takes that long.
HalfDay ==
  /\ scanned \/ run.pc # "none" \/ events.faults < MaxEvents.faults
  /\ run.age = 0
  /\ IF scanned \/ run.pc # "none" THEN Fine ELSE Faults
  /\ afternoon' = ~afternoon /\ scanned' = FALSE
  /\ IF afternoon
     THEN /\ dayKind' \in {"work", "weekend", "holiday"}
          /\ dayKind = "work" => dayKind' # "work"
          /\ trips' = 0
     ELSE UNCHANGED <<dayKind, trips>>
  /\ entry' = [f \in Friends |-> Older(entry[f], LongTime)]
  /\ seen' = [f \in Friends |-> Older(seen[f], Retention + 1)]
  /\ autoSeen' = Older(autoSeen, 2)
  /\ run' = [run EXCEPT !.age = IF run.pc = "none" THEN 0 ELSE 1]
  /\ UNCHANGED <<at, threads, wanted, crossed, overtaken>>

-----------------------------------------------------------------------------
(* A scan: prune_visit_history, then maybe_auto_visit.                     *)

RestDay == dayKind # "work"
\* An auto visit that began today has its row.
AlreadyToday == autoSeen \in {0} \cup (IF afternoon THEN {1} ELSE {})
Kept == [f \in Friends |-> IF seen[f] > Retention THEN None ELSE seen[f]]

\* Faulty: the order of the ids only.
CandidatesInOrder == {f \in Friends : \A g \in Friends : f <= g}
\* pick_auto_visit_target: never visited first, in the order of ids, then the one
\* visited longest ago.  Rows of one half day may have been written in either order.
Candidates ==
  LET Never == {f \in Friends : Kept[f] = None}
  IN  IF Never # {} THEN {f \in Never : \A g \in Never : f <= g}
      ELSE {f \in Friends : \A g \in Friends : Kept[g] <= Kept[f]}

\* Faulty: the rows of today are not looked at.
AutoDueAlways == RestDay
AutoDue == RestDay /\ ~AlreadyToday

\* The list of friends may be out of reach.
Scan ==
  /\ ~scanned /\ scanned' = TRUE /\ run.pc = "none"
  /\ seen' = Kept
  /\ \/ /\ AutoDue /\ Fine
        /\ \E f \in Candidates :
             run' = [NoRun EXCEPT !.pc = "gate", !.target = f]
     \/ AutoDue /\ Faults /\ UNCHANGED run
     \/ ~AutoDue /\ Fine /\ UNCHANGED run
  /\ overtaken' = FALSE
  /\ UNCHANGED <<server, autoSeen, threads, afternoon, dayKind, wanted, crossed, trips>>

-----------------------------------------------------------------------------
(* One visit.                                                              *)

\* A waiting thread gets the lock.
TakeThread(f) ==
  /\ run.pc = "none" /\ threads[f] > 0
  /\ threads' = [threads EXCEPT ![f] = @ - 1]
  /\ run' = [NoRun EXCEPT !.pc = "gate", !.mode = "manual", !.target = f]
  /\ overtaken' = FALSE
  /\ UNCHANGED <<server, rows, time, wanted, crossed, trips, events>>

\* visit_cooldown_ok and visit_sign_decision, with what prepare_visit noted of the
\* weekend and of how busy the owner is.
CooldownOk(f) == entry[f] = None \/ entry[f] >= Cooldown
SignDecision(f, reason) ==
  CooldownOk(f) /\ (entry[f] \in {None, LongTime} \/ reason)
MaySign(f, reason) == IF run.mode = "auto" THEN CooldownOk(f) ELSE SignDecision(f, reason)

\* prepare_visit reads the guestbook and lets the engine write a line; a failure
\* is a visit without an entry, and a trip of the bot ends there.
Prepare ==
  /\ run.pc = "gate"
  /\ \E idle \in BOOLEAN, works \in BOOLEAN :
       LET reason == idle \/ dayKind = "weekend"
           sign == works /\ MaySign(run.target, reason)
       IN  /\ IF works THEN Fine ELSE Faults
           /\ run' = IF run.mode = "auto"
                     THEN IF sign THEN [run EXCEPT !.pc = "back", !.sign = TRUE] ELSE NoRun
                     ELSE [run EXCEPT !.sign = sign, !.reason = reason,
                                      !.pc = IF sign THEN "recheck" ELSE "record"]
  /\ UNCHANGED <<server, rows, threads, time, tale>>

\* Where to come back to: the room the server says, else its own.
ReadBack ==
  /\ run.pc = "back"
  /\ \E room \in {at, 0} :
       /\ IF room = at THEN Fine ELSE Faults
       /\ run' = [run EXCEPT !.pc = "enter", !.back = room]
  /\ UNCHANGED <<server, rows, threads, time, tale>>

\* A failing call may have been carried out.
EnterTarget ==
  /\ run.pc = "enter"
  /\ \/ Fine /\ at' = run.target /\ run' = [run EXCEPT !.pc = "recheck"]
     \/ Faults /\ at' \in {at, run.target} /\ run' = NoRun
  /\ trips' = IF run.age > 0 /\ ~afternoon THEN trips ELSE trips + 1
  /\ UNCHANGED <<entry, rows, threads, time, wanted, crossed, overtaken>>

\* Faulty: what was decided before the engine wrote is not looked at again.
RecheckNothing ==
  /\ run.pc = "recheck" /\ Fine
  /\ run' = [run EXCEPT !.pc = "post"]
  /\ UNCHANGED <<server, rows, threads, time, tale>>
\* commit_visit reads the guestbook again, posts, and records the visit as of its
\* beginning, signed or not.
Recheck ==
  /\ run.pc = "recheck"
  /\ \/ Fine /\ run' = [run EXCEPT !.pc = IF MaySign(run.target, run.reason)
                                          THEN "post" ELSE "record"]
     \/ Faults /\ run' = [run EXCEPT !.pc = "record"]
  /\ UNCHANGED <<server, rows, threads, time, tale>>
Post ==
  /\ run.pc = "post"
  /\ \/ Fine /\ entry' = [entry EXCEPT ![run.target] = 0]
     \/ Faults /\ (UNCHANGED entry \/ entry' = [entry EXCEPT ![run.target] = 0])
  /\ run' = [run EXCEPT !.pc = "record"]
  /\ UNCHANGED <<at, rows, threads, time, tale>>
Record ==
  /\ run.pc = "record" /\ Fine
  /\ seen' = [seen EXCEPT ![run.target] = run.age]
  /\ autoSeen' = IF run.mode = "auto" THEN run.age ELSE autoSeen
  /\ run' = IF run.mode = "auto" THEN [run EXCEPT !.pc = "check"] ELSE NoRun
  /\ UNCHANGED <<server, threads, time, tale>>

\* The user may have moved on meanwhile: then the bot stays.  It comes back where
\* it cannot find out.
Check ==
  /\ run.pc = "check"
  /\ \/ Fine /\ run' = IF at = run.target THEN [run EXCEPT !.pc = "return"] ELSE NoRun
     \/ Faults /\ run' = [run EXCEPT !.pc = "return"]
  /\ UNCHANGED <<server, rows, threads, time, tale>>
\* With one retry.
Return ==
  /\ run.pc = "return"
  /\ \/ Fine /\ at' = run.back /\ run' = NoRun
     \/ /\ Faults /\ at' \in {at, run.back}
        /\ run' = IF run.retried THEN NoRun ELSE [run EXCEPT !.retried = TRUE]
  /\ UNCHANGED <<entry, rows, threads, time, tale>>

VisitSteps ==
  \/ Prepare \/ ReadBack \/ EnterTarget \/ Recheck \/ Post \/ Record \/ Check \/ Return

VisitNext ==
  \/ \E r \in Rooms : UserGoes(r)
  \/ \E f \in Friends : UserWrites(f) \/ TakeThread(f)
  \/ HalfDay \/ Scan \/ VisitSteps

VisitSpec == VisitInit /\ [][VisitNext]_visitVars

\* Time passes with a scan in every half day that is no fault, and visits end.
VisitFairness ==
  /\ WF_visitVars(Scan) /\ WF_visitVars(HalfDay)
  /\ WF_visitVars(VisitSteps)
VisitFairSpec == VisitSpec /\ VisitFairness

-----------------------------------------------------------------------------
(* Properties.                                                             *)

\* A trip of the bot leaves the mate where the user last went, and there is one a
\* day; each failing call may cost one of these once.  Not looked at: a move of the
\* user to the very room the bot is in, or between a look of the bot and its step.
TripsGoUnnoticed ==
  /\ run.pc = "none" /\ ~crossed /\ events.faults = 0 => at = wanted
  /\ trips <= 1 + events.faults

\* No entry follows another of mine in the same guestbook before the cooldown,
\* whatever the user writes and visits while the engine is at work, unless the user
\* writes one after the bot's last look.
EntriesApart ==
  \A f \in Friends : Post /\ run.target = f /\ entry'[f] = 0 => CooldownOk(f) \/ overtaken

\* A visit to f is over; a scan puts g, whose row it forgets, before f, which has none.
Visits(f) == Record /\ run.target = f
Forgets(g, f) == Scan /\ g < f /\ seen[g] # None /\ Kept[g] = None /\ Kept[f] = None
=============================================================================
