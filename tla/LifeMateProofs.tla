---------------------------- MODULE LifeMateProofs ---------------------------
(***************************************************************************)
(* For every value of the constants, and each part on its own: the bot's   *)
(* trips go unnoticed and its entries keep apart; the settings hold the    *)
(* token and the room of one server, and whoever connects again under its  *)
(* name comes back to its room; the picture shown is the one seen and      *)
(* saved; the background of a picture is cleared and its face cropped as   *)
(* they should be; and who was not caught in the gaps of two requests is   *)
(* drawn and paid for once.                                                *)
(***************************************************************************)
EXTENDS MCLifeMate, Sequences, FiniteSetTheorems, WellFoundedInduction, TLAPS

Stages == {"none", "look", "mark", "draw", "write"}

OccupantsTypeOK ==
  /\ call \in [Calls -> [pc : Stages, who : Others \cup {"nobody"}]]
  /\ \A c \in Calls : call[c].pc # "none" => call[c].who \in Others
  /\ paid \in [Others -> Nat]
  /\ picture \subseteq Others /\ marker \subseteq Others /\ raced \subseteq Others
  /\ left \subseteq Others /\ marred \in Nat

Busy(c, o) == call[c].who = o /\ call[c].pc # "none"

\* Two requests for one occupant: one of them has yet to look for the marker, which the
\* other has written or already removed.
Apart(o) ==
  \A c, d \in Calls :
    c # d /\ Busy(c, o) /\ Busy(d, o) =>
      \/ call[c].pc = "look" /\ call[d].pc \in {"draw", "write"}
      \/ call[d].pc = "look" /\ call[c].pc \in {"draw", "write"}

\* Who draws has the marker, and nothing is paid before.
DrawnMarked(o) ==
  \A c \in Calls :
    /\ Busy(c, o) => o \notin picture
    /\ Busy(c, o) /\ call[c].pc = "draw" => o \in marker
    /\ Busy(c, o) /\ call[c].pc \in {"mark", "draw"} => paid[o] = 0

\* What was paid for is on disk or about to be.
PaidKept(o) ==
  /\ paid[o] <= 1
  /\ paid[o] # 0 => o \in picture \/ \E c \in Calls : Busy(c, o) /\ call[c].pc = "write"

Once(o) == Apart(o) /\ DrawnMarked(o) /\ PaidKept(o)

MarkerOwned(o) ==
  o \in marker => (\E c \in Calls : Busy(c, o) /\ call[c].pc = "draw") \/ o \in left

OccupantsInv ==
  /\ OccupantsTypeOK
  /\ \A o \in Others : o \notin raced => Once(o)
  /\ \A o \in Others : MarkerOwned(o)

-----------------------------------------------------------------------------
LEMMA OccupantsBegin == Occupants!OccupantsInit => OccupantsInv
BY DEF Occupants!OccupantsInit, OccupantsInv, OccupantsTypeOK, Occupants!Free, Stages, Busy, Once, Apart,
       DrawnMarked, PaidKept, MarkerOwned

\* The types, step by step.
LEMMA OccupantsTyped == OccupantsTypeOK /\ [Occupants!OccupantsNext]_occupantVars => OccupantsTypeOK'
<1> SUFFICES ASSUME OccupantsTypeOK, [Occupants!OccupantsNext]_occupantVars PROVE OccupantsTypeOK'
  OBVIOUS
<1> USE DEF OccupantsTypeOK, Stages, Occupants!Free
<1>1. ASSUME NEW c \in Calls, NEW o \in Others, Occupants!Request(c, o) PROVE OccupantsTypeOK'
  BY <1>1 DEF Occupants!Request
<1>2. ASSUME NEW c \in Calls, Occupants!LookMarker(c) PROVE OccupantsTypeOK'
  BY <1>2 DEF Occupants!LookMarker
<1>3. ASSUME NEW c \in Calls, Occupants!Mark(c) PROVE OccupantsTypeOK'
  BY <1>3 DEF Occupants!Mark
<1>4. ASSUME NEW c \in Calls, Occupants!Answers(c) PROVE OccupantsTypeOK'
  BY <1>4 DEF Occupants!Answers
<1>5. ASSUME NEW c \in Calls, Occupants!Keep(c) PROVE OccupantsTypeOK'
  BY <1>5 DEF Occupants!Keep
<1>6. ASSUME NEW c \in Calls, Occupants!KeepFails(c) PROVE OccupantsTypeOK'
  BY <1>6 DEF Occupants!KeepFails
<1>7. CASE Occupants!Leave
  BY <1>7 DEF Occupants!Leave
<1>8. CASE UNCHANGED occupantVars
  BY <1>8 DEF occupantVars
<1> QED
  BY <1>1, <1>2, <1>3, <1>4, <1>5, <1>6, <1>7, <1>8 DEF Occupants!OccupantsNext

\* Nobody is paid for twice without a race.
LEMMA OccupantsOnce ==
  ASSUME OccupantsInv, [Occupants!OccupantsNext]_occupantVars, NEW o \in Others, o \notin raced'
  PROVE  Once(o)'
<1>1. OccupantsTypeOK /\ OccupantsTypeOK'
  BY OccupantsTyped DEF OccupantsInv
<1>2. o \notin raced => Once(o)
  BY DEF OccupantsInv
<1> USE DEF Once, Apart, DrawnMarked, PaidKept, Busy, Occupants!At
<1>3. ASSUME NEW c \in Calls, NEW p \in Others, Occupants!Request(c, p) PROVE Once(o)'
  <2>1. o \notin raced /\ Once(o)
    BY <1>2, <1>3 DEF Occupants!Request
  <2>2. \A d \in Calls \ {c} : call'[d] = call[d]
    BY <1>1, <1>3 DEF Occupants!Request, OccupantsTypeOK
  <2>3. call'[c] = [pc |-> "look", who |-> p] /\ call[c].pc = "none"
    BY <1>1, <1>3 DEF Occupants!Request, OccupantsTypeOK
  <2>4. UNCHANGED <<picture, marker, paid>> /\ p \notin picture
    BY <1>3 DEF Occupants!Request
  <2>5. p = o => \A d \in Calls : call[d].who = o => call[d].pc \notin {"look", "mark", "write"}
    BY <1>1, <1>3 DEF Occupants!Request, OccupantsTypeOK
  <2>6. Apart(o)'
    BY <1>1, <2>1, <2>2, <2>3, <2>5 DEF OccupantsTypeOK, Stages
  <2>7. DrawnMarked(o)'
    BY <1>1, <2>1, <2>2, <2>3, <2>4
  <2>8. PaidKept(o)'
    BY <1>1, <2>1, <2>2, <2>3, <2>4
  <2> QED
    BY <2>6, <2>7, <2>8
<1>4. ASSUME NEW c \in Calls, Occupants!LookMarker(c) PROVE Once(o)'
  BY <1>1, <1>2, <1>4 DEF Occupants!LookMarker, OccupantsTypeOK, Occupants!Free
<1>5. ASSUME NEW c \in Calls, Occupants!Mark(c) PROVE Once(o)'
  BY <1>1, <1>2, <1>5 DEF Occupants!Mark, OccupantsTypeOK
<1>6. ASSUME NEW c \in Calls, Occupants!Answers(c) PROVE Once(o)'
  BY <1>1, <1>2, <1>6 DEF Occupants!Answers, OccupantsTypeOK, Occupants!Free
<1>7. ASSUME NEW c \in Calls, Occupants!Keep(c) PROVE Once(o)'
  BY <1>1, <1>2, <1>7 DEF Occupants!Keep, OccupantsTypeOK, Occupants!Free
<1>8. ASSUME NEW c \in Calls, Occupants!KeepFails(c) PROVE Once(o)'
  BY <1>1, <1>2, <1>8 DEF Occupants!KeepFails, OccupantsTypeOK, Occupants!Free
<1>9. CASE Occupants!Leave
  BY <1>1, <1>2, <1>9 DEF Occupants!Leave, OccupantsTypeOK, Occupants!Free
<1>10. CASE UNCHANGED occupantVars
  BY <1>2, <1>10 DEF occupantVars
<1> QED
  BY <1>3, <1>4, <1>5, <1>6, <1>7, <1>8, <1>9, <1>10 DEF Occupants!OccupantsNext

\* A marker goes with its drawer, or stays after a quit.
LEMMA MarkersStay ==
  ASSUME OccupantsInv, [Occupants!OccupantsNext]_occupantVars, NEW o \in Others
  PROVE  MarkerOwned(o)'
<1>1. OccupantsTypeOK /\ MarkerOwned(o)
  BY DEF OccupantsInv
<1> USE DEF MarkerOwned, Busy
<1>2. ASSUME NEW c \in Calls, NEW p \in Others, Occupants!Request(c, p) PROVE MarkerOwned(o)'
  BY <1>1, <1>2 DEF Occupants!Request, OccupantsTypeOK
<1>3. ASSUME NEW c \in Calls, Occupants!LookMarker(c) PROVE MarkerOwned(o)'
  BY <1>1, <1>3 DEF Occupants!LookMarker, OccupantsTypeOK, Occupants!Free
<1>4. ASSUME NEW c \in Calls, Occupants!Mark(c) PROVE MarkerOwned(o)'
  BY <1>1, <1>4 DEF Occupants!Mark, OccupantsTypeOK
<1>5. ASSUME NEW c \in Calls, Occupants!Answers(c) PROVE MarkerOwned(o)'
  BY <1>1, <1>5 DEF Occupants!Answers, OccupantsTypeOK, Occupants!Free
<1>6. ASSUME NEW c \in Calls, Occupants!Keep(c) PROVE MarkerOwned(o)'
  BY <1>1, <1>6 DEF Occupants!Keep, OccupantsTypeOK, Occupants!Free
<1>7. ASSUME NEW c \in Calls, Occupants!KeepFails(c) PROVE MarkerOwned(o)'
  BY <1>1, <1>7 DEF Occupants!KeepFails, OccupantsTypeOK, Occupants!Free
<1>8. CASE Occupants!Leave
  BY <1>1, <1>8 DEF Occupants!Leave
<1>9. CASE UNCHANGED occupantVars
  BY <1>1, <1>9 DEF occupantVars
<1> QED
  BY <1>2, <1>3, <1>4, <1>5, <1>6, <1>7, <1>8, <1>9 DEF Occupants!OccupantsNext

LEMMA OccupantsFit == OccupantsInv => Occupants!OccupantsInOrder
BY DEF OccupantsInv, Occupants!OccupantsInOrder, Once, PaidKept, MarkerOwned, Busy, Occupants!At

\* Nobody is drawn and paid for twice but in the gaps named, and no marker is left but by
\* a quit (request_occupant_sprite).
THEOREM DrawnOnce == MCSpec => []Occupants!OccupantsInOrder
<1>1. MCInit => OccupantsInv
  BY OccupantsBegin DEF MCInit
<1>2. [MCNext]_mateVars => [Occupants!OccupantsNext]_occupantVars
  BY DEF MCNext, mateVars, occupantVars
<1>3. OccupantsInv /\ [Occupants!OccupantsNext]_occupantVars => OccupantsInv'
  BY OccupantsTyped, OccupantsOnce, MarkersStay DEF OccupantsInv
<1> QED
  BY <1>1, <1>2, <1>3, OccupantsFit, PTL DEF MCSpec

-----------------------------------------------------------------------------
(***************************************************************************)
(* The bot's trips.                                                        *)
(***************************************************************************)
Pcs == {"none", "gate", "back", "enter", "recheck", "post", "record", "check", "return"}

Run == [pc : Pcs, mode : {"auto", "manual"}, target : Rooms, back : Rooms, age : {0, 1},
        sign : BOOLEAN, reason : BOOLEAN, retried : BOOLEAN]

RunOK ==
  /\ run \in Run
  /\ run.pc # "none" => run.target \in Friends
  /\ run.mode = "manual" => run.pc \in {"gate", "recheck", "post", "record"}

VisitTypeOK ==
  /\ at \in Rooms /\ wanted \in Rooms
  /\ entry \in [Friends -> {None} \cup Nat]
  /\ autoSeen \in {None, 0, 1, 2} /\ afternoon \in BOOLEAN
  /\ RunOK
  /\ trips \in Nat
  /\ events \in [{"moves", "faults"} -> Nat]

\* Where the mate is and where its user left it, as long as nothing failed and nobody
\* crossed the trip: the bot is away, and knows where to go back to, or the user has
\* taken it elsewhere since.
InPlace ==
  /\ run.mode = "manual" \/ run.pc \in {"none", "gate", "back", "enter"} => at = wanted
  /\ run.pc \in {"enter", "return"} => wanted = run.back
  /\ run.mode = "auto" /\ run.pc \in {"recheck", "post", "record", "check"} =>
       \/ at = run.target /\ wanted = run.back
       \/ at = wanted /\ at # run.target

\* The trip under way is one of today's, and has no row yet.
Unrecorded ==
  /\ run.mode = "auto" /\ run.pc \in {"recheck", "post", "record"}
  /\ ~(run.age = 1 /\ ~afternoon)

\* A trip without a row, other than the one under way, was a fault.
OneADay ==
  /\ trips <= 1 + events["faults"]
  /\ ~AlreadyToday /\ ~Unrecorded => trips <= events["faults"]
  /\ run.mode = "auto" /\ run.pc \in {"gate", "back", "enter", "recheck", "post", "record"}
       => ~AlreadyToday

\* The guestbook as the bot found it before it posts.
LookedAt == run.pc = "post" => CooldownOk(run.target) \/ overtaken

VisitInv ==
  /\ VisitTypeOK
  /\ ~crossed /\ events["faults"] = 0 => InPlace
  /\ OneADay
  /\ LookedAt

LEMMA NoRunIsRun ==
  /\ NoRun \in Run
  /\ NoRun.pc = "none" /\ NoRun.mode = "auto" /\ NoRun.age = 0
BY DEF NoRun, Run, Pcs, Rooms

LEMMA VisitBegins == VisitInit => VisitInv
<1> SUFFICES ASSUME VisitInit PROVE VisitInv
  OBVIOUS
<1>1. VisitTypeOK
  <2>1. afternoon \in BOOLEAN
    BY DEF VisitInit
  <2>2. entry \in [Friends -> {None} \cup Nat]
    BY DEF VisitInit
  <2> QED
    BY <2>1, <2>2, NoRunIsRun DEF VisitInit, VisitTypeOK, RunOK, Rooms
<1>2. InPlace /\ OneADay /\ LookedAt
  BY NoRunIsRun DEF VisitInit, InPlace, OneADay, LookedAt
<1> QED
  BY <1>1, <1>2 DEF VisitInv

\* The steps of a visit but for its preparation and the way back, by what they change.
Prepared ==
  /\ run.pc = "gate" /\ (Fine \/ Faults)
  /\ UNCHANGED <<at, entry, autoSeen, afternoon, wanted, crossed, overtaken, trips>>
  /\ \/ run' = NoRun
     \/ run.mode = "auto" /\ run' = [run EXCEPT !.pc = "back", !.sign = TRUE]
     \/ /\ run.mode # "auto"
        /\ \E s, r \in BOOLEAN : run' = [run EXCEPT !.sign = s, !.reason = r,
                                       !.pc = IF s THEN "recheck" ELSE "record"]

LEMMA Preparing == Prepare => Prepared
BY Zenon DEF Prepare, Prepared, server, rows, time, tale

LEMMA RunTypes == VisitTypeOK /\ [VisitNext]_visitVars => RunOK'
<1> SUFFICES ASSUME VisitTypeOK, [VisitNext]_visitVars PROVE RunOK'
  OBVIOUS
<1>0. RunOK /\ 0 \in Rooms /\ at \in Rooms /\ Friends \subseteq Rooms
  BY DEF VisitTypeOK, Rooms
<1> USE NoRunIsRun DEF RunOK, Run, Pcs
<1>1. ASSUME NEW r \in Rooms, UserGoes(r) PROVE RunOK'
  BY <1>0, <1>1 DEF UserGoes
<1>2. ASSUME NEW f \in Friends, UserWrites(f) PROVE RunOK'
  BY <1>0, <1>2 DEF UserWrites
<1>3. ASSUME NEW f \in Friends, TakeThread(f) PROVE RunOK'
  BY <1>0, <1>3 DEF TakeThread
<1>4. CASE HalfDay
  BY <1>0, <1>4 DEF HalfDay
<1>5. CASE Scan
  <2>1. CASE run' = run
    BY <1>0, <2>1
  <2>2. CASE run' # run
    <3>1. PICK f \in Friends : run' = [NoRun EXCEPT !.pc = "gate", !.target = f]
      BY <1>5, <2>2, Zenon DEF Scan, Candidates
    <3> QED
      BY <1>0, <3>1
  <2> QED
    BY <2>1, <2>2
<1>6. CASE Prepare
  <2>1. Prepared
    BY <1>6, Preparing
  <2>2. run.pc = "gate"
    BY <2>1, Zenon DEF Prepared
  <2>3. CASE run' = NoRun
    BY <1>0, <2>3
  <2>4. CASE run.mode = "auto" /\ run' = [run EXCEPT !.pc = "back", !.sign = TRUE]
    BY <1>0, <2>2, <2>4
  <2>5. ASSUME NEW s \in BOOLEAN, NEW r \in BOOLEAN, run.mode # "auto",
               run' = [run EXCEPT !.sign = s, !.reason = r, !.pc = IF s THEN "recheck" ELSE "record"]
        PROVE  RunOK'
    BY <1>0, <2>2, <2>5
  <2> QED
    BY <2>1, <2>3, <2>4, <2>5, Zenon DEF Prepared
<1>7. CASE ReadBack
  <2>1. PICK room \in {at, 0} : run' = [run EXCEPT !.pc = "enter", !.back = room]
    BY <1>7, Zenon DEF ReadBack
  <2> QED
    BY <1>0, <1>7, <2>1 DEF ReadBack
<1>8. CASE EnterTarget
  BY <1>0, <1>8 DEF EnterTarget
<1>9. CASE Recheck
  BY <1>0, <1>9 DEF Recheck
<1>10. CASE Post
  BY <1>0, <1>10 DEF Post
<1>11. CASE Record
  BY <1>0, <1>11 DEF Record
<1>12. CASE Check
  BY <1>0, <1>12 DEF Check
<1>13. CASE Return
  BY <1>0, <1>13 DEF Return
<1>14. CASE UNCHANGED visitVars
  BY <1>0, <1>14 DEF visitVars
<1> QED
  BY <1>1, <1>2, <1>3, <1>4, <1>5, <1>6, <1>7, <1>8, <1>9, <1>10, <1>11, <1>12, <1>13, <1>14
     DEF VisitNext, VisitSteps

LEMMA FaultsCount ==
  ASSUME VisitTypeOK, Fine \/ Faults \/ Happens("moves")
  PROVE  /\ events' \in [{"moves", "faults"} -> Nat]
         /\ events'["faults"] >= events["faults"]
         /\ ~Faults => events'["faults"] = events["faults"]
         /\ Faults => events'["faults"] = events["faults"] + 1
BY DEF VisitTypeOK, Fine, Faults, Happens

LEMMA StepsCount == VisitNext => Fine \/ Faults \/ Happens("moves")
<1>1. ASSUME NEW r \in Rooms, UserGoes(r) PROVE Faults \/ Happens("moves")
  BY <1>1, Zenon DEF UserGoes
<1>2. ASSUME NEW f \in Friends, UserWrites(f) \/ TakeThread(f) PROVE Fine \/ Happens("moves")
  BY <1>2, Zenon DEF UserWrites, TakeThread, Fine
<1>3. HalfDay \/ Scan => Fine \/ Faults
  BY Zenon DEF HalfDay, Scan
<1>4. Prepare \/ ReadBack => Fine \/ Faults
  BY Zenon DEF Prepare, ReadBack
<1>5. EnterTarget \/ Recheck \/ Post \/ Record \/ Check \/ Return => Fine \/ Faults
  BY Zenon DEF EnterTarget, Recheck, Post, Record, Check, Return
<1> QED
  BY <1>1, <1>2, <1>3, <1>4, <1>5, Zenon DEF VisitNext, VisitSteps

LEMMA VisitTypes == VisitTypeOK /\ [VisitNext]_visitVars => VisitTypeOK'
<1> SUFFICES ASSUME VisitTypeOK, [VisitNext]_visitVars PROVE VisitTypeOK'
  OBVIOUS
<1>0. 0 \in Rooms /\ Friends \subseteq Rooms /\ RunOK /\ RunOK'
  BY RunTypes DEF VisitTypeOK, Rooms
<1>1. events' \in [{"moves", "faults"} -> Nat]
  BY FaultsCount, StepsCount DEF visitVars, VisitTypeOK
<1> DEFINE Rest == /\ at' \in Rooms /\ wanted' \in Rooms
                   /\ entry' \in [Friends -> {None} \cup Nat]
                   /\ autoSeen' \in {None, 0, 1, 2} /\ afternoon' \in BOOLEAN
                   /\ trips' \in Nat
<1> SUFFICES Rest
  BY <1>0, <1>1 DEF VisitTypeOK
<1> USE DEF VisitTypeOK, server, rows, time, tale
<1>2. ASSUME NEW r \in Rooms, UserGoes(r) PROVE Rest
  BY <1>2 DEF UserGoes
<1>3. ASSUME NEW f \in Friends, UserWrites(f) PROVE Rest
  BY <1>3 DEF UserWrites
<1>4. ASSUME NEW f \in Friends, TakeThread(f) PROVE Rest
  BY <1>4 DEF TakeThread
<1>5. CASE HalfDay
  BY <1>5 DEF HalfDay, Older, None
<1>6. CASE Scan
  <2>1. UNCHANGED <<at, entry, autoSeen, afternoon, wanted, trips>>
    BY <1>6, Zenon DEF Scan
  <2> QED
    BY <2>1
<1>7. CASE Prepare \/ ReadBack
  <2>1. UNCHANGED <<at, entry, autoSeen, afternoon, wanted, trips>>
    BY <1>7, Zenon DEF Prepare, ReadBack
  <2> QED
    BY <2>1
<1>8. CASE EnterTarget
  BY <1>0, <1>8 DEF EnterTarget, RunOK, Run
<1>9. CASE Recheck \/ Check
  BY <1>9 DEF Recheck, Check
<1>10. CASE Post
  BY <1>10 DEF Post, RunOK, Run
<1>11. CASE Record
  BY <1>0, <1>11 DEF Record, RunOK, Run
<1>12. CASE Return
  BY <1>0, <1>12 DEF Return, RunOK, Run
<1>13. CASE UNCHANGED visitVars
  BY <1>13 DEF visitVars
<1> QED
  BY <1>2, <1>3, <1>4, <1>5, <1>6, <1>7, <1>8, <1>9, <1>10, <1>11, <1>12, <1>13
     DEF VisitNext, VisitSteps

\* Where nobody crosses and nothing fails, every step leaves the mate in its place.
LEMMA TripsInPlace ==
  ASSUME VisitInv, VisitNext, ~crossed', events'["faults"] = 0
  PROVE  InPlace'
<1>1. VisitTypeOK /\ VisitTypeOK' /\ ~Faults /\ events["faults"] = 0
  BY VisitTypes, StepsCount, FaultsCount DEF VisitInv, VisitTypeOK
<1>2. ASSUME ~crossed PROVE InPlace
  BY <1>1, <1>2 DEF VisitInv
<1>3. RunOK /\ RunOK'
  BY <1>1 DEF VisitTypeOK
<1> USE NoRunIsRun DEF InPlace, RunOK, Run, Pcs, server, rows, time, tale
<1>4. ASSUME NEW r \in Rooms, UserGoes(r) PROVE InPlace'
  <2>1. ~crossed /\ run' = run /\ at' = r /\ wanted' = r /\ run.pc \notin {"enter", "return"}
    BY <1>4 DEF UserGoes
  <2>2. run.mode = "auto" /\ run.pc \in {"recheck", "post", "record", "check"} => r # run.target
    BY <1>4 DEF UserGoes
  <2> QED
    BY <1>3, <2>1, <2>2
<1>5. ASSUME NEW f \in Friends, UserWrites(f) PROVE InPlace'
  BY <1>2, <1>5 DEF UserWrites
<1>6. ASSUME NEW f \in Friends, TakeThread(f) PROVE InPlace'
  BY <1>2, <1>3, <1>6 DEF TakeThread
<1>7. CASE HalfDay
  <2>1. UNCHANGED <<at, wanted, crossed>> /\ run' = [run EXCEPT !.age = IF run.pc = "none" THEN 0 ELSE 1]
    BY <1>7, Zenon DEF HalfDay
  <2> QED
    BY <1>2, <1>3, <2>1
<1>8. CASE Scan
  <2>1. UNCHANGED <<at, wanted, crossed>> /\ run.pc = "none"
    BY <1>8, Zenon DEF Scan
  <2>2. run' = run \/ \E f \in Candidates : run' = [NoRun EXCEPT !.pc = "gate", !.target = f]
    BY <1>8, Zenon DEF Scan
  <2>3. CASE run' = run
    BY <1>2, <2>1, <2>3
  <2>4. ASSUME NEW f, run' = [NoRun EXCEPT !.pc = "gate", !.target = f] PROVE InPlace'
    BY <1>2, <2>1, <2>4
  <2> QED
    BY <2>2, <2>3, <2>4, Zenon
<1>9. CASE Prepare
  <2>1. run.pc = "gate" /\ UNCHANGED <<at, wanted, crossed>>
    BY <1>9, Preparing, Zenon DEF Prepared
  <2>2. CASE run' = NoRun
    BY <1>2, <2>1, <2>2
  <2>3. CASE run.mode = "auto" /\ run' = [run EXCEPT !.pc = "back", !.sign = TRUE]
    BY <1>2, <1>3, <2>1, <2>3
  <2>4. ASSUME NEW s \in BOOLEAN, NEW r \in BOOLEAN, run.mode # "auto",
               run' = [run EXCEPT !.sign = s, !.reason = r, !.pc = IF s THEN "recheck" ELSE "record"]
        PROVE  InPlace'
    BY <1>2, <1>3, <2>1, <2>4
  <2> QED
    BY <1>9, Preparing, <2>2, <2>3, <2>4, Zenon DEF Prepared
<1>10. CASE ReadBack
  <2>1. /\ run.pc = "back" /\ run' = [run EXCEPT !.pc = "enter", !.back = at]
        /\ UNCHANGED <<at, wanted, crossed>>
    BY <1>1, <1>10, Zenon DEF ReadBack
  <2> QED
    BY <1>2, <1>3, <2>1
<1>11. CASE EnterTarget
  BY <1>1, <1>2, <1>3, <1>11 DEF EnterTarget
<1>12. CASE Recheck
  BY <1>2, <1>3, <1>12 DEF Recheck
<1>13. CASE Post
  BY <1>2, <1>3, <1>13 DEF Post
<1>14. CASE Record
  BY <1>2, <1>3, <1>14 DEF Record
<1>15. CASE Check
  BY <1>1, <1>2, <1>3, <1>15 DEF Check
<1>16. CASE Return
  BY <1>1, <1>2, <1>3, <1>16 DEF Return
<1> QED
  BY <1>4, <1>5, <1>6, <1>7, <1>8, <1>9, <1>10, <1>11, <1>12, <1>13, <1>14, <1>15, <1>16
     DEF VisitNext, VisitSteps

\* A step that leaves the count and the rows alone, and brings no trip nearer to its row.
LEMMA CountStays ==
  ASSUME VisitTypeOK, OneADay, UNCHANGED <<trips, autoSeen, afternoon>>,
         events'["faults"] \in Nat, events'["faults"] >= events["faults"],
         Unrecorded => Unrecorded',
         run'.mode = "auto" /\ run'.pc \in {"gate", "back", "enter", "recheck", "post", "record"}
           => ~AlreadyToday
  PROVE  OneADay'
BY DEF OneADay, VisitTypeOK, AlreadyToday

LEMMA OneTripADay == ASSUME VisitInv, VisitNext PROVE OneADay'
<1>1. VisitTypeOK /\ VisitTypeOK' /\ OneADay /\ RunOK
  BY VisitTypes DEF VisitInv, VisitTypeOK
<1>2. /\ events'["faults"] \in Nat /\ events["faults"] \in Nat
      /\ events'["faults"] >= events["faults"]
      /\ Faults => events'["faults"] = events["faults"] + 1
  BY <1>1, StepsCount, FaultsCount DEF VisitTypeOK
<1> DEFINE Outward == run.pc \in {"gate", "back", "enter", "recheck", "post", "record"}
<1>3. run.mode = "auto" /\ Outward => ~AlreadyToday
  BY <1>1 DEF OneADay
<1> USE NoRunIsRun DEF RunOK, Run, Pcs, server, rows, time, tale
<1>4. ASSUME NEW r \in Rooms, UserGoes(r) PROVE OneADay'
  BY <1>1, <1>2, <1>3, <1>4, CountStays DEF UserGoes, Unrecorded
<1>5. ASSUME NEW f \in Friends, UserWrites(f) PROVE OneADay'
  BY <1>1, <1>2, <1>3, <1>5, CountStays DEF UserWrites, Unrecorded
<1>6. ASSUME NEW f \in Friends, TakeThread(f) PROVE OneADay'
  <2>1. ~Unrecorded /\ run'.mode = "manual" /\ UNCHANGED <<trips, autoSeen, afternoon>>
    BY <1>6 DEF TakeThread, Unrecorded
  <2> QED
    BY <1>1, <1>2, <2>1, CountStays
<1>7. CASE HalfDay
  <2>1. /\ run.age = 0 /\ autoSeen' = Older(autoSeen, 2)
        /\ run' = [run EXCEPT !.age = IF run.pc = "none" THEN 0 ELSE 1]
    BY <1>7, Zenon DEF HalfDay
  <2>2. run'.pc = run.pc /\ run'.mode = run.mode
    BY <1>1, <2>1
  <2>0. afternoon' <=> ~afternoon
    BY <1>7, Zenon DEF HalfDay
  <2>5. /\ autoSeen' # 0
        /\ autoSeen' = 1 <=> autoSeen = 0
    BY <1>1, <2>1 DEF VisitTypeOK, Older, None
  <2>3. CASE afternoon
    <3>1. trips' = 0
      BY <1>7, <2>3, Zenon DEF HalfDay
    <3>2. ~AlreadyToday'
      BY <2>0, <2>3, <2>5, Zenon DEF AlreadyToday
    <3> QED
      BY <1>2, <3>1, <3>2 DEF OneADay
  <2>4. CASE ~afternoon
    <3>1. trips' = trips
      BY <1>7, <2>4, Zenon DEF HalfDay
    <3>2. AlreadyToday' <=> AlreadyToday
      <4>1. AlreadyToday' <=> autoSeen' \in {0} \cup {1}
        BY <2>0, <2>4, Zenon DEF AlreadyToday
      <4>2. AlreadyToday <=> autoSeen \in {0} \cup {}
        BY <2>4, Zenon DEF AlreadyToday
      <4> QED
        BY <2>5, <4>1, <4>2, Zenon
    <3>3. Unrecorded' <=> Unrecorded
      <4>1. afternoon'
        BY <2>0, <2>4
      <4>2. ~(run.age = 1 /\ ~afternoon)
        BY <2>1
      <4> QED
        BY <4>1, <4>2, <2>2 DEF Unrecorded
    <3> QED
      BY <1>1, <1>2, <2>2, <3>1, <3>2, <3>3 DEF OneADay, VisitTypeOK
  <2> QED
    BY <2>3, <2>4
<1>8. CASE Scan
  <2>1. UNCHANGED <<trips, autoSeen, afternoon>> /\ run.pc = "none"
    BY <1>8, Zenon DEF Scan
  <2>2. \/ run' = run
        \/ ~AlreadyToday /\ \E f \in Candidates : run' = [NoRun EXCEPT !.pc = "gate", !.target = f]
    BY <1>8, Zenon DEF Scan, AutoDue
  <2>3. ~Unrecorded
    BY <2>1 DEF Unrecorded
  <2>4. run'.pc = "none" \/ ~AlreadyToday
    BY <2>1, <2>2, Zenon
  <2> QED
    BY <1>1, <1>2, <2>1, <2>3, <2>4, CountStays
<1>9. CASE Prepare
  <2>1. run.pc = "gate" /\ UNCHANGED <<trips, autoSeen, afternoon>>
    BY <1>9, Preparing, Zenon DEF Prepared
  <2>2. run' = NoRun \/ run'.mode = run.mode
    <3>1. \A s, r \in BOOLEAN :
            run' = [run EXCEPT !.sign = s, !.reason = r, !.pc = IF s THEN "recheck" ELSE "record"]
              => run'.mode = run.mode
      BY <1>1
    <3>2. run' = [run EXCEPT !.pc = "back", !.sign = TRUE] => run'.mode = run.mode
      BY <1>1
    <3> QED
      BY <1>9, Preparing, <3>1, <3>2, Zenon DEF Prepared
  <2>3. ~Unrecorded
    BY <2>1 DEF Unrecorded
  <2> QED
    BY <1>1, <1>2, <1>3, <2>1, <2>2, <2>3, CountStays
<1>10. CASE ReadBack
  <2>1. run.pc = "back" /\ UNCHANGED <<trips, autoSeen, afternoon>>
    BY <1>10, Zenon DEF ReadBack
  <2>2. PICK room \in {at, 0} : run' = [run EXCEPT !.pc = "enter", !.back = room]
    BY <1>10, Zenon DEF ReadBack
  <2>3. ~Unrecorded /\ run'.mode = run.mode
    BY <1>1, <2>1, <2>2 DEF Unrecorded
  <2> QED
    BY <1>1, <1>2, <1>3, <2>1, <2>3, CountStays
<1>11. CASE EnterTarget
  <2>1. /\ run.pc = "enter" /\ run.mode = "auto" /\ UNCHANGED <<autoSeen, afternoon>>
        /\ (run' = [run EXCEPT !.pc = "recheck"]) \/ (Faults /\ run' = NoRun)
    BY <1>1, <1>11 DEF EnterTarget
  <2>2. ~Unrecorded /\ ~AlreadyToday /\ ~AlreadyToday'
    BY <1>3, <2>1 DEF Unrecorded, AlreadyToday
  <2>3. trips \in Nat /\ trips <= events["faults"]
    BY <1>1, <2>2 DEF OneADay, VisitTypeOK
  <2>4. CASE run.age > 0 /\ ~afternoon
    <3>1. trips' = trips
      BY <1>11, <2>4, Zenon DEF EnterTarget
    <3> QED
      BY <1>2, <2>2, <2>3, <3>1 DEF OneADay
  <2>5. CASE ~(run.age > 0 /\ ~afternoon)
    <3>1. trips' = trips + 1
      BY <1>11, <2>5, Zenon DEF EnterTarget
    <3>2. CASE Faults
      BY <1>2, <2>2, <2>3, <3>1, <3>2 DEF OneADay
    <3>3. CASE run' = [run EXCEPT !.pc = "recheck"]
      <4>1. run'.mode = "auto" /\ run'.pc = "recheck" /\ run'.age = run.age
        BY <1>1, <2>1, <3>3
      <4>2. ~(run.age = 1 /\ ~afternoon)
        BY <2>5
      <4>3. Unrecorded'
        BY <2>1, <4>1, <4>2 DEF Unrecorded
      <4> QED
        BY <1>2, <2>2, <2>3, <3>1, <4>3 DEF OneADay
    <3> QED
      BY <2>1, <3>2, <3>3
  <2> QED
    BY <2>4, <2>5
<1>12. CASE Recheck \/ Post
  <2>1. /\ Outward /\ UNCHANGED <<trips, autoSeen, afternoon>>
        /\ \E p \in {"post", "record"} : run' = [run EXCEPT !.pc = p]
    BY <1>12 DEF Recheck, Post
  <2>2. run'.mode = run.mode /\ run'.age = run.age /\ run'.pc \in {"post", "record"}
    BY <1>1, <2>1
  <2> QED
    BY <1>1, <1>2, <1>3, <2>1, <2>2, CountStays DEF Unrecorded
<1>13. CASE Record
  <2>1. CASE run.mode = "auto"
    <3>1. /\ autoSeen' = run.age /\ run' = [run EXCEPT !.pc = "check"] /\ UNCHANGED <<trips, afternoon>>
          /\ run.pc = "record"
      BY <1>13, <2>1, Zenon DEF Record, time, tale
    <3>2. ~AlreadyToday /\ run'.pc = "check"
      BY <1>1, <1>3, <2>1, <3>1
    <3>3. Unrecorded => AlreadyToday'
      BY <1>1, <3>1 DEF Unrecorded, AlreadyToday
    <3> QED
      BY <1>1, <1>2, <3>1, <3>2, <3>3 DEF OneADay, VisitTypeOK
  <2>2. CASE run.mode = "manual"
    <3>1. UNCHANGED <<autoSeen, trips, afternoon>> /\ run' = NoRun
      BY <1>13, <2>2 DEF Record
    <3> QED
      BY <1>1, <1>2, <2>2, <3>1, CountStays DEF Unrecorded
  <2> QED
    BY <1>1, <2>1, <2>2
<1>14. CASE Check \/ Return
  <2>1. /\ UNCHANGED <<trips, autoSeen, afternoon>> /\ ~Unrecorded
        /\ run'.pc \in {"none", "return"}
    BY <1>1, <1>14 DEF Check, Return, Unrecorded
  <2> QED
    BY <1>1, <1>2, <2>1, CountStays
<1> QED
  BY <1>4, <1>5, <1>6, <1>7, <1>8, <1>9, <1>10, <1>11, <1>12, <1>13, <1>14, Zenon
     DEF VisitNext, VisitSteps

\* Once the bot has looked, only an entry of its user's can bring the guestbook's newest
\* one within the cooldown: time does not.
LEMMA LooksHold == ASSUME VisitInv, VisitNext PROVE LookedAt'
<1>1. VisitTypeOK /\ LookedAt /\ RunOK
  BY DEF VisitInv, VisitTypeOK
<1> USE NoRunIsRun DEF LookedAt, RunOK, Run, Pcs, server, rows, time, tale
<1>2. ASSUME NEW r \in Rooms, UserGoes(r) PROVE LookedAt'
  BY <1>1, <1>2 DEF UserGoes, CooldownOk
<1>3. ASSUME NEW f \in Friends, UserWrites(f) PROVE LookedAt'
  <2>1. /\ entry' = [entry EXCEPT ![f] = 0] /\ run' = run
        /\ overtaken \/ (run.pc = "post" /\ run.target = f) => overtaken'
    BY <1>3, Zenon DEF UserWrites
  <2>2. run.target # f => entry'[run.target] = entry[run.target]
    BY <1>1, <2>1 DEF VisitTypeOK
  <2> QED
    BY <1>1, <2>1, <2>2 DEF CooldownOk
<1>4. ASSUME NEW f \in Friends, TakeThread(f) PROVE LookedAt'
  <2>1. run' = [NoRun EXCEPT !.pc = "gate", !.mode = "manual", !.target = f]
    BY <1>4, Zenon DEF TakeThread
  <2> QED
    BY <2>1
<1>5. CASE HalfDay
  <2>1. /\ entry' = [f \in Friends |-> Older(entry[f], LongTime)] /\ UNCHANGED overtaken
        /\ run' = [run EXCEPT !.age = IF run.pc = "none" THEN 0 ELSE 1]
    BY <1>5, Zenon DEF HalfDay
  <2>2. run'.pc = run.pc /\ run'.target = run.target
    BY <1>1, <2>1
  <2>3. ASSUME run.pc = "post", CooldownOk(run.target) PROVE CooldownOk(run.target)'
    <3>1. run.target \in Friends
      BY <1>1, <2>3
    <3>2. entry[run.target] \in {None} \cup Nat
      BY <1>1, <3>1, Zenon DEF VisitTypeOK
    <3>3. entry'[run.target] = Older(entry[run.target], LongTime)
      BY <2>1, <3>1
    <3>4. \A a \in {None} \cup Nat :
            a = None \/ a >= Cooldown => LET o == Older(a, LongTime) IN o = None \/ o >= Cooldown
      BY VisitsAssumption DEF Older, None
    <3> QED
      BY <2>2, <2>3, <3>2, <3>3, <3>4 DEF CooldownOk
  <2> QED
    BY <1>1, <2>1, <2>2, <2>3, Zenon DEF LookedAt
<1>6. CASE Scan
  <2>1. run.pc = "none" /\ (run' = run \/ \E f \in Candidates : run' = [NoRun EXCEPT !.pc = "gate", !.target = f])
    BY <1>6, Zenon DEF Scan
  <2>2. run'.pc # "post"
    <3>1. \A f : run' = [NoRun EXCEPT !.pc = "gate", !.target = f] => run'.pc # "post"
      BY NoRunIsRun
    <3> QED
      BY <2>1, <3>1, Zenon
  <2> QED
    BY <2>2
<1>7. CASE Prepare
  <2>1. run.pc = "gate"
    BY <1>7, Preparing, Zenon DEF Prepared
  <2>2. run'.pc # "post"
    <3>1. \A s, r \in BOOLEAN :
            run' = [run EXCEPT !.sign = s, !.reason = r, !.pc = IF s THEN "recheck" ELSE "record"]
              => run'.pc # "post"
      BY <1>1
    <3>2. run' = [run EXCEPT !.pc = "back", !.sign = TRUE] => run'.pc # "post"
      BY <1>1
    <3>3. run' = NoRun => run'.pc # "post"
      BY <1>1
    <3> QED
      BY <1>7, Preparing, <3>1, <3>2, <3>3, Zenon DEF Prepared
  <2> QED
    BY <2>2
<1>8. CASE ReadBack
  <2>1. PICK room \in {at, 0} : run' = [run EXCEPT !.pc = "enter", !.back = room]
    BY <1>8, Zenon DEF ReadBack
  <2> QED
    BY <1>1, <2>1
<1>9. CASE EnterTarget \/ Post \/ Record \/ Check \/ Return
  BY <1>1, <1>9 DEF EnterTarget, Post, Record, Check, Return
<1>10. CASE Recheck
  <2>1. UNCHANGED <<entry, overtaken>>
    BY <1>10, Zenon DEF Recheck
  <2>2. \/ run' = [run EXCEPT !.pc = "record"]
        \/ run' = [run EXCEPT !.pc = "post"] /\ MaySign(run.target, run.reason)
    BY <1>10, Zenon DEF Recheck
  <2>3. MaySign(run.target, run.reason) => CooldownOk(run.target)
    BY Zenon DEF MaySign, SignDecision
  <2>4. run'.target = run.target /\ (run'.pc = "record" \/ CooldownOk(run.target))
    BY <1>1, <2>2, <2>3
  <2> QED
    BY <2>1, <2>4 DEF CooldownOk
<1> QED
  BY <1>2, <1>3, <1>4, <1>5, <1>6, <1>7, <1>8, <1>9, <1>10, Zenon DEF VisitNext, VisitSteps

LEMMA VisitsGoOn == VisitInv /\ [VisitNext]_visitVars => VisitInv'
<1> SUFFICES ASSUME VisitInv, [VisitNext]_visitVars PROVE VisitInv'
  OBVIOUS
<1>1. CASE VisitNext
  <2>1. VisitTypeOK'
    BY <1>1, VisitTypes DEF VisitInv
  <2> QED
    BY <1>1, <2>1, TripsInPlace, OneTripADay, LooksHold, Zenon DEF VisitInv
<1>2. CASE UNCHANGED visitVars
  BY <1>2 DEF visitVars, server, rows, time, tale, VisitInv, VisitTypeOK, RunOK, InPlace, OneADay,
     AlreadyToday, Unrecorded, LookedAt, CooldownOk
<1> QED
  BY <1>1, <1>2

\* The part of two friends; nothing is said of the other.
Trips == part = "visits" => VisitInv

LEMMA TripsBegin == MCInit => Trips
BY VisitBegins DEF MCInit, Trips

LEMMA TripsGoOn == Trips /\ [MCNext]_mateVars => Trips'
<1> SUFFICES ASSUME Trips, [MCNext]_mateVars, part' = "visits" PROVE VisitInv'
  BY DEF Trips
<1>1. part = "visits"
  BY Zenon DEF MCNext, mateVars
<1>2. [VisitNext]_visitVars
  BY <1>1, Zenon DEF MCNext, mateVars
<1> QED
  BY <1>1, <1>2, VisitsGoOn DEF Trips

\* No entry of the bot's follows another of mine before the cooldown, whatever its user does
\* meanwhile, unless the user writes after the last look (commit_visit).
THEOREM EntriesKeepApart == MCSpec => EntriesSpaced
<1>1. ASSUME VisitInv, NEW f \in Friends, Post, run.target = f PROVE CooldownOk(f) \/ overtaken
  BY <1>1, Zenon DEF VisitInv, LookedAt, Post
<1>2. Trips => (part = "visits" => EntriesApart)
  BY <1>1, Zenon DEF Trips, EntriesApart
<1> QED
  BY <1>2, TripsBegin, TripsGoOn, PTL DEF MCSpec, EntriesSpaced

-----------------------------------------------------------------------------
(***************************************************************************)
(* What the settings say of the connection.                                *)
(***************************************************************************)
IsToken(t) == t = [server |-> t.server, agent |-> t.agent, epoch |-> t.epoch]

IsCommand(c) ==
  /\ c = [pc |-> c.pc, url |-> c.url, name |-> c.name, work |-> c.work, token |-> c.token]
  /\ IsToken(c.token)

ConnTypeOK ==
  /\ conn = [url |-> conn.url, token |-> conn.token, life |-> conn.life] /\ IsToken(conn.token)
  /\ command = [w \in Connection!Windows |-> command[w]]
  /\ \A w \in Connection!Windows : IsCommand(command[w])
  /\ mixed \subseteq {"token", "life", "overlap"}

Active(w) == command[w].pc # "none"

\* Two commands under way are noted until one of them sets everything right alone.
OverlapsNoted ==
  \A v, w \in Connection!Windows :
    v # w /\ Active(v) /\ Active(w) => {"token", "life", "overlap"} \subseteq mixed

\* A command that ends with a token brings one of the server it has asked.
TokenOfServer ==
  \A w \in Connection!Windows :
    command[w].pc \in {"store", "store_all"} => command[w].token.server = command[w].url

\* A renaming goes by the settings as they are.
SettingsAsRead ==
  "token" \notin mixed =>
    \A w \in Connection!Windows :
      command[w].pc \in {"rename", "store", "keep"} =>
        command[w].token = conn.token /\ command[w].url = conn.url

ConnInv ==
  ConnTypeOK /\ OverlapsNoted /\ TokenOfServer /\ SettingsAsRead /\ Connection!CredentialsFit

LEMMA ConnectionBegins == Connection!ConnectionInit => ConnInv
BY DEF Connection!ConnectionInit, ConnInv, ConnTypeOK, OverlapsNoted, TokenOfServer, SettingsAsRead,
   Connection!CredentialsFit, IsToken, IsCommand, Active, Connection!NoToken, Connection!NoCommand

\* A command begins.
LEMMA CommandBegins ==
  ASSUME ConnInv, NEW u \in Connection!Windows, NEW c, command[u].pc = "none",
         IsCommand(c), c.pc # "none", c.pc \notin {"store", "store_all"},
         c.pc \in {"rename", "keep"} => c.token = conn.token /\ c.url = conn.url,
         command' = [command EXCEPT ![u] = c], Connection!Mixed(u), conn' = conn
  PROVE  ConnInv'
<1> USE DEF ConnInv
<1>1. /\ command'[u] = c
      /\ \A w \in Connection!Windows \ {u} : command'[w] = command[w]
      /\ ConnTypeOK'
  BY DEF ConnTypeOK, Connection!Mixed
<1>2. /\ mixed \ {"overlap"} \subseteq mixed'
      /\ ~(\E v \in Connection!Windows \ {u} : Active(v))
           \/ {"token", "life", "overlap"} \subseteq mixed'
  BY DEF ConnTypeOK, Connection!Mixed, Connection!Overlaps, Active
<1>3. OverlapsNoted'
  <2> SUFFICES ASSUME NEW v \in Connection!Windows, NEW w \in Connection!Windows,
                      v # w, Active(v)', Active(w)'
               PROVE  {"token", "life", "overlap"} \subseteq mixed'
    BY DEF OverlapsNoted
  <2>1. \E x \in Connection!Windows \ {u} : Active(x)
    BY <1>1 DEF Active
  <2> QED
    BY <2>1, <1>2
<1>4. TokenOfServer'
  BY <1>1 DEF TokenOfServer
<1>5. SettingsAsRead'
  BY <1>1, <1>2 DEF SettingsAsRead
<1>6. Connection!CredentialsFit'
  BY <1>2 DEF Connection!CredentialsFit
<1> QED
  BY <1>1, <1>3, <1>4, <1>5, <1>6

\* A command goes on.
LEMMA CommandGoesOn ==
  ASSUME ConnInv, NEW u \in Connection!Windows, NEW c, command[u].pc # "none", IsCommand(c),
         c.pc \in {"store", "store_all"} => c.token.server = c.url,
         c.pc \in {"store", "keep"} =>
           command[u].pc = "rename" /\ c.token = command[u].token /\ c.url = command[u].url,
         c.pc # "rename",
         command' = [command EXCEPT ![u] = c], UNCHANGED <<mixed, conn>>
  PROVE  ConnInv'
<1> USE DEF ConnInv
<1>1. /\ command'[u] = c
      /\ \A w \in Connection!Windows \ {u} : command'[w] = command[w]
      /\ ConnTypeOK'
  BY DEF ConnTypeOK
<1>2. OverlapsNoted' /\ TokenOfServer' /\ SettingsAsRead' /\ Connection!CredentialsFit'
  BY <1>1 DEF OverlapsNoted, TokenOfServer, SettingsAsRead, Active, Connection!CredentialsFit
<1> QED
  BY <1>1, <1>2

\* A command ends and leaves the settings to whoever comes next.
LEMMA CommandEnds ==
  ASSUME ConnInv, NEW u \in Connection!Windows, command[u].pc # "none", Connection!Ends(u),
         conn' = [url |-> conn'.url, token |-> conn'.token, life |-> conn'.life],
         IsToken(conn'.token), mixed' \subseteq mixed,
         Connection!Overlaps(u) => mixed' = mixed,
         Connection!CredentialsFit'
  PROVE  ConnInv'
<1> USE DEF ConnInv
<1>1. /\ command'[u] = Connection!NoCommand
      /\ \A w \in Connection!Windows \ {u} : command'[w] = command[w]
      /\ ConnTypeOK'
  BY DEF ConnTypeOK, Connection!Ends, IsCommand, IsToken, Connection!NoCommand, Connection!NoToken
<1>2. command'[u].pc = "none"
  BY <1>1 DEF Connection!NoCommand
<1>3. \A w \in Connection!Windows :
        w # u /\ Active(w) => {"token", "life", "overlap"} \subseteq mixed'
  BY DEF OverlapsNoted, Connection!Overlaps, Active
<1>4. OverlapsNoted' /\ TokenOfServer' /\ SettingsAsRead'
  BY <1>1, <1>2, <1>3 DEF OverlapsNoted, TokenOfServer, SettingsAsRead, Active
<1> QED
  BY <1>1, <1>4

LEMMA ConnectionGoesOn ==
  ConnInv /\ [Connection!ConnectionNext]_connectionVars => ConnInv'
<1> SUFFICES ASSUME ConnInv, [Connection!ConnectionNext]_connectionVars PROVE ConnInv'
  OBVIOUS
<1>1. ConnTypeOK /\ TokenOfServer /\ SettingsAsRead /\ Connection!CredentialsFit
  BY DEF ConnInv
<1>2. \A w \in Connection!Windows : IsCommand(command[w])
  BY <1>1 DEF ConnTypeOK
<1>3. ASSUME UNCHANGED <<conn, command, mixed>> PROVE ConnInv'
  BY <1>3 DEF ConnInv, ConnTypeOK, OverlapsNoted, TokenOfServer, SettingsAsRead, Active,
     Connection!CredentialsFit
<1>4. CASE Connection!EditOther \/ (\E s \in Servers : Connection!LoseAccounts(s))
           \/ Connection!ReadPicture \/ (\E u \in upload : Connection!UploadPicture(u))
           \/ UNCHANGED connectionVars
  <2>1. UNCHANGED <<conn, command, mixed>>
    BY <1>4, Zenon DEF Connection!EditOther, Connection!LoseAccounts, Connection!ReadPicture,
       Connection!UploadPicture, connectionVars
  <2> QED
    BY <1>3, <2>1
<1> SUFFICES ASSUME NEW w \in Connection!Windows,
                    \/ Connection!CommandSteps(w) \/ Connection!QuitStoring(w)
                    \/ Connection!CallFails(w) \/ Connection!Disconnect(w)
                    \/ (\E s \in Servers : Connection!Connect(w, s))
                    \/ (\E n \in Names : Connection!EditName(w, n))
             PROVE  ConnInv'
  BY <1>4, Zenon DEF Connection!ConnectionNext
<1> DEFINE c == command[w]
<1>5. IsCommand(c) /\ IsToken(c.token)
  BY <1>2 DEF IsCommand
<1>6. CASE Connection!Disconnect(w)
  <2> DEFINE d == [Connection!NoCommand EXCEPT !.pc = "leave"]
  <2>1. IsCommand(d) /\ d.pc = "leave"
    BY DEF IsCommand, IsToken, Connection!NoCommand, Connection!NoToken
  <2>2. /\ c.pc = "none" /\ command' = [command EXCEPT ![w] = d]
        /\ Connection!Mixed(w) /\ conn' = conn
    BY <1>6, Zenon DEF Connection!Disconnect
  <2> HIDE DEF d
  <2> QED
    BY <2>1, <2>2, CommandBegins
<1>7. ASSUME NEW s \in Servers, Connection!Connect(w, s) PROVE ConnInv'
  <2> DEFINE d == [pc |-> Connection!FirstCall(s), url |-> s, name |-> profile.name,
                   work |-> profile.work, token |-> conn.token]
  <2>1. d.pc \in {"rename", "register"} /\ (d.pc = "rename" => conn.url = s)
    BY DEF Connection!FirstCall
  <2>2. IsCommand(d) /\ d.url = s /\ d.token = conn.token
    BY <1>1 DEF IsCommand, ConnTypeOK
  <2>3. /\ c.pc = "none" /\ command' = [command EXCEPT ![w] = d]
        /\ Connection!Mixed(w) /\ conn' = conn
    BY <1>7, Zenon DEF Connection!Connect
  <2> HIDE DEF d
  <2> QED
    BY <2>1, <2>2, <2>3, CommandBegins
<1>8. ASSUME NEW n \in Names, Connection!EditName(w, n) PROVE ConnInv'
  <2>1. CASE conn.token = Connection!NoToken
    BY <1>3, <1>8, <2>1, Zenon DEF Connection!EditName
  <2>2. CASE conn.token # Connection!NoToken
    <3> DEFINE d == [pc |-> "sync", url |-> conn.url, name |-> n, work |-> profile.work,
                     token |-> conn.token]
    <3>1. IsCommand(d) /\ d.pc = "sync"
      BY <1>1 DEF IsCommand, ConnTypeOK
    <3>2. /\ c.pc = "none" /\ command' = [command EXCEPT ![w] = d]
          /\ Connection!Mixed(w) /\ conn' = conn
      BY <1>8, <2>2, Zenon DEF Connection!EditName
    <3> HIDE DEF d
    <3> QED
      BY <3>1, <3>2, CommandBegins
  <2> QED
    BY <2>1, <2>2
<1>9. CASE Connection!ForgetConnection(w)
  <2>1. /\ c.pc = "leave" /\ Connection!Ends(w) /\ mixed' = mixed
        /\ conn' = [conn EXCEPT !.token = Connection!NoToken, !.life = 0]
    BY <1>9, Zenon DEF Connection!ForgetConnection
  <2>2. /\ conn' = [url |-> conn.url, token |-> Connection!NoToken, life |-> 0]
        /\ IsToken(Connection!NoToken)
    BY <1>1, <2>1 DEF ConnTypeOK, IsToken, Connection!NoToken
  <2>3. Connection!CredentialsFit'
    BY <2>2 DEF Connection!CredentialsFit
  <2> QED
    BY <2>1, <2>2, <2>3, CommandEnds
<1>10. CASE Connection!RenameAnswers(w)
  <2>1. /\ c.pc = "rename" /\ UNCHANGED <<mixed, conn>>
        /\ \/ Connection!Goes(w, "store") /\ Connection!Accepts(c.url, c.token)
           \/ Connection!Goes(w, "keep")
           \/ Connection!Goes(w, "register")
    BY <1>10, Zenon DEF Connection!RenameAnswers
  <2>2. ASSUME NEW p \in {"store", "keep", "register"}, Connection!Goes(w, p),
               p = "store" => Connection!Accepts(c.url, c.token)
        PROVE  ConnInv'
    <3> DEFINE d == [c EXCEPT !.pc = p]
    <3>1. command' = [command EXCEPT ![w] = d]
      BY <1>1, <2>2 DEF Connection!Goes, ConnTypeOK
    <3>2. IsCommand(d) /\ d.pc = p /\ d.token = c.token /\ d.url = c.url
      BY <1>5 DEF IsCommand
    <3>3. p = "store" => d.token.server = d.url
      BY <2>2, <3>2 DEF Connection!Accepts
    <3> HIDE DEF d
    <3> QED
      BY <2>1, <3>1, <3>2, <3>3, CommandGoesOn
  <2> QED
    BY <2>1, <2>2
<1>11. CASE Connection!RegisterAnswers(w)
  <2> DEFINE t == [server |-> c.url, agent |-> Connection!RegisteredAs(c.url, c.name),
                   epoch |-> epoch[c.url]]
             d == [c EXCEPT !.pc = "store_all", !.token = t]
  <2>1. /\ c.pc = "register" /\ UNCHANGED <<mixed, conn>>
        /\ command' = [command EXCEPT ![w].pc = "store_all", ![w].token = t]
    BY <1>11, Zenon DEF Connection!RegisterAnswers
  <2>2. command' = [command EXCEPT ![w] = d]
    BY <1>1, <2>1 DEF ConnTypeOK
  <2>4. IsToken(t) /\ t.server = c.url
    BY DEF IsToken
  <2> HIDE DEF t
  <2> DEFINE e == [c EXCEPT !.pc = "store_all"]
  <2>5. IsCommand(e) /\ e.pc = "store_all" /\ e.url = c.url
    BY <1>5 DEF IsCommand
  <2>6. d = [e EXCEPT !.token = t]
    OBVIOUS
  <2> HIDE DEF e, d
  <2>3. IsCommand(d) /\ d.pc = "store_all" /\ d.token.server = d.url
    BY <2>4, <2>5, <2>6 DEF IsCommand
  <2> QED
    BY <2>1, <2>2, <2>3, CommandGoesOn
<1>12. CASE Connection!SyncAnswers(w) \/ Connection!CallFails(w)
  <2>1. c.pc # "none" /\ Connection!Ends(w) /\ UNCHANGED <<mixed, conn>>
    BY <1>12 DEF Connection!SyncAnswers, Connection!CallFails
  <2>2. Connection!CredentialsFit'
    BY <1>1, <2>1 DEF Connection!CredentialsFit
  <2> QED
    BY <1>1, <2>1, <2>2, CommandEnds DEF ConnTypeOK
<1>13. CASE Connection!StoreUrl(w)
  <2>1. /\ c.pc \in {"store", "keep"} /\ Connection!Ends(w)
        /\ conn' = [conn EXCEPT !.url = c.url]
        /\ IF c.pc = "store"
           THEN mixed' = IF conn.token = c.token /\ ~Connection!Overlaps(w)
                         THEN mixed \ {"token"} ELSE mixed
           ELSE mixed' = mixed
    BY <1>13, Zenon DEF Connection!StoreUrl
  <2>2. conn' = [url |-> c.url, token |-> conn.token, life |-> conn.life]
    BY <1>1, <2>1 DEF ConnTypeOK
  <2>3. Connection!CredentialsFit'
    BY <1>1, <2>1, <2>2 DEF Connection!CredentialsFit, SettingsAsRead, TokenOfServer
  <2> QED
    BY <1>1, <2>1, <2>2, <2>3, CommandEnds DEF ConnTypeOK
<1>14. CASE Connection!StoreAll(w)
  <2>1. /\ c.pc = "store_all" /\ Connection!Ends(w)
        /\ conn' = [url |-> c.url, token |-> c.token, life |-> c.token.agent]
        /\ mixed' = IF Connection!Overlaps(w) THEN mixed ELSE {}
    BY <1>14, Zenon DEF Connection!StoreAll
  <2>2. Connection!CredentialsFit'
    BY <1>1, <2>1 DEF Connection!CredentialsFit, TokenOfServer
  <2> QED
    BY <1>5, <2>1, <2>2, CommandEnds
<1>15. CASE Connection!QuitStoring(w)
  <2>1. /\ command' = [v \in Connection!Windows |-> Connection!NoCommand]
        /\ mixed' = {"token", "life"}
        /\ \/ UNCHANGED conn
           \/ conn' = [conn EXCEPT !.url = c.url]
           \/ conn' = [conn EXCEPT !.url = c.url, !.token = c.token]
    BY <1>15, Zenon DEF Connection!QuitStoring
  <2>2. ConnTypeOK'
    BY <1>1, <1>5, <2>1
       DEF ConnTypeOK, IsCommand, IsToken, Connection!NoCommand, Connection!NoToken
  <2> QED
    BY <2>1, <2>2 DEF ConnInv, OverlapsNoted, TokenOfServer, SettingsAsRead, Active,
       Connection!CredentialsFit, Connection!NoCommand
<1> QED
  BY <1>6, <1>7, <1>8, <1>9, <1>10, <1>11, <1>12, <1>13, <1>14, <1>15, Zenon
     DEF Connection!CommandSteps

-----------------------------------------------------------------------------
\* Neither is a trip of the bot felt by its user, nor does a second one begin on the same
\* day, but for failures; and the settings hold the token and the room of one server, but
\* after commands that overlapped or were cut (maybe_auto_visit, commit_visit, hub_connect).
THEOREM NothingIsMisplaced == MCSpec => []NothingMisplaced
<1> DEFINE Both == Trips /\ ConnInv
<1>1. MCInit => Both
  BY TripsBegin, ConnectionBegins DEF MCInit
<1>2. Both /\ [MCNext]_mateVars => Both'
  <2>1. [MCNext]_mateVars => [Connection!ConnectionNext]_connectionVars
    BY Zenon DEF MCNext, mateVars, connectionVars
  <2> QED
    BY <2>1, TripsGoOn, ConnectionGoesOn
<1>3. Both => NothingMisplaced
  <2>1. VisitInv => TripsGoUnnoticed
    BY DEF VisitInv, InPlace, OneADay, TripsGoUnnoticed
  <2> QED
    BY <2>1, Zenon DEF Trips, ConnInv, NothingMisplaced
<1> QED
  BY <1>1, <1>2, <1>3, PTL DEF MCSpec

-----------------------------------------------------------------------------
(***************************************************************************)
(* The way back to one's room.                                             *)
(***************************************************************************)
AccountsOf == [name : Names, work : Nat, image : Nat]
Tokens == [server : Servers, agent : Nat, epoch : Nat]
Steps == {"none", "leave", "sync", "rename", "register", "keep", "store", "store_all"}
Commands ==
  {c \in [pc : Steps, url : Servers \cup {"none"}, name : Names \cup {"none"}, work : Nat,
          token : Tokens \cup {Connection!NoToken}] :
     /\ c.pc \notin {"none", "leave"} => c.url \in Servers /\ c.name \in Names
     /\ c.pc \in {"sync", "rename", "keep", "store", "store_all"} => c.token \in Tokens}

HomeTypeOK ==
  /\ accounts \in [Servers -> Seq(AccountsOf)] /\ epoch \in [Servers -> Nat]
  /\ conn \in [url : Servers \cup {"none"}, token : Tokens \cup {Connection!NoToken}, life : Nat]
  /\ conn.token # Connection!NoToken => conn.url \in Servers
  /\ profile \in [name : Names, work : Nat, sprite : Nat]
  /\ command \in [Connection!Windows -> Commands]
  /\ upload \subseteq [token : Tokens, picture : Nat]
  /\ home \in [Servers -> Nat]

\* The agent that a registration under that name leads to.
First(s, n, i) ==
  i \in Connection!NamedAs(s, n) /\ \A j \in Connection!NamedAs(s, n) : i <= j

NoHome == \A s \in Servers : home[s] = 0

\* What strays, strays with its room.
Strayed == mixed # {} => "life" \in mixed

\* Whoever registers under the present name comes home, once a renaming has been stored.
HomeKept ==
  mixed = {} =>
    \A s \in Servers :
      home[s] # 0 =>
        \/ First(s, profile.name, home[s])
        \/ \E w \in Connection!Windows : command[w].pc = "store" /\ command[w].url = s

\* A command under way goes by the present name, if that is at home anywhere.
NamesFit ==
  mixed = {} =>
    \A w \in Connection!Windows :
      /\ command[w].pc \in {"rename", "store"} => command[w].name = profile.name
      /\ command[w].pc \in {"register", "store_all"} => command[w].name = profile.name \/ NoHome
      /\ command[w].pc = "sync" => NoHome

\* The token about to be stored is that of the name, or of accounts that are lost.
Registered ==
  "overlap" \notin mixed =>
    \A w \in Connection!Windows :
      command[w].pc = "store_all" =>
        IF Connection!Accepts(command[w].url, command[w].token)
        THEN First(command[w].url, command[w].name, command[w].token.agent)
        ELSE home[command[w].url] = 0

\* No token is of a time to come.
Issued ==
  \A w \in Connection!Windows :
    command[w].pc = "store_all" => command[w].token.epoch <= epoch[command[w].url]

Ways == Strayed /\ HomeKept /\ NamesFit /\ Registered /\ Issued

HomeInv == ConnInv /\ HomeTypeOK /\ Ways

LEMMA HomeBegins == Connection!ConnectionInit => HomeInv
<1> SUFFICES ASSUME Connection!ConnectionInit PROVE HomeInv
  OBVIOUS
<1>1. ConnInv
  BY ConnectionBegins
<1>2. HomeTypeOK
  <2>1. Connection!NoCommand \in Commands
    BY DEF Commands, Connection!NoCommand, Steps
  <2>2. command \in [Connection!Windows -> Commands]
    BY <2>1 DEF Connection!ConnectionInit
  <2>3. accounts \in [Servers -> Seq(AccountsOf)]
    BY DEF Connection!ConnectionInit
  <2> QED
    BY <2>2, <2>3 DEF Connection!ConnectionInit, HomeTypeOK
<1>3. Ways
  BY DEF Connection!ConnectionInit, Ways, Strayed, HomeKept, NamesFit, Registered, Issued,
     Connection!NoCommand
<1> QED
  BY <1>1, <1>2, <1>3 DEF HomeInv

-----------------------------------------------------------------------------
(* Names on a server.                                                      *)

SameNames(s) ==
  /\ DOMAIN accounts'[s] = DOMAIN accounts[s]
  /\ \A i \in DOMAIN accounts[s] : accounts'[s][i].name = accounts[s][i].name

LEMMA FirstStays ==
  \A s \in Servers : SameNames(s) => \A n, i : First(s, n, i) => First(s, n, i)'
BY DEF SameNames, First, Connection!NamedAs

LEMMA ReplacedIn ==
  ASSUME NEW S, NEW q \in Seq(S), NEW i, NEW v, i \in DOMAIN q => v \in S
  PROVE  /\ [q EXCEPT ![i] = v] \in Seq(S) /\ DOMAIN [q EXCEPT ![i] = v] = DOMAIN q
         /\ \A j \in DOMAIN q : [q EXCEPT ![i] = v][j] = IF j = i THEN v ELSE q[j]
<1>1. q \in [1 .. Len(q) -> S] /\ Len(q) \in Nat
  OBVIOUS
<1>2. [q EXCEPT ![i] = v] \in [1 .. Len(q) -> S]
  BY <1>1
<1> QED
  BY <1>1, <1>2

\* Registration finds the first of the name, or puts one there.
LEMMA RegisteredFirst ==
  ASSUME HomeTypeOK, NEW s \in Servers, NEW n \in Names, NEW k \in Nat, Connection!Register(s, n, k)
  PROVE  /\ \E i \in Nat : i = Connection!RegisteredAs(s, n) /\ First(s, n, i)'
         /\ accounts' \in [Servers -> Seq(AccountsOf)]
         /\ \A r \in Servers : \A m, j : First(r, m, j) => First(r, m, j)'
<1>0. PICK i : i = Connection!RegisteredAs(s, n)
  OBVIOUS
<1> DEFINE x == accounts[s]
           y == [name |-> n, work |-> k, image |-> 0]
<1>1. /\ accounts \in [Servers -> Seq(AccountsOf)] /\ x \in Seq(AccountsOf)
      /\ Len(x) \in Nat /\ DOMAIN x = 1 .. Len(x)
  BY DEF HomeTypeOK
<1>2. accounts' = [accounts EXCEPT ![s] = IF i \in DOMAIN x THEN [x EXCEPT ![i].work = k]
                                          ELSE Append(x, y)]
  BY <1>0 DEF Connection!Register
<1>3. CASE Connection!NamedAs(s, n) # {}
  <2>1. Connection!NamedAs(s, n) \subseteq Nat
    BY <1>1 DEF Connection!NamedAs
  <2>2. \E j \in Connection!NamedAs(s, n) : \A l \in Connection!NamedAs(s, n) : ~(l < j)
    <3>1. \E j \in Connection!NamedAs(s, n) :
            \A l \in Connection!NamedAs(s, n) : ~(<<l, j>> \in OpToRel(<, Nat))
      BY <1>3, <2>1, NatLessThanWellFounded, WFMin, Zenon
    <3> QED
      BY <2>1, <3>1 DEF OpToRel
  <2>3. \E j \in Connection!NamedAs(s, n) : \A l \in Connection!NamedAs(s, n) : j <= l
    BY <2>1, <2>2
  <2>4. First(s, n, i)
    BY <1>0, <1>3, <2>3 DEF First, Connection!RegisteredAs
  <2>5. i \in DOMAIN x /\ i \in Nat
    BY <2>1, <2>4 DEF First, Connection!NamedAs
  <2>6. accounts' = [accounts EXCEPT ![s] = [x EXCEPT ![i] = [x[i] EXCEPT !.work = k]]]
    BY <1>2, <2>5
  <2>7. [x[i] EXCEPT !.work = k] \in AccountsOf /\ [x[i] EXCEPT !.work = k].name = x[i].name
    <3>1. x[i] \in AccountsOf
      BY <1>1, <2>5
    <3> QED
      BY <3>1 DEF AccountsOf
  <2>8. /\ [x EXCEPT ![i] = [x[i] EXCEPT !.work = k]] \in Seq(AccountsOf)
        /\ DOMAIN [x EXCEPT ![i] = [x[i] EXCEPT !.work = k]] = DOMAIN x
        /\ \A j \in DOMAIN x : [x EXCEPT ![i] = [x[i] EXCEPT !.work = k]][j].name = x[j].name
    BY <1>1, <2>7, ReplacedIn
  <2>9. /\ accounts' \in [Servers -> Seq(AccountsOf)]
        /\ accounts'[s] = [x EXCEPT ![i] = [x[i] EXCEPT !.work = k]]
        /\ \A r \in Servers \ {s} : accounts'[r] = accounts[r]
    BY <1>1, <2>6, <2>8
  <2>10. \A r \in Servers : SameNames(r)
    BY <2>8, <2>9 DEF SameNames
  <2>11. \A r \in Servers : \A m, j : First(r, m, j) => First(r, m, j)'
    BY <2>10, FirstStays
  <2> QED
    BY <1>0, <2>4, <2>5, <2>9, <2>11
<1>4. CASE Connection!NamedAs(s, n) = {}
  <2>1. i = Len(x) + 1 /\ i \notin DOMAIN x /\ i \in Nat
    BY <1>0, <1>1, <1>4 DEF Connection!RegisteredAs
  <2>2. accounts' = [accounts EXCEPT ![s] = Append(x, y)]
    BY <1>2, <2>1
  <2>3. y \in AccountsOf /\ y.name = n
    BY DEF AccountsOf
  <2> HIDE DEF y
  <2>4. /\ Append(x, y) \in Seq(AccountsOf) /\ DOMAIN Append(x, y) = 1 .. Len(x) + 1
        /\ Append(x, y)[Len(x) + 1] = y /\ \A j \in 1 .. Len(x) : Append(x, y)[j] = x[j]
    BY <1>1, <2>3
  <2>5. /\ accounts' \in [Servers -> Seq(AccountsOf)]
        /\ accounts'[s] = Append(x, y) /\ \A r \in Servers \ {s} : accounts'[r] = accounts[r]
    BY <1>1, <2>2, <2>4
  <2>6. Connection!NamedAs(s, n)' = {i}
    BY <1>1, <1>4, <2>1, <2>3, <2>4, <2>5 DEF Connection!NamedAs
  <2>7. \A m : m # n => Connection!NamedAs(s, m)' = Connection!NamedAs(s, m)
    BY <1>1, <2>1, <2>3, <2>4, <2>5 DEF Connection!NamedAs
  <2>8. \A r \in Servers \ {s} : \A m : Connection!NamedAs(r, m)' = Connection!NamedAs(r, m)
    BY <2>5 DEF Connection!NamedAs
  <2>9. First(s, n, i)'
    BY <2>1, <2>6 DEF First
  <2>10. \A r \in Servers : \A m, j : First(r, m, j) => First(r, m, j)'
    BY <1>4, <2>7, <2>8 DEF First
  <2> QED
    BY <1>0, <2>1, <2>5, <2>9, <2>10
<1> QED
  BY <1>3, <1>4

\* A renaming leaves the other servers alone.
LEMMA RenamingStays ==
  ASSUME HomeTypeOK, NEW s \in Servers, NEW t, NEW n \in Names, Connection!Rename(s, t, n)
  PROVE  /\ accounts' \in [Servers -> Seq(AccountsOf)]
         /\ \A r \in Servers \ {s} : SameNames(r)
<1>0. PICK i : i = t.agent
  OBVIOUS
<1> DEFINE x == accounts[s]
<1>1. accounts \in [Servers -> Seq(AccountsOf)] /\ x \in Seq(AccountsOf)
  BY DEF HomeTypeOK
<1>2. accounts' = [accounts EXCEPT ![s] = [x EXCEPT ![i] = [x[i] EXCEPT !.name = n]]]
  BY <1>0, <1>1 DEF Connection!Rename
<1>3. ASSUME i \in DOMAIN x PROVE [x[i] EXCEPT !.name = n] \in AccountsOf
  <2>1. x[i] \in AccountsOf
    BY <1>1, <1>3
  <2> QED
    BY <2>1 DEF AccountsOf
<1>4. [x EXCEPT ![i] = [x[i] EXCEPT !.name = n]] \in Seq(AccountsOf)
  <2>1. PICK v : v = [x[i] EXCEPT !.name = n]
    OBVIOUS
  <2>2. i \in DOMAIN x => v \in AccountsOf
    BY <1>3, <2>1
  <2>3. [x EXCEPT ![i] = v] \in Seq(AccountsOf)
    BY <1>1, <2>2, ReplacedIn
  <2> QED
    BY <2>1, <2>3
<1> QED
  BY <1>1, <1>2, <1>4 DEF SameNames

-----------------------------------------------------------------------------
(* The types, step by step.                                                *)

LEMMA CommandSet ==
  ASSUME command \in [Connection!Windows -> Commands], NEW w \in Connection!Windows, NEW d \in Commands,
         command' = [command EXCEPT ![w] = d]
  PROVE  /\ command' \in [Connection!Windows -> Commands] /\ command'[w] = d
         /\ \A v \in Connection!Windows \ {w} : command'[v] = command[v]
OBVIOUS

LEMMA CommandOver ==
  /\ Connection!NoCommand \in Commands /\ Connection!NoCommand.pc = "none"
  /\ [Connection!NoCommand EXCEPT !.pc = "leave"] \in Commands
BY DEF Commands, Connection!NoCommand, Steps

\* A command on its way asks for the next answer.
LEMMA CommandForward ==
  ASSUME NEW c \in Commands, c.pc \notin {"none", "leave"}, NEW p \in Steps, p # "none",
         p \in {"sync", "rename", "keep", "store", "store_all"} => c.token \in Tokens
  PROVE  /\ [c EXCEPT !.pc = p] \in Commands /\ [c EXCEPT !.pc = p].pc = p
         /\ [c EXCEPT !.pc = p].url = c.url /\ [c EXCEPT !.pc = p].name = c.name
         /\ [c EXCEPT !.pc = p].token = c.token
BY DEF Commands

LEMMA HomeTyped == HomeTypeOK /\ [Connection!ConnectionNext]_connectionVars => HomeTypeOK'
<1> SUFFICES ASSUME HomeTypeOK, [Connection!ConnectionNext]_connectionVars PROVE HomeTypeOK'
  OBVIOUS
<1> USE DEF HomeTypeOK
<1>1. CASE UNCHANGED connectionVars
  BY <1>1 DEF connectionVars
<1>2. CASE Connection!EditOther
  <2>1. \/ profile' = [profile EXCEPT !.work = profile.work + 1]
        \/ profile' = [profile EXCEPT !.sprite = profile.sprite + 1]
    BY <1>2 DEF Connection!EditOther
  <2>2. profile \in [name : Names, work : Nat, sprite : Nat]
    OBVIOUS
  <2>3. profile.work + 1 \in Nat /\ profile.sprite + 1 \in Nat
    BY <2>2
  <2>4. profile' \in [name : Names, work : Nat, sprite : Nat]
    BY ONLY <2>1, <2>2, <2>3
  <2> QED
    BY <1>2, <2>4 DEF Connection!EditOther
<1>3. ASSUME NEW s \in Servers, Connection!LoseAccounts(s) PROVE HomeTypeOK'
  <2>1. /\ accounts' = [accounts EXCEPT ![s] = <<>>] /\ epoch' = [epoch EXCEPT ![s] = epoch[s] + 1]
        /\ home' = [home EXCEPT ![s] = 0] /\ UNCHANGED <<conn, profile, command, upload>>
    BY <1>3 DEF Connection!LoseAccounts
  <2>2. accounts' \in [Servers -> Seq(AccountsOf)]
    BY <2>1
  <2>3. epoch' \in [Servers -> Nat] /\ home' \in [Servers -> Nat]
    BY <2>1
  <2> QED
    BY <2>1, <2>2, <2>3
<1>4. CASE Connection!ReadPicture
  BY <1>4 DEF Connection!ReadPicture
<1>5. ASSUME NEW u \in upload, Connection!UploadPicture(u) PROVE HomeTypeOK'
  <2> DEFINE s == u.token.server
             x == accounts[s]
             i == u.token.agent
  <2>1. u \in [token : Tokens, picture : Nat] /\ s \in Servers
    BY DEF Tokens
  <2>2. upload' \subseteq upload /\ UNCHANGED <<epoch, conn, profile, command, home>>
    BY <1>5 DEF Connection!UploadPicture
  <2>3. \/ UNCHANGED accounts
        \/ accounts' = [accounts EXCEPT ![s][i].image = u.picture]
    BY <1>5 DEF Connection!UploadPicture, Connection!StoredPicture
  <2>4. CASE accounts' = [accounts EXCEPT ![s][i].image = u.picture]
    <3>1. accounts' = [accounts EXCEPT ![s] = [x EXCEPT ![i] = [x[i] EXCEPT !.image = u.picture]]]
      BY <2>4
    <3>2. x \in Seq(AccountsOf)
      BY <2>1
    <3>3. PICK v : v = [x[i] EXCEPT !.image = u.picture]
      OBVIOUS
    <3>4. ASSUME i \in DOMAIN x PROVE v \in AccountsOf
      <4>1. x[i] \in AccountsOf
        BY <3>2, <3>4
      <4> QED
        BY <2>1, <3>3, <4>1 DEF AccountsOf
    <3>5. [x EXCEPT ![i] = v] \in Seq(AccountsOf)
      <4>1. i \in DOMAIN x => v \in AccountsOf
        BY <3>4
      <4> HIDE DEF x, i
      <4> QED
        BY <3>2, <4>1, ReplacedIn
    <3>6. accounts' \in [Servers -> Seq(AccountsOf)]
      BY <3>1, <3>3, <3>5
    <3> QED
      BY <2>2, <3>6
  <2> QED
    BY <2>2, <2>3, <2>4
<1> SUFFICES ASSUME NEW w \in Connection!Windows,
                    \/ Connection!CommandSteps(w) \/ Connection!QuitStoring(w)
                    \/ Connection!CallFails(w) \/ Connection!Disconnect(w)
                    \/ (\E s \in Servers : Connection!Connect(w, s))
                    \/ (\E n \in Names : Connection!EditName(w, n))
             PROVE  HomeTypeOK'
  BY <1>1, <1>2, <1>3, <1>4, <1>5, Zenon DEF Connection!ConnectionNext
<1> DEFINE c == command[w]
<1>6. c \in Commands /\ profile.name \in Names /\ profile.work \in Nat
  OBVIOUS
<1>7. CASE Connection!Disconnect(w)
  BY <1>7, CommandOver, CommandSet DEF Connection!Disconnect
<1>8. ASSUME NEW s \in Servers, Connection!Connect(w, s) PROVE HomeTypeOK'
  <2> DEFINE d == [pc |-> Connection!FirstCall(s), url |-> s, name |-> profile.name,
                   work |-> profile.work, token |-> conn.token]
  <2>1. d \in Commands
    BY <1>6 DEF Commands, Connection!FirstCall, Steps
  <2>2. command' = [command EXCEPT ![w] = d] /\ UNCHANGED <<accounts, epoch, conn, profile, upload, home>>
    BY <1>8 DEF Connection!Connect
  <2> HIDE DEF d
  <2> QED
    BY <2>1, <2>2, CommandSet
<1>9. ASSUME NEW n \in Names, Connection!EditName(w, n) PROVE HomeTypeOK'
  <2> DEFINE d == [pc |-> "sync", url |-> conn.url, name |-> n, work |-> profile.work,
                   token |-> conn.token]
  <2>1. conn.token # Connection!NoToken => d \in Commands
    BY <1>6 DEF Commands, Steps
  <2>2. /\ profile' = [profile EXCEPT !.name = n] /\ home' = [s \in Servers |-> 0]
        /\ UNCHANGED <<accounts, epoch, conn, upload>>
        /\ \/ UNCHANGED command
           \/ conn.token # Connection!NoToken /\ command' = [command EXCEPT ![w] = d]
    BY <1>9 DEF Connection!EditName
  <2> HIDE DEF d
  <2>3. command' \in [Connection!Windows -> Commands]
    BY <2>1, <2>2, CommandSet
  <2> QED
    BY <2>2, <2>3
<1>10. CASE Connection!ForgetConnection(w)
  <2>1. /\ command' = [command EXCEPT ![w] = Connection!NoCommand]
        /\ conn' = [conn EXCEPT !.token = Connection!NoToken, !.life = 0]
        /\ UNCHANGED <<accounts, epoch, profile, upload, home>>
    BY <1>10 DEF Connection!ForgetConnection, Connection!Ends
  <2>2. /\ conn' \in [url : Servers \cup {"none"}, token : Tokens \cup {Connection!NoToken}, life : Nat]
        /\ conn'.token = Connection!NoToken
    BY <2>1
  <2> QED
    BY <2>1, <2>2, CommandOver, CommandSet
<1>11. CASE Connection!RenameAnswers(w)
  <2>1. /\ c.pc = "rename" /\ UNCHANGED <<epoch, conn, profile, upload, home>>
        /\ \/ Connection!Rename(c.url, c.token, c.name) \/ UNCHANGED accounts
        /\ \E p \in {"store", "keep", "register"} : command' = [command EXCEPT ![w].pc = p]
    BY <1>11 DEF Connection!RenameAnswers, Connection!Goes
  <2>2. c.url \in Servers /\ c.name \in Names /\ c.token \in Tokens
    BY <1>6, <2>1 DEF Commands
  <2>3. accounts' \in [Servers -> Seq(AccountsOf)]
    BY <2>1, <2>2, RenamingStays
  <2>4. PICK p \in {"store", "keep", "register"} : command' = [command EXCEPT ![w] = [c EXCEPT !.pc = p]]
    BY <2>1
  <2>5. [c EXCEPT !.pc = p] \in Commands
    BY <1>6, <2>1, <2>2, CommandForward DEF Steps
  <2> QED
    BY <2>1, <2>3, <2>4, <2>5, CommandSet
<1>12. CASE Connection!RegisterAnswers(w)
  <2> DEFINE i == Connection!RegisteredAs(c.url, c.name)
             t == [server |-> c.url, agent |-> i, epoch |-> epoch[c.url]]
             d == [c EXCEPT !.pc = "store_all", !.token = t]
  <2>1. /\ c.pc = "register" /\ Connection!Register(c.url, c.name, c.work)
        /\ command' = [command EXCEPT ![w] = d] /\ UNCHANGED <<epoch, conn, profile, upload, home>>
    BY <1>12 DEF Connection!RegisterAnswers
  <2>2. c.url \in Servers /\ c.name \in Names /\ c.work \in Nat
    BY <1>6, <2>1 DEF Commands
  <2>3. i \in Nat /\ accounts' \in [Servers -> Seq(AccountsOf)]
    BY <2>1, <2>2, RegisteredFirst
  <2>4. d \in Commands
    BY <1>6, <2>2, <2>3 DEF Commands, Steps, Tokens
  <2> HIDE DEF d
  <2> QED
    BY <2>1, <2>3, <2>4, CommandSet
<1>13. CASE Connection!SyncAnswers(w) \/ Connection!CallFails(w)
  <2>1. /\ c.pc \in {"sync", "rename", "register"} /\ command' = [command EXCEPT ![w] = Connection!NoCommand]
        /\ UNCHANGED <<epoch, conn, profile, upload>>
        /\ UNCHANGED home \/ home' = [home EXCEPT ![c.url] = 0]
        /\ \/ Connection!Rename(c.url, c.token, c.name) \/ UNCHANGED accounts
           \/ Connection!Register(c.url, c.name, c.work)
    BY <1>13, Zenon DEF Connection!SyncAnswers, Connection!CallFails, Connection!Ends
  <2>2. c.url \in Servers /\ c.name \in Names /\ c.work \in Nat
    BY <1>6, <2>1 DEF Commands
  <2>3. accounts' \in [Servers -> Seq(AccountsOf)]
    BY <2>1, <2>2, RenamingStays, RegisteredFirst
  <2>4. CASE home' = [home EXCEPT ![c.url] = 0]
    <3>1. home' \in [Servers -> Nat]
      BY <2>4
    <3> QED
      BY <2>1, <2>3, <3>1, CommandOver, CommandSet
  <2>5. CASE UNCHANGED home
    BY <2>1, <2>3, <2>5, CommandOver, CommandSet
  <2> QED
    BY <2>1, <2>4, <2>5
<1>14. CASE Connection!StoreUrl(w) \/ Connection!StoreAll(w) \/ Connection!QuitStoring(w)
  <2>1. c.pc \in {"store", "keep", "store_all"}
    BY <1>14 DEF Connection!StoreUrl, Connection!StoreAll, Connection!QuitStoring
  <2>2. /\ c.url \in Servers /\ c.name \in Names /\ c.token \in Tokens
        /\ c.token.agent \in Nat /\ c.token # Connection!NoToken
    BY <1>6, <2>1, MateAssumption
       DEF Commands, Tokens, Connection!NoToken, Connection!ConnectionAssumption
  <2>3. CASE Connection!StoreUrl(w)
    <3>1. /\ UNCHANGED <<accounts, epoch, profile>> /\ conn' = [conn EXCEPT !.url = c.url]
          /\ command' = [command EXCEPT ![w] = Connection!NoCommand]
      BY <2>3 DEF Connection!StoreUrl, Connection!Ends
    <3>2. /\ upload' \subseteq [token : Tokens, picture : Nat]
          /\ \/ UNCHANGED home
             \/ home' = [home EXCEPT ![c.url] = c.token.agent] \/ home' = [home EXCEPT ![c.url] = 0]
      BY <2>2, <2>3 DEF Connection!StoreUrl
    <3>3. /\ [home EXCEPT ![c.url] = c.token.agent] \in [Servers -> Nat]
          /\ [home EXCEPT ![c.url] = 0] \in [Servers -> Nat]
      BY <2>2
    <3>4. home' \in [Servers -> Nat]
      <4>1. UNCHANGED home => home' \in [Servers -> Nat]
        OBVIOUS
      <4> QED
        BY <2>2, <3>2, <3>3, <4>1, Zenon
    <3> QED
      BY <2>2, <3>1, <3>2, <3>4, CommandOver, CommandSet
  <2>4. CASE Connection!StoreAll(w)
    <3>1. /\ UNCHANGED <<accounts, epoch>> /\ profile' = [profile EXCEPT !.name = c.name]
          /\ conn' = [url |-> c.url, token |-> c.token, life |-> c.token.agent]
          /\ command' = [command EXCEPT ![w] = Connection!NoCommand]
      BY <2>4 DEF Connection!StoreAll, Connection!Ends
    <3>2. upload' \subseteq [token : Tokens, picture : Nat] /\ home' \in [Servers -> Nat]
      BY <2>2, <2>4 DEF Connection!StoreAll
    <3> QED
      BY <2>2, <3>1, <3>2, CommandOver, CommandSet
  <2>5. CASE Connection!QuitStoring(w)
    BY <2>2, <2>5, CommandOver DEF Connection!QuitStoring
  <2> QED
    BY <1>14, <2>3, <2>4, <2>5
<1> QED
  BY <1>7, <1>8, <1>9, <1>10, <1>11, <1>12, <1>13, <1>14, Zenon DEF Connection!CommandSteps

-----------------------------------------------------------------------------
(* The ways home, step by step.                                            *)

\* Neither names nor tokens, commands or homes.
LEMMA QuietStep ==
  ASSUME HomeTypeOK, Ways, \A s \in Servers : SameNames(s), profile'.name = profile.name,
         UNCHANGED <<epoch, command, home, mixed>>
  PROVE  Ways'
<1>1. \A s \in Servers : \A n, i : First(s, n, i) => First(s, n, i)'
  BY FirstStays
<1>2. HomeKept'
  BY <1>1 DEF Ways, HomeKept
<1>3. Registered'
  <2>1. \A w \in Connection!Windows : command[w].pc = "store_all" => command[w].url \in Servers
    BY DEF HomeTypeOK, Commands
  <2>2. \A s, t : Connection!Accepts(s, t)' = Connection!Accepts(s, t)
    BY DEF Connection!Accepts
  <2> QED
    BY <1>1, <2>1, <2>2 DEF Ways, Registered
<1> QED
  BY <1>2, <1>3 DEF Ways, Strayed, NamesFit, NoHome, Issued

\* Who has no other command beside it, if nothing strays or overlaps.
LEMMA Alone ==
  ASSUME ConnInv, NEW w \in Connection!Windows, command[w].pc # "none", "overlap" \notin mixed
  PROVE  /\ \A v \in Connection!Windows \ {w} : command[v].pc = "none"
         /\ ~Connection!Overlaps(w)
BY DEF ConnInv, OverlapsNoted, Active, Connection!Overlaps

\* Servers that lose everything.
LEMMA LosingKeeps ==
  ASSUME HomeTypeOK, Ways, NEW s \in Servers, Connection!LoseAccounts(s)
  PROVE  Ways'
<1>1. /\ accounts' = [accounts EXCEPT ![s] = <<>>] /\ epoch' = [epoch EXCEPT ![s] = epoch[s] + 1]
      /\ home' = [home EXCEPT ![s] = 0] /\ UNCHANGED <<profile, command, mixed>>
  BY DEF Connection!LoseAccounts
<1>2. /\ home'[s] = 0 /\ epoch'[s] = epoch[s] + 1 /\ epoch[s] \in Nat
      /\ \A r \in Servers \ {s} :
           SameNames(r) /\ home'[r] = home[r] /\ epoch'[r] = epoch[r]
  BY <1>1 DEF HomeTypeOK, SameNames
<1>3. \A r \in Servers \ {s} : \A n, i : First(r, n, i) => First(r, n, i)'
  BY <1>2, FirstStays
<1>4. HomeKept'
  BY <1>1, <1>2, <1>3 DEF Ways, HomeKept
<1>5. NamesFit'
  <2>1. NoHome => NoHome'
    BY <1>2 DEF NoHome
  <2> QED
    BY <1>1, <2>1 DEF Ways, NamesFit
<1>6. Registered'
  <2> SUFFICES ASSUME "overlap" \notin mixed, NEW w \in Connection!Windows, command[w].pc = "store_all"
               PROVE  IF Connection!Accepts(command[w].url, command[w].token)'
                      THEN First(command[w].url, command[w].name, command[w].token.agent)'
                      ELSE home'[command[w].url] = 0
    BY <1>1 DEF Registered
  <2> DEFINE r == command[w].url
  <2>1. r \in Servers
    BY DEF HomeTypeOK, Commands
  <2>2. CASE r = s
    <3>1. command[w].token.epoch <= epoch[s] /\ command[w].token.epoch \in Nat
      BY <2>2 DEF Ways, Issued, HomeTypeOK, Commands, Tokens
    <3> QED
      BY <1>1, <1>2, <2>2, <3>1 DEF Connection!Accepts
  <2>3. CASE r # s
    BY <1>1, <1>2, <1>3, <2>1, <2>3 DEF Ways, Registered, Connection!Accepts
  <2> QED
    BY <2>2, <2>3
<1>7. Issued'
  <2> SUFFICES ASSUME NEW w \in Connection!Windows, command[w].pc = "store_all"
               PROVE  command[w].token.epoch <= epoch'[command[w].url]
    BY <1>1 DEF Issued
  <2>1. command[w].url \in Servers /\ command[w].token.epoch \in Nat
    BY DEF HomeTypeOK, Commands, Tokens
  <2>2. epoch'[command[w].url] \in {epoch[command[w].url], epoch[command[w].url] + 1}
    BY <1>2, <2>1
  <2>3. epoch[command[w].url] \in Nat
    BY <2>1 DEF HomeTypeOK
  <2> QED
    BY <2>1, <2>2, <2>3 DEF Ways, Issued
<1> QED
  BY <1>1, <1>4, <1>5, <1>6, <1>7 DEF Ways, Strayed

\* A command begins, under the present name or under one that is at home nowhere.
LEMMA BeginningKeeps ==
  ASSUME HomeInv, NEW w \in Connection!Windows, NEW d, command[w].pc = "none",
         d.pc \in {"leave", "sync", "rename", "register"},
         command' = [command EXCEPT ![w] = d], Connection!Mixed(w), UNCHANGED <<accounts, epoch>>,
         \/ /\ UNCHANGED <<profile, home>> /\ d.pc # "sync"
            /\ d.pc # "leave" => d.name = profile.name
         \/ NoHome' /\ d.pc = "sync"
  PROVE  Ways'
<1>1. Ways /\ HomeTypeOK
  BY DEF HomeInv
<1>2. command'[w] = d /\ \A v \in Connection!Windows \ {w} : command'[v] = command[v]
  BY <1>1 DEF HomeTypeOK
<1>3. ("overlap" \notin mixed' => ~Connection!Overlaps(w)) /\ (mixed' = {} => mixed = {})
  BY <1>1 DEF Connection!Mixed, Ways, Strayed
<1>4. mixed' = {} => \A v \in Connection!Windows : command[v].pc = "none"
  BY <1>3 DEF Connection!Overlaps
<1>5. Strayed'
  BY <1>1 DEF Connection!Mixed, Ways, Strayed
<1>6. HomeKept'
  <2> SUFFICES ASSUME mixed' = {}, NEW s \in Servers, home'[s] # 0
               PROVE  First(s, profile.name, home[s])'
    BY DEF HomeKept
  <2>1. UNCHANGED <<profile, home>>
    BY DEF NoHome
  <2>2. First(s, profile.name, home[s])
    BY <1>1, <1>3, <1>4, <2>1 DEF Ways, HomeKept
  <2> QED
    BY <2>1, <2>2 DEF First, Connection!NamedAs
<1>7. NamesFit'
  BY <1>1, <1>2, <1>3, <1>4 DEF NamesFit
<1>8. Registered'
  BY <1>2, <1>3 DEF Registered, Connection!Overlaps
<1>9. Issued'
  BY <1>1, <1>2 DEF Ways, Issued
<1> QED
  BY <1>5, <1>6, <1>7, <1>8, <1>9 DEF Ways

\* A new name, and nobody to tell.
LEMMA NamingKeeps ==
  ASSUME HomeInv, conn.token = Connection!NoToken, NoHome',
         UNCHANGED <<accounts, epoch, command, mixed>>
  PROVE  Ways'
<1>1. Ways /\ HomeTypeOK /\ SettingsAsRead
  BY DEF HomeInv, ConnInv
<1>2. HomeKept' /\ Strayed' /\ Issued'
  BY <1>1 DEF HomeKept, NoHome, Ways, Strayed, Issued
<1>3. NamesFit'
  <2>1. ASSUME mixed = {}, NEW w \in Connection!Windows, command[w].pc \in {"rename", "store"}
        PROVE  FALSE
    <3>1. command[w].token = Connection!NoToken /\ command[w].token \in Tokens
      BY <1>1, <2>1 DEF SettingsAsRead, HomeTypeOK, Commands
    <3> QED
      BY <3>1, MateAssumption DEF Tokens, Connection!NoToken, Connection!ConnectionAssumption
  <2> QED
    BY <2>1 DEF NamesFit
<1>4. Registered'
  <2>1. \A w \in Connection!Windows : command[w].pc = "store_all" => command[w].url \in Servers
    BY <1>1 DEF HomeTypeOK, Commands
  <2> QED
    BY <1>1, <2>1 DEF Ways, Registered, NoHome, First, Connection!NamedAs, Connection!Accepts
<1> QED
  BY <1>2, <1>3, <1>4 DEF Ways

\* A command ends without a trace.
LEMMA EndingKeeps ==
  ASSUME HomeInv, NEW w \in Connection!Windows, command[w].pc \notin {"none", "store"},
         Connection!Ends(w), UNCHANGED <<accounts, epoch, profile, home, mixed>>
  PROVE  Ways'
<1>1. Ways /\ HomeTypeOK
  BY DEF HomeInv
<1>2. /\ command'[w] = Connection!NoCommand /\ Connection!NoCommand.pc = "none"
      /\ \A v \in Connection!Windows \ {w} : command'[v] = command[v]
  BY <1>1 DEF HomeTypeOK, Connection!Ends, Connection!NoCommand
<1>3. HomeKept'
  BY <1>1, <1>2 DEF Ways, HomeKept, First, Connection!NamedAs
<1>4. NamesFit' /\ Strayed' /\ Issued'
  BY <1>1, <1>2 DEF Ways, NamesFit, NoHome, Strayed, Issued
<1>5. Registered'
  BY <1>1, <1>2 DEF Ways, Registered, First, Connection!NamedAs, Connection!Accepts
<1> QED
  BY <1>3, <1>4, <1>5 DEF Ways

\* A renaming whose command hears nothing of it.
LEMMA RenamingKeeps ==
  ASSUME HomeInv, NEW w \in Connection!Windows, command[w].pc \in {"rename", "sync"}, Connection!Ends(w),
         Connection!Rename(command[w].url, command[w].token, command[w].name),
         UNCHANGED <<epoch, profile, mixed>>,
         \A s \in Servers \ {command[w].url} : home'[s] = home[s],
         mixed = {} => home'[command[w].url] = 0
  PROVE  Ways'
<1>1. Ways /\ HomeTypeOK /\ ConnInv
  BY DEF HomeInv
<1> DEFINE r == command[w].url
<1>2. /\ command'[w] = Connection!NoCommand /\ Connection!NoCommand.pc = "none"
      /\ \A v \in Connection!Windows \ {w} : command'[v] = command[v]
  BY <1>1 DEF HomeTypeOK, Connection!Ends, Connection!NoCommand
<1>3. r \in Servers /\ command[w].name \in Names
  BY <1>1 DEF HomeTypeOK, Commands
<1>4. \A s \in Servers \ {r} : SameNames(s)
  BY <1>1, <1>3, RenamingStays
<1>5. \A s \in Servers \ {r} : \A n, i : First(s, n, i) => First(s, n, i)'
  BY <1>4, FirstStays
<1>6. "overlap" \notin mixed => \A v \in Connection!Windows : command'[v].pc = "none"
  BY <1>1, <1>2, Alone
<1>7. HomeKept'
  BY <1>1, <1>2, <1>3, <1>5 DEF Ways, HomeKept
<1>8. NamesFit' /\ Registered'
  BY <1>6 DEF NamesFit, Registered
<1>9. Strayed' /\ Issued'
  BY <1>1, <1>2 DEF Ways, Strayed, Issued
<1> QED
  BY <1>7, <1>8, <1>9 DEF Ways

\* A renaming is answered.
LEMMA RenameAnswerKeeps ==
  ASSUME HomeInv, NEW w \in Connection!Windows, Connection!RenameAnswers(w)
  PROVE  Ways'
<1> DEFINE c == command[w]
           r == c.url
<1>1. Ways /\ HomeTypeOK /\ ConnInv
  BY DEF HomeInv
<1>2. c.pc = "rename" /\ UNCHANGED <<epoch, profile, home, mixed>>
  BY DEF Connection!RenameAnswers
<1>3. r \in Servers /\ c.name \in Names /\ c \in Commands
  BY <1>1, <1>2 DEF HomeTypeOK, Commands
<1>4. PICK p \in {"store", "keep", "register"} :
        /\ command' = [command EXCEPT ![w].pc = p]
        /\ p = "store" => Connection!Rename(r, c.token, c.name)
        /\ p # "store" => UNCHANGED accounts
  BY DEF Connection!RenameAnswers, Connection!Goes
<1>5. /\ command'[w].pc = p /\ command'[w].url = r /\ command'[w].name = c.name
      /\ \A v \in Connection!Windows \ {w} : command'[v] = command[v]
  BY <1>1, <1>3, <1>4 DEF HomeTypeOK, Commands
<1>6. "overlap" \notin mixed => \A v \in Connection!Windows \ {w} : command[v].pc = "none"
  BY <1>1, <1>2, Alone
<1>7. \A s \in Servers : s # r \/ p # "store" => \A n, i : First(s, n, i) => First(s, n, i)'
  <2>1. p = "store" => \A s \in Servers \ {r} : SameNames(s)
    BY <1>1, <1>3, <1>4, RenamingStays
  <2>2. p # "store" => \A s \in Servers : SameNames(s)
    BY <1>4 DEF SameNames
  <2> QED
    BY <2>1, <2>2, FirstStays
<1>8. HomeKept'
  <2> SUFFICES ASSUME mixed = {}, NEW s \in Servers, home[s] # 0
               PROVE  First(s, profile.name, home[s])' \/ (p = "store" /\ s = r)
    BY <1>2, <1>5 DEF HomeKept
  <2>1. \A v \in Connection!Windows : command[v].pc # "store"
    BY <1>2, <1>6
  <2>2. First(s, profile.name, home[s])
    BY <1>1, <2>1 DEF Ways, HomeKept
  <2>3. s # r \/ p # "store" => First(s, profile.name, home[s])'
    BY <1>2, <1>7, <2>2
  <2> QED
    BY <2>3
<1>9. NamesFit'
  <2>1. mixed = {} => c.name = profile.name
    BY <1>1, <1>2 DEF Ways, NamesFit
  <2> QED
    BY <1>2, <1>5, <1>6, <2>1 DEF NamesFit
<1>10. Registered'
  BY <1>2, <1>5, <1>6 DEF Registered
<1>11. Strayed' /\ Issued'
  BY <1>1, <1>2, <1>5 DEF Ways, Strayed, Issued
<1> QED
  BY <1>8, <1>9, <1>10, <1>11 DEF Ways

\* A registration, also one whose answer is lost.
LEMMA RegisteringKeeps ==
  ASSUME HomeInv, NEW w \in Connection!Windows, command[w].pc = "register",
         Connection!Register(command[w].url, command[w].name, command[w].work),
         UNCHANGED <<epoch, profile, home, mixed>>,
         \/ Connection!Ends(w)
         \/ command' = [command EXCEPT ![w].pc = "store_all",
              ![w].token = [server |-> command[w].url,
                            agent |-> Connection!RegisteredAs(command[w].url, command[w].name),
                            epoch |-> epoch[command[w].url]]]
  PROVE  Ways'
<1> DEFINE c == command[w]
<1>0. PICK r, m : r = c.url /\ m = c.name
  OBVIOUS
<1>1. Ways /\ HomeTypeOK /\ ConnInv
  BY DEF HomeInv
<1>2. r \in Servers /\ m \in Names /\ c.work \in Nat /\ c \in Commands /\ epoch[r] \in Nat
  BY <1>0, <1>1 DEF HomeTypeOK, Commands
<1>3. PICK i \in Nat : i = Connection!RegisteredAs(r, m) /\ First(r, m, i)'
  BY <1>0, <1>1, <1>2, RegisteredFirst
<1>4. \A s \in Servers : \A n, j : First(s, n, j) => First(s, n, j)'
  BY <1>0, <1>1, <1>2, RegisteredFirst
<1>5. /\ \A v \in Connection!Windows \ {w} : command'[v] = command[v]
      /\ \/ command'[w].pc = "none"
         \/ /\ command'[w].pc = "store_all" /\ command'[w].url = r /\ command'[w].name = m
            /\ command'[w].token = [server |-> r, agent |-> i, epoch |-> epoch[r]]
  BY <1>0, <1>1, <1>2, <1>3 DEF HomeTypeOK, Commands, Connection!Ends, Connection!NoCommand
<1>6. "overlap" \notin mixed => \A v \in Connection!Windows \ {w} : command[v].pc = "none"
  BY <1>1, Alone
<1>7. HomeKept'
  BY <1>1, <1>4, <1>5 DEF Ways, HomeKept
<1>8. NamesFit'
  BY <1>0, <1>1, <1>5, <1>6 DEF Ways, NamesFit, NoHome
<1>9. Registered'
  <2> SUFFICES ASSUME "overlap" \notin mixed, command'[w].pc = "store_all"
               PROVE  First(command[w].url, command[w].name, command[w].token.agent)'
    BY <1>5, <1>6 DEF Registered, Connection!Accepts
  <2>1. command'[w].url = r /\ command'[w].name = m /\ command'[w].token.agent = i
    BY <1>5
  <2> QED
    BY <1>3, <2>1 DEF First, Connection!NamedAs
<1>10. Strayed' /\ Issued'
  BY <1>1, <1>2, <1>5 DEF Ways, Strayed, Issued
<1> QED
  BY <1>7, <1>8, <1>9, <1>10 DEF Ways

\* What a renaming stores.
LEMMA StoringKeeps ==
  ASSUME HomeInv, NEW w \in Connection!Windows, Connection!StoreUrl(w), command[w].pc = "store"
  PROVE  Ways'
<1> DEFINE c == command[w]
           r == c.url
<1>1. Ways /\ HomeTypeOK /\ ConnInv
  BY DEF HomeInv
<1>2. /\ Connection!Ends(w) /\ UNCHANGED <<accounts, epoch, profile>>
      /\ mixed' = mixed \/ mixed' = mixed \ {"token"}
      /\ home' = [home EXCEPT ![r] =
                    IF Connection!NamedAs(r, c.name) = {c.token.agent} /\ c.name = profile.name
                    THEN c.token.agent ELSE 0]
  BY DEF Connection!StoreUrl
<1>3. /\ command'[w] = Connection!NoCommand /\ Connection!NoCommand.pc = "none"
      /\ \A v \in Connection!Windows \ {w} : command'[v] = command[v]
  BY <1>1, <1>2 DEF HomeTypeOK, Connection!Ends, Connection!NoCommand
<1>4. r \in Servers /\ c.token.agent \in Nat
  BY <1>1 DEF HomeTypeOK, Commands, Tokens
<1>5. "overlap" \notin mixed => \A v \in Connection!Windows : command'[v].pc = "none"
  BY <1>1, <1>3, Alone
<1>6. mixed' = {} => mixed = {}
  BY <1>1, <1>2 DEF Ways, Strayed
<1>7. HomeKept'
  <2> SUFFICES ASSUME mixed = {}, NEW s \in Servers, home'[s] # 0
               PROVE  First(s, profile.name, home[s])'
    BY <1>2, <1>6 DEF HomeKept
  <2>1. CASE s = r
    <3>1. home'[s] = c.token.agent /\ Connection!NamedAs(s, profile.name) = {c.token.agent}
      BY <1>1, <1>2, <1>4, <2>1 DEF HomeTypeOK
    <3>2. First(s, profile.name, home'[s])
      BY <1>4, <3>1 DEF First
    <3> QED
      BY <1>2, <3>2 DEF First, Connection!NamedAs
  <2>2. CASE s # r
    <3>1. home'[s] = home[s] /\ First(s, profile.name, home[s])
      BY <1>1, <1>2, <1>5, <1>3, <2>2 DEF HomeTypeOK, Ways, HomeKept
    <3> QED
      BY <1>2, <3>1 DEF First, Connection!NamedAs
  <2> QED
    BY <2>1, <2>2
<1>8. NamesFit' /\ Registered'
  BY <1>2, <1>5, <1>6 DEF NamesFit, Registered
<1>9. Strayed' /\ Issued'
  BY <1>1, <1>2, <1>3 DEF Ways, Strayed, Issued
<1> QED
  BY <1>7, <1>8, <1>9 DEF Ways

\* What a registration stores.
LEMMA StoringAllKeeps ==
  ASSUME HomeInv, NEW w \in Connection!Windows, Connection!StoreAll(w)
  PROVE  Ways'
<1> DEFINE c == command[w]
<1>0. PICK r, m : r = c.url /\ m = c.name
  OBVIOUS
<1>1. Ways /\ HomeTypeOK /\ ConnInv
  BY DEF HomeInv
<1>2. /\ c.pc = "store_all" /\ Connection!Ends(w) /\ UNCHANGED <<accounts, epoch>>
      /\ profile' = [profile EXCEPT !.name = m]
      /\ home' = [s \in Servers |->
           IF s = r
           THEN IF Connection!Accepts(s, c.token) /\ "overlap" \notin mixed THEN c.token.agent ELSE 0
           ELSE IF m = profile.name /\ mixed = {} THEN home[s] ELSE 0]
      /\ mixed' = IF Connection!Overlaps(w) THEN mixed ELSE {}
  BY <1>0, Zenon DEF Connection!StoreAll
<1>3. /\ command'[w] = Connection!NoCommand /\ Connection!NoCommand.pc = "none"
      /\ \A v \in Connection!Windows \ {w} : command'[v] = command[v]
  BY <1>1, <1>2 DEF HomeTypeOK, Connection!Ends, Connection!NoCommand
<1>4. r \in Servers /\ profile'.name = m
  BY <1>0, <1>1, <1>2 DEF HomeTypeOK, Commands
<1>5. "overlap" \notin mixed' => \A v \in Connection!Windows : command'[v].pc = "none"
  BY <1>1, <1>2, <1>3, Alone DEF Connection!Overlaps
<1>6. HomeKept'
  <2> SUFFICES ASSUME NEW s \in Servers, home'[s] # 0
               PROVE  First(s, profile.name, home[s])'
    BY DEF HomeKept
  <2>1. CASE s = r
    <3>1. home'[s] = c.token.agent /\ Connection!Accepts(s, c.token) /\ "overlap" \notin mixed
      BY <1>2, <2>1
    <3>2. First(s, m, c.token.agent)
      BY <1>0, <1>1, <1>2, <2>1, <3>1 DEF Ways, Registered
    <3> QED
      BY <1>2, <1>4, <3>1, <3>2 DEF First, Connection!NamedAs
  <2>2. CASE s # r
    <3>1. home'[s] = home[s] /\ m = profile.name /\ mixed = {}
      BY <1>2, <2>2
    <3>2. \A v \in Connection!Windows : command[v].pc # "store"
      BY <1>1, <1>2, <3>1, Alone
    <3>3. First(s, m, home[s])
      BY <1>1, <3>1, <3>2 DEF Ways, HomeKept
    <3> QED
      BY <1>2, <1>4, <3>1, <3>3 DEF First, Connection!NamedAs
  <2> QED
    BY <2>1, <2>2
<1>7. NamesFit' /\ Registered'
  BY <1>5 DEF NamesFit, Registered
<1>8. Strayed' /\ Issued'
  BY <1>1, <1>2, <1>3 DEF Ways, Strayed, Issued
<1> QED
  BY <1>6, <1>7, <1>8 DEF Ways

LEMMA HomeGoesOn ==
  HomeInv /\ [Connection!ConnectionNext]_connectionVars => HomeInv'
<1> SUFFICES ASSUME HomeInv, [Connection!ConnectionNext]_connectionVars PROVE Ways'
  BY ConnectionGoesOn, HomeTyped DEF HomeInv
<1>1. Ways /\ HomeTypeOK
  BY DEF HomeInv
<1>2. CASE Connection!EditOther \/ Connection!ReadPicture \/ UNCHANGED connectionVars
  <2>1. UNCHANGED <<accounts, epoch, command, home, mixed>> /\ profile'.name = profile.name
    <3>1. CASE Connection!EditOther
      BY <1>1, <3>1 DEF Connection!EditOther, HomeTypeOK
    <3>2. CASE Connection!ReadPicture \/ UNCHANGED connectionVars
      BY <3>2 DEF Connection!ReadPicture, connectionVars
    <3> QED
      BY <1>2, <3>1, <3>2
  <2> QED
    BY <1>1, <2>1, QuietStep DEF SameNames
<1>3. ASSUME NEW u \in upload, Connection!UploadPicture(u) PROVE Ways'
  <2> DEFINE s == u.token.server
             x == accounts[s]
             i == u.token.agent
  <2>1. UNCHANGED <<epoch, command, home, mixed, profile>>
    BY <1>3 DEF Connection!UploadPicture
  <2>2. \/ UNCHANGED accounts
        \/ accounts' = [accounts EXCEPT ![s] = [x EXCEPT ![i] = [x[i] EXCEPT !.image = u.picture]]]
    BY <1>3 DEF Connection!UploadPicture, Connection!StoredPicture
  <2>3. ASSUME NEW r \in Servers PROVE SameNames(r)
    <3>1. CASE accounts' = [accounts EXCEPT ![s] = [x EXCEPT ![i] = [x[i] EXCEPT !.image = u.picture]]]
      <4>1. accounts'[r] = IF r = s THEN [x EXCEPT ![i] = [x[i] EXCEPT !.image = u.picture]]
                           ELSE accounts[r]
        BY <1>1, <3>1 DEF HomeTypeOK
      <4>2. DOMAIN [x EXCEPT ![i] = [x[i] EXCEPT !.image = u.picture]] = DOMAIN x
        OBVIOUS
      <4>3. ASSUME NEW j \in DOMAIN x
            PROVE  [x EXCEPT ![i] = [x[i] EXCEPT !.image = u.picture]][j].name = x[j].name
        <5>1. r = s => x[j] \in AccountsOf
          BY <1>1 DEF HomeTypeOK
        <5> QED
          BY <4>3
      <4> QED
        BY <4>1, <4>2, <4>3 DEF SameNames
    <3> QED
      BY <2>2, <3>1 DEF SameNames
  <2> QED
    BY <1>1, <2>1, <2>3, QuietStep
<1>4. ASSUME NEW s \in Servers, Connection!LoseAccounts(s) PROVE Ways'
  BY <1>1, <1>4, LosingKeeps
<1> SUFFICES ASSUME NEW w \in Connection!Windows,
                    \/ Connection!CommandSteps(w) \/ Connection!QuitStoring(w)
                    \/ Connection!CallFails(w) \/ Connection!Disconnect(w)
                    \/ (\E s \in Servers : Connection!Connect(w, s))
                    \/ (\E n \in Names : Connection!EditName(w, n))
             PROVE  Ways'
  BY <1>2, <1>3, <1>4, Zenon DEF Connection!ConnectionNext
<1> DEFINE c == command[w]
<1>5. CASE Connection!Disconnect(w)
  <2>1. [Connection!NoCommand EXCEPT !.pc = "leave"].pc = "leave"
    BY DEF Connection!NoCommand
  <2> QED
    BY <1>5, <2>1, BeginningKeeps DEF Connection!Disconnect
<1>6. ASSUME NEW s \in Servers, Connection!Connect(w, s) PROVE Ways'
  <2> DEFINE d == [pc |-> Connection!FirstCall(s), url |-> s, name |-> profile.name,
                   work |-> profile.work, token |-> conn.token]
  <2>1. d.pc \in {"rename", "register"} /\ d.name = profile.name
    BY DEF Connection!FirstCall
  <2>2. /\ c.pc = "none" /\ command' = [command EXCEPT ![w] = d] /\ Connection!Mixed(w)
        /\ UNCHANGED <<accounts, epoch, profile, home>>
    BY <1>6, Zenon DEF Connection!Connect
  <2> HIDE DEF d
  <2> QED
    BY <2>1, <2>2, BeginningKeeps
<1>7. ASSUME NEW n \in Names, Connection!EditName(w, n) PROVE Ways'
  <2>1. NoHome' /\ UNCHANGED <<accounts, epoch>> /\ c.pc = "none"
    BY <1>7 DEF Connection!EditName, NoHome
  <2>2. CASE conn.token = Connection!NoToken
    BY <1>7, <2>1, <2>2, NamingKeeps DEF Connection!EditName
  <2>3. CASE conn.token # Connection!NoToken
    <3> DEFINE d == [pc |-> "sync", url |-> conn.url, name |-> n, work |-> profile.work,
                     token |-> conn.token]
    <3>1. d.pc = "sync"
      OBVIOUS
    <3>2. command' = [command EXCEPT ![w] = d] /\ Connection!Mixed(w)
      BY <1>7, <2>3, Zenon DEF Connection!EditName
    <3> HIDE DEF d
    <3> QED
      BY <2>1, <3>1, <3>2, BeginningKeeps
  <2> QED
    BY <2>2, <2>3
<1>8. CASE Connection!ForgetConnection(w)
  BY <1>8, EndingKeeps DEF Connection!ForgetConnection
<1>9. CASE Connection!RenameAnswers(w)
  BY <1>9, RenameAnswerKeeps
<1>10. CASE Connection!RegisterAnswers(w)
  BY <1>10, RegisteringKeeps DEF Connection!RegisterAnswers
<1>11. CASE Connection!SyncAnswers(w)
  <2>1. /\ c.pc = "sync" /\ Connection!Ends(w) /\ UNCHANGED <<epoch, profile, home, mixed>>
        /\ Connection!Rename(c.url, c.token, c.name) \/ UNCHANGED accounts
    BY <1>11 DEF Connection!SyncAnswers
  <2>2. mixed = {} => home'[c.url] = 0
    <3>1. c.url \in Servers
      BY <1>1, <2>1 DEF HomeTypeOK, Commands
    <3> QED
      BY <1>1, <2>1, <3>1 DEF Ways, NamesFit, NoHome
  <2> QED
    BY <2>1, <2>2, EndingKeeps, RenamingKeeps
<1>12. CASE Connection!StoreUrl(w)
  <2>1. CASE c.pc = "store"
    BY <1>12, <2>1, StoringKeeps
  <2>2. CASE c.pc = "keep"
    BY <1>12, <2>2, EndingKeeps DEF Connection!StoreUrl
  <2> QED
    BY <1>12, <2>1, <2>2 DEF Connection!StoreUrl
<1>13. CASE Connection!StoreAll(w)
  BY <1>13, StoringAllKeeps
<1>14. CASE Connection!QuitStoring(w)
  <2>1. /\ mixed' = {"token", "life"} /\ UNCHANGED epoch
        /\ command' = [v \in Connection!Windows |-> Connection!NoCommand]
    BY <1>14, Zenon DEF Connection!QuitStoring
  <2>2. \A v \in Connection!Windows : command'[v].pc = "none"
    BY <2>1 DEF Connection!NoCommand
  <2> QED
    BY <2>1, <2>2 DEF Ways, Strayed, HomeKept, NamesFit, Registered, Issued
<1>15. CASE Connection!CallFails(w)
  <2>1. /\ c.pc \in {"rename", "register", "sync"} /\ Connection!Ends(w)
        /\ UNCHANGED <<epoch, profile, mixed>>
        /\ \/ UNCHANGED <<accounts, home>>
           \/ /\ c.pc # "register" /\ Connection!Rename(c.url, c.token, c.name)
              /\ home' = [home EXCEPT ![c.url] = 0]
           \/ c.pc = "register" /\ Connection!Register(c.url, c.name, c.work) /\ UNCHANGED home
    BY <1>15 DEF Connection!CallFails
  <2>2. CASE UNCHANGED <<accounts, home>>
    BY <2>1, <2>2, EndingKeeps
  <2>3. CASE c.pc = "register" /\ Connection!Register(c.url, c.name, c.work) /\ UNCHANGED home
    BY <2>1, <2>3, RegisteringKeeps
  <2>4. CASE /\ c.pc # "register" /\ Connection!Rename(c.url, c.token, c.name)
             /\ home' = [home EXCEPT ![c.url] = 0]
    <3>1. home'[c.url] = 0 /\ \A s \in Servers \ {c.url} : home'[s] = home[s]
      BY <1>1, <2>1, <2>4 DEF HomeTypeOK, Commands
    <3> QED
      BY <2>1, <2>4, <3>1, RenamingKeeps
  <2> QED
    BY <2>1, <2>2, <2>3, <2>4
<1> QED
  BY <1>5, <1>6, <1>7, <1>8, <1>9, <1>10, <1>11, <1>12, <1>13, <1>14, <1>15, Zenon
     DEF Connection!CommandSteps

-----------------------------------------------------------------------------
\* A token that is stored for a server where the present name was connected before is that of
\* the same agent and room: also after other servers in between, calls that failed, renamings
\* that were carried out unheard and servers that lost everything; but not once commands have
\* overlapped or were cut (hub_connect, register, rename).
THEOREM SameRoomKept == MCSpec => SameRoomAgain
<1>1. MCInit => HomeInv
  BY HomeBegins DEF MCInit
<1>2. [MCNext]_mateVars => [Connection!ConnectionNext]_connectionVars
  BY Zenon DEF MCNext, mateVars, connectionVars
<1>3. HomeInv /\ [Connection!ConnectionNext]_connectionVars =>
        [\A s \in Servers :
           mixed = {} /\ home[s] # 0 /\ conn'.token # conn.token /\ conn'.token.server = s
             => conn'.token.agent = home[s]]_(Connection!connectionVars)
  <2> SUFFICES ASSUME HomeInv, Connection!ConnectionNext, NEW s \in Servers, mixed = {}, home[s] # 0,
                      conn'.token # conn.token, conn'.token.server = s
               PROVE  conn'.token.agent = home[s]
    BY Zenon DEF connectionVars, Connection!connectionVars
  <2>1. Ways /\ HomeTypeOK /\ ConnInv
    BY DEF HomeInv
  <2>2. PICK w \in Connection!Windows :
          \/ Connection!ForgetConnection(w) \/ Connection!StoreUrl(w)
          \/ Connection!StoreAll(w) \/ Connection!QuitStoring(w)
    BY Zenon DEF Connection!ConnectionNext, Connection!EditOther, Connection!LoseAccounts,
       Connection!ReadPicture, Connection!UploadPicture, Connection!CommandSteps, Connection!CallFails,
       Connection!Disconnect, Connection!Connect, Connection!EditName, Connection!RenameAnswers,
       Connection!RegisterAnswers, Connection!SyncAnswers
  <2> DEFINE Settings == [url : Servers \cup {"none"}, token : Tokens \cup {Connection!NoToken}, life : Nat]
  <2>3. \A x \in Settings : \A u, t, l :
          /\ [x EXCEPT !.url = u].token = x.token
          /\ [x EXCEPT !.url = u, !.token = t].token = t
          /\ [x EXCEPT !.token = t, !.life = l].token = t
    OBVIOUS
  <2>4. conn \in Settings
    BY <2>1 DEF HomeTypeOK
  <2> HIDE DEF Settings
  <2>5. command[w].pc = "store_all" /\ conn'.token = command[w].token
    <3>1. CASE Connection!ForgetConnection(w)
      <4>1. conn'.token = Connection!NoToken
        BY <2>3, <2>4, <3>1 DEF Connection!ForgetConnection
      <4> QED
        BY <4>1, MateAssumption DEF Connection!NoToken, Connection!ConnectionAssumption
    <3>2. CASE Connection!StoreUrl(w)
      BY <2>3, <2>4, <3>2 DEF Connection!StoreUrl
    <3>3. CASE Connection!StoreAll(w)
      BY <3>3 DEF Connection!StoreAll
    <3>4. CASE Connection!QuitStoring(w)
      <4>1. /\ command[w].pc = "store_all"
            /\ \/ UNCHANGED conn
               \/ conn' = [conn EXCEPT !.url = command[w].url]
               \/ conn' = [conn EXCEPT !.url = command[w].url, !.token = command[w].token]
        BY <3>4, Zenon DEF Connection!QuitStoring
      <4>2. [conn EXCEPT !.url = command[w].url].token = conn.token
        BY <2>3, <2>4
      <4>3. [conn EXCEPT !.url = command[w].url, !.token = command[w].token].token = command[w].token
        BY <2>3, <2>4
      <4>4. conn'.token = conn.token \/ conn'.token = command[w].token
        BY <4>1, <4>2, <4>3, Zenon
      <4> QED
        BY <4>1, <4>4
    <3> QED
      BY <2>2, <3>1, <3>2, <3>3, <3>4
  <2>6. command[w].url = s
    BY <2>1, <2>5 DEF ConnInv, TokenOfServer
  <2>7. command[w].name = profile.name
    BY <2>1, <2>5 DEF Ways, NamesFit, NoHome
  <2>8. First(s, profile.name, command[w].token.agent)
    BY <2>1, <2>5, <2>6, <2>7 DEF Ways, Registered
  <2>9. First(s, profile.name, home[s])
    <3>1. \A v \in Connection!Windows : command[v].pc # "store"
      BY <2>1, <2>5, Alone
    <3> QED
      BY <2>1, <3>1 DEF Ways, HomeKept
  <2>10. \A i \in Connection!NamedAs(s, profile.name) : i \in Nat
    BY <2>1 DEF HomeTypeOK, Connection!NamedAs
  <2> QED
    BY <2>5, <2>8, <2>9, <2>10 DEF First
<1> QED
  BY <1>1, <1>2, <1>3, HomeGoesOn, PTL DEF MCSpec, SameRoomAgain, Connection!SameRoomAgain

-----------------------------------------------------------------------------
(***************************************************************************)
(* The looks: who writes a picture and its seed alone leaves two that go   *)
(* together.                                                               *)
(***************************************************************************)
Pictures == [spec : Nat, mbti : Nat, seed : Nat, drawn : BOOLEAN]
Persons == [name : Called, mbti : Types \cup {0}]

PicturesTyped ==
  /\ person \in Persons /\ sprite \in Pictures /\ candidate \in Pictures
  /\ spoilt \subseteq {"sprite", "candidate"}
ScanTyped == scan \in [pc : {"none", "draw", "seed"}, profile : Persons, alone : BOOLEAN]
PreviewCalls ==
  [pc : {"none", "draw", "seed", "done"}, profile : Persons, alone : BOOLEAN, only : BOOLEAN]
PreviewTyped == preview \in [Looks!Previews -> PreviewCalls]
CommitTyped ==
  commit \in [pc : {"none", "write", "remove", "seed", "clean"}, held : Pictures, alone : BOOLEAN]
WindowTyped == window \in [waits : Nat, ready : BOOLEAN, shown : Pictures, only : BOOLEAN]

LooksTyped == PicturesTyped /\ ScanTyped /\ PreviewTyped /\ CommitTyped /\ WindowTyped

ScanAlone ==
  scan.pc = "seed" /\ scan.alone =>
    /\ commit.pc = "none"
    /\ sprite = Looks!Robot(scan.profile.name, scan.profile.mbti, scan.profile.name)

CommitAlone ==
  commit.pc # "none" /\ commit.alone =>
    /\ ~Looks!ScanWrites /\ ~Looks!PreviewWrites
    /\ commit.pc \in {"remove", "seed"} => sprite = commit.held
    /\ commit.pc \in {"write", "remove", "seed"} /\ "candidate" \notin spoilt =>
         candidateSeed = commit.held.seed /\ candidateSeed # Looks!NoSeed

PreviewAlone ==
  \A i \in Looks!Previews :
    preview[i].pc = "seed" /\ preview[i].alone =>
      /\ commit.pc = "none" /\ candidate.seed = Fresh + i
      /\ \A j \in Looks!Previews \ {i} : preview[j].pc # "seed"

CandidateFits ==
  candidate.drawn =>
    /\ candidate.seed \in Fresh + 1 .. Fresh + MaxPreviews
    /\ \/ Looks!PreviewWrites \/ "candidate" \in spoilt
       \/ candidateSeed = candidate.seed /\ commit.pc \notin {"seed", "clean"}

\* A sprite without a seed is of the days before seeds.
SpriteFits ==
  Looks!Whole /\ sprite.drawn =>
    IF seed = Looks!NoSeed THEN sprite.spec = 0 /\ sprite.seed = 0 ELSE sprite.seed = seed

RobotInv ==
  LooksTyped /\ ScanAlone /\ CommitAlone /\ PreviewAlone /\ CandidateFits /\ SpriteFits

LEMMA LooksFacts ==
  /\ Fresh \in Nat /\ MaxPreviews \in Nat /\ Looks!NoSeed \in Nat
  /\ 0 \in Called /\ Called \subseteq 0 .. Fresh - 1 /\ Types \subseteq Nat
  /\ \A i \in Looks!Previews : Fresh + i \in Nat /\ Fresh + i # Looks!NoSeed
                               /\ Fresh + i \in Fresh + 1 .. Fresh + MaxPreviews
  /\ Looks!NoPicture \in Pictures /\ ~Looks!NoPicture.drawn
  /\ Looks!Idle.profile \in Persons
BY MateAssumption DEF Looks!LooksAssumption, Looks!NoSeed, Looks!Previews, Looks!NoPicture,
   Pictures, Persons, Looks!Idle

LEMMA RobotsTyped ==
  ASSUME NEW p \in Persons, NEW s \in Nat
  PROVE  /\ Looks!Robot(p.name, p.mbti, s) \in Pictures
         /\ Looks!Robot(p.name, p.mbti, s).seed = s
         /\ Looks!Robot(p.name, p.mbti, s).spec = p.name
         /\ Looks!Robot(p.name, p.mbti, s).drawn
         /\ p.name \in Called /\ p.name \in Nat /\ p.name # Looks!NoSeed
<1>1. p.name \in Called /\ p.mbti \in Nat
  <2>1. p.name \in Called /\ p.mbti \in Types \cup {0}
    BY DEF Persons
  <2>2. Types \cup {0} \subseteq Nat
    BY LooksFacts
  <2> QED
    BY <2>1, <2>2, Zenon
<1>2. p.name \in 0 .. Fresh - 1
  BY <1>1, LooksFacts
<1>3. p.name \in Nat /\ p.name # Looks!NoSeed
  BY <1>2, LooksFacts DEF Looks!NoSeed
<1> QED
  BY <1>1, <1>3 DEF Pictures, Looks!Robot

LEMMA LooksBegin == Looks!LooksInit => RobotInv
<1> SUFFICES ASSUME Looks!LooksInit PROVE RobotInv
  OBVIOUS
<1>1. Looks!Robot(0, person.mbti, 0) \in Pictures
  BY LooksFacts DEF Looks!LooksInit, Looks!Robot, Pictures
<1>2. LooksTyped
  BY <1>1, LooksFacts DEF Looks!LooksInit, LooksTyped, PicturesTyped, ScanTyped, PreviewTyped,
     CommitTyped, WindowTyped, Persons, PreviewCalls, Looks!Idle, Looks!NoPreview,
     Looks!NoCommit
<1>3. SpriteFits
  BY DEF Looks!LooksInit, SpriteFits, Looks!Robot, Looks!NoPicture
<1>4. ScanAlone /\ CommitAlone /\ PreviewAlone /\ CandidateFits
  BY LooksFacts DEF Looks!LooksInit, ScanAlone, CommitAlone, PreviewAlone, CandidateFits, Looks!Idle,
     Looks!NoPreview, Looks!NoCommit, Looks!NoPicture
<1> QED
  BY <1>2, <1>3, <1>4 DEF RobotInv

\* The steps that change neither a picture nor a seed, and nobody who writes them.
LEMMA LooksStay ==
  ASSUME RobotInv, LooksTyped', UNCHANGED <<sprite, seed, candidate, candidateSeed, commit, spoilt>>,
         scan' = scan \/ (scan.pc # "seed" /\ scan'.pc # "seed"),
         \A i \in Looks!Previews :
           \/ preview'[i].pc = preview[i].pc /\ preview'[i].alone = preview[i].alone
           \/ preview[i].pc # "seed" /\ preview'[i].pc # "seed"
  PROVE  RobotInv'
<1>1. Looks!ScanWrites' <=> Looks!ScanWrites
  BY Zenon DEF Looks!ScanWrites
<1>2. \A i \in Looks!Previews : preview'[i].pc = "seed" <=> preview[i].pc = "seed"
  OBVIOUS
<1>3. Looks!PreviewWrites' <=> Looks!PreviewWrites
  BY <1>2, Zenon DEF Looks!PreviewWrites
<1>4. ScanAlone'
  BY DEF RobotInv, ScanAlone
<1>5. CommitAlone'
  BY <1>1, <1>3 DEF RobotInv, CommitAlone
<1>6. PreviewAlone'
  BY <1>2 DEF RobotInv, PreviewAlone
<1>7. CandidateFits' /\ SpriteFits'
  BY <1>1, <1>3 DEF RobotInv, CandidateFits, SpriteFits, Looks!Whole
<1> QED
  BY <1>4, <1>5, <1>6, <1>7 DEF RobotInv

LEMMA ScansTyped == LooksTyped /\ Looks!LooksNext => ScanTyped'
<1> SUFFICES ASSUME LooksTyped, Looks!LooksNext PROVE ScanTyped'
  OBVIOUS
<1> USE LooksFacts DEF LooksTyped, ScanTyped
<1>0. Looks!Idle \in [pc : {"none", "draw", "seed"}, profile : Persons, alone : BOOLEAN]
  BY DEF Looks!Idle
<1>1. CASE Looks!AutoBegin
  BY <1>1 DEF Looks!AutoBegin, PicturesTyped
<1>2. CASE Looks!AutoPicture
  <2>1. PICK b \in BOOLEAN : scan' = [scan EXCEPT !.pc = "seed", !.alone = b]
    BY <1>2, Zenon DEF Looks!AutoPicture
  <2> QED
    BY <2>1
<1>3. CASE Looks!CommitBegin
  <2>1. scan' = [scan EXCEPT !.alone = FALSE] \/ scan' = scan
    BY <1>3, Zenon DEF Looks!CommitBegin, Looks!ScanSpoilt
  <2> QED
    BY <2>1
<1>4. CASE scan' = Looks!Idle \/ scan' = scan
  BY <1>0, <1>4
<1>5. Looks!AutoSeed \/ Looks!AutoFails \/ Looks!Quit => scan' = Looks!Idle
  BY Zenon DEF Looks!AutoSeed, Looks!AutoFails, Looks!Quit
<1>6. \A i \in Looks!Previews :
        Looks!PreviewBegin(i) \/ Looks!PreviewPicture(i) \/ Looks!PreviewSeed(i) \/ Looks!PreviewFails(i)
          => scan' = scan
  BY Zenon DEF Looks!PreviewBegin, Looks!PreviewPicture, Looks!PreviewSeed, Looks!PreviewFails
<1>7. Looks!Reopen \/ Looks!CommitPicture \/ Looks!CommitRemove \/ Looks!CommitSeed \/ Looks!CommitClean
        => scan' = scan
  BY Zenon DEF Looks!Reopen, Looks!CommitPicture, Looks!CommitRemove, Looks!CommitSeed, Looks!CommitClean
<1>8. (\E n \in Called, m \in Types : Looks!EditProfile(n, m))
        \/ Looks!CutBegin \/ Looks!CutRobot \/ Looks!CutDone => scan' = scan
  BY Zenon DEF Looks!EditProfile, Looks!CutBegin, Looks!CutRobot, Looks!CutDone
<1> QED
  BY <1>1, <1>2, <1>3, <1>4, <1>5, <1>6, <1>7, <1>8, Zenon DEF Looks!LooksNext

LEMMA PreviewsTyped == LooksTyped /\ Looks!LooksNext => PreviewTyped'
<1> SUFFICES ASSUME LooksTyped, Looks!LooksNext PROVE PreviewTyped'
  OBVIOUS
<1> USE DEF LooksTyped, PreviewTyped
<1>1. ASSUME NEW i \in Looks!Previews, Looks!PreviewBegin(i) PROVE PreviewTyped'
  <2>1. PICK b \in BOOLEAN :
          \E others :
            preview' = [j \in Looks!Previews |->
              IF j = i THEN [pc |-> "draw", profile |-> person, alone |-> TRUE, only |-> b]
              ELSE IF j \in others THEN [preview[j] EXCEPT !.only = FALSE]
              ELSE preview[j]]
    BY <1>1, Zenon DEF Looks!PreviewBegin
  <2> DEFINE d == [pc |-> "draw", profile |-> person, alone |-> TRUE, only |-> b]
  <2>2. d \in PreviewCalls
    BY DEF PicturesTyped, PreviewCalls
  <2> HIDE DEF d
  <2>3. PICK others :
          preview' = [j \in Looks!Previews |->
            IF j = i THEN d ELSE IF j \in others THEN [preview[j] EXCEPT !.only = FALSE] ELSE preview[j]]
    BY <2>1, Zenon DEF d
  <2>4. \A j \in Looks!Previews : [preview[j] EXCEPT !.only = FALSE] \in PreviewCalls
    BY DEF PreviewCalls
  <2> QED
    BY <2>2, <2>3, <2>4
<1>2. ASSUME NEW i \in Looks!Previews, Looks!PreviewPicture(i) PROVE PreviewTyped'
  <2>1. Looks!PreviewsSpoilt \in [Looks!Previews -> PreviewCalls]
    BY DEF Looks!PreviewsSpoilt, PreviewCalls
  <2>2. PICK b \in BOOLEAN, q \in [Looks!Previews -> PreviewCalls] :
          preview' = [q EXCEPT ![i].pc = "seed", ![i].alone = b]
    BY <1>2, <2>1, Zenon DEF Looks!PreviewPicture
  <2> DEFINE r == q[i]
             d == [[r EXCEPT !.pc = "seed"] EXCEPT !.alone = b]
  <2>3. r \in PreviewCalls
    OBVIOUS
  <2>4. preview' = [q EXCEPT ![i] = d]
    BY <2>2
  <2> HIDE DEF r
  <2>5. d \in PreviewCalls
    BY <2>3 DEF PreviewCalls
  <2> HIDE DEF d
  <2> QED
    BY <2>4, <2>5
<1>3. ASSUME NEW i \in Looks!Previews, Looks!PreviewSeed(i) \/ Looks!PreviewFails(i) PROVE PreviewTyped'
  <2>1. preview' = [preview EXCEPT ![i].pc = "done"]
    BY <1>3, Zenon DEF Looks!PreviewSeed, Looks!PreviewFails
  <2> QED
    BY <2>1 DEF PreviewCalls
<1>4. CASE Looks!CommitBegin
  <2>1. preview' = Looks!PreviewsSpoilt \/ preview' = preview
    BY <1>4, Zenon DEF Looks!CommitBegin
  <2>2. Looks!PreviewsSpoilt \in [Looks!Previews -> PreviewCalls]
    BY DEF Looks!PreviewsSpoilt, PreviewCalls
  <2> QED
    BY <2>1, <2>2
<1>5. CASE Looks!Quit
  <2>1. preview' = [i \in Looks!Previews |->
                     IF Looks!InFlight(i) THEN [Looks!NoPreview EXCEPT !.pc = "done"] ELSE preview[i]]
    BY <1>5, Zenon DEF Looks!Quit
  <2>2. [name |-> 0, mbti |-> 0] \in Persons
    BY LooksFacts DEF Persons
  <2>3. [Looks!NoPreview EXCEPT !.pc = "done"] \in PreviewCalls
    BY <2>2 DEF PreviewCalls, Looks!NoPreview
  <2> QED
    BY <2>1, <2>3
<1>6. CASE preview' = preview
  BY <1>6
<1>7. Looks!AutoBegin \/ Looks!AutoPicture \/ Looks!AutoSeed \/ Looks!AutoFails \/ Looks!Reopen
        => preview' = preview
  BY Zenon DEF Looks!AutoBegin, Looks!AutoPicture, Looks!AutoSeed, Looks!AutoFails, Looks!Reopen
<1>8. Looks!CommitPicture \/ Looks!CommitRemove \/ Looks!CommitSeed \/ Looks!CommitClean
        => preview' = preview
  BY Zenon DEF Looks!CommitPicture, Looks!CommitRemove, Looks!CommitSeed, Looks!CommitClean
<1>9. (\E n \in Called, m \in Types : Looks!EditProfile(n, m))
        \/ Looks!CutBegin \/ Looks!CutRobot \/ Looks!CutDone => preview' = preview
  BY Zenon DEF Looks!EditProfile, Looks!CutBegin, Looks!CutRobot, Looks!CutDone
<1> QED
  BY <1>1, <1>2, <1>3, <1>4, <1>5, <1>6, <1>7, <1>8, <1>9, Zenon DEF Looks!LooksNext

LEMMA CommitsTyped == LooksTyped /\ Looks!LooksNext => CommitTyped'
<1> SUFFICES ASSUME LooksTyped, Looks!LooksNext PROVE CommitTyped'
  OBVIOUS
<1> USE DEF LooksTyped, CommitTyped
<1>1. CASE Looks!CommitBegin
  <2>1. PICK b \in BOOLEAN : commit' = [pc |-> "write", held |-> candidate, alone |-> b]
    BY <1>1, Zenon DEF Looks!CommitBegin
  <2> QED
    BY <2>1 DEF PicturesTyped
<1>2. CASE \E p \in {"remove", "seed", "clean"} : commit' = [commit EXCEPT !.pc = p]
  BY <1>2
<1>3. Looks!CommitPicture \/ Looks!CommitRemove \/ Looks!CommitSeed
        => \E p \in {"remove", "seed", "clean"} : commit' = [commit EXCEPT !.pc = p]
  BY Zenon DEF Looks!CommitPicture, Looks!CommitRemove, Looks!CommitSeed
<1>4. CASE commit' \in {commit, Looks!CommitSpoilt, Looks!NoCommit}
  <2>1. commit' = commit \/ commit' = Looks!CommitSpoilt \/ commit' = Looks!NoCommit
    BY <1>4
  <2>2. Looks!NoCommit \in [pc : {"none", "write", "remove", "seed", "clean"}, held : Pictures,
                            alone : BOOLEAN]
    BY LooksFacts DEF Looks!NoCommit
  <2>3. commit' = Looks!CommitSpoilt => CommitTyped'
    BY DEF Looks!CommitSpoilt
  <2> QED
    BY <2>1, <2>2, <2>3
<1>5. Looks!AutoBegin \/ Looks!AutoPicture \/ Looks!AutoSeed \/ Looks!AutoFails \/ Looks!Reopen
        => commit' \in {commit, Looks!CommitSpoilt, Looks!NoCommit}
  BY Zenon DEF Looks!AutoBegin, Looks!AutoPicture, Looks!AutoSeed, Looks!AutoFails, Looks!Reopen
<1>6. \A i \in Looks!Previews :
        Looks!PreviewBegin(i) \/ Looks!PreviewPicture(i) \/ Looks!PreviewSeed(i) \/ Looks!PreviewFails(i)
          => commit' \in {commit, Looks!CommitSpoilt, Looks!NoCommit}
  BY Zenon DEF Looks!PreviewBegin, Looks!PreviewPicture, Looks!PreviewSeed, Looks!PreviewFails
<1>7. Looks!CommitClean \/ Looks!Quit => commit' \in {commit, Looks!CommitSpoilt, Looks!NoCommit}
  BY Zenon DEF Looks!CommitClean, Looks!Quit
<1>8. (\E n \in Called, m \in Types : Looks!EditProfile(n, m))
        \/ Looks!CutBegin \/ Looks!CutRobot \/ Looks!CutDone
        => commit' \in {commit, Looks!CommitSpoilt, Looks!NoCommit}
  BY Zenon DEF Looks!EditProfile, Looks!CutBegin, Looks!CutRobot, Looks!CutDone
<1> QED
  BY <1>1, <1>2, <1>3, <1>4, <1>5, <1>6, <1>7, <1>8, Zenon DEF Looks!LooksNext

LEMMA WindowsTyped == LooksTyped /\ Looks!LooksNext => WindowTyped'
<1> SUFFICES ASSUME LooksTyped, Looks!LooksNext PROVE WindowTyped'
  OBVIOUS
<1> USE DEF LooksTyped, WindowTyped
<1>1. ASSUME NEW i \in Looks!Previews, Looks!PreviewBegin(i) \/ Looks!PreviewFails(i) PROVE WindowTyped'
  <2>1. i \in Nat
    BY DEF Looks!Previews
  <2>2. \/ window' = [window EXCEPT !.waits = i] \/ window' = [window EXCEPT !.waits = 0]
        \/ window' = window
    BY <1>1, Zenon DEF Looks!PreviewBegin, Looks!PreviewFails
  <2> QED
    BY <2>1, <2>2
<1>2. ASSUME NEW i \in Looks!Previews, Looks!PreviewSeed(i) PROVE WindowTyped'
  <2>1. Looks!Drawn(i) \in Pictures
    BY RobotsTyped, LooksFacts DEF Looks!Drawn, PreviewTyped, PreviewCalls
  <2>3. preview[i].only \in BOOLEAN
    BY DEF PreviewTyped, PreviewCalls
  <2>2. \/ window' = [waits |-> 0, ready |-> TRUE, shown |-> Looks!Drawn(i), only |-> preview[i].only]
        \/ window' = window
    BY <1>2, Zenon DEF Looks!PreviewSeed, Looks!Shows
  <2>4. CASE window' = [waits |-> 0, ready |-> TRUE, shown |-> Looks!Drawn(i), only |-> preview[i].only]
    BY <2>1, <2>3, <2>4
  <2> QED
    BY <2>2, <2>4
<1>3. CASE window' = [waits |-> 0, ready |-> FALSE, shown |-> sprite, only |-> TRUE]
  BY <1>3 DEF PicturesTyped
<1>4. Looks!Reopen \/ Looks!Quit
        => window' = [waits |-> 0, ready |-> FALSE, shown |-> sprite, only |-> TRUE]
  BY Zenon DEF Looks!Reopen, Looks!Quit
<1>5. CASE Looks!CommitBegin
  BY <1>5, LooksFacts DEF Looks!CommitBegin
<1>6. CASE Looks!CommitClean
  BY <1>6 DEF Looks!CommitClean
<1>7. CASE window' = window
  BY <1>7
<1>8. Looks!AutoBegin \/ Looks!AutoPicture \/ Looks!AutoSeed \/ Looks!AutoFails => window' = window
  BY Zenon DEF Looks!AutoBegin, Looks!AutoPicture, Looks!AutoSeed, Looks!AutoFails
<1>9. (\E i \in Looks!Previews : Looks!PreviewPicture(i))
        \/ Looks!CommitPicture \/ Looks!CommitRemove \/ Looks!CommitSeed => window' = window
  BY Zenon DEF Looks!PreviewPicture, Looks!CommitPicture, Looks!CommitRemove, Looks!CommitSeed
<1>10. (\E n \in Called, m \in Types : Looks!EditProfile(n, m))
        \/ Looks!CutBegin \/ Looks!CutRobot \/ Looks!CutDone => window' = window
  BY Zenon DEF Looks!EditProfile, Looks!CutBegin, Looks!CutRobot, Looks!CutDone
<1> QED
  BY <1>1, <1>2, <1>3, <1>4, <1>5, <1>6, <1>7, <1>8, <1>9, <1>10, Zenon DEF Looks!LooksNext

LEMMA LooksTypes == LooksTyped /\ Looks!LooksNext => LooksTyped'
<1> SUFFICES ASSUME LooksTyped, Looks!LooksNext PROVE PicturesTyped'
  BY ScansTyped, PreviewsTyped, CommitsTyped, WindowsTyped, Zenon DEF LooksTyped
<1> USE DEF LooksTyped, PicturesTyped
<1>1. CASE Looks!AutoPicture
  <2>1. scan.profile \in Persons /\ scan.profile.name \in Nat
    <3>1. scan.profile \in Persons
      BY DEF ScanTyped
    <3> QED
      BY <3>1, RobotsTyped, LooksFacts
  <2>2. sprite' \in Pictures
    BY <1>1, <2>1, RobotsTyped, Zenon DEF Looks!AutoPicture
  <2> QED
    BY <1>1, <2>2, Zenon DEF Looks!AutoPicture
<1>2. ASSUME NEW i \in Looks!Previews, Looks!PreviewPicture(i) PROVE PicturesTyped'
  <2>1. Looks!Drawn(i) \in Pictures
    BY RobotsTyped, LooksFacts DEF Looks!Drawn, PreviewTyped, PreviewCalls
  <2> QED
    BY <1>2, <2>1, Zenon DEF Looks!PreviewPicture
<1>3. CASE Looks!CommitPicture \/ Looks!CommitRemove
  <2>1. commit.held \in Pictures /\ Looks!NoPicture \in Pictures
    BY LooksFacts DEF CommitTyped
  <2> QED
    BY <1>3, <2>1, Zenon DEF Looks!CommitPicture, Looks!CommitRemove
<1>4. ASSUME NEW n \in Called, NEW m \in Types, Looks!EditProfile(n, m) PROVE PicturesTyped'
  <2>1. person' = [name |-> n, mbti |-> m] /\ UNCHANGED <<sprite, candidate, spoilt>>
    BY <1>4, Zenon DEF Looks!EditProfile
  <2> QED
    BY <2>1 DEF Persons
<1>5. CASE UNCHANGED <<person, sprite, candidate>> /\ spoilt' \subseteq spoilt \cup {"sprite", "candidate"}
  BY <1>5
<1>6. Looks!AutoBegin \/ Looks!AutoSeed \/ Looks!AutoFails
        => UNCHANGED <<person, sprite, candidate>> /\ spoilt' \subseteq spoilt \cup {"sprite", "candidate"}
  BY DEF Looks!AutoBegin, Looks!AutoSeed, Looks!AutoFails
<1>7. \A i \in Looks!Previews :
        Looks!PreviewBegin(i) \/ Looks!PreviewSeed(i) \/ Looks!PreviewFails(i)
        => UNCHANGED <<person, sprite, candidate>> /\ spoilt' \subseteq spoilt \cup {"sprite", "candidate"}
  BY DEF Looks!PreviewBegin, Looks!PreviewSeed, Looks!PreviewFails
<1>8. Looks!Reopen \/ Looks!CommitBegin \/ Looks!CommitSeed \/ Looks!CommitClean
        => UNCHANGED <<person, sprite, candidate>> /\ spoilt' \subseteq spoilt \cup {"sprite", "candidate"}
  BY DEF Looks!Reopen, Looks!CommitBegin, Looks!CommitSeed, Looks!CommitClean
<1>9. Looks!CutBegin \/ Looks!CutRobot \/ Looks!CutDone \/ Looks!Quit
        => UNCHANGED <<person, sprite, candidate>> /\ spoilt' \subseteq spoilt \cup {"sprite", "candidate"}
  BY DEF Looks!CutBegin, Looks!CutRobot, Looks!CutDone, Looks!Quit
<1> QED
  BY <1>1, <1>2, <1>3, <1>4, <1>5, <1>6, <1>7, <1>8, <1>9, Zenon DEF Looks!LooksNext

\* The scan draws.
LEMMA ScanDraws ==
  ASSUME RobotInv, LooksTyped', Looks!AutoPicture PROVE RobotInv'
<1> DEFINE p == scan.profile
<1>1. /\ scan.pc = "draw" /\ sprite' = Looks!Robot(p.name, p.mbti, p.name)
      /\ scan' = [scan EXCEPT !.pc = "seed", !.alone = ~Looks!CommitWrites]
      /\ commit' = IF Looks!CommitWrites THEN Looks!CommitSpoilt ELSE commit
      /\ UNCHANGED <<seed, candidate, candidateSeed, preview, spoilt>>
  BY Zenon DEF Looks!AutoPicture
<1>2. LooksTyped /\ LooksTyped'
  BY DEF RobotInv
<1>3. scan'.pc = "seed" /\ scan'.profile = p /\ (scan'.alone <=> commit.pc = "none")
  BY <1>1, <1>2 DEF LooksTyped, ScanTyped, Looks!CommitWrites
<1>4. commit'.pc = commit.pc /\ (commit'.pc = "none" \/ ~commit'.alone)
  BY <1>1, <1>2 DEF LooksTyped, CommitTyped, Looks!CommitWrites, Looks!CommitSpoilt
<1>5. ScanAlone'
  BY <1>1, <1>3, <1>4 DEF ScanAlone
<1>6. CommitAlone'
  BY <1>4 DEF CommitAlone
<1>7. PreviewAlone' /\ CandidateFits'
  BY <1>1, <1>4 DEF RobotInv, PreviewAlone, CandidateFits, Looks!PreviewWrites
<1>8. SpriteFits'
  BY <1>3 DEF SpriteFits, Looks!Whole, Looks!ScanWrites
<1> QED
  BY <1>5, <1>6, <1>7, <1>8 DEF RobotInv

LEMMA ScanSeeds ==
  ASSUME RobotInv, LooksTyped', Looks!AutoSeed PROVE RobotInv'
<1>1. /\ scan.pc = "seed" /\ scan' = Looks!Idle
      /\ \/ /\ seed' = scan.profile.name
            /\ spoilt' = IF scan.alone THEN spoilt \ {"sprite"} ELSE spoilt \cup {"sprite"}
         \/ spoilt' = spoilt \cup {"sprite"} /\ seed' = seed
      /\ UNCHANGED <<sprite, candidate, candidateSeed, preview, commit>>
  BY Zenon DEF Looks!AutoSeed
<1>2. scan.profile \in Persons /\ scan'.pc = "none"
  BY <1>1 DEF RobotInv, LooksTyped, ScanTyped, Looks!Idle
<1>3. "candidate" \in spoilt' <=> "candidate" \in spoilt
  BY <1>1
<1>4. ScanAlone' /\ PreviewAlone' /\ CandidateFits'
  BY <1>1, <1>2, <1>3 DEF RobotInv, ScanAlone, PreviewAlone, CandidateFits, Looks!PreviewWrites
<1>5. CommitAlone'
  BY <1>1, <1>2, <1>3 DEF RobotInv, CommitAlone, Looks!PreviewWrites, Looks!ScanWrites
<1>6. SpriteFits'
  <2> SUFFICES ASSUME "sprite" \notin spoilt' PROVE SpriteFits'
    BY DEF SpriteFits, Looks!Whole
  <2>1. scan.alone /\ seed' = scan.profile.name
    BY <1>1
  <2>2. sprite = Looks!Robot(scan.profile.name, scan.profile.mbti, scan.profile.name)
    BY <1>1, <2>1 DEF RobotInv, ScanAlone
  <2>3. sprite.seed = seed' /\ seed' # Looks!NoSeed
    BY <1>2, <2>1, <2>2, RobotsTyped
  <2> QED
    BY <1>1, <2>3 DEF SpriteFits
<1> QED
  BY <1>4, <1>5, <1>6 DEF RobotInv

LEMMA PreviewDraws ==
  ASSUME RobotInv, LooksTyped', NEW i \in Looks!Previews, Looks!PreviewPicture(i) PROVE RobotInv'
<1> DEFINE busy == Looks!PreviewWrites \/ Looks!CommitWrites
<1>1. /\ preview[i].pc = "draw" /\ candidate' = Looks!Drawn(i)
      /\ preview' = [IF busy THEN Looks!PreviewsSpoilt ELSE preview EXCEPT
                       ![i].pc = "seed", ![i].alone = ~busy]
      /\ commit' = IF Looks!CommitWrites THEN Looks!CommitSpoilt ELSE commit
      /\ UNCHANGED <<sprite, seed, candidateSeed, scan, spoilt>>
  BY Zenon DEF Looks!PreviewPicture
<1>2. LooksTyped /\ LooksTyped'
  BY DEF RobotInv
<1>3. commit'.pc = commit.pc /\ (commit'.pc = "none" \/ ~commit'.alone)
  BY <1>1, <1>2 DEF LooksTyped, CommitTyped, Looks!CommitWrites, Looks!CommitSpoilt
<1>4. preview'[i].pc = "seed"
  BY <1>1, <1>2 DEF LooksTyped, PreviewTyped, PreviewCalls, Looks!PreviewsSpoilt
<1>5. preview'[i].alone => ~busy
  BY <1>1, <1>2 DEF LooksTyped, PreviewTyped, PreviewCalls, Looks!PreviewsSpoilt
<1>6. \A j \in Looks!Previews \ {i} :
        preview'[j].pc = preview[j].pc /\ (preview'[j].pc = "seed" => ~preview'[j].alone)
  <2> SUFFICES ASSUME NEW j \in Looks!Previews \ {i}
               PROVE  preview'[j].pc = preview[j].pc /\ (preview'[j].pc = "seed" => ~preview'[j].alone)
    OBVIOUS
  <2>1. CASE busy
    <3>1. preview' = [Looks!PreviewsSpoilt EXCEPT ![i].pc = "seed", ![i].alone = ~busy]
      BY <1>1, <2>1, Zenon
    <3>2. preview'[j] = Looks!PreviewsSpoilt[j]
      BY <3>1 DEF Looks!PreviewsSpoilt
    <3>3. preview'[j] = [preview[j] EXCEPT !.alone = FALSE]
      BY <3>2 DEF Looks!PreviewsSpoilt
    <3> QED
      BY <1>2, <3>3 DEF LooksTyped, PreviewTyped, PreviewCalls
  <2>2. CASE ~busy
    <3>1. preview'[j] = preview[j] /\ preview[j].pc # "seed"
      BY <1>1, <1>2, <2>2 DEF LooksTyped, PreviewTyped, Looks!PreviewWrites
    <3> QED
      BY <3>1
  <2> QED
    BY <2>1, <2>2
<1>7. Looks!PreviewWrites'
  BY <1>4 DEF Looks!PreviewWrites
<1>8. /\ candidate'.seed = Fresh + i
      /\ Fresh + i \in Fresh + 1 .. Fresh + MaxPreviews
  BY <1>1, LooksFacts, RobotsTyped DEF Looks!Drawn, Looks!Robot
<1>9. ScanAlone' /\ CommitAlone' /\ CandidateFits' /\ SpriteFits'
  <2>1. ScanAlone'
    BY <1>1, <1>3 DEF RobotInv, ScanAlone
  <2>2. CommitAlone'
    BY <1>3 DEF CommitAlone
  <2>3. CandidateFits'
    BY <1>7, <1>8 DEF CandidateFits
  <2>4. SpriteFits'
    BY <1>1, <1>3 DEF RobotInv, SpriteFits, Looks!Whole, Looks!ScanWrites
  <2> QED
    BY <2>1, <2>2, <2>3, <2>4
<1>10. PreviewAlone'
  <2> SUFFICES ASSUME NEW j \in Looks!Previews, preview'[j].pc = "seed", preview'[j].alone
               PROVE  /\ commit'.pc = "none" /\ candidate'.seed = Fresh + j
                      /\ \A k \in Looks!Previews \ {j} : preview'[k].pc # "seed"
    BY DEF PreviewAlone
  <2>1. j = i /\ ~busy
    BY <1>5, <1>6
  <2> QED
    BY <1>3, <1>6, <1>8, <2>1 DEF Looks!CommitWrites, Looks!PreviewWrites
<1> QED
  BY <1>9, <1>10 DEF RobotInv

LEMMA PreviewSeeds ==
  ASSUME RobotInv, LooksTyped', NEW i \in Looks!Previews, Looks!PreviewSeed(i) PROVE RobotInv'
<1>1. /\ preview[i].pc = "seed" /\ preview' = [preview EXCEPT ![i].pc = "done"]
      /\ \/ /\ candidateSeed' = Fresh + i
            /\ spoilt' = IF preview[i].alone THEN spoilt \ {"candidate"} ELSE spoilt \cup {"candidate"}
         \/ spoilt' = spoilt \cup {"candidate"} /\ candidateSeed' = candidateSeed
      /\ UNCHANGED <<sprite, seed, candidate, scan, commit>>
  BY Zenon DEF Looks!PreviewSeed
<1>2. /\ preview'[i].pc = "done"
      /\ \A j \in Looks!Previews \ {i} : preview'[j] = preview[j]
  BY <1>1 DEF RobotInv, LooksTyped, PreviewTyped, PreviewCalls
<1>3. Looks!PreviewWrites
  BY <1>1 DEF Looks!PreviewWrites
<1>4. "sprite" \in spoilt' <=> "sprite" \in spoilt
  BY <1>1
<1>5. preview[i].alone => commit.pc = "none" /\ candidate.seed = Fresh + i
  BY <1>1 DEF RobotInv, PreviewAlone
<1>6. ScanAlone' /\ SpriteFits'
  BY <1>1, <1>4 DEF RobotInv, ScanAlone, SpriteFits, Looks!Whole, Looks!ScanWrites
<1>7. CommitAlone'
  BY <1>1, <1>3 DEF RobotInv, CommitAlone
<1>8. PreviewAlone'
  BY <1>1, <1>2 DEF RobotInv, PreviewAlone
<1>9. CandidateFits'
  BY <1>1, <1>5 DEF RobotInv, CandidateFits
<1> QED
  BY <1>6, <1>7, <1>8, <1>9 DEF RobotInv

LEMMA CommitStarts == ASSUME RobotInv, LooksTyped', Looks!CommitBegin PROVE RobotInv'
<1> DEFINE busy == Looks!ScanWrites \/ Looks!PreviewWrites
<1>1. /\ commit.pc = "none" /\ candidate.drawn
      /\ commit' = [pc |-> "write", held |-> candidate, alone |-> ~busy]
      /\ scan' = IF Looks!ScanWrites THEN Looks!ScanSpoilt ELSE scan
      /\ preview' = IF Looks!PreviewWrites THEN Looks!PreviewsSpoilt ELSE preview
      /\ UNCHANGED <<sprite, seed, candidate, candidateSeed, spoilt>>
  BY Zenon DEF Looks!CommitBegin
<1>2. LooksTyped
  BY DEF RobotInv
<1>3. scan'.pc = scan.pc /\ (scan'.pc = "seed" => ~scan'.alone)
  BY <1>1, <1>2 DEF LooksTyped, ScanTyped, Looks!ScanSpoilt, Looks!ScanWrites
<1>4. \A j \in Looks!Previews :
        preview'[j].pc = preview[j].pc /\ (preview'[j].pc = "seed" => ~preview'[j].alone)
  <2>1. CASE Looks!PreviewWrites
    <3>1. \A j \in Looks!Previews : preview'[j] = [preview[j] EXCEPT !.alone = FALSE]
      BY <1>1, <2>1 DEF Looks!PreviewsSpoilt
    <3> QED
      BY <1>2, <3>1 DEF LooksTyped, PreviewTyped, PreviewCalls
  <2>2. CASE ~Looks!PreviewWrites
    BY <1>1, <2>2 DEF Looks!PreviewWrites
  <2> QED
    BY <2>1, <2>2
<1>5. commit'.pc = "write" /\ commit'.held = candidate /\ (commit'.alone => ~busy)
  BY <1>1
<1>6. /\ Looks!ScanWrites' <=> Looks!ScanWrites
      /\ Looks!PreviewWrites' <=> Looks!PreviewWrites
  <2>1. Looks!ScanWrites' <=> Looks!ScanWrites
    BY <1>3, Zenon DEF Looks!ScanWrites
  <2>2. Looks!PreviewWrites' <=> Looks!PreviewWrites
    BY <1>4, Zenon DEF Looks!PreviewWrites
  <2> QED
    BY <2>1, <2>2
<1>7. ScanAlone' /\ PreviewAlone'
  BY <1>3, <1>4 DEF ScanAlone, PreviewAlone
<1>8. CandidateFits'
  BY <1>1, <1>5, <1>6 DEF RobotInv, CandidateFits
<1>9. CommitAlone'
  <2> SUFFICES ASSUME commit'.alone
               PROVE  /\ ~Looks!ScanWrites' /\ ~Looks!PreviewWrites'
                      /\ "candidate" \notin spoilt' =>
                           candidateSeed' = commit'.held.seed /\ candidateSeed' # Looks!NoSeed
    BY <1>5 DEF CommitAlone
  <2>1. ~busy
    BY <1>5
  <2>2. "candidate" \notin spoilt => candidateSeed = candidate.seed /\ candidateSeed # Looks!NoSeed
    BY <1>1, <2>1, LooksFacts DEF RobotInv, CandidateFits, Looks!NoSeed
  <2> QED
    BY <1>1, <1>5, <1>6, <2>1, <2>2
<1>10. SpriteFits'
  BY <1>1, <1>5, <1>6 DEF RobotInv, SpriteFits, Looks!Whole
<1> QED
  BY <1>7, <1>8, <1>9, <1>10 DEF RobotInv

LEMMA CommitGoesOn ==
  ASSUME RobotInv, LooksTyped', Looks!CommitPicture \/ Looks!CommitRemove PROVE RobotInv'
<1>1. LooksTyped /\ UNCHANGED <<seed, candidateSeed, scan, preview, spoilt>>
  BY Zenon DEF RobotInv, Looks!CommitPicture, Looks!CommitRemove
<1>2. \/ /\ commit.pc = "write" /\ commit' = [commit EXCEPT !.pc = "remove"]
         /\ sprite' = commit.held /\ candidate' = candidate
      \/ /\ commit.pc = "remove" /\ commit' = [commit EXCEPT !.pc = "seed"]
         /\ sprite' = sprite /\ candidate' = Looks!NoPicture
  BY Zenon DEF Looks!CommitPicture, Looks!CommitRemove
<1>3. /\ commit'.held = commit.held /\ commit'.alone = commit.alone
      /\ commit'.pc \in {"remove", "seed"} /\ commit.pc \in {"write", "remove"}
      /\ commit'.pc = "remove" => sprite' = commit.held /\ candidate' = candidate
      /\ commit'.pc = "seed" => sprite' = sprite /\ ~candidate'.drawn /\ commit.pc = "remove"
  BY <1>1, <1>2, LooksFacts DEF LooksTyped, CommitTyped
<1>4. ScanAlone'
  BY <1>1, <1>3 DEF RobotInv, ScanAlone
<1>5. PreviewAlone'
  BY <1>1, <1>3 DEF RobotInv, PreviewAlone
<1>6. CandidateFits'
  BY <1>1, <1>3 DEF RobotInv, CandidateFits, Looks!PreviewWrites
<1>7. CommitAlone'
  BY <1>1, <1>3 DEF RobotInv, CommitAlone, Looks!ScanWrites, Looks!PreviewWrites
<1>8. SpriteFits'
  BY <1>3 DEF SpriteFits, Looks!Whole
<1> QED
  BY <1>4, <1>5, <1>6, <1>7, <1>8 DEF RobotInv

LEMMA CommitSeeds == ASSUME RobotInv, LooksTyped', Looks!CommitSeed PROVE RobotInv'
<1>1. /\ commit.pc = "seed" /\ commit' = [commit EXCEPT !.pc = "clean"]
      /\ \/ /\ seed' = candidateSeed
            /\ spoilt' = IF commit.alone /\ "candidate" \notin spoilt THEN spoilt \ {"sprite"}
                         ELSE spoilt \cup {"sprite"}
         \/ spoilt' = spoilt \cup {"sprite"} /\ seed' = seed
      /\ UNCHANGED <<sprite, candidate, candidateSeed, scan, preview>>
  BY Zenon DEF Looks!CommitSeed
<1>2. commit'.pc = "clean" /\ commit'.alone = commit.alone
  BY <1>1 DEF RobotInv, LooksTyped, CommitTyped
<1>3. "candidate" \in spoilt' <=> "candidate" \in spoilt
  BY <1>1
<1>4. ScanAlone' /\ PreviewAlone'
  BY <1>1 DEF RobotInv, ScanAlone, PreviewAlone
<1>5. CandidateFits'
  BY <1>1, <1>3 DEF RobotInv, CandidateFits, Looks!PreviewWrites
<1>6. CommitAlone'
  BY <1>1, <1>2 DEF RobotInv, CommitAlone, Looks!ScanWrites, Looks!PreviewWrites
<1>7. SpriteFits'
  <2> SUFFICES ASSUME "sprite" \notin spoilt' PROVE SpriteFits'
    BY DEF SpriteFits, Looks!Whole
  <2>1. commit.alone /\ "candidate" \notin spoilt /\ seed' = candidateSeed
    BY <1>1
  <2>2. sprite = commit.held /\ candidateSeed = commit.held.seed /\ candidateSeed # Looks!NoSeed
    BY <1>1, <2>1 DEF RobotInv, CommitAlone
  <2> QED
    BY <1>1, <2>1, <2>2 DEF SpriteFits
<1> QED
  BY <1>4, <1>5, <1>6, <1>7 DEF RobotInv

LEMMA CommitCleans == ASSUME RobotInv, LooksTyped', Looks!CommitClean PROVE RobotInv'
<1>1. /\ commit.pc = "clean" /\ candidateSeed' = Looks!NoSeed /\ commit' = Looks!NoCommit
      /\ UNCHANGED <<sprite, seed, candidate, scan, preview, spoilt>>
  BY Zenon DEF Looks!CommitClean
<1>2. commit'.pc = "none"
  BY <1>1 DEF Looks!NoCommit
<1>3. ScanAlone' /\ PreviewAlone' /\ CommitAlone'
  BY <1>1, <1>2 DEF RobotInv, ScanAlone, PreviewAlone, CommitAlone
<1>4. CandidateFits'
  BY <1>1 DEF RobotInv, CandidateFits, Looks!PreviewWrites
<1>5. SpriteFits'
  BY <1>1, <1>2 DEF RobotInv, SpriteFits, Looks!Whole, Looks!ScanWrites
<1> QED
  BY <1>3, <1>4, <1>5 DEF RobotInv

LEMMA AppQuits == ASSUME RobotInv, LooksTyped', Looks!Quit PROVE RobotInv'
<1>1. /\ spoilt' = spoilt
           \cup (IF Looks!ScanWrites \/ commit.pc \in {"remove", "seed"} THEN {"sprite"} ELSE {})
           \cup (IF Looks!PreviewWrites THEN {"candidate"} ELSE {})
      /\ scan' = Looks!Idle /\ commit' = Looks!NoCommit
      /\ preview' = [i \in Looks!Previews |->
           IF Looks!InFlight(i) THEN [Looks!NoPreview EXCEPT !.pc = "done"] ELSE preview[i]]
      /\ UNCHANGED <<sprite, seed, candidate, candidateSeed>>
  BY Zenon DEF Looks!Quit
<1>2. scan'.pc = "none" /\ commit'.pc = "none"
  BY <1>1 DEF Looks!Idle, Looks!NoCommit
<1>3. \A i \in Looks!Previews : preview'[i].pc # "seed"
  BY <1>1 DEF Looks!InFlight, Looks!NoPreview
<1>4. ScanAlone' /\ CommitAlone' /\ PreviewAlone'
  BY <1>2, <1>3 DEF ScanAlone, CommitAlone, PreviewAlone
<1>5. CandidateFits'
  BY <1>1, <1>2 DEF RobotInv, CandidateFits
<1>6. SpriteFits'
  BY <1>1, <1>2 DEF RobotInv, SpriteFits, Looks!Whole, Looks!ScanWrites
<1> QED
  BY <1>4, <1>5, <1>6 DEF RobotInv

LEMMA RobotsKept == RobotInv /\ [Looks!LooksNext]_lookVars => RobotInv'
<1> SUFFICES ASSUME RobotInv, [Looks!LooksNext]_lookVars PROVE RobotInv'
  OBVIOUS
<1>1. CASE UNCHANGED lookVars
  BY <1>1 DEF lookVars, RobotInv, LooksTyped, PicturesTyped, ScanTyped, PreviewTyped, CommitTyped,
     WindowTyped, ScanAlone, CommitAlone, PreviewAlone, CandidateFits, SpriteFits, Looks!Whole,
     Looks!ScanWrites, Looks!PreviewWrites
<1> SUFFICES ASSUME Looks!LooksNext PROVE RobotInv'
  BY <1>1
<1>2. LooksTyped /\ LooksTyped'
  BY LooksTypes DEF RobotInv
<1> DEFINE Same == UNCHANGED <<sprite, seed, candidate, candidateSeed, commit, spoilt>>
<1>3. CASE Looks!AutoBegin \/ Looks!AutoFails
  <2>1. Same /\ preview' = preview /\ scan.pc # "seed" /\ scan'.pc # "seed"
    BY <1>3 DEF Looks!AutoBegin, Looks!AutoFails, Looks!Idle
  <2> QED
    BY <1>2, <2>1, LooksStay
<1>4. ASSUME NEW i \in Looks!Previews, Looks!PreviewBegin(i) PROVE RobotInv'
  <2>1. Same /\ scan' = scan /\ preview[i].pc = "none"
    BY <1>4, Zenon DEF Looks!PreviewBegin
  <2>2. PICK b, others :
          preview' = [j \in Looks!Previews |->
            IF j = i THEN [pc |-> "draw", profile |-> person, alone |-> TRUE, only |-> b]
            ELSE IF j \in others THEN [preview[j] EXCEPT !.only = FALSE]
            ELSE preview[j]]
    BY <1>4, Zenon DEF Looks!PreviewBegin
  <2>3. preview'[i].pc # "seed"
    BY <2>2
  <2>4. \A j \in Looks!Previews \ {i} :
          preview'[j].pc = preview[j].pc /\ preview'[j].alone = preview[j].alone
    BY <1>2, <2>2 DEF LooksTyped, PreviewTyped, PreviewCalls
  <2> QED
    BY <1>2, <2>1, <2>3, <2>4, LooksStay
<1>5. ASSUME NEW i \in Looks!Previews, Looks!PreviewFails(i) PROVE RobotInv'
  <2>1. Same /\ scan' = scan /\ preview[i].pc = "draw" /\ preview' = [preview EXCEPT ![i].pc = "done"]
    BY <1>5, Zenon DEF Looks!PreviewFails
  <2>2. preview'[i].pc = "done" /\ \A j \in Looks!Previews \ {i} : preview'[j] = preview[j]
    BY <1>2, <2>1 DEF LooksTyped, PreviewTyped, PreviewCalls
  <2> QED
    BY <1>2, <2>1, <2>2, LooksStay
<1>6. CASE Looks!Reopen \/ Looks!CutBegin \/ Looks!CutRobot \/ Looks!CutDone
           \/ \E n \in Called, m \in Types : Looks!EditProfile(n, m)
  <2>1. Same /\ scan' = scan /\ preview' = preview
    BY <1>6, Zenon DEF Looks!Reopen, Looks!CutBegin, Looks!CutRobot, Looks!CutDone, Looks!EditProfile
  <2> QED
    BY <1>2, <2>1, LooksStay
<1>7. CASE \/ Looks!AutoPicture \/ Looks!AutoSeed
           \/ \E i \in Looks!Previews : Looks!PreviewPicture(i) \/ Looks!PreviewSeed(i)
  BY <1>2, <1>7, ScanDraws, ScanSeeds, PreviewDraws, PreviewSeeds, Zenon
<1>8. CASE \/ Looks!CommitBegin \/ Looks!CommitPicture \/ Looks!CommitRemove \/ Looks!CommitSeed
           \/ Looks!CommitClean \/ Looks!Quit
  BY <1>2, <1>8, CommitStarts, CommitGoesOn, CommitSeeds, CommitCleans, AppQuits, Zenon
<1> QED
  BY <1>3, <1>4, <1>5, <1>6, <1>7, <1>8, Zenon DEF Looks!LooksNext

\* What resolve_cut_seeds finds is what is on show.
LEMMA CutFits == RobotInv /\ Looks!LooksNext => Looks!CutShowsSprite
<1> SUFFICES ASSUME RobotInv, Looks!LooksNext, cut.pc = "draw", cut'.pc = "drawn", sprite.drawn,
                    Looks!Whole, cut.profile.mbti = sprite.mbti,
                    seed # Looks!NoSeed => cut.profile.name = sprite.spec
             PROVE  cut'.robot = sprite
  BY DEF Looks!CutShowsSprite
<1>1. Looks!CutRobot
  <2>1. cut' # cut
    OBVIOUS
  <2>2. ~Looks!AutoBegin /\ ~Looks!AutoPicture /\ ~Looks!AutoSeed /\ ~Looks!AutoFails /\ ~Looks!Reopen
    BY <2>1, Zenon DEF Looks!AutoBegin, Looks!AutoPicture, Looks!AutoSeed, Looks!AutoFails, Looks!Reopen
  <2>3. \A i \in Looks!Previews : ~(\/ Looks!PreviewBegin(i) \/ Looks!PreviewPicture(i)
                                   \/ Looks!PreviewSeed(i) \/ Looks!PreviewFails(i))
    BY <2>1, Zenon DEF Looks!PreviewBegin, Looks!PreviewPicture, Looks!PreviewSeed, Looks!PreviewFails
  <2>4. ~(\/ Looks!CommitBegin \/ Looks!CommitPicture \/ Looks!CommitRemove \/ Looks!CommitSeed
          \/ Looks!CommitClean \/ \E n \in Called, m \in Types : Looks!EditProfile(n, m))
    BY <2>1, Zenon DEF Looks!CommitBegin, Looks!CommitPicture, Looks!CommitRemove, Looks!CommitSeed,
       Looks!CommitClean, Looks!EditProfile
  <2>5. ~Looks!CutBegin
    BY DEF Looks!CutBegin
  <2>6. ~Looks!CutDone /\ ~Looks!Quit
    <3>1. Looks!NoCut.pc = "none"
      BY DEF Looks!NoCut
    <3>2. cut' # Looks!NoCut
      BY <3>1
    <3> QED
      BY <3>2, Zenon DEF Looks!CutDone, Looks!Quit
  <2> QED
    BY <2>2, <2>3, <2>4, <2>5, <2>6, Zenon DEF Looks!LooksNext
<1> DEFINE s == Looks!ResolveCutSeeds(cut.profile.name)
<1>2. cut' = [cut EXCEPT !.pc = "drawn", !.robot = Looks!Robot(s.spec, cut.profile.mbti, s.seed)]
  BY <1>1, Zenon DEF Looks!CutRobot
<1>3. s.spec = sprite.spec /\ s.seed = sprite.seed
  BY DEF RobotInv, SpriteFits, Looks!ResolveCutSeeds
<1> HIDE DEF s
<1>4. sprite = [spec |-> sprite.spec, mbti |-> sprite.mbti, seed |-> sprite.seed, drawn |-> TRUE]
  BY DEF RobotInv, LooksTyped, PicturesTyped, Pictures
<1>5. cut'.robot = Looks!Robot(s.spec, cut.profile.mbti, s.seed)
  BY <1>1, <1>2
<1> QED
  BY <1>3, <1>4, <1>5 DEF Looks!Robot

-----------------------------------------------------------------------------
\* What a window shows: a preview that met no other is the only one under way, the window
\* waits for none but its own, and what it shows is still in the file.
OnlyOne ==
  \A i \in Looks!Previews :
    Looks!InFlight(i) /\ preview[i].only => \A j \in Looks!Previews : Looks!InFlight(j) => j = i

WaitedFor ==
  window.ready /\ window.only => \A i \in Looks!Previews : Looks!InFlight(i) => i = window.waits

OnlyDrawn ==
  \A i \in Looks!Previews :
    preview[i].pc = "seed" /\ preview[i].only /\ candidate.drawn => candidate = Looks!Drawn(i)

ShownInFile ==
  window.ready /\ window.only /\ candidate.drawn =>
    \/ \E i \in Looks!Previews : i = window.waits /\ preview[i].pc = "seed"
    \/ candidate = window.shown

SeenInv == LooksTyped /\ OnlyOne /\ WaitedFor /\ OnlyDrawn /\ ShownInFile

\* The steps that leave the previews and the candidate alone.
LEMMA SeenStays ==
  ASSUME SeenInv, LooksTyped', candidate' = candidate \/ ~candidate'.drawn,
         \A i \in Looks!Previews : /\ preview'[i].pc = preview[i].pc /\ preview'[i].only = preview[i].only
                                   /\ preview'[i].profile = preview[i].profile,
         \/ window' = window
         \/ ~window'.ready
         \/ /\ window'.shown = window.shown /\ (window'.ready /\ window'.only => window.ready /\ window.only)
            /\ window.waits = 0
  PROVE  SeenInv'
<1>1. \A i \in Looks!Previews : Looks!InFlight(i)' <=> Looks!InFlight(i)
  BY Zenon DEF Looks!InFlight
<1>2. OnlyOne'
  BY <1>1 DEF SeenInv, OnlyOne
<1>3. \A i \in Looks!Previews : i # 0
  BY LooksFacts DEF Looks!Previews
<1>4. WaitedFor'
  BY <1>1, <1>3 DEF SeenInv, WaitedFor
<1>5. OnlyDrawn'
  BY DEF SeenInv, OnlyDrawn, Looks!Drawn
<1>6. ShownInFile'
  BY <1>3 DEF SeenInv, ShownInFile
<1> QED
  BY <1>2, <1>4, <1>5, <1>6 DEF SeenInv

LEMMA SeenKept == SeenInv /\ [Looks!LooksNext]_lookVars => SeenInv'
<1> SUFFICES ASSUME SeenInv, [Looks!LooksNext]_lookVars PROVE SeenInv'
  OBVIOUS
<1>1. CASE UNCHANGED lookVars
  BY <1>1 DEF lookVars, SeenInv, LooksTyped, PicturesTyped, ScanTyped, PreviewTyped, CommitTyped,
     WindowTyped, OnlyOne, WaitedFor, OnlyDrawn, ShownInFile, Looks!InFlight, Looks!Drawn
<1> SUFFICES ASSUME Looks!LooksNext PROVE SeenInv'
  BY <1>1
<1>2. LooksTyped /\ LooksTyped'
  BY LooksTypes DEF SeenInv
<1>3. \A i \in Looks!Previews : i \in Nat /\ i # 0 /\ i # MaxPreviews + 1
  BY LooksFacts DEF Looks!Previews
<1>4. CASE preview' = preview /\ window' = window /\ candidate' = candidate
  BY <1>2, <1>4, SeenStays
<1>5. Looks!AutoBegin \/ Looks!AutoPicture \/ Looks!AutoSeed \/ Looks!AutoFails
        => preview' = preview /\ window' = window /\ candidate' = candidate
  BY Zenon DEF Looks!AutoBegin, Looks!AutoPicture, Looks!AutoSeed, Looks!AutoFails
<1>6. Looks!CommitPicture \/ Looks!CommitSeed
        \/ (\E n \in Called, m \in Types : Looks!EditProfile(n, m))
        => preview' = preview /\ window' = window /\ candidate' = candidate
  BY Zenon DEF Looks!CommitPicture, Looks!CommitSeed, Looks!EditProfile
<1>7. Looks!CutBegin \/ Looks!CutRobot \/ Looks!CutDone
        => preview' = preview /\ window' = window /\ candidate' = candidate
  BY Zenon DEF Looks!CutBegin, Looks!CutRobot, Looks!CutDone
<1>8. CASE Looks!Reopen
  <2>1. /\ window' = [waits |-> 0, ready |-> FALSE, shown |-> sprite, only |-> TRUE]
        /\ preview' = preview /\ candidate' = candidate
    BY <1>8, Zenon DEF Looks!Reopen
  <2> QED
    BY <1>2, <2>1, SeenStays
<1>9. CASE Looks!CommitRemove
  <2>1. preview' = preview /\ window' = window /\ candidate' = Looks!NoPicture
    BY <1>9, Zenon DEF Looks!CommitRemove
  <2> QED
    BY <1>2, <2>1, SeenStays, LooksFacts
<1>10. CASE Looks!CommitClean
  <2>1. /\ preview' = preview /\ candidate' = candidate
        /\ \/ window' = [window EXCEPT !.waits = 0, !.ready = FALSE]
           \/ window' = window
    BY <1>10, Zenon DEF Looks!CommitClean
  <2>2. window' = window \/ ~window'.ready
    BY <1>2, <2>1 DEF LooksTyped, WindowTyped
  <2> QED
    BY <1>2, <2>1, <2>2, SeenStays
<1>11. CASE Looks!CommitBegin
  <2>1. /\ candidate' = candidate /\ window.waits = 0
        /\ window' = [window EXCEPT !.waits = MaxPreviews + 1]
        /\ preview' = preview \/ preview' = Looks!PreviewsSpoilt
    BY <1>11, Zenon DEF Looks!CommitBegin
  <2>2. \A i \in Looks!Previews :
          /\ preview'[i].pc = preview[i].pc /\ preview'[i].only = preview[i].only
          /\ preview'[i].profile = preview[i].profile
    BY <1>2, <2>1 DEF LooksTyped, PreviewTyped, PreviewCalls, Looks!PreviewsSpoilt
  <2>3. /\ window'.shown = window.shown /\ window'.ready = window.ready /\ window'.only = window.only
    BY <1>2, <2>1 DEF LooksTyped, WindowTyped
  <2> QED
    BY <1>2, <2>1, <2>2, <2>3, SeenStays
<1>12. CASE Looks!Quit
  <2>1. /\ window' = [waits |-> 0, ready |-> FALSE, shown |-> sprite, only |-> TRUE]
        /\ preview' = [i \in Looks!Previews |->
             IF Looks!InFlight(i) THEN [Looks!NoPreview EXCEPT !.pc = "done"] ELSE preview[i]]
    BY <1>12, Zenon DEF Looks!Quit
  <2>2. \A i \in Looks!Previews : ~Looks!InFlight(i)' /\ preview'[i].pc # "seed"
    BY <2>1 DEF Looks!InFlight, Looks!NoPreview
  <2>3. ~window'.ready
    BY <2>1
  <2> QED
    BY <1>2, <2>2, <2>3 DEF SeenInv, OnlyOne, WaitedFor, OnlyDrawn, ShownInFile
<1>13. ASSUME NEW i \in Looks!Previews, Looks!PreviewBegin(i) PROVE SeenInv'
  <2> DEFINE others == {j \in Looks!Previews : Looks!InFlight(j)}
  <2>1. /\ window.waits = 0 /\ preview[i].pc = "none" /\ candidate' = candidate
        /\ preview' = [j \in Looks!Previews |->
             IF j = i THEN [pc |-> "draw", profile |-> person, alone |-> TRUE, only |-> others = {}]
             ELSE IF j \in others THEN [preview[j] EXCEPT !.only = FALSE]
             ELSE preview[j]]
        /\ window' = [window EXCEPT !.waits = i]
    BY <1>13, Zenon DEF Looks!PreviewBegin
  <2>2. ~Looks!InFlight(i)
    BY <2>1, Zenon DEF Looks!InFlight
  <2>3. preview'[i].pc = "draw" /\ (preview'[i].only <=> others = {})
    BY <2>1
  <2>4. \A j \in Looks!Previews \ {i} :
          /\ preview'[j].pc = preview[j].pc /\ (Looks!InFlight(j) => ~preview'[j].only)
    BY <1>2, <2>1 DEF LooksTyped, PreviewTyped, PreviewCalls
  <2>5. window'.waits = i /\ window'.shown = window.shown /\ window'.ready = window.ready
        /\ window'.only = window.only
    BY <1>2, <2>1 DEF LooksTyped, WindowTyped
  <2>6. \A j \in Looks!Previews \ {i} : Looks!InFlight(j)' <=> Looks!InFlight(j)
    BY <2>4, Zenon DEF Looks!InFlight
  <2>7. \A j \in Looks!Previews : preview'[j].pc = "seed" => j # i /\ preview[j].pc = "seed" /\ ~preview'[j].only
    BY <2>3, <2>4 DEF Looks!InFlight
  <2>8. OnlyOne'
    <3>1. \A j \in Looks!Previews : Looks!InFlight(j) => j \in others
      OBVIOUS
    <3> QED
      BY <2>3, <2>4, <2>6, <3>1 DEF OnlyOne
  <2>9. WaitedFor'
    BY <1>3, <2>1, <2>5, <2>6 DEF SeenInv, WaitedFor
  <2>10. OnlyDrawn'
    BY <2>7 DEF OnlyDrawn
  <2>11. ShownInFile'
    BY <1>3, <2>1, <2>5 DEF SeenInv, ShownInFile
  <2> QED
    BY <1>2, <2>8, <2>9, <2>10, <2>11 DEF SeenInv
<1>14. ASSUME NEW i \in Looks!Previews, Looks!PreviewPicture(i) PROVE SeenInv'
  <2>1. /\ preview[i].pc = "draw" /\ candidate' = Looks!Drawn(i) /\ window' = window
    BY <1>14, Zenon DEF Looks!PreviewPicture
  <2>2. PICK b \in BOOLEAN, q \in {preview, Looks!PreviewsSpoilt} :
          preview' = [q EXCEPT ![i].pc = "seed", ![i].alone = b]
    BY <1>14, Zenon DEF Looks!PreviewPicture
  <2>3. /\ q \in [Looks!Previews -> PreviewCalls]
        /\ \A j \in Looks!Previews :
             /\ q[j].pc = preview[j].pc /\ q[j].only = preview[j].only
             /\ q[j].profile = preview[j].profile
    <3>1. CASE q = preview
      BY <1>2, <3>1 DEF LooksTyped, PreviewTyped
    <3>2. CASE q = Looks!PreviewsSpoilt
      BY <1>2, <3>2 DEF LooksTyped, PreviewTyped, PreviewCalls, Looks!PreviewsSpoilt
    <3> QED
      BY <3>1, <3>2
  <2>4. /\ preview'[i].pc = "seed" /\ preview'[i].only = preview[i].only
        /\ preview'[i].profile = preview[i].profile
        /\ \A j \in Looks!Previews \ {i} : preview'[j] = q[j]
    BY <2>2, <2>3 DEF PreviewCalls
  <2>5. Looks!InFlight(i)
    BY <2>1 DEF Looks!InFlight
  <2>6. \A j \in Looks!Previews : Looks!InFlight(j)' <=> Looks!InFlight(j)
    BY <2>1, <2>3, <2>4 DEF Looks!InFlight
  <2>7. OnlyOne'
    BY <2>3, <2>4, <2>6 DEF SeenInv, OnlyOne
  <2>8. WaitedFor'
    BY <2>1, <2>6 DEF SeenInv, WaitedFor
  <2>9. OnlyDrawn'
    <3> SUFFICES ASSUME NEW j \in Looks!Previews, preview'[j].pc = "seed", preview'[j].only
                 PROVE  candidate' = Looks!Drawn(j)'
      BY DEF OnlyDrawn
    <3>1. Looks!InFlight(j) /\ preview[j].only
      BY <2>3, <2>4, <2>5 DEF Looks!InFlight
    <3>2. j = i
      BY <2>5, <3>1 DEF SeenInv, OnlyOne
    <3> QED
      BY <2>1, <2>4, <3>2 DEF Looks!Drawn
  <2>10. ShownInFile'
    BY <2>1, <2>4, <2>5 DEF SeenInv, WaitedFor, ShownInFile
  <2> QED
    BY <1>2, <2>7, <2>8, <2>9, <2>10 DEF SeenInv
<1>15. ASSUME NEW i \in Looks!Previews, Looks!PreviewSeed(i) \/ Looks!PreviewFails(i) PROVE SeenInv'
  <2>1. /\ preview' = [preview EXCEPT ![i].pc = "done"] /\ candidate' = candidate
        /\ preview[i].pc \in {"draw", "seed"}
    BY <1>15 DEF Looks!PreviewSeed, Looks!PreviewFails
  <2>2. \/ window.waits # i /\ window' = window
        \/ /\ window.waits = i /\ preview[i].pc = "seed"
           /\ window' = [waits |-> 0, ready |-> TRUE, shown |-> Looks!Drawn(i), only |-> preview[i].only]
        \/ window.waits = i /\ preview[i].pc = "draw" /\ window' = [window EXCEPT !.waits = 0]
    BY <1>15, Zenon DEF Looks!PreviewSeed, Looks!PreviewFails, Looks!Shows
  <2>3. preview'[i].pc = "done" /\ \A j \in Looks!Previews \ {i} : preview'[j] = preview[j]
    BY <1>2, <2>1 DEF LooksTyped, PreviewTyped, PreviewCalls
  <2>4. Looks!InFlight(i)
    BY <2>1 DEF Looks!InFlight
  <2>5. /\ ~Looks!InFlight(i)'
        /\ \A j \in Looks!Previews \ {i} : Looks!InFlight(j)' <=> Looks!InFlight(j)
    BY <2>3 DEF Looks!InFlight
  <2>6. OnlyOne' /\ OnlyDrawn'
    BY <2>1, <2>3, <2>5 DEF SeenInv, OnlyOne, OnlyDrawn, Looks!Drawn
  <2>7. WaitedFor' /\ ShownInFile'
    <3>1. CASE window.waits # i /\ window' = window
      BY <2>4, <3>1 DEF SeenInv, WaitedFor, ShownInFile
    <3>2. CASE /\ window.waits = i /\ preview[i].pc = "seed"
               /\ window' = [waits |-> 0, ready |-> TRUE, shown |-> Looks!Drawn(i),
                             only |-> preview[i].only]
      <4>1. window'.only = preview[i].only /\ window'.shown = Looks!Drawn(i) /\ window'.waits = 0
        BY <3>2
      <4>2. WaitedFor'
        BY <2>4, <2>5, <4>1 DEF SeenInv, OnlyOne, WaitedFor
      <4>3. ShownInFile'
        BY <2>1, <3>2, <4>1 DEF SeenInv, OnlyDrawn, ShownInFile
      <4> QED
        BY <4>2, <4>3
    <3>3. CASE window.waits = i /\ preview[i].pc = "draw" /\ window' = [window EXCEPT !.waits = 0]
      <4>1. /\ window'.ready = window.ready /\ window'.only = window.only
            /\ window'.shown = window.shown
        BY <1>2, <3>3 DEF LooksTyped, WindowTyped
      <4>2. WaitedFor'
        BY <2>5, <3>3, <4>1 DEF SeenInv, WaitedFor
      <4>3. ShownInFile'
        BY <2>1, <3>3, <4>1 DEF SeenInv, ShownInFile
      <4> QED
        BY <4>2, <4>3
    <3> QED
      BY <2>2, <3>1, <3>2, <3>3
  <2> QED
    BY <1>2, <2>6, <2>7 DEF SeenInv
<1> QED
  BY <1>4, <1>5, <1>6, <1>7, <1>8, <1>9, <1>10, <1>11, <1>12, <1>13, <1>14, <1>15, Zenon
     DEF Looks!LooksNext

\* What the window shows is what mascot_commit saves.
LEMMA SavedFits == SeenInv /\ Looks!LooksNext => Looks!SavedIsSeen
<1> SUFFICES ASSUME SeenInv, Looks!LooksNext, commit.pc = "none", commit'.pc = "write", window.only
             PROVE  commit'.held = window.shown
  BY DEF Looks!SavedIsSeen
<1>1. Looks!CommitBegin
  <2>1. commit' # commit
    OBVIOUS
  <2>2. commit' # Looks!NoCommit
    BY DEF Looks!NoCommit
  <2>3. ~Looks!CommitWrites
    BY DEF Looks!CommitWrites
  <2>4. ~Looks!AutoBegin /\ ~Looks!AutoPicture /\ ~Looks!AutoSeed /\ ~Looks!AutoFails /\ ~Looks!Reopen
    BY <2>1, <2>3, Zenon DEF Looks!AutoBegin, Looks!AutoPicture, Looks!AutoSeed, Looks!AutoFails,
       Looks!Reopen
  <2>5. \A i \in Looks!Previews : ~(\/ Looks!PreviewBegin(i) \/ Looks!PreviewPicture(i)
                                   \/ Looks!PreviewSeed(i) \/ Looks!PreviewFails(i))
    BY <2>1, <2>3, Zenon DEF Looks!PreviewBegin, Looks!PreviewPicture, Looks!PreviewSeed,
       Looks!PreviewFails
  <2>6. ~(Looks!CommitPicture \/ Looks!CommitRemove \/ Looks!CommitSeed)
    BY DEF Looks!CommitPicture, Looks!CommitRemove, Looks!CommitSeed
  <2>7. ~(\/ Looks!CommitClean \/ Looks!CutBegin \/ Looks!CutRobot \/ Looks!CutDone \/ Looks!Quit
          \/ \E n \in Called, m \in Types : Looks!EditProfile(n, m))
    BY <2>1, <2>2, Zenon DEF Looks!CommitClean, Looks!CutBegin, Looks!CutRobot, Looks!CutDone,
       Looks!Quit, Looks!EditProfile
  <2> QED
    BY <2>4, <2>5, <2>6, <2>7, Zenon DEF Looks!LooksNext
<1>2. /\ window.waits = 0 /\ window.ready /\ candidate.drawn
      /\ \E b : commit' = [pc |-> "write", held |-> candidate, alone |-> b]
  BY <1>1, Zenon DEF Looks!CommitBegin
<1>3. \A i \in Looks!Previews : i # 0
  BY LooksFacts DEF Looks!Previews
<1>4. candidate = window.shown
  BY <1>2, <1>3 DEF SeenInv, ShownInFile
<1> QED
  BY <1>2, <1>4

\* The robot of the day is the one on show, and what is saved is what was seen, whatever
\* scans, previews, savings and quits come between (resolve_cut_seeds, mascot_commit).
THEOREM LooksStayTrue == MCSpec => LooksKept
<1> DEFINE Step == part = "looks" => Looks!CutShowsSprite /\ Looks!SavedIsSeen
           LookStep == [Looks!LooksNext]_lookVars
<1>1. MCInit => RobotInv /\ SeenInv
  <2>1. MCInit => RobotInv
    BY LooksBegin DEF MCInit
  <2>2. MCInit => OnlyOne /\ WaitedFor /\ OnlyDrawn /\ ShownInFile
    BY DEF MCInit, Looks!LooksInit, OnlyOne, WaitedFor, OnlyDrawn, ShownInFile, Looks!InFlight,
       Looks!NoPreview
  <2> QED
    BY <2>1, <2>2 DEF RobotInv, SeenInv
<1>2. [MCNext]_mateVars => LookStep
  BY Zenon DEF MCNext, mateVars, lookVars
<1>3. RobotInv /\ SeenInv /\ LookStep => [Step]_lookVars
  BY CutFits, SavedFits
<1>4. RobotInv /\ LookStep => RobotInv'
  BY RobotsKept
<1>5. SeenInv /\ LookStep => SeenInv'
  BY SeenKept
<1> QED
  BY <1>1, <1>2, <1>3, <1>4, <1>5, PTL DEF MCSpec, LooksKept

-----------------------------------------------------------------------------
(***************************************************************************)
(* The pictures: which pixels touch, and that the fill reaches all that is *)
(* joined to the rim and nothing else.                                     *)
(***************************************************************************)
LEMMA DivMod ==
  ASSUME NEW p \in Nat, NEW w \in Nat \ {0}
  PROVE  p = w * (p \div w) + (p % w) /\ p % w \in 0 .. w - 1 /\ p \div w \in Nat
OBVIOUS

LEMMA DivModUnique ==
  ASSUME NEW y \in Nat, NEW w \in Nat \ {0}, NEW x \in 0 .. w - 1
  PROVE  (w * y + x) \div w = y /\ (w * y + x) % w = x
OBVIOUS

LEMMA PixelAt ==
  ASSUME NEW p \in Backdrop!Pixels
  PROVE  /\ p \in Nat /\ Backdrop!X(p) \in 0 .. Width - 1 /\ Backdrop!Y(p) \in 0 .. Height - 1
         /\ p = Backdrop!Y(p) * Width + Backdrop!X(p)
<1>1. Width \in Nat \ {0} /\ Height \in Nat \ {0} /\ p \in 0 .. Width * Height - 1
  BY MateAssumption DEF Backdrop!SizeAssumption, Backdrop!Pixels
<1>0. p \in Nat
  BY <1>1
<1>2. p \in Nat /\ p = Width * Backdrop!Y(p) + Backdrop!X(p) /\ Backdrop!X(p) \in 0 .. Width - 1 /\ Backdrop!Y(p) \in Nat
  BY <1>0, <1>1, DivMod, Zenon DEF Backdrop!X, Backdrop!Y
<1>3. Backdrop!Y(p) < Height
  <2> SUFFICES ASSUME NEW y \in Nat, y = Backdrop!Y(p), y >= Height PROVE FALSE
    BY <1>1, <1>2
  <2>1. Width * y >= Width * Height
    BY <1>1
  <2> QED
    BY <1>1, <1>2, <2>1
<1> QED
  BY <1>1, <1>2, <1>3

LEMMA PlaceOf ==
  ASSUME NEW x \in 0 .. Width - 1, NEW y \in 0 .. Height - 1
  PROVE  y * Width + x \in Backdrop!Pixels /\ Backdrop!X(y * Width + x) = x /\ Backdrop!Y(y * Width + x) = y
<1>1. Width \in Nat \ {0} /\ Height \in Nat \ {0}
  BY MateAssumption DEF Backdrop!SizeAssumption
<1>2. y * Width + x = Width * y + x
  BY <1>1
<1>3. Backdrop!X(y * Width + x) = x /\ Backdrop!Y(y * Width + x) = y
  BY <1>1, <1>2, DivModUnique DEF Backdrop!X, Backdrop!Y
<1>4. y * Width + x \in Backdrop!Pixels
  <2>1. y * Width <= (Height - 1) * Width
    BY <1>1
  <2>2. (Height - 1) * Width + Width = Width * Height
    BY <1>1
  <2>3. y * Width \in Nat /\ Width * Height \in Nat /\ (Height - 1) * Width \in Nat
    BY <1>1
  <2> QED
    BY <1>1, <2>1, <2>2, <2>3 DEF Backdrop!Pixels
<1> QED
  BY <1>3, <1>4

LEMMA NeighboursTouch ==
  ASSUME NEW p \in Backdrop!Pixels, NEW q \in Backdrop!Pixels
  PROVE  q \in Backdrop!Neighbours(p) <=> Backdrop!Touch(p, q)
<1>1. Width \in Nat \ {0} /\ Height \in Nat \ {0}
  BY MateAssumption DEF Backdrop!SizeAssumption
<1> DEFINE a == Backdrop!X(p)  b == Backdrop!Y(p)  c == Backdrop!X(q)  d == Backdrop!Y(q)
<1>2. /\ p \in Nat /\ a \in 0 .. Width - 1 /\ b \in 0 .. Height - 1 /\ p = b * Width + a
      /\ q \in Nat /\ c \in 0 .. Width - 1 /\ d \in 0 .. Height - 1 /\ q = d * Width + c
  BY PixelAt
<1>3. q \in Backdrop!Neighbours(p) <=>
        \/ a > 0 /\ q = p - 1
        \/ a + 1 < Width /\ q = p + 1
        \/ b > 0 /\ q = p - Width
        \/ b + 1 < Height /\ q = p + Width
  BY DEF Backdrop!Neighbours
<1>4. Backdrop!Touch(p, q) <=> (b = d /\ a - c \in {-1, 1}) \/ (a = c /\ b - d \in {-1, 1})
  BY DEF Backdrop!Touch
<1>5. \A x \in 0 .. Width - 1, y \in 0 .. Height - 1 : q = y * Width + x => x = c /\ y = d
  BY PlaceOf
<1> HIDE DEF a, b, c, d
<1>6. a > 0 /\ q = p - 1 <=> b = d /\ a - c = 1
  <2>1. ASSUME a > 0, q = p - 1 PROVE c = a - 1 /\ d = b
    <3>1. q = b * Width + (a - 1) /\ a - 1 \in 0 .. Width - 1
      BY <1>1, <1>2, <2>1
    <3> QED
      BY <1>2, <1>5, <3>1
  <2> QED
    BY <1>1, <1>2, <2>1
<1>7. a + 1 < Width /\ q = p + 1 <=> b = d /\ a - c = -1
  <2>1. ASSUME a + 1 < Width, q = p + 1 PROVE c = a + 1 /\ d = b
    <3>1. q = b * Width + (a + 1) /\ a + 1 \in 0 .. Width - 1
      BY <1>1, <1>2, <2>1
    <3> QED
      BY <1>2, <1>5, <3>1
  <2> QED
    BY <1>1, <1>2, <2>1
<1>8. b > 0 /\ q = p - Width <=> a = c /\ b - d = 1
  <2>0. (b - 1) * Width = b * Width - Width
    BY <1>1, <1>2
  <2>1. ASSUME b > 0, q = p - Width PROVE c = a /\ d = b - 1
    <3>1. q = (b - 1) * Width + a /\ b - 1 \in 0 .. Height - 1
      BY <1>1, <1>2, <2>0, <2>1
    <3> QED
      BY <1>2, <1>5, <3>1
  <2>2. ASSUME a = c, b - d = 1 PROVE b > 0 /\ q = p - Width
    <3>1. d = b - 1
      BY <1>2, <2>2
    <3> QED
      BY <1>1, <1>2, <2>0, <2>2, <3>1
  <2> QED
    BY <1>1, <1>2, <2>1, <2>2
<1>9. b + 1 < Height /\ q = p + Width <=> a = c /\ b - d = -1
  <2>0. (b + 1) * Width = b * Width + Width
    BY <1>1, <1>2
  <2>1. ASSUME b + 1 < Height, q = p + Width PROVE c = a /\ d = b + 1
    <3>1. q = (b + 1) * Width + a /\ b + 1 \in 0 .. Height - 1
      BY <1>1, <1>2, <2>0, <2>1
    <3> QED
      BY <1>2, <1>5, <3>1
  <2>2. ASSUME a = c, b - d = -1 PROVE b + 1 < Height /\ q = p + Width
    <3>1. d = b + 1
      BY <1>2, <2>2
    <3> QED
      BY <1>1, <1>2, <2>0, <2>2, <3>1
  <2> QED
    BY <1>1, <1>2, <2>1, <2>2
<1> QED
  BY <1>3, <1>4, <1>6, <1>7, <1>8, <1>9

LEMMA SeedsAtRim ==
  ASSUME NEW p \in Backdrop!Pixels PROVE p \in Backdrop!Seeds <=> Backdrop!AtRim(p)
<1>1. Width \in Nat \ {0} /\ Height \in Nat \ {0}
  BY MateAssumption DEF Backdrop!SizeAssumption
<1>2. p \in Nat /\ Backdrop!X(p) \in 0 .. Width - 1 /\ Backdrop!Y(p) \in 0 .. Height - 1 /\ p = Backdrop!Y(p) * Width + Backdrop!X(p)
  BY PixelAt
<1>3. ASSUME NEW x \in 0 .. Width - 1, NEW y \in 0 .. Height - 1, p = y * Width + x PROVE Backdrop!X(p) = x /\ Backdrop!Y(p) = y
  BY <1>3, PlaceOf
<1>4. ASSUME p \in Backdrop!Seeds PROVE Backdrop!AtRim(p)
  <2>1. ASSUME NEW x \in 0 .. Width - 1, p = x PROVE Backdrop!AtRim(p)
    BY <1>1, <1>3, <2>1 DEF Backdrop!AtRim
  <2>2. ASSUME NEW x \in 0 .. Width - 1, p = (Height - 1) * Width + x PROVE Backdrop!AtRim(p)
    BY <1>1, <1>3, <2>2 DEF Backdrop!AtRim
  <2>3. ASSUME NEW y \in 0 .. Height - 1, p = y * Width PROVE Backdrop!AtRim(p)
    <3>1. p = y * Width + 0
      BY <1>1, <2>3
    <3> QED
      BY <1>1, <1>3, <3>1 DEF Backdrop!AtRim
  <2>4. ASSUME NEW y \in 0 .. Height - 1, p = y * Width + Width - 1 PROVE Backdrop!AtRim(p)
    <3>1. p = y * Width + (Width - 1)
      BY <1>1, <2>4
    <3> QED
      BY <1>1, <1>3, <3>1 DEF Backdrop!AtRim
  <2> QED
    BY <1>4, <2>1, <2>2, <2>3, <2>4 DEF Backdrop!Seeds
<1>5. ASSUME Backdrop!AtRim(p) PROVE p \in Backdrop!Seeds
  <2>1. CASE Backdrop!X(p) = 0
    <3>1. p = Backdrop!Y(p) * Width
      BY <1>1, <1>2, <2>1
    <3> QED
      BY <1>2, <3>1 DEF Backdrop!Seeds
  <2>2. CASE Backdrop!X(p) = Width - 1
    <3>1. p = Backdrop!Y(p) * Width + Width - 1
      BY <1>1, <1>2, <2>2
    <3> QED
      BY <1>2, <3>1 DEF Backdrop!Seeds
  <2>3. CASE Backdrop!Y(p) = 0
    <3>1. p = Backdrop!X(p)
      BY <1>1, <1>2, <2>3
    <3> QED
      BY <1>2, <3>1 DEF Backdrop!Seeds
  <2>4. CASE Backdrop!Y(p) = Height - 1
    <3>1. p = (Height - 1) * Width + Backdrop!X(p)
      BY <1>1, <1>2, <2>4
    <3> QED
      BY <1>2, <3>1 DEF Backdrop!Seeds
  <2> QED
    BY <1>5, <2>1, <2>2, <2>3, <2>4 DEF Backdrop!AtRim
<1> QED
  BY <1>4, <1>5

Less == {r \in Nat \X Nat : r[1] < r[2]}

LEMMA LeastPixel ==
  ASSUME NEW S \in SUBSET Nat, S # {} PROVE \E p \in S : \A q \in S : p <= q
<1>1. OpToRel(<, Nat) = Less
  BY DEF OpToRel, Less
<1>2. IsWellFoundedOn(Less, Nat)
  BY <1>1, NatLessThanWellFounded, Zenon
<1>3. PICK p \in S : \A q \in S : ~(<<q, p>> \in Less)
  BY <1>2, WFMin
<1>4. ASSUME NEW q \in S PROVE p <= q
  <2>1. p \in Nat /\ q \in Nat
    OBVIOUS
  <2>2. <<q, p>> \notin Less
    BY <1>3
  <2>3. q < p => <<q, p>> \in Less
    BY <2>1 DEF Less
  <2> QED
    BY <2>1, <2>2, <2>3
<1> QED
  BY <1>4

\* Every set that background cannot leave and that holds the rim's holds what was reached;
\* what was reached is such a set but for those in the queue.
FillInv ==
  /\ pale \subseteq Backdrop!Pixels /\ reached \subseteq pale /\ queue \subseteq reached
  /\ clear = IF stage = "done" THEN reached ELSE {}
  /\ stage = "done" => queue = {}
  /\ IF stage = "read" THEN reached = {} ELSE Backdrop!Seeds \cap pale \subseteq reached
  /\ \A p \in reached \ queue : Backdrop!Neighbours(p) \cap pale \subseteq reached
  /\ \A S \in SUBSET Backdrop!Pixels : Backdrop!Enclosing(S) => reached \subseteq S

LEMMA EnclosingHolds ==
  ASSUME FillInv, NEW S \in SUBSET Backdrop!Pixels, Backdrop!Enclosing(S)
  PROVE  /\ Backdrop!Seeds \cap pale \subseteq S
         /\ \A p \in S \cap Backdrop!Pixels : Backdrop!Neighbours(p) \cap pale \subseteq S
BY SeedsAtRim, NeighboursTouch DEF FillInv, Backdrop!Enclosing

LEMMA FillBegins == Backdrop!BackdropInit => FillInv
BY DEF Backdrop!BackdropInit, FillInv

LEMMA FillGoesOn == FillInv /\ [Backdrop!BackdropNext]_backdropVars => FillInv'
<1> SUFFICES ASSUME FillInv, [Backdrop!BackdropNext]_backdropVars PROVE FillInv'
  OBVIOUS
<1>1. CASE UNCHANGED <<pale, reached, queue, clear, stage>>
  BY <1>1 DEF FillInv, Backdrop!Enclosing
<1>2. CASE UNCHANGED backdropVars \/ Backdrop!FaceNext
  <2>1. UNCHANGED <<pale, reached, queue, clear, stage>>
    BY <1>2, Zenon DEF backdropVars, Backdrop!FaceNext, Backdrop!CropFace
  <2> QED
    BY <1>1, <2>1
<1>3. ASSUME pale' = pale, NEW S, Backdrop!Enclosing(S)' PROVE Backdrop!Enclosing(S)
  BY <1>3 DEF Backdrop!Enclosing
<1>4. CASE Backdrop!SeedRim
  <2>1. /\ stage = "read" /\ stage' = "fill" /\ UNCHANGED <<pale, clear>>
        /\ reached' = Backdrop!Seeds \cap pale /\ queue' = Backdrop!Seeds \cap pale
    BY <1>4, Zenon DEF Backdrop!SeedRim
  <2>2. ASSUME NEW S \in SUBSET Backdrop!Pixels, Backdrop!Enclosing(S)' PROVE reached' \subseteq S
    BY <1>3, <2>1, <2>2, EnclosingHolds
  <2> QED
    BY <2>1, <2>2 DEF FillInv
<1>5. CASE Backdrop!Spread
  <2> DEFINE i == CHOOSE p \in queue : \A q \in queue : p <= q
             fresh == (Backdrop!Neighbours(i) \cap pale) \ reached
  <2>1. /\ stage = "fill" /\ queue # {} /\ UNCHANGED <<pale, clear, stage>>
        /\ reached' = reached \cup fresh /\ queue' = (queue \ {i}) \cup fresh
    BY <1>5, Zenon DEF Backdrop!Spread
  <2>2. i \in queue
    <3>1. Backdrop!Pixels \subseteq Nat
      BY PixelAt
    <3>2. queue \in SUBSET Nat
      BY <3>1 DEF FillInv
    <3>3. \E p \in queue : \A q \in queue : p <= q
      BY <2>1, <3>2, LeastPixel
    <3> QED
      BY <3>3, Zenon
  <2>3. i \in reached /\ i \in Backdrop!Pixels
    BY <2>2 DEF FillInv
  <2> HIDE DEF i
  <2>4. ASSUME NEW p \in reached' \ queue' PROVE Backdrop!Neighbours(p) \cap pale \subseteq reached'
    <3>1. p = i \/ p \in reached \ queue
      BY <2>1
    <3> QED
      BY <2>1, <3>1 DEF FillInv
  <2>5. ASSUME NEW S \in SUBSET Backdrop!Pixels, Backdrop!Enclosing(S)' PROVE reached' \subseteq S
    <3>1. reached \subseteq S
      BY <1>3, <2>1, <2>5 DEF FillInv
    <3>2. Backdrop!Neighbours(i) \cap pale \subseteq S
      BY <1>3, <2>1, <2>3, <2>5, <3>1, EnclosingHolds
    <3> QED
      BY <2>1, <3>1, <3>2
  <2> QED
    BY <2>1, <2>2, <2>4, <2>5 DEF FillInv
<1>6. CASE Backdrop!Clear
  <2>1. /\ stage = "fill" /\ queue = {} /\ clear' = reached /\ stage' = "done"
        /\ UNCHANGED <<pale, reached, queue>>
    BY <1>6, Zenon DEF Backdrop!Clear
  <2>2. ASSUME NEW S \in SUBSET Backdrop!Pixels, Backdrop!Enclosing(S)' PROVE reached \subseteq S
    BY <1>3, <2>1, <2>2 DEF FillInv
  <2> QED
    BY <2>1, <2>2 DEF FillInv
<1> QED
  BY <1>2, <1>4, <1>5, <1>6, Zenon DEF Backdrop!BackdropNext, Backdrop!FillNext

LEMMA OutsideCleared == FillInv => Backdrop!OnlyOutsideCleared
<1> SUFFICES ASSUME FillInv, stage = "done"
             PROVE  /\ clear \subseteq pale /\ Backdrop!Enclosing(clear)
                    /\ \A S \in SUBSET clear : Backdrop!Enclosing(S) => S = clear
  BY DEF Backdrop!OnlyOutsideCleared
<1>1. /\ clear = reached /\ queue = {} /\ clear \subseteq pale /\ pale \subseteq Backdrop!Pixels
      /\ Backdrop!Seeds \cap pale \subseteq clear
      /\ \A p \in clear : Backdrop!Neighbours(p) \cap pale \subseteq clear
  BY DEF FillInv
<1>2. Backdrop!Enclosing(clear)
  BY <1>1, SeedsAtRim, NeighboursTouch DEF Backdrop!Enclosing
<1>3. ASSUME NEW S \in SUBSET clear, Backdrop!Enclosing(S) PROVE S = clear
  BY <1>1, <1>3 DEF FillInv
<1> QED
  BY <1>1, <1>2, <1>3

LEMMA SharesWithin ==
  ASSUME NEW o \in 0 .. 127, NEW s \in Nat \ {0}
  PROVE  (o * s) \div 128 \in 0 .. s - 1
OBVIOUS

LEMMA FaceStaysInside ==
  Backdrop!FaceInside /\ [Backdrop!BackdropNext]_backdropVars => Backdrop!FaceInside'
<1> SUFFICES ASSUME Backdrop!FaceInside, [Backdrop!BackdropNext]_backdropVars
             PROVE  Backdrop!FaceInside'
  OBVIOUS
<1>1. CASE face' = face
  BY <1>1 DEF Backdrop!FaceInside
<1>2. CASE UNCHANGED backdropVars \/ Backdrop!FillNext
  <2>1. face' = face
    BY <1>2, Zenon DEF backdropVars, Backdrop!FillNext, Backdrop!SeedRim, Backdrop!Spread, Backdrop!Clear
  <2> QED
    BY <1>1, <2>1
<1>3. CASE Backdrop!FaceNext
  <2>1. PICK w, h \in 1 .. MaxSide : Backdrop!CropFace(w, h)
    BY <1>3, Zenon DEF Backdrop!FaceNext
  <2>2. MaxSide \in Nat /\ MaxPixels \in Nat /\ w \in Nat \ {0} /\ h \in Nat \ {0}
    BY MateAssumption DEF Backdrop!SizeAssumption
  <2> DEFINE s == Backdrop!Side(w, h)  l == Backdrop!Left(w, h)  t == Backdrop!Top(w, h)
             xs == {l + (o * s) \div 128 : o \in 0 .. 127}
             ys == {t + (o * s) \div 128 : o \in 0 .. 127}
  <2>3. CASE w * h > MaxPixels
    <3>1. face' = [w |-> 0, h |-> 0, xs |-> {}, ys |-> {}]
      BY <2>1, <2>3 DEF Backdrop!CropFace, Backdrop!NoFace
    <3> QED
      BY <2>2, <3>1 DEF Backdrop!FaceInside
  <2>4. CASE ~(w * h > MaxPixels)
    <3>1. face' = [w |-> w, h |-> h, xs |-> xs, ys |-> ys]
      BY <2>1, <2>4 DEF Backdrop!CropFace, Backdrop!IconSize
    <3>2. s \in Nat \ {0} /\ s <= w /\ s <= h
      BY <2>2 DEF Backdrop!Side, Backdrop!Least
    <3>3. l \in Nat /\ l + s <= w
      BY <2>2, <3>2 DEF Backdrop!Left
    <3>4. t \in Nat /\ t + s <= h
      BY <2>2, <3>2 DEF Backdrop!Top
    <3> HIDE DEF s, l, t
    <3>5. xs \subseteq 0 .. w - 1 /\ ys \subseteq 0 .. h - 1
      <4>1. \A o \in 0 .. 127 : (o * s) \div 128 \in 0 .. s - 1
        BY <3>2, SharesWithin
      <4> QED
        BY <2>2, <3>2, <3>3, <3>4, <4>1
    <3>6. w * h \in Nat /\ w * h <= MaxPixels
      BY <2>2, <2>4
    <3> QED
      BY <3>1, <3>5, <3>6 DEF Backdrop!FaceInside
  <2> QED
    BY <2>3, <2>4
<1> QED
  BY <1>2, <1>3 DEF Backdrop!BackdropNext

\* Exactly the background joined to the rim is cleared, no face is read beside its picture,
\* and nobody is drawn and paid for twice, for pictures of every size
\* (make_background_transparent, crop_face, request_occupant_sprite).
THEOREM PicturesStayFit == MCSpec => []PicturesFit
<1> DEFINE Inv == FillInv /\ Backdrop!FaceInside /\ OccupantsInv
<1>1. MCInit => Inv
  <2>1. Backdrop!BackdropInit => Backdrop!FaceInside
    BY MateAssumption DEF Backdrop!BackdropInit, Backdrop!FaceInside, Backdrop!NoFace,
       Backdrop!SizeAssumption
  <2> QED
    BY <2>1, FillBegins, OccupantsBegin DEF MCInit
<1>2. Inv /\ [MCNext]_mateVars => Inv'
  <2>1. [MCNext]_mateVars => [Backdrop!BackdropNext]_backdropVars
    BY Zenon DEF MCNext, mateVars, backdropVars, Backdrop!BackdropNext
  <2>2. [MCNext]_mateVars => [Occupants!OccupantsNext]_occupantVars
    BY DEF MCNext, mateVars, occupantVars
  <2>3. OccupantsInv /\ [Occupants!OccupantsNext]_occupantVars => OccupantsInv'
    BY OccupantsTyped, OccupantsOnce, MarkersStay DEF OccupantsInv
  <2> QED
    BY <2>1, <2>2, <2>3, FillGoesOn, FaceStaysInside
<1>3. Inv => PicturesFit
  BY OutsideCleared, OccupantsFit DEF PicturesFit, Backdrop!PictureCut
<1> QED
  BY <1>1, <1>2, <1>3, PTL DEF MCSpec
=============================================================================
