------------------------------ MODULE MCNotices ------------------------------
(***************************************************************************)
(* What reaches the window of notices, checked in one run; `part` says     *)
(* which of two behaviours goes on, the variables of the other keep their  *)
(* first values.  "guestbook": two entries by people, one answer in a scan, *)
(* so that a second entry has to wait for another scan.  "content": cards  *)
(* of two kinds that have to do with each other (others only add to the    *)
(* number of states), and announcements.                                   *)
(***************************************************************************)
EXTENDS Guestbook

CONSTANTS Mixes, Levels, Batch, MaxFeedFaults, MaxQuits

VARIABLES part
VARIABLES mix, offer, fresh, hubOn, known, reread, rows, kept, scan, got, window,
          listening, told, heard, lost, feedFaults, quits

cardVars == <<mix, offer, fresh, hubOn, known, reread, rows, kept, scan, got, window,
              listening, told, heard, lost, feedFaults, quits>>

Cards ==
  INSTANCE ContentCards WITH
    MaxFaults <- MaxFeedFaults, faults <- feedFaults, ready <- listening

ASSUME CardsAssumption == Cards!ContentAssumption

Pairs == {[news |-> 2], [news |-> 1, notice |-> 1], [page |-> 1], [tip |-> 1, boris |-> 1],
          [cache |-> 1, praise |-> 1]}

MCInit ==
  /\ part \in {"guestbook", "content"}
  /\ Init /\ Cards!Init
  /\ part # "content" => mix = [page |-> 1]

MCNext ==
  \/ part = "guestbook" /\ Next /\ UNCHANGED <<cardVars, part>>
  \/ part = "content" /\ Cards!Next /\ UNCHANGED <<vars, part>>

\* Those of the two FairSpecs.
Fairness ==
  /\ WF_vars(part = "guestbook" /\ Scan) /\ WF_vars(part = "guestbook" /\ Poll("catch_up"))
  /\ WF_vars(part = "guestbook" /\ NoticesReady)
  /\ WF_cardVars(part = "content" /\ Cards!Scan) /\ WF_cardVars(part = "content" /\ Cards!Window)
  /\ WF_cardVars(part = "content" /\ Cards!NoticesReady)
  /\ \A f \in Cards!Feeds : WF_cardVars(part = "content" /\ Cards!Expire(f))
  /\ \A i \in Cards!SameAxis : WF_cardVars(part = "content" /\ Cards!CoolDown(i))

MCSpec == MCInit /\ [][MCNext]_<<vars, cardVars, part>> /\ Fairness

\* What a card shows and announces is of now: no translation of an older text
\* (TranslationFits), and no second announcement (AnnouncedOnce).
CardsTell ==
  part = "content" => Cards!TranslationFits /\ Cards!AnnouncedOnce

\* EventuallyServed of Guestbook, CardsHold and ScansCatchUp of ContentCards.
AllServed == part = "guestbook" => EventuallyServed
CardsHold == Cards!CardsHold
ScansCatchUp == part = "content" => Cards!ScansCatchUp
=============================================================================
