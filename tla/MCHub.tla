------------------------------- MODULE MCHub -------------------------------
(***************************************************************************)
(* What mates publish in the work hub, checked in one run; `part` says     *)
(* which of two behaviours goes on, the variables of the other keep their  *)
(* first values.  "share": mates share a piece of knowledge that they all  *)
(* have; Ann has two machines, Bob has one.  "pushes": one mate pushes the *)
(* figures of a day and the retrospectives of sessions.                    *)
(***************************************************************************)
EXTENDS HubShare

CONSTANTS Ann, Bob, BobsMate
CONSTANTS Struggles, MaxDay, MaxTurns, MaxPushFaults, MaxAdmin

VARIABLES part
VARIABLES spaces, account, twin, opened, posted, admin, facts, turns, today, busy, token,
          row, push, failed, clean, expelled

pushVars == <<spaces, account, twin, opened, posted, admin, facts, turns, today, busy,
              token, row, push, failed, clean, expelled>>

Pushes ==
  INSTANCE HubPushes WITH issues <- opened, pages <- posted, MaxFaults <- MaxPushFaults

ASSUME PushesAssumption == Pushes!PushAssumption

Owner == [m \in Mates |-> IF m = BobsMate THEN Bob ELSE Ann]

MCInit ==
  /\ part \in {"share", "pushes"}
  /\ Init /\ Pushes!PushInit
  /\ part = "share" => spaces["telemetry"] = "none"

MCNext ==
  \/ part = "share" /\ Next /\ UNCHANGED <<pushVars, part>>
  \/ part = "pushes" /\ Pushes!PushNext /\ UNCHANGED <<vars, part>>

\* That of FairSpec and of Pushes!PushFairSpec.
Fairness ==
  /\ \A m \in Mates : WF_vars(part = "share" /\ Step(m))
  /\ WF_pushVars(part = "pushes" /\ Pushes!ScanSteps)
  /\ \A s \in Struggles : WF_pushVars(part = "pushes" /\ Pushes!Settles(s))

MCSpec == MCInit /\ [][MCNext]_<<vars, pushVars, part>> /\ Fairness

\* Nothing is published twice: neither a piece of knowledge (SharedOnce) nor the figures
\* of a day or a retrospective (PushedOnce), each with the exceptions told there.
PublishedOnce == /\ part = "share" => SharedOnce
                 /\ part = "pushes" => Pushes!PushedOnce

\* EventuallyShared of HubShare, YesterdayGoesOut and RecoveriesTold of HubPushes.
SharesEnd == part = "share" => EventuallyShared
YesterdayGoesOut == Pushes!YesterdayGoesOut
RecoveriesTold == Pushes!RecoveriesTold
=============================================================================
