----------------------------- MODULE MCLifeMate -----------------------------
(***************************************************************************)
(* A mate among the others of its life server, checked in one run; `part`  *)
(* says what goes on, and the variables of everything else keep their      *)
(* first values.  "visits": the bot's trips to two friends, one thing that *)
(* the user does and one failure.  "crowd": the bot's trips to three       *)
(* friends, more than it can visit before their rows go, and one failure.  *)
(* "connection": two servers, of which one renames, and two names.         *)
(* "looks": a mascot with and without a name, two previews, one fault.     *)
(* "occupants": two others, two requests.  "fill": every pattern of        *)
(* background in 3 x 4 pixels, of which two are enclosed.  "face": every   *)
(* size up to 24 x 24.                                                     *)
(***************************************************************************)
EXTENDS Visits

CONSTANTS Servers, Renaming, Names, MaxEdits, MaxFaults, MaxCommands  \* of LifeConnection
CONSTANTS Called, Types, Fresh, MaxPreviews, MaxWhims, MaxSlips       \* of Looks
CONSTANTS Others, Calls, MaxMarred                                    \* of Occupants
CONSTANTS Width, Height, MaxSide, MaxPixels                           \* of Backdrop

VARIABLES part
VARIABLES accounts, epoch, conn, profile, command, upload, home, mixed, spent

VARIABLES person, sprite, seed, candidate, candidateSeed, scan, preview, commit, window, cut,
          spoilt, edits, faults
VARIABLES picture, marker, call, paid, raced, left, marred
VARIABLES pale, reached, queue, clear, stage, face

connectionVars == <<accounts, epoch, conn, profile, command, upload, home, mixed, spent>>
lookVars == <<person, sprite, seed, candidate, candidateSeed, scan, preview, commit, window,
              cut, spoilt, edits, faults>>
occupantVars == <<picture, marker, call, paid, raced, left, marred>>
backdropVars == <<pale, reached, queue, clear, stage, face>>
mateVars == <<visitVars, connectionVars, lookVars, occupantVars, backdropVars, part>>

OneEach == [moves |-> 1, faults |-> 1]
NoMoves == [moves |-> 0, faults |-> 1]
ManyFriends == {1, 2, 3}

Crowd == INSTANCE Visits WITH Friends <- ManyFriends, MaxEvents <- NoMoves

Connection == INSTANCE LifeConnection

Looks ==
  INSTANCE Looks WITH
    Names <- Called, MaxEdits <- MaxWhims, MaxFaults <- MaxSlips,
    profile <- person, mixed <- spoilt

Occupants == INSTANCE Occupants

Backdrop == INSTANCE Backdrop WITH seen <- reached

ASSUME MateAssumption ==
  Connection!ConnectionAssumption /\ Looks!LooksAssumption /\ Backdrop!SizeAssumption

ASSUME CrowdAssumption == Crowd!VisitsAssumption

MCInit ==
  /\ part \in {"visits", "crowd", "connection", "looks", "occupants", "fill", "face"}
  /\ IF part = "crowd" THEN Crowd!VisitInit ELSE VisitInit
  /\ Connection!ConnectionInit
  /\ Looks!LooksInit /\ Occupants!OccupantsInit /\ Backdrop!BackdropInit
  /\ part # "connection" => profile.name = CHOOSE n \in Names : TRUE
  /\ part # "looks" => person.name = 0 /\ ~sprite.drawn
  /\ part # "fill" => pale = {}

MCNext ==
  \/ /\ part = "visits" /\ VisitNext
     /\ UNCHANGED <<connectionVars, lookVars, occupantVars, backdropVars, part>>
  \/ /\ part = "crowd" /\ Crowd!VisitNext
     /\ UNCHANGED <<connectionVars, lookVars, occupantVars, backdropVars, part>>
  \/ /\ part = "connection" /\ Connection!ConnectionNext
     /\ UNCHANGED <<visitVars, lookVars, occupantVars, backdropVars, part>>
  \/ /\ part = "looks" /\ Looks!LooksNext
     /\ UNCHANGED <<visitVars, connectionVars, occupantVars, backdropVars, part>>
  \/ /\ part = "occupants" /\ Occupants!OccupantsNext
     /\ UNCHANGED <<visitVars, connectionVars, lookVars, backdropVars, part>>
  \/ /\ part = "fill" /\ Backdrop!FillNext
     /\ UNCHANGED <<visitVars, connectionVars, lookVars, occupantVars, part>>
  \/ /\ part = "face" /\ Backdrop!FaceNext
     /\ UNCHANGED <<visitVars, connectionVars, lookVars, occupantVars, part>>

\* Those of VisitFairness and ConnectionFairness.
Fairness ==
  /\ WF_visitVars(part = "visits" /\ Scan) /\ WF_visitVars(part = "visits" /\ HalfDay)
  /\ WF_visitVars(part = "visits" /\ VisitSteps)
  /\ WF_visitVars(part = "crowd" /\ Crowd!Scan) /\ WF_visitVars(part = "crowd" /\ Crowd!HalfDay)
  /\ WF_visitVars(part = "crowd" /\ Crowd!VisitSteps)
  /\ \A w \in Connection!Windows :
       WF_connectionVars(part = "connection" /\ Connection!CommandSteps(w))
  /\ WF_connectionVars(part = "connection" /\ Connection!ReadPicture)
  /\ WF_connectionVars(part = "connection" /\ \E u \in upload : Connection!UploadPicture(u))

MCSpec ==
  /\ MCInit
  /\ [][MCNext]_mateVars
  /\ Fairness

\* The bot comes round to each of two friends again and again ("never visited first, then
\* the one visited longest ago").  Of three, more than the rest days before a row is
\* forgotten, it comes round to each but those whom friends with lower ids, forgotten with
\* their rows, go before again and again: so always to the one with the lowest.
RoundsEnd ==
  /\ part = "visits" => \A f \in Friends : []<><<Visits(f)>>_visitVars
  /\ part = "crowd" =>
       \A f \in ManyFriends :
         \/ []<><<Crowd!Visits(f)>>_visitVars
         \/ \E g \in ManyFriends : []<><<part = "crowd" /\ Crowd!Forgets(g, f)>>_visitVars

\* EntriesApart of Visits.
EntriesSpaced == [][part = "visits" => EntriesApart]_visitVars

\* Nothing of mine is where it does not belong: neither a bot's trip in where its user is
\* (TripsGoUnnoticed) nor a token at a server that did not give it (CredentialsFit).
NothingMisplaced ==
  /\ part = "visits" => TripsGoUnnoticed
  /\ part = "connection" => Connection!CredentialsFit

\* A background is cleared and a face cropped as they should be (PictureCut), and nobody
\* is drawn and paid for twice (OccupantsInOrder).
PicturesFit ==
  /\ part \in {"fill", "face"} => Backdrop!PictureCut
  /\ part = "occupants" => Occupants!OccupantsInOrder

\* The picture of the day shows the robot on show, and what is saved is what was seen
\* (CutShowsSprite and SavedIsSeen of Looks).
LooksKept == [][part = "looks" => Looks!CutShowsSprite /\ Looks!SavedIsSeen]_lookVars

\* Those of LifeConnection.
SameRoomAgain == Connection!SameRoomAgain
FaceFollows == Connection!FaceFollows
IdentityFollows == Connection!IdentityFollows
=============================================================================
