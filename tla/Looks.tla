------------------------------- MODULE Looks -------------------------------
(***************************************************************************)
(* How the mascot looks: the picture the scan draws when there is none     *)
(* (a-mate/src-tauri/src/pipeline.rs, maybe_generate_sprite), the previews *)
(* that the user asks for in the settings window and saves or not          *)
(* (commands.rs, mascot_preview and mascot_commit), and the robot in the   *)
(* picture of the day, which should be the one on show                     *)
(* (resolve_cut_seeds).  Each of them draws for a long time and then       *)
(* writes a picture and a seed, one file after the other, and nothing      *)
(* keeps them apart.                                                       *)
(*                                                                         *)
(* A seed stands for itself: what a robot looks like is a hash of seeds,   *)
(* equal for equal ones.  Seed n below Fresh is the identity of the mascot *)
(* under name n (mascot_identity_seed), 0 being the bare user_uuid of a    *)
(* mascot without a name; the others are the UUIDs of previews.            *)
(***************************************************************************)
EXTENDS Naturals

CONSTANTS
  Names,        \* names of the mascot, 0 for none
  Types,        \* its MBTI types, 0 for none
  Fresh,        \* the first seed that is no identity
  MaxPreviews,  \* bound on previews
  MaxEdits,     \* bound on changes of the profile
  MaxFaults     \* bound on failing calls, seeds not written, and quits

LooksAssumption ==
  /\ Names \subseteq 0 .. Fresh - 1 /\ 0 \in Names /\ Types \subseteq Nat
  /\ {Fresh, MaxPreviews, MaxEdits, MaxFaults} \subseteq Nat

VARIABLES
  profile,  \* the settings user_name and user_mbti
  sprite,   \* sprite.png
  seed,     \* sprite.seed
  candidate, candidateSeed,  \* the files of the same names
  scan,     \* maybe_generate_sprite
  preview,  \* the calls of mascot_preview
  commit,   \* mascot_commit
  window,   \* the settings window
  cut,      \* the picture of the day that is being drawn
  mixed,    \* history: the writing of picture and seed was cut, or not alone:
            \* "sprite", "candidate"
  edits, faults

looksVars == <<profile, sprite, seed, candidate, candidateSeed, scan, preview, commit,
               window, cut, mixed, edits, faults>>

-----------------------------------------------------------------------------
NoPicture == [spec |-> 0, mbti |-> 0, seed |-> 0, drawn |-> FALSE]
NoSeed == Fresh + MaxPreviews + 1
Previews == 1 .. MaxPreviews

\* robot_spec_from_profile and character_description: the shape comes from spec
\* and type, pose and dress from seed and type (respec_pose_for_seed).
Robot(spec, mbti, s) == [spec |-> spec, mbti |-> mbti, seed |-> s, drawn |-> TRUE]

Fault == faults < MaxFaults /\ faults' = faults + 1

-----------------------------------------------------------------------------
(***************************************************************************)
(* Who is writing a picture and its seed; whoever begins while another     *)
(* does spoils both.  A scan and a commit write the sprite, a preview and  *)
(* a commit the candidate.                                                 *)
(***************************************************************************)
ScanWrites == scan.pc = "seed"
CommitWrites == commit.pc # "none"
PreviewWrites == \E i \in Previews : preview[i].pc = "seed"

Idle == [pc |-> "none", profile |-> [name |-> 0, mbti |-> 0], alone |-> TRUE]
NoPreview == [pc |-> "none", profile |-> [name |-> 0, mbti |-> 0], alone |-> TRUE,
              only |-> TRUE]
NoCommit == [pc |-> "none", held |-> NoPicture, alone |-> TRUE]

NoCut == [pc |-> "none", profile |-> Idle.profile, robot |-> NoPicture]

CommitSpoilt == [commit EXCEPT !.alone = FALSE]
ScanSpoilt == [scan EXCEPT !.alone = FALSE]
PreviewsSpoilt == [i \in Previews |-> [preview[i] EXCEPT !.alone = FALSE]]

-----------------------------------------------------------------------------
(* The scan.                                                               *)

\* There is no picture, and an image model is set; the profile is read.
AutoBegin ==
  /\ scan.pc = "none" /\ ~sprite.drawn
  /\ scan' = [pc |-> "draw", profile |-> profile, alone |-> TRUE]
  /\ UNCHANGED <<profile, sprite, seed, candidate, candidateSeed, preview, commit, window,
                 cut, mixed, edits, faults>>

\* Nobody looks again whether there is a picture by now.
AutoPicture ==
  /\ scan.pc = "draw"
  /\ LET p == scan.profile IN sprite' = Robot(p.name, p.mbti, p.name)
  /\ scan' = [scan EXCEPT !.pc = "seed", !.alone = ~CommitWrites]
  /\ commit' = IF CommitWrites THEN CommitSpoilt ELSE commit
  /\ UNCHANGED <<profile, seed, candidate, candidateSeed, preview, window, cut, mixed,
                 edits, faults>>

AutoSeed ==
  /\ scan.pc = "seed"
  /\ \/ /\ seed' = scan.profile.name
        /\ mixed' = IF scan.alone THEN mixed \ {"sprite"} ELSE mixed \cup {"sprite"}
        /\ UNCHANGED faults
     \/ /\ Fault
        /\ mixed' = mixed \cup {"sprite"}
        /\ UNCHANGED seed
  /\ scan' = Idle
  /\ UNCHANGED <<profile, sprite, candidate, candidateSeed, preview, commit, window, cut,
                 edits>>

AutoFails ==
  /\ scan.pc = "draw" /\ Fault
  /\ scan' = Idle
  /\ UNCHANGED <<profile, sprite, seed, candidate, candidateSeed, preview, commit, window,
                 cut, mixed, edits>>

-----------------------------------------------------------------------------
(* Previews.                                                               *)

InFlight(i) == preview[i].pc # "none" /\ preview[i].pc # "done"

\* The button, which is disabled while the window waits for an answer.
PreviewBegin(i) ==
  /\ window.waits = 0 /\ preview[i].pc = "none"
  /\ \A j \in 1 .. i - 1 : preview[j].pc # "none"
  /\ LET others == {j \in Previews : InFlight(j)}
     IN preview' = [j \in Previews |->
          IF j = i THEN [pc |-> "draw", profile |-> profile, alone |-> TRUE,
                         only |-> others = {}]
          ELSE IF j \in others THEN [preview[j] EXCEPT !.only = FALSE]
          ELSE preview[j]]
  /\ window' = [window EXCEPT !.waits = i]
  /\ UNCHANGED <<profile, sprite, seed, candidate, candidateSeed, scan, commit, cut, mixed,
                 edits, faults>>

Drawn(i) ==
  Robot(preview[i].profile.name, preview[i].profile.mbti, Fresh + i)

PreviewPicture(i) ==
  /\ preview[i].pc = "draw"
  /\ candidate' = Drawn(i)
  /\ LET busy == PreviewWrites \/ CommitWrites
     IN /\ preview' = [IF busy THEN PreviewsSpoilt ELSE preview EXCEPT
                         ![i].pc = "seed", ![i].alone = ~busy]
        /\ commit' = IF CommitWrites THEN CommitSpoilt ELSE commit
  /\ UNCHANGED <<profile, sprite, seed, candidateSeed, scan, window, cut, mixed, edits,
                 faults>>

\* The window shows the answer if it is still the one that asked.
Shows(i, picture) ==
  window' = IF window.waits = i
            THEN [waits |-> 0, ready |-> TRUE, shown |-> picture, only |-> preview[i].only]
            ELSE window

PreviewSeed(i) ==
  /\ preview[i].pc = "seed"
  /\ \/ /\ candidateSeed' = Fresh + i
        /\ mixed' = IF preview[i].alone THEN mixed \ {"candidate"}
                    ELSE mixed \cup {"candidate"}
        /\ UNCHANGED faults
     \/ /\ Fault
        /\ mixed' = mixed \cup {"candidate"}
        /\ UNCHANGED candidateSeed
  /\ preview' = [preview EXCEPT ![i].pc = "done"]
  /\ Shows(i, Drawn(i))
  /\ UNCHANGED <<profile, sprite, seed, candidate, scan, commit, cut, edits>>

\* Faulty: a preview that failed can be saved.
PreviewFailsReady(i) ==
  /\ preview[i].pc = "draw" /\ Fault
  /\ preview' = [preview EXCEPT ![i].pc = "done"]
  /\ window' = IF window.waits = i THEN [window EXCEPT !.waits = 0, !.ready = TRUE] ELSE window
  /\ UNCHANGED <<profile, sprite, seed, candidate, candidateSeed, scan, commit, cut, mixed,
                 edits>>
PreviewFails(i) ==
  /\ preview[i].pc = "draw" /\ Fault
  /\ preview' = [preview EXCEPT ![i].pc = "done"]
  /\ window' = IF window.waits = i THEN [window EXCEPT !.waits = 0] ELSE window
  /\ UNCHANGED <<profile, sprite, seed, candidate, candidateSeed, scan, commit, cut, mixed,
                 edits>>

\* The window is closed and opened again; what it asked for goes on, and it shows
\* sprite.png (get_sprite).
Reopen ==
  /\ window' = [waits |-> 0, ready |-> FALSE, shown |-> sprite, only |-> TRUE]
  /\ window' # window
  /\ UNCHANGED <<profile, sprite, seed, candidate, candidateSeed, scan, preview, commit,
                 cut, mixed, edits, faults>>

-----------------------------------------------------------------------------
(* Saving a preview.                                                       *)

CommitBegin ==
  /\ window.waits = 0 /\ window.ready /\ commit.pc = "none" /\ candidate.drawn
  /\ LET busy == ScanWrites \/ PreviewWrites
     IN /\ commit' = [pc |-> "write", held |-> candidate, alone |-> ~busy]
        /\ scan' = IF ScanWrites THEN ScanSpoilt ELSE scan
        /\ preview' = IF PreviewWrites THEN PreviewsSpoilt ELSE preview
  /\ window' = [window EXCEPT !.waits = MaxPreviews + 1]
  /\ UNCHANGED <<profile, sprite, seed, candidate, candidateSeed, cut, mixed, edits, faults>>

CommitPicture ==
  /\ commit.pc = "write"
  /\ sprite' = commit.held
  /\ commit' = [commit EXCEPT !.pc = "remove"]
  /\ UNCHANGED <<profile, seed, candidate, candidateSeed, scan, preview, window, cut, mixed,
                 edits, faults>>

CommitRemove ==
  /\ commit.pc = "remove"
  /\ candidate' = NoPicture
  /\ commit' = [commit EXCEPT !.pc = "seed"]
  /\ UNCHANGED <<profile, sprite, seed, candidateSeed, scan, preview, window, cut, mixed, edits,
                 faults>>

\* Without a seed of the candidate there is none of the sprite.
CommitSeed ==
  /\ commit.pc = "seed"
  /\ \/ /\ seed' = candidateSeed
        /\ mixed' = IF commit.alone /\ "candidate" \notin mixed THEN mixed \ {"sprite"}
                    ELSE mixed \cup {"sprite"}
        /\ UNCHANGED faults
     \/ /\ Fault
        /\ mixed' = mixed \cup {"sprite"}
        /\ UNCHANGED seed
  /\ commit' = [commit EXCEPT !.pc = "clean"]
  /\ UNCHANGED <<profile, sprite, candidate, candidateSeed, scan, preview, window, cut, edits>>

CommitClean ==
  /\ commit.pc = "clean"
  /\ candidateSeed' = NoSeed
  /\ commit' = NoCommit
  /\ window' = IF window.waits = MaxPreviews + 1
               THEN [window EXCEPT !.waits = 0, !.ready = FALSE] ELSE window
  /\ UNCHANGED <<profile, sprite, seed, candidate, scan, preview, cut, mixed, edits,
                 faults>>

-----------------------------------------------------------------------------
(* The profile, and the picture of the day.                                *)

EditProfile(n, m) ==
  /\ edits < MaxEdits /\ edits' = edits + 1
  /\ n # 0  \* a name is required
  /\ profile' = [name |-> n, mbti |-> m] /\ profile' # profile
  /\ UNCHANGED <<sprite, seed, candidate, candidateSeed, scan, preview, commit, window, cut,
                 mixed, faults>>

CutBegin ==
  /\ cut.pc = "none"
  /\ cut' = [NoCut EXCEPT !.pc = "draw", !.profile = profile]
  /\ UNCHANGED <<profile, sprite, seed, candidate, candidateSeed, scan, preview, commit,
                 window, mixed, edits, faults>>

\* resolve_cut_seeds.  A picture without a seed is from the days before seeds.
ResolveCutSeeds(identity) ==
  IF seed # NoSeed THEN [spec |-> identity, seed |-> seed]
  ELSE IF sprite.drawn THEN [spec |-> 0, seed |-> 0]
  ELSE [spec |-> identity, seed |-> identity]

\* Nobody is between a picture and its seed, and the last who was finished alone.
Whole ==
  /\ ~ScanWrites /\ "sprite" \notin mixed
  /\ commit.pc \notin {"remove", "seed"}

CutRobot ==
  /\ cut.pc = "draw"
  /\ LET p == cut.profile
         s == ResolveCutSeeds(p.name)
     IN cut' = [cut EXCEPT !.pc = "drawn", !.robot = Robot(s.spec, p.mbti, s.seed)]
  /\ UNCHANGED <<profile, sprite, seed, candidate, candidateSeed, scan, preview, commit,
                 window, mixed, edits, faults>>

CutDone ==
  /\ cut.pc = "drawn" /\ cut' = NoCut
  /\ UNCHANGED <<profile, sprite, seed, candidate, candidateSeed, scan, preview, commit,
                 window, mixed, edits, faults>>

\* The app is quit and started again; whatever was under way is gone.
Quit ==
  /\ Fault
  /\ mixed' = mixed \cup (IF ScanWrites \/ commit.pc \in {"remove", "seed"}
                          THEN {"sprite"} ELSE {})
                    \cup (IF PreviewWrites THEN {"candidate"} ELSE {})
  /\ scan' = Idle /\ commit' = NoCommit
  /\ preview' = [i \in Previews |->
                   IF InFlight(i) THEN [NoPreview EXCEPT !.pc = "done"] ELSE preview[i]]
  /\ window' = [waits |-> 0, ready |-> FALSE, shown |-> sprite, only |-> TRUE]
  /\ cut' = NoCut
  /\ UNCHANGED <<profile, sprite, seed, candidate, candidateSeed, edits>>

-----------------------------------------------------------------------------
\* Nothing was drawn yet, or a sprite from the days before seeds is there.
LooksInit ==
  /\ profile \in [name : Names, mbti : Types]
  /\ sprite \in {NoPicture, Robot(0, profile.mbti, 0)}
  /\ seed = NoSeed
  /\ candidate = NoPicture /\ candidateSeed = NoSeed
  /\ scan = Idle /\ commit = NoCommit
  /\ preview = [i \in Previews |-> NoPreview]
  /\ window = [waits |-> 0, ready |-> FALSE, shown |-> sprite, only |-> TRUE]
  /\ cut = NoCut
  /\ mixed = {}
  /\ edits = 0 /\ faults = 0

LooksNext ==
  \/ AutoBegin \/ AutoPicture \/ AutoSeed \/ AutoFails
  \/ \E i \in Previews : \/ PreviewBegin(i) \/ PreviewPicture(i)
                         \/ PreviewSeed(i) \/ PreviewFails(i)
  \/ Reopen
  \/ CommitBegin \/ CommitPicture \/ CommitRemove \/ CommitSeed \/ CommitClean
  \/ \E n \in Names, m \in Types : EditProfile(n, m)
  \/ CutBegin \/ CutRobot \/ CutDone
  \/ Quit

LooksSpec == LooksInit /\ [][LooksNext]_looksVars

-----------------------------------------------------------------------------
LooksTypeOK ==
  /\ profile \in [name : Names, mbti : Types]
  /\ seed \in 0 .. NoSeed /\ candidateSeed \in 0 .. NoSeed
  /\ scan.pc \in {"none", "draw", "seed"}
  /\ commit.pc \in {"none", "write", "remove", "seed", "clean"}
  /\ mixed \subseteq {"sprite", "candidate"}

\* The robot in the picture of the day is the one on show, name, type, pose and
\* dress, unless the profile has changed since that was drawn
\* (but for the name and a picture without a seed), or the last who
\* wrote picture and seed was cut off, failed to write the seed, or was not alone
\* (resolve_cut_seeds, with maybe_generate_sprite and mascot_commit).
CutShowsSprite ==
  cut.pc = "draw" /\ cut'.pc = "drawn" /\ sprite.drawn /\ Whole =>
    \/ cut'.robot = sprite
    \/ cut.profile.mbti # sprite.mbti
    \/ seed # NoSeed /\ cut.profile.name # sprite.spec

\* What is saved is what the window showed when the user pressed the button,
\* unless the preview shown overlapped with one that a window closed since had
\* asked for (mascot_preview, mascot_commit, MeGroup.svelte).
SavedIsSeen ==
  commit.pc = "none" /\ commit'.pc = "write" /\ window.only => commit'.held = window.shown

LooksKept == [][CutShowsSprite /\ SavedIsSeen]_looksVars
=============================================================================
