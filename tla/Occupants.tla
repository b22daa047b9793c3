------------------------------ MODULE Occupants ------------------------------
(***************************************************************************)
(* Pictures of the others in a room (a-mate/src-tauri/src/commands.rs,     *)
(* request_occupant_sprite): drawn once for each of them, since pictures   *)
(* cost money, in a thread of its own and kept in a file named by the      *)
(* hash of the occupant's seed.  A file beside it marks that one is being  *)
(* drawn.  The calls run side by side and look at the files one at a time. *)
(***************************************************************************)
EXTENDS Naturals

CONSTANTS
  Others,    \* seeds of occupants
  Calls,     \* requests that can be under way at a time
  MaxMarred  \* bound on failing drawings and quits

VARIABLES
  picture,  \* the occupants with a picture
  marker,   \* those with a .pending file
  call,     \* the requests
  paid,     \* history: drawings of each
  raced,    \* history: of whom one call looked at the files while another was
            \* about to change them, or whose picture could not be written
  left,     \* history: for whom the app was quit while their marker was there
  marred

occupantVars == <<picture, marker, call, paid, raced, left, marred>>

Free == [pc |-> "none", who |-> "nobody"]
At(o, pcs) == {c \in Calls : call[c].who = o /\ call[c].pc \in pcs}

\* p.exists and pending.exists; an image model is set.
Request(c, o) ==
  /\ call[c].pc = "none" /\ o \notin picture
  /\ call' = [call EXCEPT ![c] = [pc |-> "look", who |-> o]]
  /\ raced' = IF At(o, {"look", "mark", "write"}) # {} THEN raced \cup {o} ELSE raced
  /\ UNCHANGED <<picture, marker, paid, left, marred>>

LookMarker(c) ==
  /\ call[c].pc = "look"
  /\ call' = IF call[c].who \in marker THEN [call EXCEPT ![c] = Free]
             ELSE [call EXCEPT ![c].pc = "mark"]
  /\ raced' = IF At(call[c].who, {"mark", "write"}) # {} THEN raced \cup {call[c].who}
              ELSE raced
  /\ UNCHANGED <<picture, marker, paid, left, marred>>

Mark(c) ==
  /\ call[c].pc = "mark"
  /\ marker' = marker \cup {call[c].who}
  /\ call' = [call EXCEPT ![c].pc = "draw"]
  /\ UNCHANGED <<picture, paid, raced, left, marred>>

\* sprite_for_seed answers, or fails.
Answers(c) ==
  /\ call[c].pc = "draw"
  /\ marker' = marker \ {call[c].who}
  /\ \/ /\ call' = [call EXCEPT ![c].pc = "write"]
        /\ paid' = [paid EXCEPT ![call[c].who] = @ + 1]
        /\ UNCHANGED marred
     \/ /\ marred < MaxMarred /\ marred' = marred + 1
        /\ call' = [call EXCEPT ![c] = Free]
        /\ UNCHANGED paid
  /\ UNCHANGED <<picture, raced, left>>

Keep(c) ==
  /\ call[c].pc = "write"
  /\ picture' = picture \cup {call[c].who}
  /\ call' = [call EXCEPT ![c] = Free]
  /\ raced' = IF At(call[c].who, {"look", "mark"}) # {} THEN raced \cup {call[c].who}
              ELSE raced
  /\ UNCHANGED <<marker, paid, left, marred>>

\* The picture cannot be written; that is not even logged.
KeepFails(c) ==
  /\ call[c].pc = "write" /\ marred < MaxMarred /\ marred' = marred + 1
  /\ call' = [call EXCEPT ![c] = Free]
  /\ raced' = raced \cup {call[c].who}
  /\ UNCHANGED <<picture, marker, paid, left>>

Leave ==
  /\ marred < MaxMarred /\ marred' = marred + 1
  /\ left' = left \cup marker
  /\ raced' = raced \cup {o \in Others : At(o, {"draw", "write"}) # {}}
  /\ call' = [c \in Calls |-> Free]
  /\ UNCHANGED <<picture, marker, paid>>

OccupantsInit ==
  /\ picture = {} /\ marker = {}
  /\ call = [c \in Calls |-> Free]
  /\ paid = [o \in Others |-> 0]
  /\ raced = {} /\ left = {} /\ marred = 0

OccupantsNext ==
  \/ \E c \in Calls : \/ \E o \in Others : Request(c, o)
                      \/ LookMarker(c) \/ Mark(c) \/ Answers(c)
                      \/ Keep(c) \/ KeepFails(c)
  \/ Leave

OccupantsSpec == OccupantsInit /\ [][OccupantsNext]_occupantVars

-----------------------------------------------------------------------------
\* Nobody is drawn and paid for twice, unless two requests looked at the files in
\* each other's gaps, or the picture was not kept for a quit or a full disk; and a marker,
\* which keeps an occupant from being drawn, is there only while somebody draws or
\* after a quit (request_occupant_sprite).
OccupantsInOrder ==
  \A o \in Others :
    /\ o \notin raced => paid[o] <= 1
    /\ o \in marker => At(o, {"draw"}) # {} \/ o \in left
=============================================================================
