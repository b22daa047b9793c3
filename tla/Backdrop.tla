------------------------------ MODULE Backdrop ------------------------------
(***************************************************************************)
(* The white background of a generated picture is made transparent         *)
(* (sprite.rs, make_background_transparent): a flood fill from the rim     *)
(* over the pixels that look like background, so that white inside the     *)
(* figure stays.  A pixel is its index in the buffer, as in the code.      *)
(* Decoding, the comparison of colours and encoding are left out: any set  *)
(* of pixels may look like background.  So does the crop of the face       *)
(* (crop_face), of which only the arithmetic is of interest.               *)
(***************************************************************************)
EXTENDS Integers

CONSTANTS
  Width, Height,  \* of the picture that is filled
  MaxSide,        \* bound on the sides of pictures whose face is cropped
  MaxPixels       \* MAX_FACE_SOURCE_PIXELS

SizeAssumption ==
  /\ Width \in Nat \ {0} /\ Height \in Nat \ {0}
  /\ MaxSide \in Nat \ {0} /\ MaxPixels \in Nat

VARIABLES
  pale,   \* is_bg: the pixels that look like background
  seen,   \* pixels the fill has reached
  queue,  \* those of them whose neighbours it has not looked at
  clear,  \* pixels with alpha 0
  stage,  \* of the fill: "read", "fill", "done"
  face    \* the sides of the picture whose face was cropped, and the reads

backdropVars == <<pale, seen, queue, clear, stage, face>>

-----------------------------------------------------------------------------
Pixels == 0 .. Width * Height - 1

X(i) == i % Width
Y(i) == i \div Width

\* Faulty: the first and the last row alone.
SeedsOfRows == {x : x \in 0 .. Width - 1} \cup {(Height - 1) * Width + x : x \in 0 .. Width - 1}
\* What seed is called with: the first and last row, the first and last column.
Seeds ==
  {x : x \in 0 .. Width - 1} \cup {(Height - 1) * Width + x : x \in 0 .. Width - 1}
    \cup {y * Width : y \in 0 .. Height - 1} \cup {y * Width + Width - 1 : y \in 0 .. Height - 1}

\* Up to four of them; neither end of a row leads to the next.
Neighbours(i) ==
  {n \in Pixels : \/ X(i) > 0 /\ n = i - 1
                  \/ X(i) + 1 < Width /\ n = i + 1
                  \/ Y(i) > 0 /\ n = i - Width
                  \/ Y(i) + 1 < Height /\ n = i + Width}

SeedRim ==
  /\ stage = "read"
  /\ seen' = Seeds \cap pale
  /\ queue' = Seeds \cap pale
  /\ stage' = "fill"
  /\ UNCHANGED <<pale, clear, face>>

\* One turn of the loop.  The code takes the pixel that has waited longest; what is
\* filled does not depend on the order.
Spread ==
  /\ stage = "fill" /\ queue # {}
  /\ LET i == CHOOSE p \in queue : \A q \in queue : p <= q
         fresh == (Neighbours(i) \cap pale) \ seen
     IN /\ seen' = seen \cup fresh
        /\ queue' = (queue \ {i}) \cup fresh
  /\ UNCHANGED <<pale, clear, stage, face>>

Clear ==
  /\ stage = "fill" /\ queue = {}
  /\ clear' = seen
  /\ stage' = "done"
  /\ UNCHANGED <<pale, seen, queue, face>>

-----------------------------------------------------------------------------
(***************************************************************************)
(* crop_face: a square of min(w, h) / 1.8, centred, 14 % of the rest from  *)
(* the top, is scaled to IconSize rows and columns.  The quotients are     *)
(* those of the rounded floats for sides below 2^20.                       *)
(***************************************************************************)
IconSize == 128

Least(a, b) == IF a <= b THEN a ELSE b

Side(w, h) == LET side == (10 * Least(w, h) + 9) \div 18
              IN IF side < 1 THEN 1 ELSE Least(side, Least(w, h))

Left(w, h) == (w - Side(w, h)) \div 2
Top(w, h) == (14 * (h - Side(w, h)) + 50) \div 100

NoFace == [w |-> 0, h |-> 0, xs |-> {}, ys |-> {}]

\* crop_face_b64 of a picture from the server: its header is read first, and a
\* picture that is too large is not decoded.
CropFace(w, h) ==
  /\ face = NoFace
  /\ face' = IF w * h > MaxPixels THEN NoFace
             ELSE [w |-> w, h |-> h,
                   xs |-> {Left(w, h) + (o * Side(w, h)) \div IconSize : o \in 0 .. IconSize - 1},
                   ys |-> {Top(w, h) + (o * Side(w, h)) \div IconSize : o \in 0 .. IconSize - 1}]
  /\ UNCHANGED <<pale, seen, queue, clear, stage>>

-----------------------------------------------------------------------------
BackdropInit ==
  /\ pale \in SUBSET Pixels
  /\ seen = {} /\ queue = {} /\ clear = {}
  /\ stage = "read"
  /\ face = NoFace

FillNext == SeedRim \/ Spread \/ Clear
FaceNext == \E w, h \in 1 .. MaxSide : CropFace(w, h)
BackdropNext == FillNext \/ FaceNext

BackdropSpec == BackdropInit /\ [][BackdropNext]_backdropVars

-----------------------------------------------------------------------------
BackdropTypeOK ==
  /\ pale \subseteq Pixels
  /\ seen \subseteq pale /\ queue \subseteq seen
  /\ clear = IF stage = "done" THEN seen ELSE {}
  /\ stage \in {"read", "fill", "done"}

\* Pixels that touch by a side, and those at the rim, by their coordinates.
Touch(p, q) ==
  \/ Y(p) = Y(q) /\ X(p) - X(q) \in {-1, 1}
  \/ X(p) = X(q) /\ Y(p) - Y(q) \in {-1, 1}

AtRim(p) == X(p) \in {0, Width - 1} \/ Y(p) \in {0, Height - 1}

\* A set of pixels that background cannot leave and that holds all of it at the rim.
Enclosing(S) ==
  /\ \A p \in pale : AtRim(p) => p \in S
  /\ \A p \in S, q \in pale : Touch(p, q) => q \in S

\* Exactly the background that is joined to the rim becomes transparent: what is
\* cleared looks like background, no such pixel is left beside it or at the rim,
\* and it is the smallest such set, so that white inside the figure stays
\* (make_background_transparent).
OnlyOutsideCleared ==
  stage = "done" =>
    /\ clear \subseteq pale /\ Enclosing(clear)
    /\ \A S \in SUBSET clear : Enclosing(S) => S = clear

\* The crop of a face reads no pixel outside the picture, however narrow that is,
\* and no picture above the limit is decoded (crop_face, crop_face_b64).
FaceInside ==
  /\ face.xs \subseteq 0 .. face.w - 1 /\ face.ys \subseteq 0 .. face.h - 1
  /\ face.w * face.h <= MaxPixels

PictureCut == OnlyOutsideCleared /\ FaceInside
=============================================================================
