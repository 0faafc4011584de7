----------------------------- MODULE ClipRegion ------------------------------
(***************************************************************************)
(* The clipping rectangles of a WindowContext (kernel/window/context.cpp)  *)
(* and how painting uses them (kernel/window/widget.cpp): a paint begins   *)
(* with rectangles that are added, goes on with intersections and          *)
(* subtractions, and ends with clear_clip_rects; move_to keeps the         *)
(* rectangles in between and adds them again for the widgets below. Each   *)
(* of those starts from the empty list with the same rectangles, so that   *)
(* the first stands for all of them.                                       *)
(*                                                                         *)
(* subtract_clip_rect searches the list it is changing, so each turn of    *)
(* its loop is a step, and so is each of intersect_clip_rect's.            *)
(***************************************************************************)
EXTENDS Rects, Sequences, SequencesExt

CONSTANTS
  Shapes,     (* the rectangles of widgets and of the mouse *)
  MaxRects    (* bound: no call begins with a longer list *)

VARIABLES
  clips,      (* m_clip_rects *)
  clipping,   (* m_should_clip *)
  mode,       (* which call is in its loop *)
  cut,        (* the rectangle that call was given *)
  index,      (* how far the loop has got *)
  fresh,      (* new_rects of intersect_clip_rect *)
  dirty       (* move_to's dirty_rects, as far as they are still to be added *)

clipVars == <<clips, clipping, mode, cut, index, fresh, dirty>>

NoCut == Rect(0, 0, 0, 0)

ASSUME ShapeAssumption ==
  /\ Shapes \subseteq RectType /\ \A r \in Shapes : ~IsEmpty(r)
  /\ MaxRects \in Nat

-----------------------------------------------------------------------------
(* cut_out_rect: what is left of the target after each of the four edges,  *)
(* and what each pushes.                                                   *)

CutsLeft(t, c) == Left(c) >= Left(t) /\ Left(c) <= Right(t)
CutsTop(t, c) == Top(c) >= Top(t) /\ Top(c) <= Bottom(t)
CutsRight(t, c) == Right(c) >= Left(t) /\ Right(c) <= Right(t)
CutsBottom(t, c) == Bottom(c) >= Top(t) /\ Bottom(c) <= Bottom(t)

AfterLeft(t, c) ==
  IF CutsLeft(t, c) THEN Rect(Left(c), t.y, t.w - (Left(c) - Left(t)), t.h) ELSE t

AfterTop(t, c) ==
  IF CutsTop(t, c) THEN Rect(t.x, Top(c), t.w, t.h - (Top(c) - Top(t))) ELSE t

AfterRight(t, c) ==
  IF CutsRight(t, c) THEN Rect(t.x, t.y, t.w - (Right(t) - Right(c)), t.h) ELSE t

LeftPiece(t, c) ==
  IF CutsLeft(t, c) THEN <<FromCorners(Left(t), Top(t), Left(c) - 1, Bottom(t))>> ELSE <<>>

TopPiece(t, c) ==
  IF CutsTop(t, c) THEN <<FromCorners(Left(t), Top(t), Right(t), Top(c) - 1)>> ELSE <<>>

(* Mutant: the edge itself is pushed too. *)
RightPieceWithEdge(t, c) ==
  IF CutsRight(t, c) THEN <<FromCorners(Right(c), Top(t), Right(t), Bottom(t))>> ELSE <<>>

RightPiece(t, c) ==
  IF CutsRight(t, c) THEN <<FromCorners(Right(c) + 1, Top(t), Right(t), Bottom(t))>> ELSE <<>>

BottomPiece(t, c) ==
  IF CutsBottom(t, c) THEN <<FromCorners(Left(t), Bottom(c) + 1, Right(t), Bottom(t))>> ELSE <<>>

(* Mutant: the left part is not taken off the target. *)
CutOutOverlapping(t, c) ==
  LET t2 == AfterTop(t, c)
      t3 == AfterRight(t2, c)
  IN  LeftPiece(t, c) \o TopPiece(t, c) \o RightPiece(t2, c) \o BottomPiece(t3, c)

CutOut(t, c) ==
  LET t1 == AfterLeft(t, c)
      t2 == AfterTop(t1, c)
      t3 == AfterRight(t2, c)
  IN  LeftPiece(t, c) \o TopPiece(t1, c) \o RightPiece(t2, c) \o BottomPiece(t3, c)

-----------------------------------------------------------------------------
InitClips ==
  /\ clips = <<>>
  /\ clipping = FALSE
  /\ mode = "idle"
  /\ cut = NoCut
  /\ index = 1
  /\ fresh = <<>>
  /\ dirty = <<>>

Begin(call, r) ==
  /\ mode' = call
  /\ cut' = r
  /\ index' = 1
  /\ clipping' = TRUE
  /\ UNCHANGED <<clips, fresh>>

(* A call from outside, between two others. Dirty rectangles are added     *)
(* before anything else.                                                   *)
Ready == mode = "idle" /\ dirty = <<>>

(* subtract_clip_rect, of a widget above, below or in the one that paints: *)
(* only while something is clipped.                                        *)
SubtractClipRect(r) ==
  /\ Ready
  /\ clipping
  /\ Len(clips) <= MaxRects
  /\ Begin("subtract", r)
  /\ UNCHANGED dirty

(* add_clip_rect makes space with subtract_clip_rect and then pushes.      *)
AddClipRect(r) ==
  /\ Ready
  /\ Len(clips) <= MaxRects
  /\ Begin("add", r)
  /\ UNCHANGED dirty

(* clip_bounds adds the next of the dirty rectangles. *)
AddDirtyRect ==
  /\ mode = "idle"
  /\ dirty # <<>>
  /\ Begin("add", Head(dirty))
  /\ dirty' = Tail(dirty)

Searching == mode \in {"subtract", "add"}

(* The rectangle does not intersect. *)
PassRect ==
  /\ Searching
  /\ index <= Len(clips)
  /\ ~Intersects(clips[index], cut)
  /\ index' = index + 1
  /\ UNCHANGED <<clips, clipping, mode, cut, fresh, dirty>>

(* Mutant: the list is not searched from the start again, but from behind  *)
(* the place of the removed rectangle.                                     *)
SplitRectGoOn ==
  /\ Searching
  /\ index <= Len(clips)
  /\ Intersects(clips[index], cut)
  /\ clips' = RemoveAt(clips, index) \o CutOut(clips[index], cut)
  /\ index' = index + 1
  /\ UNCHANGED <<clipping, mode, cut, fresh, dirty>>

(* The rectangle intersects and is replaced by its pieces. *)
SplitRect ==
  /\ Searching
  /\ index <= Len(clips)
  /\ Intersects(clips[index], cut)
  /\ clips' = RemoveAt(clips, index) \o CutOut(clips[index], cut)
  /\ index' = 1
  /\ UNCHANGED <<clipping, mode, cut, fresh, dirty>>

EndOfSearch ==
  /\ Searching
  /\ index > Len(clips)
  /\ clips' = IF mode = "add" THEN Append(clips, cut) ELSE clips
  /\ mode' = "idle"
  /\ cut' = NoCut
  /\ index' = 1
  /\ UNCHANGED <<clipping, fresh, dirty>>

(* intersect_clip_rect: what is left of each rectangle, unless it is empty. *)
IntersectClipRect(r) ==
  /\ Ready
  /\ clipping
  /\ Begin("intersect", r)
  /\ UNCHANGED dirty

IntersectNext ==
  /\ mode = "intersect"
  /\ index <= Len(clips)
  /\ LET common == Intersection(clips[index], cut)
     IN  fresh' = IF IsEmpty(common) THEN fresh ELSE Append(fresh, common)
  /\ index' = index + 1
  /\ UNCHANGED <<clips, clipping, mode, cut, dirty>>

EndOfIntersect ==
  /\ mode = "intersect"
  /\ index > Len(clips)
  /\ clips' = fresh
  /\ fresh' = <<>>
  /\ mode' = "idle"
  /\ cut' = NoCut
  /\ index' = 1
  /\ UNCHANGED <<clipping, dirty>>

ClearClipRects ==
  /\ Ready
  /\ clips' = <<>>
  /\ clipping' = FALSE
  /\ UNCHANGED <<mode, cut, index, fresh, dirty>>

(* move_to: get_clip_rects, and clear_clip_rects. *)
KeepDirtyRects ==
  /\ Ready
  /\ clipping
  /\ dirty' = clips
  /\ clips' = <<>>
  /\ clipping' = FALSE
  /\ UNCHANGED <<mode, cut, index, fresh>>

Loop == PassRect \/ SplitRect \/ EndOfSearch \/ IntersectNext \/ EndOfIntersect

NextClips ==
  \/ \E r \in Shapes : SubtractClipRect(r) \/ AddClipRect(r) \/ IntersectClipRect(r)
  \/ AddDirtyRect
  \/ Loop
  \/ ClearClipRects
  \/ KeepDirtyRects

ClipSpec == InitClips /\ [][NextClips]_clipVars

(* The loops run on. *)
FairClipSpec == ClipSpec /\ WF_clipVars(Loop)

-----------------------------------------------------------------------------
(* Properties. *)

ClipTypeOK ==
  /\ clips \in Seq(RectType)
  /\ clipping \in BOOLEAN
  /\ mode \in {"idle", "subtract", "add", "intersect"}
  /\ cut \in RectType
  /\ index \in 1 .. Len(clips) + 1
  /\ fresh \in Seq(RectType)
  /\ dirty \in Seq(RectType)

(* No two rectangles of a list intersect by the test of the loop. *)
Apart(list) == \A i, j \in DOMAIN list : i # j => ~Intersects(list[i], list[j])

(* No pixel is in two rectangles, so none is drawn twice; nor does any     *)
(* intersect another, the empty ones included that cut_out_rect leaves     *)
(* behind (add_clip_rect's "make space for it first").                     *)
NoOverlap == Apart(clips)

(* A search comes to an end, although it starts over whenever it has       *)
(* changed the list (subtract_clip_rect).                                  *)
SearchEnds == Searching ~> mode = "idle"

Covered(list) == UNION {Pixels(list[i]) : i \in DOMAIN list}

Ahead(list, from) == UNION {Pixels(list[i]) : i \in from .. Len(list)}

(* What the list stands for: while a call is in its loop, what it will     *)
(* stand for at the end.                                                   *)
Drawable ==
  CASE mode = "idle" -> Covered(clips)
    [] mode = "subtract" -> Covered(clips) \ Pixels(cut)
    [] mode = "add" -> Covered(clips) \cup Pixels(cut)
    [] mode = "intersect" ->
         Covered(fresh) \cup (Ahead(clips, index) \cap Pixels(cut))

Region == INSTANCE PixelRegion WITH
  Areas <- {Pixels(r) : r \in Shapes},
  region <- Drawable,
  kept <- Covered(dirty)

(* The list of rectangles is exact: cutting loses no pixel and leaves none *)
(* too many, whatever the edges of the two rectangles share, and the       *)
(* rectangles move_to keeps stand for the same pixels when they are added  *)
(* again (cut_out_rect, subtract_clip_rect, add_clip_rect).                *)
ImplementsPixelRegion == Region!Spec
=============================================================================
