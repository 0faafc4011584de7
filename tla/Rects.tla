-------------------------------- MODULE Rects --------------------------------
(***************************************************************************)
(* Rectangles of pixels: math::Rect of stl/math.hpp. A rectangle includes  *)
(* its edges, so one of no width has its right edge left of its left one.  *)
(* Coordinates are those of a screen and do not wrap.                      *)
(***************************************************************************)
EXTENDS Integers

Rect(x, y, w, h) == [x |-> x, y |-> y, w |-> w, h |-> h]

Left(r) == r.x
Right(r) == r.x + r.w - 1
Top(r) == r.y
Bottom(r) == r.y + r.h - 1

FromCorners(left, top, right, bottom) ==
  Rect(left, top, right - left + 1, bottom - top + 1)

HasPoint(r, p) == /\ p[1] >= r.x /\ p[1] < r.x + r.w
                  /\ p[2] >= r.y /\ p[2] < r.y + r.h

Intersects(r, s) ==
  /\ Left(r) <= Right(s) /\ Right(r) >= Left(s)
  /\ Top(r) <= Bottom(s) /\ Bottom(r) >= Top(s)

Lesser(a, b) == IF a < b THEN a ELSE b
Greater(a, b) == IF a > b THEN a ELSE b

(* Mutant: the right edge of the first rectangle is kept. *)
LooseIntersection(r, s) ==
  LET common == FromCorners(Greater(Left(r), Left(s)), Greater(Top(r), Top(s)),
                            Right(r), Lesser(Bottom(r), Bottom(s)))
  IN  IF common.w <= 0 \/ common.h <= 0 THEN Rect(0, 0, 0, 0) ELSE common

Intersection(r, s) ==
  LET common == FromCorners(Greater(Left(r), Left(s)), Greater(Top(r), Top(s)),
                            Lesser(Right(r), Right(s)), Lesser(Bottom(r), Bottom(s)))
  IN  IF common.w <= 0 \/ common.h <= 0 THEN Rect(0, 0, 0, 0) ELSE common

IsEmpty(r) == r.w = 0 \/ r.h = 0

(* What a rectangle stands for. *)
Pixels(r) == (Left(r) .. Right(r)) \X (Top(r) .. Bottom(r))

Plus(p, q) == <<p[1] + q[1], p[2] + q[2]>>
Minus(p, q) == <<p[1] - q[1], p[2] - q[2]>>

RectType == [x : Int, y : Int, w : Nat, h : Nat]
=============================================================================
