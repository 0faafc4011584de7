------------------------------- MODULE Widgets -------------------------------
(***************************************************************************)
(* The tree of widgets (kernel/window/widget.cpp, window.cpp, button.cpp): *)
(* where each is, which a point hits, and how they are painted.            *)
(*                                                                         *)
(* A desktop is a record of what changes: kids (m_children, the last on    *)
(* top), pos (the position in the parent's client rect), active (the       *)
(* buttons that are down) and screen. A clip region is the set of pixels   *)
(* that ClipRegion shows its rectangles to be.                             *)
(***************************************************************************)
EXTENDS Rects, Sequences, SequencesExt, FiniteSets

CONSTANTS
  Root,       (* the window manager *)
  Windows, Buttons,
  ParentOf,   (* m_parent *)
  SizeOf,     (* the sizes, as <<width, height>> *)
  Outline, TitleBar,    (* OUTLINE_WIDTH, TITLEBAR_HEIGHT *)
  Nobody      (* the null WidgetPtr *)

Widgets == {Root} \cup Windows \cup Buttons

(* The widgets are one tree of finite depth: among any of them there is a  *)
(* topmost one and a lowest one.                                           *)
ASSUME TreeAssumption ==
  /\ Root \notin Windows \cup Buttons /\ Windows \cap Buttons = {} /\ Nobody \notin Widgets
  /\ ParentOf \in [Windows \cup Buttons -> {Root} \cup Windows]
  /\ \A some \in (SUBSET Widgets) \ {{}} :
       /\ \E w \in some : w = Root \/ ParentOf[w] \notin some
       /\ \E w \in some : \A v \in some \ {Root} : ParentOf[v] # w
  /\ SizeOf \in [Widgets -> Nat \X Nat] /\ 0 \notin {SizeOf[Root][1], SizeOf[Root][2]}
  /\ Outline \in Nat /\ TitleBar \in Nat

(* What a loop over a list makes of x.                                     *)
InTurn(step(_, _), x, list) ==
  LET after[i \in 0 .. Len(list)] == IF i = 0 THEN x ELSE step(after[i - 1], list[i])
  IN  after[Len(list)]

RectOf(d, w) == Rect(d.pos[w][1], d.pos[w][2], SizeOf[w][1], SizeOf[w][2])

RelativeClientRect(w) ==
  IF w \in Windows
  THEN FromCorners(Outline, 2 * Outline + TitleBar,
                   SizeOf[w][1] - 1 - Outline, SizeOf[w][2] - 1 - Outline)
  ELSE Rect(0, 0, SizeOf[w][1], SizeOf[w][2])

ClientOffset(w) == <<RelativeClientRect(w).x, RelativeClientRect(w).y>>

ScreenPos(d, w) ==
  LET at[v \in Widgets] ==
        IF v = Root THEN d.pos[Root]
        ELSE Plus(Plus(d.pos[v], at[ParentOf[v]]), ClientOffset(ParentOf[v]))
  IN  at[w]

MovedTo(r, p) == Rect(p[1], p[2], r.w, r.h)

ScreenRect(d, w) == MovedTo(RectOf(d, w), ScreenPos(d, w))
ScreenClientRect(d, w) ==
  MovedTo(RelativeClientRect(w), Plus(ScreenPos(d, w), ClientOffset(w)))

-----------------------------------------------------------------------------
(* The search in handle_mouse: the topmost child at a point, which is      *)
(* relative to the widget.                                                 *)

(* Mutant: the lowest child. *)
LowestHitChild(d, w, point) ==
  LET below == Minus(point, ClientOffset(w))
      under == {i \in DOMAIN d.kids[w] : HasPoint(RectOf(d, d.kids[w][i]), below)}
  IN  IF HasPoint(RelativeClientRect(w), point) /\ under # {}
      THEN d.kids[w][CHOOSE i \in under : \A j \in under : i <= j]
      ELSE Nobody

HitChild(d, w, point) ==
  LET below == Minus(point, ClientOffset(w))
      under == {i \in DOMAIN d.kids[w] : HasPoint(RectOf(d, d.kids[w][i]), below)}
  IN  IF HasPoint(RelativeClientRect(w), point) /\ under # {}
      THEN d.kids[w][CHOOSE i \in under : \A j \in under : j <= i]
      ELSE Nobody

-----------------------------------------------------------------------------
(* Painting. *)

Everywhere(d) == Pixels(ScreenRect(d, Root))

IndexIn(d, w) == CHOOSE i \in DOMAIN d.kids[ParentOf[w]] : d.kids[ParentOf[w]][i] = w

Above(d, w) == {d.kids[ParentOf[w]][i] : i \in IndexIn(d, w) + 1 .. Len(d.kids[ParentOf[w]])}
Below(d, w) == {d.kids[ParentOf[w]][i] : i \in 1 .. IndexIn(d, w) - 1}

PixelsOfAll(d, ws) == UNION {Pixels(ScreenRect(d, w)) : w \in ws}

(* clip_bounds: from the dirty pixels, what is left of them in the client  *)
(* rects of all ancestors and under nothing that lies above one of them.   *)
(* Windows that do not intersect, which it passes over, take nothing away. *)
ClipBounds(d, w, dirty) ==
  LET inside[v \in Widgets] ==
        IF v = Root THEN dirty \cap Pixels(ScreenClientRect(d, Root))
        ELSE (inside[ParentOf[v]] \cap Pixels(ScreenClientRect(d, v)))
               \ PixelsOfAll(d, Above(d, v))
  IN  IF w = Root THEN dirty \cap Pixels(ScreenRect(d, Root))
      ELSE (inside[ParentOf[w]] \cap Pixels(ScreenRect(d, w)))
             \ PixelsOfAll(d, Above(d, w))

(* What fill leaves in a pixel. *)
Decoration(w) == <<w, "decoration">>
Client(d, w) == <<w, IF w \in d.active THEN "active" ELSE "client">>

(* paint without the children: the decoration, and the client area where   *)
(* no child is.                                                            *)
PaintAlone(d, w, dirty) ==
  LET bounds == ClipBounds(d, w, dirty)
      client == Pixels(ScreenClientRect(d, w))
      inner == (bounds \cap client) \ PixelsOfAll(d, Range(d.kids[w]))
      decoration == bounds \ client
  IN  IF bounds = {} THEN d
      ELSE [d EXCEPT !.screen = [p \in DOMAIN @ |-> IF p \in inner THEN Client(d, w)
                                                    ELSE IF p \in decoration THEN Decoration(w)
                                                    ELSE @[p]]]

(* The widgets in the order of their painting, the children in that of the *)
(* list; those that meet nothing dirty are skipped with all they hold.     *)
PaintOrder(d, w, dirty) ==
  LET order[v \in Widgets] ==
        LET below[i \in 0 .. Len(d.kids[v])] ==
              IF i = 0 THEN <<v>>
              ELSE IF Pixels(ScreenRect(d, d.kids[v][i])) \cap dirty = {} THEN below[i - 1]
              ELSE below[i - 1] \o order[d.kids[v][i]]
        IN  below[Len(d.kids[v])]
  IN  order[w]

Paint(d, w, dirty) ==
  InTurn(LAMBDA e, v : PaintAlone(e, v, dirty), d, PaintOrder(d, w, dirty))

(* move_to. The dirty rectangles are what was visible and will not be; if  *)
(* there are none, painting takes that for everything, unless the list     *)
(* holds rectangles without a pixel.                                       *)
MoveTo(d, w, pos, everything) ==
  LET visible == ClipBounds(d, w, Everywhere(d))
      moved == [d EXCEPT !.pos[w] = pos]
      left == visible \ Pixels(ScreenRect(moved, w))
      dirty == IF left = {} /\ everything THEN Everywhere(d) ELSE left
      siblings[i \in 0 .. IndexIn(d, w) - 1] ==
        IF i = 0 THEN moved
        ELSE LET s == d.kids[ParentOf[w]][i]
             IN  IF Intersects(RectOf(d, s), RectOf(d, w)) THEN Paint(siblings[i - 1], s, dirty)
                 ELSE siblings[i - 1]
      parent == PaintAlone(siblings[IndexIn(d, w) - 1], ParentOf[w], dirty)
  IN  Paint(parent, w, Everywhere(d))

(* Mutant: the window is not taken from its old place. *)
RaiseCopy(d, w) ==
  LET raised == [d EXCEPT !.kids[ParentOf[w]] = Append(@, w)]
  IN  Paint(raised, w, Everywhere(d))

(* Window::raise. *)
Raise(d, w) ==
  LET raised == [d EXCEPT !.kids[ParentOf[w]] = Append(RemoveAt(@, IndexIn(d, w)), w)]
  IN  Paint(raised, w, Everywhere(d))

-----------------------------------------------------------------------------
(* What the screen should show: over what lies below it each widget covers *)
(* its rect as far as the client rects of its ancestors let it be seen.    *)

VisibleIn(d, w) ==
  LET inside[v \in Widgets] ==
        IF v = Root THEN Pixels(ScreenRect(d, v))
        ELSE inside[ParentOf[v]] \cap Pixels(ScreenClientRect(d, ParentOf[v]))
               \cap Pixels(ScreenRect(d, v))
  IN  inside[w]

Cover(d, picture, w) ==
  LET here == VisibleIn(d, w)
      client == Pixels(ScreenClientRect(d, w))
  IN  [p \in Everywhere(d) |-> IF p \notin here THEN picture[p]
                               ELSE IF p \in client THEN Client(d, w)
                               ELSE Decoration(w)]

Picture(d) ==
  InTurn(LAMBDA picture, w : Cover(d, picture, w), d.screen,
         PaintOrder(d, Root, Everywhere(d)))
=============================================================================
