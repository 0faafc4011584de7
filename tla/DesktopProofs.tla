--------------------------- MODULE DesktopProofs ----------------------------
(***************************************************************************)
(* What the clip regions stand for, and that the desktop painted with them *)
(* is right: for every set of rectangles, and for every tree of widgets,   *)
(* their sizes, any number of clicks and drags and any movement of the     *)
(* mouse.                                                                  *)
(*                                                                         *)
(* Clip regions: each of the four cuts splits its target into a piece that *)
(* misses the cut rectangle and a rest that still meets it, and the rest   *)
(* after the fourth lies within the cut rectangle. So the pieces miss the  *)
(* cut rectangle, and each other, and what the search has passed stays     *)
(* passed. A cut rectangle of no width would break this (the rest would be *)
(* lost); only dirty rectangles may be one, and those meet nothing.        *)
(*                                                                         *)
(* Desktop: hit-testing gives each pixel of the screen an owner. Painting  *)
(* clips a widget to just the pixels it owns and those its children own,   *)
(* so a paint shows every pixel it touches as its owner does, whatever is  *)
(* painted in which order. A handler is right when it paints all pixels    *)
(* whose owner or colour it changes: raising and moving a window change    *)
(* the owner only where the window comes to be seen or was, and what lies  *)
(* there afterwards is a lower sibling that met it, its parent or itself.  *)
(* The invariant is that every pixel shows its owner, but for the cursor,  *)
(* with the chain of capture, the focus path and the drag it depends on.   *)
(***************************************************************************)
EXTENDS ClipRegion, Desktop, DataFacts

RectsOf(list) == {list[i] : i \in DOMAIN list}

Within(p, r) ==
  /\ Left(r) <= Left(p) /\ Right(p) <= Right(r)
  /\ Top(r) <= Top(p) /\ Bottom(p) <= Bottom(r)

-----------------------------------------------------------------------------
(* Rectangles. *)

(* The edges of a rectangle.                                               *)
LEMMA RectEdges ==
  ASSUME NEW r \in RectType
  PROVE  /\ Left(r) \in Int /\ Right(r) \in Int /\ Left(r) <= Right(r) + 1
         /\ Top(r) \in Int /\ Bottom(r) \in Int /\ Top(r) <= Bottom(r) + 1
         /\ ~IsEmpty(r) => Left(r) <= Right(r) /\ Top(r) <= Bottom(r)
  BY DEF RectType, Left, Right, Top, Bottom, IsEmpty

(* A rectangle from its edges.                                             *)
LEMMA CornersEdges ==
  ASSUME NEW left \in Int, NEW top \in Int, NEW right \in Int, NEW bottom \in Int,
         left <= right + 1, top <= bottom + 1
  PROVE  LET r == FromCorners(left, top, right, bottom)
         IN  /\ r \in RectType
             /\ Left(r) = left /\ Right(r) = right /\ Top(r) = top /\ Bottom(r) = bottom
  BY DEF FromCorners, Rect, RectType, Left, Right, Top, Bottom

(* The pixels of a rectangle by its edges.                                 *)
LEMMA PixelsByEdges ==
  ASSUME NEW r \in RectType, NEW q
  PROVE  q \in Pixels(r) <=> /\ q \in Int \X Int
                             /\ Left(r) <= q[1] /\ q[1] <= Right(r)
                             /\ Top(r) <= q[2] /\ q[2] <= Bottom(r)
  BY RectEdges DEF Pixels

(* To miss each other is mutual.                                           *)
LEMMA ApartSymmetric ==
  ASSUME NEW r, NEW s, ~Intersects(r, s), r \in RectType, s \in RectType
  PROVE  ~Intersects(s, r)
  BY RectEdges DEF Intersects

(* What misses a rectangle misses all within it.                           *)
LEMMA ApartWithin ==
  ASSUME NEW p \in RectType, NEW r \in RectType, NEW s \in RectType,
         Within(p, r), ~Intersects(r, s)
  PROVE  ~Intersects(p, s)
  BY RectEdges DEF Intersects, Within

(* Rectangles that miss each other share no pixel.                         *)
LEMMA ApartPixels ==
  ASSUME NEW r \in RectType, NEW s \in RectType, ~Intersects(r, s)
  PROVE  Pixels(r) \cap Pixels(s) = {}
  <1> SUFFICES ASSUME NEW q \in Pixels(r), q \in Pixels(s) PROVE FALSE
    OBVIOUS
  <1> QED
    BY PixelsByEdges, RectEdges DEF Intersects

(* What lies within a rectangle has only its pixels.                       *)
LEMMA WithinPixels ==
  ASSUME NEW p \in RectType, NEW r \in RectType, Within(p, r)
  PROVE  Pixels(p) \subseteq Pixels(r)
  <1> SUFFICES ASSUME NEW q \in Pixels(p) PROVE q \in Pixels(r)
    OBVIOUS
  <1> QED
    BY PixelsByEdges, RectEdges DEF Within

(* What lies within what lies within lies within.                          *)
LEMMA WithinTransitive ==
  ASSUME NEW p \in RectType, NEW r \in RectType, NEW s \in RectType,
         Within(p, r), Within(r, s)
  PROVE  Within(p, s)
  BY RectEdges DEF Within

(* The common part of two rectangles. *)
LEMMA IntersectionFacts ==
  ASSUME NEW r \in RectType, NEW s \in RectType
  PROVE  /\ Intersection(r, s) \in RectType
         /\ ~IsEmpty(Intersection(r, s)) => Within(Intersection(r, s), r)
         /\ IsEmpty(Intersection(r, s)) => Pixels(r) \cap Pixels(s) = {}
         /\ Pixels(Intersection(r, s)) = Pixels(r) \cap Pixels(s)
  <1> DEFINE left == Greater(Left(r), Left(s))
             top == Greater(Top(r), Top(s))
             right == Lesser(Right(r), Right(s))
             bottom == Lesser(Bottom(r), Bottom(s))
             common == FromCorners(left, top, right, bottom)
  <1>1. /\ left \in Int /\ top \in Int /\ right \in Int /\ bottom \in Int
        /\ Left(r) <= left /\ Left(s) <= left /\ (left = Left(r) \/ left = Left(s))
        /\ Top(r) <= top /\ Top(s) <= top /\ (top = Top(r) \/ top = Top(s))
        /\ right <= Right(r) /\ right <= Right(s) /\ (right = Right(r) \/ right = Right(s))
        /\ bottom <= Bottom(r) /\ bottom <= Bottom(s) /\ (bottom = Bottom(r) \/ bottom = Bottom(s))
    BY RectEdges DEF Greater, Lesser
  <1>2. common.w = right - left + 1 /\ common.h = bottom - top + 1
    BY DEF FromCorners, Rect
  <1> HIDE DEF left, top, right, bottom
  <1>3. CASE common.w <= 0 \/ common.h <= 0
    <2>1. Intersection(r, s) = Rect(0, 0, 0, 0)
      BY <1>3 DEF Intersection, left, top, right, bottom
    <2>2. Rect(0, 0, 0, 0) \in RectType /\ IsEmpty(Rect(0, 0, 0, 0))
      BY DEF Rect, RectType, IsEmpty
    <2>3. Left(Rect(0, 0, 0, 0)) = 0 /\ Right(Rect(0, 0, 0, 0)) = -1
      BY DEF Rect, Left, Right
    <2>4. Pixels(Rect(0, 0, 0, 0)) = {}
      BY <2>2, <2>3, PixelsByEdges
    <2>5. Pixels(r) \cap Pixels(s) = {}
      <3> SUFFICES ASSUME NEW q \in Pixels(r), q \in Pixels(s) PROVE FALSE
        OBVIOUS
      <3>1. q[1] \in Int /\ q[2] \in Int
        BY PixelsByEdges
      <3>2. left <= q[1] /\ q[1] <= right /\ top <= q[2] /\ q[2] <= bottom
        BY PixelsByEdges, <1>1
      <3> QED
        BY <3>1, <3>2, <1>1, <1>2, <1>3
    <2> QED
      BY <2>1, <2>2, <2>4, <2>5
  <1>4. CASE ~(common.w <= 0 \/ common.h <= 0)
    <2>1. Intersection(r, s) = common
      BY <1>4 DEF Intersection, left, top, right, bottom
    <2>2. left <= right /\ top <= bottom
      BY <1>1, <1>2, <1>4
    <2>3. /\ common \in RectType
          /\ Left(common) = left /\ Right(common) = right
          /\ Top(common) = top /\ Bottom(common) = bottom
      BY <1>1, <2>2, CornersEdges
    <2> HIDE DEF common
    <2>4. Within(common, r)
      BY <1>1, <2>3 DEF Within
    <2>5. ~IsEmpty(common)
      BY <1>1, <1>2, <2>2 DEF IsEmpty
    <2>6. ASSUME NEW q PROVE q \in Pixels(common) <=> q \in Pixels(r) /\ q \in Pixels(s)
      <3>1. CASE q \in Int \X Int
        <4>1. q[1] \in Int /\ q[2] \in Int
          BY <3>1
        <4> QED
          BY <3>1, <4>1, <1>1, <2>3, PixelsByEdges, RectEdges
      <3>2. CASE q \notin Int \X Int
        BY <3>2, <2>3, PixelsByEdges
      <3> QED
        BY <3>1, <3>2
    <2> QED
      BY <2>1, <2>3, <2>4, <2>5, <2>6
  <1> QED
    BY <1>3, <1>4

-----------------------------------------------------------------------------
(* Lists of rectangles. *)

(* The elements of a list of rectangles.                                   *)
LEMMA SeqElements ==
  ASSUME NEW s \in Seq(RectType)
  PROVE  /\ DOMAIN s = 1 .. Len(s) /\ Len(s) \in Nat
         /\ \A i \in DOMAIN s : s[i] \in RectType
         /\ RectsOf(s) \subseteq RectType
  BY DEF RectsOf

(* The elements of two lists in a row, by place.                           *)
LEMMA ConcatParts ==
  ASSUME NEW s \in Seq(RectType), NEW u \in Seq(RectType)
  PROVE  /\ s \o u \in Seq(RectType) /\ Len(s \o u) = Len(s) + Len(u)
         /\ \A i \in 1 .. Len(s) : (s \o u)[i] = s[i]
         /\ \A i \in 1 .. Len(u) : (s \o u)[Len(s) + i] = u[i]
  OBVIOUS

(* The elements of two lists in a row.                                     *)
LEMMA ConcatElements ==
  ASSUME NEW s \in Seq(RectType), NEW u \in Seq(RectType)
  PROVE  /\ s \o u \in Seq(RectType)
         /\ RectsOf(s \o u) = RectsOf(s) \cup RectsOf(u)
  <1>1. s \o u \in Seq(RectType) /\ Len(s \o u) = Len(s) + Len(u)
    OBVIOUS
  <1>2. \A i \in 1 .. Len(s) + Len(u) :
          (s \o u)[i] = IF i <= Len(s) THEN s[i] ELSE u[i - Len(s)]
    OBVIOUS
  <1>3. ASSUME NEW i \in DOMAIN (s \o u) PROVE (s \o u)[i] \in RectsOf(s) \cup RectsOf(u)
    BY <1>1, <1>2, SeqElements DEF RectsOf
  <1>4. ASSUME NEW i \in DOMAIN s PROVE s[i] \in RectsOf(s \o u)
    BY <1>1, <1>2, SeqElements DEF RectsOf
  <1>5. ASSUME NEW i \in DOMAIN u PROVE u[i] \in RectsOf(s \o u)
    <2>1. i + Len(s) \in DOMAIN (s \o u) /\ (s \o u)[i + Len(s)] = u[i]
      BY <1>1, <1>2, SeqElements
    <2> QED
      BY <2>1 DEF RectsOf
  <1> QED
    BY <1>1, <1>3, <1>4, <1>5 DEF RectsOf

(* The pixels of a list are those of its elements.                         *)
LEMMA CoveredElements ==
  ASSUME NEW s, NEW q
  PROVE  q \in Covered(s) <=> \E r \in RectsOf(s) : q \in Pixels(r)
  BY DEF Covered, RectsOf

(* Two lists in a row cover what each covers.                              *)
LEMMA ConcatCovered ==
  ASSUME NEW s \in Seq(RectType), NEW u \in Seq(RectType)
  PROVE  Covered(s \o u) = Covered(s) \cup Covered(u)
  BY ConcatElements, CoveredElements

(* Two lists in a row are apart if each is, and each from the other.       *)
LEMMA ConcatApart ==
  ASSUME NEW s \in Seq(RectType), NEW u \in Seq(RectType), Apart(s), Apart(u),
         \A p \in RectsOf(s), r \in RectsOf(u) : ~Intersects(p, r)
  PROVE  Apart(s \o u)
  <1> SUFFICES ASSUME NEW i \in DOMAIN (s \o u), NEW j \in DOMAIN (s \o u), i # j
               PROVE  ~Intersects((s \o u)[i], (s \o u)[j])
    BY DEF Apart
  <1>1. /\ DOMAIN (s \o u) = 1 .. Len(s) + Len(u)
        /\ \A k \in 1 .. Len(s) + Len(u) :
             (s \o u)[k] = IF k <= Len(s) THEN s[k] ELSE u[k - Len(s)]
    OBVIOUS
  <1>2. /\ DOMAIN s = 1 .. Len(s) /\ Len(s) \in Nat
        /\ DOMAIN u = 1 .. Len(u) /\ Len(u) \in Nat
    OBVIOUS
  <1>3. CASE i <= Len(s) /\ j <= Len(s)
    BY <1>1, <1>2, <1>3 DEF Apart
  <1>4. CASE i > Len(s) /\ j > Len(s)
    <2>1. i - Len(s) \in DOMAIN u /\ j - Len(s) \in DOMAIN u /\ i - Len(s) # j - Len(s)
      BY <1>1, <1>2, <1>4
    <2> QED
      BY <1>1, <1>4, <2>1 DEF Apart
  <1>5. CASE i <= Len(s) /\ j > Len(s)
    BY <1>1, <1>2, <1>5 DEF RectsOf
  <1>6. CASE i > Len(s) /\ j <= Len(s)
    <2>1. s[j] \in RectsOf(s) /\ u[i - Len(s)] \in RectsOf(u)
      BY <1>1, <1>2, <1>6 DEF RectsOf
    <2>2. ~Intersects(u[i - Len(s)], s[j])
      BY <2>1, SeqElements, ApartSymmetric
    <2> QED
      BY <1>1, <1>2, <1>6, <2>2
  <1> QED
    BY <1>1, <1>2, <1>3, <1>4, <1>5, <1>6

(* The list without a rectangle.                                           *)
LEMMA EmptyList ==
  /\ <<>> \in Seq(RectType) /\ RectsOf(<<>>) = {} /\ Apart(<<>>) /\ Len(<<>>) = 0
  BY DEF RectsOf, Apart

(* The list of one rectangle.                                              *)
LEMMA ShortList ==
  ASSUME NEW r \in RectType
  PROVE  <<r>> \in Seq(RectType) /\ RectsOf(<<r>>) = {r} /\ Apart(<<r>>)
  BY DEF RectsOf, Apart

(* The list without its i-th rectangle. *)
LEMMA RemoveElements ==
  ASSUME NEW s \in Seq(RectType), NEW i \in DOMAIN s, Apart(s)
  PROVE  /\ RemoveAt(s, i) \in Seq(RectType)
         /\ Apart(RemoveAt(s, i))
         /\ \A r \in RectsOf(RemoveAt(s, i)) :
              \E j \in DOMAIN s : j # i /\ r = s[j]
         /\ \A j \in DOMAIN s : j # i => s[j] \in RectsOf(RemoveAt(s, i))
  <1> DEFINE rest == RemoveAt(s, i)
             old(k) == IF k < i THEN k ELSE k + 1
  <1>1. DOMAIN s = 1 .. Len(s) /\ Len(s) \in Nat /\ i \in 1 .. Len(s)
    OBVIOUS
  <1>2. /\ rest \in Seq(RectType) /\ Len(rest) = Len(s) - 1
        /\ \A k \in 1 .. Len(s) - 1 : rest[k] = s[old(k)]
    <2> DEFINE before == SubSeq(s, 1, i - 1)
               after == SubSeq(s, i + 1, Len(s))
    <2>1. /\ before \in Seq(RectType) /\ Len(before) = i - 1
          /\ \A k \in 1 .. i - 1 : before[k] = s[k]
      BY <1>1
    <2>2. /\ after \in Seq(RectType) /\ Len(after) = Len(s) - i
          /\ \A k \in 1 .. Len(s) - i : after[k] = s[i + k]
      BY <1>1
    <2>3. rest = before \o after
      BY DEF RemoveAt
    <2> HIDE DEF before, after, rest
    <2>4. /\ rest \in Seq(RectType) /\ Len(rest) = Len(before) + Len(after)
          /\ \A k \in 1 .. Len(before) : rest[k] = before[k]
          /\ \A k \in 1 .. Len(after) : rest[Len(before) + k] = after[k]
      BY <2>1, <2>2, <2>3, ConcatParts
    <2>5. Len(rest) = Len(s) - 1
      BY <1>1, <2>1, <2>2, <2>4
    <2>6. ASSUME NEW k \in 1 .. Len(s) - 1 PROVE rest[k] = s[old(k)]
      <3>1. CASE k < i
        <4>1. k \in 1 .. i - 1 /\ old(k) = k
          BY <1>1, <3>1
        <4>2. rest[k] = before[k] /\ before[k] = s[k]
          BY <2>1, <2>4, <4>1
        <4> QED
          BY <4>1, <4>2
      <3>2. CASE k >= i
        <4>1. k - i + 1 \in 1 .. Len(s) - i /\ (i - 1) + (k - i + 1) = k
              /\ i + (k - i + 1) = k + 1
          BY <1>1, <3>2
        <4> DEFINE m == k - i + 1
        <4>2. rest[Len(before) + m] = after[m] /\ after[m] = s[i + m]
          BY <2>2, <2>4, <4>1
        <4>3. Len(before) + m = k /\ i + m = k + 1
          BY <2>1, <4>1
        <4>4. old(k) = k + 1
          BY <1>1, <3>2
        <4> QED
          BY <4>2, <4>3, <4>4
      <3> QED
        BY <1>1, <3>1, <3>2
    <2> QED
      BY <2>4, <2>5, <2>6
  <1> HIDE DEF rest
  <1>3. DOMAIN rest = 1 .. Len(s) - 1
    BY <1>2
  <1>4. \A k \in DOMAIN rest : old(k) \in DOMAIN s /\ old(k) # i
    BY <1>1, <1>3
  <1>5. \A k, l \in DOMAIN rest : k # l => old(k) # old(l)
    BY <1>1, <1>3
  <1>6. Apart(rest)
    BY <1>2, <1>3, <1>4, <1>5 DEF Apart
  <1>7. \A r \in RectsOf(rest) : \E j \in DOMAIN s : j # i /\ r = s[j]
    BY <1>2, <1>3, <1>4 DEF RectsOf
  <1>8. ASSUME NEW j \in DOMAIN s, j # i PROVE s[j] \in RectsOf(rest)
    <2> DEFINE k == IF j < i THEN j ELSE j - 1
    <2>1. k \in DOMAIN rest /\ old(k) = j
      BY <1>1, <1>3, <1>8
    <2> QED
      BY <1>2, <1>3, <2>1 DEF RectsOf
  <1> QED
    BY <1>2, <1>6, <1>7, <1>8 DEF rest

-----------------------------------------------------------------------------
(* The four cuts. *)

(* Cutting splits t into the rest u, which still meets c, and the pieces s, *)
(* which miss it and the rest.                                             *)
SplitsOff(t, u, s, c) ==
  /\ u \in RectType /\ Within(u, t) /\ Intersects(u, c)
  /\ s \in Seq(RectType) /\ Apart(s)
  /\ \A p \in RectsOf(s) : Within(p, t) /\ ~Intersects(p, c) /\ ~Intersects(p, u)
  /\ Pixels(t) = Covered(s) \cup Pixels(u)

AfterBottom(t, c) ==
  IF CutsBottom(t, c) THEN Rect(t.x, t.y, t.w, t.h - (Bottom(t) - Bottom(c))) ELSE t

(* A target split into a piece and a rest.                                 *)
LEMMA SplitOne ==
  ASSUME NEW t \in RectType, NEW u \in RectType, NEW p \in RectType, NEW c \in RectType,
         Within(u, t), Intersects(u, c),
         Within(p, t), ~Intersects(p, c), ~Intersects(p, u),
         \A q \in Pixels(t) : q \in Pixels(p) \/ q \in Pixels(u)
  PROVE  SplitsOff(t, u, <<p>>, c)
  <1>1. Pixels(u) \subseteq Pixels(t) /\ Pixels(p) \subseteq Pixels(t)
    BY WithinPixels
  <1>2. Pixels(t) = Covered(<<p>>) \cup Pixels(u)
    BY <1>1, ShortList, CoveredElements
  <1> QED
    BY <1>2, ShortList DEF SplitsOff

(* A target that is not split.                                             *)
LEMMA SplitNone ==
  ASSUME NEW t \in RectType, NEW c \in RectType, Intersects(t, c)
  PROVE  SplitsOff(t, t, <<>>, c)
  <1>1. Within(t, t)
    BY RectEdges DEF Within
  <1>2. Covered(<<>>) = {}
    BY EmptyList, CoveredElements
  <1> QED
    BY <1>1, <1>2, EmptyList DEF SplitsOff

(* A rest that is split again.                                             *)
LEMMA SplitTwice ==
  ASSUME NEW t \in RectType, NEW u, NEW v, NEW c \in RectType,
         NEW s1, NEW s2, SplitsOff(t, u, s1, c), SplitsOff(u, v, s2, c)
  PROVE  SplitsOff(t, v, s1 \o s2, c)
  <1>1. /\ u \in RectType /\ v \in RectType
        /\ s1 \in Seq(RectType) /\ s2 \in Seq(RectType)
        /\ RectsOf(s1) \subseteq RectType /\ RectsOf(s2) \subseteq RectType
    BY SeqElements DEF SplitsOff
  <1>2. \A p \in RectsOf(s1), r \in RectsOf(s2) : ~Intersects(p, r)
    <2> SUFFICES ASSUME NEW p \in RectsOf(s1), NEW r \in RectsOf(s2)
                 PROVE  ~Intersects(p, r)
      OBVIOUS
    <2>1. ~Intersects(p, u) /\ Within(r, u) /\ p \in RectType /\ r \in RectType
      BY <1>1 DEF SplitsOff
    <2> QED
      BY <1>1, <2>1, ApartWithin, ApartSymmetric
  <1>3. \A p \in RectsOf(s1) : ~Intersects(p, v)
    <2> SUFFICES ASSUME NEW p \in RectsOf(s1) PROVE ~Intersects(p, v)
      OBVIOUS
    <2>1. ~Intersects(p, u) /\ Within(v, u) /\ p \in RectType
      BY <1>1 DEF SplitsOff
    <2> QED
      BY <1>1, <2>1, ApartWithin, ApartSymmetric
  <1>4. \A p \in RectsOf(s2) : Within(p, t)
    BY <1>1, WithinTransitive DEF SplitsOff
  <1>5. Within(v, t)
    BY <1>1, WithinTransitive DEF SplitsOff
  <1>6. Pixels(t) = Covered(s1 \o s2) \cup Pixels(v)
    BY <1>1, ConcatCovered DEF SplitsOff
  <1>7. Apart(s1 \o s2)
    BY <1>1, <1>2, ConcatApart DEF SplitsOff
  <1> QED
    BY <1>1, <1>3, <1>4, <1>5, <1>6, <1>7, ConcatElements DEF SplitsOff

(* What the left edge cuts off.                                            *)
LEMMA LeftSplits ==
  ASSUME NEW t \in RectType, NEW c \in RectType, ~IsEmpty(c), Intersects(t, c)
  PROVE  /\ SplitsOff(t, AfterLeft(t, c), LeftPiece(t, c), c)
         /\ Left(c) <= Left(AfterLeft(t, c))
  <1>1. CASE CutsLeft(t, c)
    <2> DEFINE u == AfterLeft(t, c)
               p == FromCorners(Left(t), Top(t), Left(c) - 1, Bottom(t))
    <2>0. /\ Left(t) \in Int /\ Top(t) \in Int /\ Left(c) - 1 \in Int /\ Bottom(t) \in Int
          /\ Left(t) <= Left(c) - 1 + 1 /\ Top(t) <= Bottom(t) + 1
      BY <1>1, RectEdges DEF CutsLeft
    <2>1. /\ p \in RectType
          /\ Left(p) = Left(t) /\ Right(p) = Left(c) - 1
          /\ Top(p) = Top(t) /\ Bottom(p) = Bottom(t)
      BY <2>0, CornersEdges
    <2>2. /\ u \in RectType
          /\ Left(u) = Left(c) /\ Right(u) = Right(t)
          /\ Top(u) = Top(t) /\ Bottom(u) = Bottom(t)
      BY <1>1 DEF AfterLeft, CutsLeft, Rect, RectType, Left, Right, Top, Bottom
    <2>3. LeftPiece(t, c) = <<p>>
      BY <1>1 DEF LeftPiece
    <2> HIDE DEF u, p
    <2>4. /\ Within(u, t) /\ Intersects(u, c)
          /\ Within(p, t) /\ ~Intersects(p, c) /\ ~Intersects(p, u)
      BY <1>1, <2>1, <2>2, RectEdges DEF Within, Intersects, CutsLeft
    <2>5. ASSUME NEW q \in Pixels(t) PROVE q \in Pixels(p) \/ q \in Pixels(u)
      <3>1. q \in Int \X Int /\ q[1] \in Int
        BY PixelsByEdges
      <3>2. CASE q[1] <= Left(c) - 1
        BY <2>1, <3>1, <3>2, PixelsByEdges
      <3>3. CASE Left(c) <= q[1]
        BY <2>2, <3>1, <3>3, PixelsByEdges
      <3> QED
        BY <3>1, <3>2, <3>3, RectEdges
    <2>6. SplitsOff(t, u, <<p>>, c)
      BY <2>1, <2>2, <2>4, <2>5, SplitOne
    <2> QED
      BY <2>2, <2>3, <2>6, RectEdges DEF u
  <1>2. CASE ~CutsLeft(t, c)
    <2>1. AfterLeft(t, c) = t /\ LeftPiece(t, c) = <<>>
      BY <1>2 DEF AfterLeft, LeftPiece
    <2>2. Left(c) <= Left(t)
      BY <1>2, RectEdges DEF CutsLeft, Intersects
    <2> QED
      BY <2>1, <2>2, SplitNone
  <1> QED
    BY <1>1, <1>2

(* What the top edge cuts off.                                             *)
LEMMA TopSplits ==
  ASSUME NEW t \in RectType, NEW c \in RectType, ~IsEmpty(c), Intersects(t, c)
  PROVE  /\ SplitsOff(t, AfterTop(t, c), TopPiece(t, c), c)
         /\ Top(c) <= Top(AfterTop(t, c))
  <1>1. CASE CutsTop(t, c)
    <2> DEFINE u == AfterTop(t, c)
               p == FromCorners(Left(t), Top(t), Right(t), Top(c) - 1)
    <2>0. /\ Left(t) \in Int /\ Top(t) \in Int /\ Right(t) \in Int /\ Top(c) - 1 \in Int
          /\ Left(t) <= Right(t) + 1 /\ Top(t) <= Top(c) - 1 + 1
      BY <1>1, RectEdges DEF CutsTop
    <2>1. /\ p \in RectType
          /\ Left(p) = Left(t) /\ Right(p) = Right(t)
          /\ Top(p) = Top(t) /\ Bottom(p) = Top(c) - 1
      BY <2>0, CornersEdges
    <2>2. /\ u \in RectType
          /\ Left(u) = Left(t) /\ Right(u) = Right(t)
          /\ Top(u) = Top(c) /\ Bottom(u) = Bottom(t)
      BY <1>1 DEF AfterTop, CutsTop, Rect, RectType, Left, Right, Top, Bottom
    <2>3. TopPiece(t, c) = <<p>>
      BY <1>1 DEF TopPiece
    <2> HIDE DEF u, p
    <2>4. /\ Within(u, t) /\ Intersects(u, c)
          /\ Within(p, t) /\ ~Intersects(p, c) /\ ~Intersects(p, u)
      BY <1>1, <2>1, <2>2, RectEdges DEF Within, Intersects, CutsTop
    <2>5. ASSUME NEW q \in Pixels(t) PROVE q \in Pixels(p) \/ q \in Pixels(u)
      <3>1. q \in Int \X Int /\ q[2] \in Int
        BY PixelsByEdges
      <3>2. CASE q[2] <= Top(c) - 1
        BY <2>1, <3>1, <3>2, PixelsByEdges
      <3>3. CASE Top(c) <= q[2]
        BY <2>2, <3>1, <3>3, PixelsByEdges
      <3> QED
        BY <3>1, <3>2, <3>3, RectEdges
    <2>6. SplitsOff(t, u, <<p>>, c)
      BY <2>1, <2>2, <2>4, <2>5, SplitOne
    <2> QED
      BY <2>2, <2>3, <2>6, RectEdges DEF u
  <1>2. CASE ~CutsTop(t, c)
    <2>1. AfterTop(t, c) = t /\ TopPiece(t, c) = <<>>
      BY <1>2 DEF AfterTop, TopPiece
    <2>2. Top(c) <= Top(t)
      BY <1>2, RectEdges DEF CutsTop, Intersects
    <2> QED
      BY <2>1, <2>2, SplitNone
  <1> QED
    BY <1>1, <1>2

(* What the right edge cuts off.                                           *)
LEMMA RightSplits ==
  ASSUME NEW t \in RectType, NEW c \in RectType, ~IsEmpty(c), Intersects(t, c)
  PROVE  /\ SplitsOff(t, AfterRight(t, c), RightPiece(t, c), c)
         /\ Right(AfterRight(t, c)) <= Right(c)
  <1>1. CASE CutsRight(t, c)
    <2> DEFINE u == AfterRight(t, c)
               p == FromCorners(Right(c) + 1, Top(t), Right(t), Bottom(t))
    <2>0. /\ Right(c) + 1 \in Int /\ Top(t) \in Int /\ Right(t) \in Int /\ Bottom(t) \in Int
          /\ Right(c) + 1 <= Right(t) + 1 /\ Top(t) <= Bottom(t) + 1
      BY <1>1, RectEdges DEF CutsRight
    <2>1. /\ p \in RectType
          /\ Left(p) = Right(c) + 1 /\ Right(p) = Right(t)
          /\ Top(p) = Top(t) /\ Bottom(p) = Bottom(t)
      BY <2>0, CornersEdges
    <2>2. /\ u \in RectType
          /\ Left(u) = Left(t) /\ Right(u) = Right(c)
          /\ Top(u) = Top(t) /\ Bottom(u) = Bottom(t)
      BY <1>1 DEF AfterRight, CutsRight, Rect, RectType, Left, Right, Top, Bottom
    <2>3. RightPiece(t, c) = <<p>>
      BY <1>1 DEF RightPiece
    <2> HIDE DEF u, p
    <2>4. /\ Within(u, t) /\ Intersects(u, c)
          /\ Within(p, t) /\ ~Intersects(p, c) /\ ~Intersects(p, u)
      BY <1>1, <2>1, <2>2, RectEdges DEF Within, Intersects, CutsRight
    <2>5. ASSUME NEW q \in Pixels(t) PROVE q \in Pixels(p) \/ q \in Pixels(u)
      <3>1. q \in Int \X Int /\ q[1] \in Int
        BY PixelsByEdges
      <3>2. CASE Right(c) + 1 <= q[1]
        BY <2>1, <3>1, <3>2, PixelsByEdges
      <3>3. CASE q[1] <= Right(c)
        BY <2>2, <3>1, <3>3, PixelsByEdges
      <3> QED
        BY <3>1, <3>2, <3>3, RectEdges
    <2>6. SplitsOff(t, u, <<p>>, c)
      BY <2>1, <2>2, <2>4, <2>5, SplitOne
    <2> QED
      BY <2>2, <2>3, <2>6, RectEdges DEF u
  <1>2. CASE ~CutsRight(t, c)
    <2>1. AfterRight(t, c) = t /\ RightPiece(t, c) = <<>>
      BY <1>2 DEF AfterRight, RightPiece
    <2>2. Right(t) <= Right(c)
      BY <1>2, RectEdges DEF CutsRight, Intersects
    <2> QED
      BY <2>1, <2>2, SplitNone
  <1> QED
    BY <1>1, <1>2

(* What the bottom edge cuts off.                                          *)
LEMMA BottomSplits ==
  ASSUME NEW t \in RectType, NEW c \in RectType, ~IsEmpty(c), Intersects(t, c)
  PROVE  /\ SplitsOff(t, AfterBottom(t, c), BottomPiece(t, c), c)
         /\ Bottom(AfterBottom(t, c)) <= Bottom(c)
  <1>1. CASE CutsBottom(t, c)
    <2> DEFINE u == AfterBottom(t, c)
               p == FromCorners(Left(t), Bottom(c) + 1, Right(t), Bottom(t))
    <2>0. /\ Left(t) \in Int /\ Bottom(c) + 1 \in Int /\ Right(t) \in Int /\ Bottom(t) \in Int
          /\ Left(t) <= Right(t) + 1 /\ Bottom(c) + 1 <= Bottom(t) + 1
      BY <1>1, RectEdges DEF CutsBottom
    <2>1. /\ p \in RectType
          /\ Left(p) = Left(t) /\ Right(p) = Right(t)
          /\ Top(p) = Bottom(c) + 1 /\ Bottom(p) = Bottom(t)
      BY <2>0, CornersEdges
    <2>2. /\ u \in RectType
          /\ Left(u) = Left(t) /\ Right(u) = Right(t)
          /\ Top(u) = Top(t) /\ Bottom(u) = Bottom(c)
      BY <1>1 DEF AfterBottom, CutsBottom, Rect, RectType, Left, Right, Top, Bottom
    <2>3. BottomPiece(t, c) = <<p>>
      BY <1>1 DEF BottomPiece
    <2> HIDE DEF u, p
    <2>4. /\ Within(u, t) /\ Intersects(u, c)
          /\ Within(p, t) /\ ~Intersects(p, c) /\ ~Intersects(p, u)
      BY <1>1, <2>1, <2>2, RectEdges DEF Within, Intersects, CutsBottom
    <2>5. ASSUME NEW q \in Pixels(t) PROVE q \in Pixels(p) \/ q \in Pixels(u)
      <3>1. q \in Int \X Int /\ q[2] \in Int
        BY PixelsByEdges
      <3>2. CASE Bottom(c) + 1 <= q[2]
        BY <2>1, <3>1, <3>2, PixelsByEdges
      <3>3. CASE q[2] <= Bottom(c)
        BY <2>2, <3>1, <3>3, PixelsByEdges
      <3> QED
        BY <3>1, <3>2, <3>3, RectEdges
    <2>6. SplitsOff(t, u, <<p>>, c)
      BY <2>1, <2>2, <2>4, <2>5, SplitOne
    <2> QED
      BY <2>2, <2>3, <2>6, RectEdges DEF u
  <1>2. CASE ~CutsBottom(t, c)
    <2>1. AfterBottom(t, c) = t /\ BottomPiece(t, c) = <<>>
      BY <1>2 DEF AfterBottom, BottomPiece
    <2>2. Bottom(t) <= Bottom(c)
      BY <1>2, RectEdges DEF CutsBottom, Intersects
    <2> QED
      BY <2>1, <2>2, SplitNone
  <1> QED
    BY <1>1, <1>2

(* What cut_out_rect leaves of a rectangle that the cut one intersects. *)
LEMMA CutOutFacts ==
  ASSUME NEW t \in RectType, NEW c \in RectType, ~IsEmpty(c), Intersects(t, c)
  PROVE  /\ CutOut(t, c) \in Seq(RectType)
         /\ Apart(CutOut(t, c))
         /\ \A p \in RectsOf(CutOut(t, c)) : Within(p, t) /\ ~Intersects(p, c)
         /\ Covered(CutOut(t, c)) = Pixels(t) \ Pixels(c)
  <1> DEFINE t1 == AfterLeft(t, c)
             t2 == AfterTop(t1, c)
             t3 == AfterRight(t2, c)
             t4 == AfterBottom(t3, c)
  <1>1. SplitsOff(t, t1, LeftPiece(t, c), c) /\ Left(c) <= Left(t1)
    BY LeftSplits
  <1>2. t1 \in RectType /\ Intersects(t1, c)
    BY <1>1 DEF SplitsOff
  <1> HIDE DEF t1
  <1>3. SplitsOff(t1, t2, TopPiece(t1, c), c) /\ Top(c) <= Top(t2)
    BY <1>2, TopSplits
  <1>4. t2 \in RectType /\ Intersects(t2, c)
    BY <1>3 DEF SplitsOff
  <1> HIDE DEF t2
  <1>5. SplitsOff(t2, t3, RightPiece(t2, c), c) /\ Right(t3) <= Right(c)
    BY <1>4, RightSplits
  <1>6. t3 \in RectType /\ Intersects(t3, c)
    BY <1>5 DEF SplitsOff
  <1> HIDE DEF t3
  <1>7. SplitsOff(t3, t4, BottomPiece(t3, c), c) /\ Bottom(t4) <= Bottom(c)
    BY <1>6, BottomSplits
  <1>8. t4 \in RectType /\ Intersects(t4, c)
    BY <1>7 DEF SplitsOff
  <1> HIDE DEF t4
  <1>9. CutOut(t, c) =
          ((LeftPiece(t, c) \o TopPiece(t1, c)) \o RightPiece(t2, c)) \o BottomPiece(t3, c)
    BY DEF CutOut, t1, t2, t3
  <1>10. SplitsOff(t, t4, CutOut(t, c), c)
    <2>1. SplitsOff(t, t2, LeftPiece(t, c) \o TopPiece(t1, c), c)
      BY <1>1, <1>3, SplitTwice
    <2>2. SplitsOff(t, t3, (LeftPiece(t, c) \o TopPiece(t1, c)) \o RightPiece(t2, c), c)
      BY <1>5, <2>1, SplitTwice
    <2> QED
      BY <1>7, <1>9, <2>2, SplitTwice
  <1>11. Within(t4, c)
    <2>1. Within(t2, t1) /\ Within(t3, t2) /\ Within(t4, t3)
      BY <1>3, <1>5, <1>7 DEF SplitsOff
    <2> QED
      BY <1>1, <1>2, <1>3, <1>4, <1>5, <1>6, <1>7, <1>8, <2>1, RectEdges DEF Within
  <1>12. Pixels(t4) \subseteq Pixels(c)
    BY <1>8, <1>11, WithinPixels
  <1>13. ASSUME NEW q \in Covered(CutOut(t, c)) PROVE q \notin Pixels(c)
    <2>1. PICK p \in RectsOf(CutOut(t, c)) : q \in Pixels(p)
      BY <1>13, CoveredElements
    <2>2. p \in RectType /\ ~Intersects(p, c)
      BY <1>10, SeqElements DEF SplitsOff
    <2> QED
      BY <2>1, <2>2, ApartPixels
  <1>14. Covered(CutOut(t, c)) = Pixels(t) \ Pixels(c)
    BY <1>10, <1>12, <1>13 DEF SplitsOff
  <1> QED
    BY <1>10, <1>14 DEF SplitsOff

-----------------------------------------------------------------------------
(* The inductive invariant. *)

(* What a search has passed does not intersect the rectangle it was given. *)
PassedApart ==
  Searching => \A i \in DOMAIN clips : i < index => ~Intersects(clips[i], cut)

(* Only rectangles that meet nothing in the list may be empty. *)
CutIsSolid ==
  Searching => ~IsEmpty(cut) \/ \A i \in DOMAIN clips : ~Intersects(clips[i], cut)

(* The rectangles of move_to come from one list: as long as there are any, *)
(* they meet neither each other nor those that were added before.          *)
DirtyApart ==
  /\ Apart(dirty)
  /\ \A d \in RectsOf(dirty) : \A r \in RectsOf(clips) : ~Intersects(d, r)
  /\ dirty # <<>> => mode \in {"idle", "add"}
  /\ dirty # <<>> /\ mode = "add" =>
       /\ \A r \in RectsOf(clips) : ~Intersects(r, cut)
       /\ \A d \in RectsOf(dirty) : ~Intersects(d, cut)

(* intersect_clip_rect has got something from the rectangles behind it only. *)
FreshApart ==
  /\ mode # "intersect" => fresh = <<>>
  /\ Apart(fresh)
  /\ \A f \in RectsOf(fresh) :
       \A i \in DOMAIN clips : i >= index => ~Intersects(f, clips[i])

(* Between two calls nothing has been searched. *)
IdleAtStart == mode = "idle" => index = 1

ClipIInv == ClipTypeOK /\ NoOverlap /\ IdleAtStart /\ PassedApart /\ CutIsSolid /\ DirtyApart /\ FreshApart

(* Widgets are rectangles with a pixel.                                    *)
LEMMA ShapesAreSolid == Shapes \subseteq RectType /\ \A r \in Shapes : ~IsEmpty(r)
  BY ShapeAssumption

(* The rectangle that stands for none is one.                              *)
LEMMA NoCutType == NoCut \in RectType
  BY DEF NoCut, Rect, RectType

(* The invariant holds at first.                                           *)
LEMMA InitIInv == InitClips => ClipIInv
  <1> SUFFICES ASSUME InitClips PROVE ClipIInv
    OBVIOUS
  <1>1. ClipTypeOK
    <2>1. clipping \in BOOLEAN
      BY Zenon DEF InitClips
    <2>2. index \in 1 .. Len(clips) + 1
      BY EmptyList DEF InitClips
    <2> QED
      BY <2>1, <2>2, EmptyList, NoCutType, Zenon DEF InitClips, ClipTypeOK
  <1>2. NoOverlap /\ PassedApart /\ CutIsSolid
    BY EmptyList DEF InitClips, NoOverlap, PassedApart, CutIsSolid, Searching
  <1>4. IdleAtStart
    BY DEF InitClips, IdleAtStart
  <1>3. DirtyApart /\ FreshApart
    BY EmptyList DEF InitClips, DirtyApart, FreshApart
  <1> QED
    BY <1>1, <1>2, <1>3, <1>4 DEF ClipIInv

(* A call that begins. *)
LEMMA BeginIInv ==
  ASSUME ClipIInv, Ready, NEW r \in Shapes, NEW call \in {"subtract", "add", "intersect"},
         Begin(call, r), UNCHANGED dirty
  PROVE  ClipIInv'
  <1>1. r \in RectType /\ ~IsEmpty(r)
    BY ShapesAreSolid
  <1>2. /\ clips' = clips /\ fresh' = fresh /\ dirty' = dirty /\ clipping' = TRUE
        /\ mode' = call /\ cut' = r /\ index' = 1
        /\ dirty = <<>> /\ fresh = <<>>
    BY DEF Begin, Ready, ClipIInv, FreshApart
  <1>3. ClipTypeOK'
    BY <1>1, <1>2 DEF ClipIInv, ClipTypeOK
  <1>4. PassedApart'
    BY <1>2, SeqElements DEF ClipIInv, ClipTypeOK, PassedApart
  <1>7. CutIsSolid'
    BY <1>1, <1>2 DEF CutIsSolid
  <1>5. NoOverlap' /\ IdleAtStart'
    BY <1>2 DEF ClipIInv, NoOverlap, IdleAtStart
  <1>6. DirtyApart' /\ FreshApart'
    BY <1>2, EmptyList DEF ClipIInv, DirtyApart, FreshApart
  <1> QED
    BY <1>3, <1>4, <1>5, <1>6, <1>7 DEF ClipIInv

(* The first rectangle of a list, and the others.                          *)
LEMMA HeadAndTail ==
  ASSUME NEW s \in Seq(RectType), s # <<>>, Apart(s)
  PROVE  /\ Head(s) \in RectType /\ Tail(s) \in Seq(RectType)
         /\ RectsOf(s) = {Head(s)} \cup RectsOf(Tail(s))
         /\ Apart(Tail(s))
         /\ \A d \in RectsOf(Tail(s)) : ~Intersects(d, Head(s))
  <1>1. /\ DOMAIN s = 1 .. Len(s) /\ Len(s) \in Nat \ {0}
        /\ Head(s) = s[1] /\ Tail(s) \in Seq(RectType)
        /\ DOMAIN Tail(s) = 1 .. Len(s) - 1
        /\ \A i \in 1 .. Len(s) - 1 : Tail(s)[i] = s[i + 1]
    OBVIOUS
  <1>2. \A i \in 1 .. Len(s) - 1 : i + 1 \in DOMAIN s /\ i + 1 # 1
    BY <1>1
  <1>3. ASSUME NEW d \in RectsOf(s) PROVE d \in {Head(s)} \cup RectsOf(Tail(s))
    <2>1. PICK i \in 1 .. Len(s) : d = s[i]
      BY <1>1 DEF RectsOf
    <2>2. CASE i = 1
      BY <1>1, <2>1, <2>2
    <2>3. CASE i # 1
      <3>1. i - 1 \in DOMAIN Tail(s) /\ Tail(s)[i - 1] = d
        BY <1>1, <2>1, <2>3
      <3> QED
        BY <3>1 DEF RectsOf
    <2> QED
      BY <2>2, <2>3
  <1>4. RectsOf(Tail(s)) \subseteq RectsOf(s) /\ Head(s) \in RectsOf(s)
    BY <1>1, <1>2 DEF RectsOf
  <1>5. \A d \in RectsOf(Tail(s)) : ~Intersects(d, Head(s))
    BY <1>1, <1>2 DEF RectsOf, Apart
  <1>6. Apart(Tail(s))
    BY <1>1, <1>2 DEF Apart
  <1> QED
    BY <1>1, <1>3, <1>4, <1>5, <1>6

(* The invariant is kept when a dirty rectangle is added.                  *)
LEMMA AddDirtyIInv == ClipIInv /\ AddDirtyRect => ClipIInv'
  <1> SUFFICES ASSUME ClipIInv, AddDirtyRect PROVE ClipIInv'
    OBVIOUS
  <1>1. /\ clips' = clips /\ fresh' = fresh /\ dirty' = Tail(dirty) /\ clipping' = TRUE
        /\ mode' = "add" /\ cut' = Head(dirty) /\ index' = 1
        /\ mode = "idle" /\ dirty # <<>> /\ fresh = <<>>
    BY DEF AddDirtyRect, Begin, ClipIInv, FreshApart
  <1>2. /\ dirty \in Seq(RectType) /\ Apart(dirty) /\ clips \in Seq(RectType)
    BY DEF ClipIInv, ClipTypeOK, DirtyApart
  <1>3. /\ Head(dirty) \in RectType /\ Tail(dirty) \in Seq(RectType)
        /\ RectsOf(dirty) = {Head(dirty)} \cup RectsOf(Tail(dirty))
        /\ Apart(Tail(dirty))
        /\ \A d \in RectsOf(Tail(dirty)) : ~Intersects(d, Head(dirty))
    BY <1>1, <1>2, HeadAndTail
  <1>4. \A r \in RectsOf(clips) : ~Intersects(r, Head(dirty))
    BY <1>2, <1>3, SeqElements, ApartSymmetric DEF ClipIInv, DirtyApart
  <1>5. ClipTypeOK'
    BY <1>1, <1>3 DEF ClipIInv, ClipTypeOK
  <1>6. NoOverlap' /\ IdleAtStart'
    BY <1>1 DEF ClipIInv, NoOverlap, IdleAtStart
  <1>7. PassedApart' /\ CutIsSolid'
    <2>1. \A i \in DOMAIN clips : clips[i] \in RectsOf(clips)
      BY DEF RectsOf
    <2> QED
      BY <1>1, <1>4, <2>1 DEF PassedApart, CutIsSolid
  <1>8. DirtyApart'
    BY <1>1, <1>3, <1>4 DEF ClipIInv, DirtyApart
  <1>9. FreshApart'
    BY <1>1, EmptyList DEF FreshApart
  <1> QED
    BY <1>5, <1>6, <1>7, <1>8, <1>9 DEF ClipIInv

(* The invariant is kept when a rectangle is passed.                       *)
LEMMA PassIInv == ClipIInv /\ PassRect => ClipIInv'
  <1> SUFFICES ASSUME ClipIInv, PassRect PROVE ClipIInv'
    OBVIOUS
  <1>1. /\ clips' = clips /\ fresh' = fresh /\ dirty' = dirty /\ clipping' = clipping
        /\ mode' = mode /\ cut' = cut /\ index' = index + 1
        /\ index <= Len(clips) /\ mode # "intersect" /\ Searching
        /\ ~Intersects(clips[index], cut)
    BY DEF PassRect, Searching
  <1>2. clips \in Seq(RectType) /\ index \in 1 .. Len(clips) + 1 /\ fresh = <<>>
    BY <1>1 DEF ClipIInv, ClipTypeOK, FreshApart
  <1>3. ClipTypeOK'
    <2>1. index' \in 1 .. Len(clips') + 1
      BY <1>1, <1>2
    <2> QED
      BY <1>1, <2>1, Zenon DEF ClipIInv, ClipTypeOK
  <1>4. PassedApart'
    <2>1. \A i \in DOMAIN clips : i < index + 1 => i < index \/ i = index
      BY <1>2, SeqElements
    <2> QED
      BY <1>1, <2>1 DEF ClipIInv, PassedApart
  <1>5. CutIsSolid' /\ NoOverlap' /\ IdleAtStart'
    BY <1>1 DEF ClipIInv, CutIsSolid, Searching, NoOverlap, IdleAtStart
  <1>6. DirtyApart'
    BY <1>1 DEF ClipIInv, DirtyApart
  <1>7. FreshApart'
    BY <1>1, <1>2, EmptyList DEF FreshApart
  <1> QED
    BY <1>3, <1>4, <1>5, <1>6, <1>7 DEF ClipIInv

(* What a split does to the list. *)
LEMMA SplitFacts ==
  ASSUME ClipIInv, SplitRect
  PROVE  /\ clips' \in Seq(RectType) /\ Apart(clips')
         /\ ~IsEmpty(cut) /\ dirty = <<>> /\ fresh = <<>>
         /\ \A q : q \in Covered(clips')
                     <=> \/ q \in Covered(clips) /\ q \notin Pixels(cut)
                         \/ q \in Covered(RemoveAt(clips, index))
         /\ \A q : q \in Covered(RemoveAt(clips, index)) => q \in Covered(clips)
  <1> DEFINE t == clips[index]
             rest == RemoveAt(clips, index)
             pieces == CutOut(t, cut)
  <1>1. /\ clips \in Seq(RectType) /\ Apart(clips) /\ cut \in RectType
        /\ index \in DOMAIN clips /\ t \in RectType
        /\ Intersects(t, cut) /\ Searching /\ mode # "intersect"
        /\ clips' = rest \o pieces
    <2>1. index \in 1 .. Len(clips) + 1 /\ index <= Len(clips) /\ clips \in Seq(RectType)
      BY DEF ClipIInv, ClipTypeOK, SplitRect
    <2> QED
      BY <2>1, SeqElements DEF ClipIInv, ClipTypeOK, NoOverlap, SplitRect, Searching
  <1>2. ~IsEmpty(cut)
    BY <1>1 DEF ClipIInv, CutIsSolid
  <1>3. dirty = <<>> /\ fresh = <<>>
    <2>1. t \in RectsOf(clips)
      BY <1>1 DEF RectsOf
    <2> QED
      BY <1>1, <2>1 DEF ClipIInv, DirtyApart, FreshApart, Searching
  <1>4. /\ rest \in Seq(RectType) /\ Apart(rest)
        /\ \A r \in RectsOf(rest) : \E j \in DOMAIN clips : j # index /\ r = clips[j]
        /\ \A j \in DOMAIN clips : j # index => clips[j] \in RectsOf(rest)
    BY <1>1, RemoveElements
  <1>5. /\ pieces \in Seq(RectType) /\ Apart(pieces)
        /\ \A p \in RectsOf(pieces) : Within(p, t) /\ ~Intersects(p, cut)
        /\ Covered(pieces) = Pixels(t) \ Pixels(cut)
    BY <1>1, <1>2, CutOutFacts
  <1> HIDE DEF rest, pieces
  <1>6. \A r \in RectsOf(rest), p \in RectsOf(pieces) : ~Intersects(r, p)
    <2> SUFFICES ASSUME NEW r \in RectsOf(rest), NEW p \in RectsOf(pieces)
                 PROVE  ~Intersects(r, p)
      OBVIOUS
    <2>1. r \in RectType /\ p \in RectType /\ Within(p, t)
      BY <1>4, <1>5, SeqElements
    <2>2. ~Intersects(t, r)
      BY <1>1, <1>4 DEF Apart
    <2> QED
      BY <1>1, <2>1, <2>2, ApartWithin, ApartSymmetric
  <1>7. clips' \in Seq(RectType) /\ Apart(clips')
    BY <1>1, <1>4, <1>5, <1>6, ConcatElements, ConcatApart
  <1>8. Covered(clips') = Covered(rest) \cup (Pixels(t) \ Pixels(cut))
    BY <1>1, <1>4, <1>5, ConcatCovered
  <1>9. Covered(clips) = Covered(rest) \cup Pixels(t)
    <2>1. \A r \in RectsOf(clips) : r \in RectsOf(rest) \/ r = t
      BY <1>4 DEF RectsOf
    <2>2. t \in RectsOf(clips) /\ RectsOf(rest) \subseteq RectsOf(clips)
      BY <1>1, <1>4 DEF RectsOf
    <2> QED
      BY <2>1, <2>2, CoveredElements
  <1> QED
    BY <1>2, <1>3, <1>7, <1>8, <1>9 DEF rest

(* The invariant is kept when a rectangle is split.                        *)
LEMMA SplitIInv == ClipIInv /\ SplitRect => ClipIInv'
  <1> SUFFICES ASSUME ClipIInv, SplitRect PROVE ClipIInv'
    OBVIOUS
  <1>1. /\ fresh' = fresh /\ dirty' = dirty /\ clipping' = clipping
        /\ mode' = mode /\ cut' = cut /\ index' = 1
        /\ mode # "intersect"
    BY DEF SplitRect, Searching
  <1>2. /\ clips' \in Seq(RectType) /\ Apart(clips')
        /\ ~IsEmpty(cut) /\ dirty = <<>> /\ fresh = <<>>
    BY SplitFacts
  <1>3. ClipTypeOK'
    <2>1. index' \in 1 .. Len(clips') + 1
      BY <1>1, <1>2
    <2> QED
      BY <1>1, <1>2, <2>1, Zenon DEF ClipIInv, ClipTypeOK
  <1>4. PassedApart'
    <2>1. \A i \in DOMAIN clips' : ~(i < 1)
      BY <1>2
    <2> QED
      BY <1>1, <2>1 DEF PassedApart
  <1>5. CutIsSolid' /\ NoOverlap' /\ IdleAtStart'
    BY <1>1, <1>2 DEF CutIsSolid, NoOverlap, IdleAtStart
  <1>6. DirtyApart' /\ FreshApart'
    BY <1>1, <1>2, EmptyList DEF DirtyApart, FreshApart
  <1> QED
    BY <1>3, <1>4, <1>5, <1>6 DEF ClipIInv

(* A list with one more rectangle.                                         *)
LEMMA AppendFacts ==
  ASSUME NEW s \in Seq(RectType), NEW r \in RectType
  PROVE  /\ Append(s, r) \in Seq(RectType)
         /\ RectsOf(Append(s, r)) = RectsOf(s) \cup {r}
         /\ Apart(s) /\ (\A p \in RectsOf(s) : ~Intersects(p, r)) => Apart(Append(s, r))
  <1>1. Append(s, r) = s \o <<r>>
    OBVIOUS
  <1>2. Append(s, r) \in Seq(RectType) /\ RectsOf(Append(s, r)) = RectsOf(s) \cup {r}
    BY <1>1, ShortList, ConcatElements
  <1>3. ASSUME Apart(s), \A p \in RectsOf(s) : ~Intersects(p, r) PROVE Apart(Append(s, r))
    <2> DEFINE one == <<r>>
    <2>1. one \in Seq(RectType) /\ RectsOf(one) = {r} /\ Apart(one)
      BY ShortList
    <2> HIDE DEF one
    <2>2. Apart(s \o one)
      BY <1>3, <2>1, ConcatApart
    <2> QED
      BY <1>1, <2>2 DEF one
  <1> QED
    BY <1>2, <1>3

(* The invariant is kept at the end of a search.                           *)
LEMMA EndOfSearchIInv == ClipIInv /\ EndOfSearch => ClipIInv'
  <1> SUFFICES ASSUME ClipIInv, EndOfSearch PROVE ClipIInv'
    OBVIOUS
  <1>1. /\ fresh' = fresh /\ dirty' = dirty /\ clipping' = clipping
        /\ mode' = "idle" /\ cut' = NoCut /\ index' = 1
        /\ index > Len(clips) /\ mode \in {"subtract", "add"}
        /\ clips' = IF mode = "add" THEN Append(clips, cut) ELSE clips
    BY DEF EndOfSearch, Searching
  <1>2. clips \in Seq(RectType) /\ cut \in RectType /\ fresh = <<>> /\ Apart(clips)
    BY <1>1 DEF ClipIInv, ClipTypeOK, FreshApart, NoOverlap
  <1>3. \A r \in RectsOf(clips) : ~Intersects(r, cut)
    <2>1. index \in Int
      BY DEF ClipIInv, ClipTypeOK
    <2>2. \A i \in DOMAIN clips : i < index
      BY <1>1, <1>2, <2>1
    <2> QED
      BY <1>1, <2>2 DEF ClipIInv, PassedApart, Searching, RectsOf
  <1>4. clips' \in Seq(RectType) /\ Apart(clips')
    BY <1>1, <1>2, <1>3, AppendFacts
  <1>5. ClipTypeOK'
    <2>1. index' \in 1 .. Len(clips') + 1
      BY <1>1, <1>4
    <2>2. mode' \in {"idle", "subtract", "add", "intersect"}
      BY <1>1
    <2> QED
      BY <1>1, <1>4, <2>1, <2>2, NoCutType, Zenon DEF ClipIInv, ClipTypeOK
  <1>6. NoOverlap' /\ PassedApart' /\ CutIsSolid' /\ FreshApart' /\ IdleAtStart'
    BY <1>1, <1>2, <1>4, EmptyList
       DEF NoOverlap, PassedApart, CutIsSolid, FreshApart, IdleAtStart, Searching
  <1>7. DirtyApart'
    <2>1. CASE dirty = <<>>
      BY <1>1, <2>1, EmptyList DEF DirtyApart
    <2>2. CASE dirty # <<>>
      <3>1. mode = "add" /\ RectsOf(clips') = RectsOf(clips) \cup {cut}
        BY <1>1, <1>2, <2>2, AppendFacts DEF ClipIInv, DirtyApart
      <3> QED
        BY <1>1, <2>2, <3>1 DEF ClipIInv, DirtyApart
    <2> QED
      BY <2>1, <2>2
  <1> QED
    BY <1>5, <1>6, <1>7 DEF ClipIInv

(* The invariant is kept when the next rectangle is intersected.           *)
LEMMA IntersectNextIInv == ClipIInv /\ IntersectNext => ClipIInv'
  <1> SUFFICES ASSUME ClipIInv, IntersectNext PROVE ClipIInv'
    OBVIOUS
  <1> DEFINE r == clips[index]
             common == Intersection(r, cut)
  <1>1. /\ clips' = clips /\ dirty' = dirty /\ clipping' = clipping
        /\ mode = "intersect" /\ mode' = mode /\ cut' = cut /\ index' = index + 1
        /\ index <= Len(clips)
        /\ fresh' = IF IsEmpty(common) THEN fresh ELSE Append(fresh, common)
    BY DEF IntersectNext
  <1>2. /\ clips \in Seq(RectType) /\ cut \in RectType /\ fresh \in Seq(RectType)
        /\ index \in 1 .. Len(clips) /\ Apart(clips) /\ Apart(fresh)
    BY <1>1 DEF ClipIInv, ClipTypeOK, NoOverlap, FreshApart
  <1>3. /\ index \in DOMAIN clips /\ r \in RectType /\ common \in RectType
        /\ ~IsEmpty(common) => Within(common, r)
    BY <1>2, SeqElements, IntersectionFacts
  <1> HIDE DEF common
  <1>4. ASSUME NEW p \in RectsOf(fresh) PROVE ~Intersects(p, r)
    BY <1>1, <1>2, <1>3 DEF ClipIInv, FreshApart
  <1>5. ASSUME NEW p \in RectsOf(fresh), ~IsEmpty(common) PROVE ~Intersects(p, common)
    <2>1. p \in RectType
      BY <1>2, SeqElements
    <2> QED
      BY <1>3, <1>4, <1>5, <2>1, ApartWithin, ApartSymmetric
  <1>6. fresh' \in Seq(RectType) /\ Apart(fresh')
    BY <1>1, <1>2, <1>3, <1>5, AppendFacts
  <1>7. ASSUME NEW p \in RectsOf(fresh'), NEW i \in DOMAIN clips, i >= index + 1
        PROVE  ~Intersects(p, clips[i])
    <2>1. CASE p \in RectsOf(fresh)
      BY <1>2, <1>7, <2>1, SeqElements DEF ClipIInv, FreshApart
    <2>2. CASE p \notin RectsOf(fresh)
      <3>1. p = common /\ ~IsEmpty(common)
        BY <1>1, <1>2, <1>3, <2>2, AppendFacts
      <3>2. ~Intersects(r, clips[i]) /\ clips[i] \in RectType
        BY <1>2, <1>3, <1>7, SeqElements DEF Apart
      <3> QED
        BY <1>3, <3>1, <3>2, ApartWithin
    <2> QED
      BY <2>1, <2>2
  <1>8. ClipTypeOK'
    <2>1. index' \in 1 .. Len(clips') + 1
      BY <1>1, <1>2
    <2> QED
      BY <1>1, <1>6, <2>1, Zenon DEF ClipIInv, ClipTypeOK
  <1>9. NoOverlap' /\ PassedApart' /\ CutIsSolid' /\ DirtyApart' /\ IdleAtStart'
    BY <1>1
       DEF ClipIInv, NoOverlap, PassedApart, CutIsSolid, DirtyApart, IdleAtStart, Searching
  <1>10. FreshApart'
    BY <1>1, <1>6, <1>7 DEF FreshApart
  <1> QED
    BY <1>8, <1>9, <1>10 DEF ClipIInv

(* The invariant is kept when all are intersected.                         *)
LEMMA EndOfIntersectIInv == ClipIInv /\ EndOfIntersect => ClipIInv'
  <1> SUFFICES ASSUME ClipIInv, EndOfIntersect PROVE ClipIInv'
    OBVIOUS
  <1>1. /\ clips' = fresh /\ fresh' = <<>> /\ dirty' = dirty /\ clipping' = clipping
        /\ mode = "intersect" /\ mode' = "idle" /\ cut' = NoCut /\ index' = 1
    BY DEF EndOfIntersect
  <1>2. dirty = <<>> /\ fresh \in Seq(RectType) /\ Apart(fresh)
    BY <1>1 DEF ClipIInv, ClipTypeOK, DirtyApart, FreshApart
  <1>3. ClipTypeOK'
    <2>1. index' \in 1 .. Len(clips') + 1
      BY <1>1, <1>2
    <2>2. mode' \in {"idle", "subtract", "add", "intersect"}
      BY <1>1
    <2> QED
      BY <1>1, <1>2, <2>1, <2>2, NoCutType, EmptyList, Zenon DEF ClipIInv, ClipTypeOK
  <1>4. NoOverlap' /\ PassedApart' /\ CutIsSolid' /\ IdleAtStart'
    BY <1>1, <1>2 DEF NoOverlap, PassedApart, CutIsSolid, IdleAtStart, Searching
  <1>5. DirtyApart' /\ FreshApart'
    BY <1>1, <1>2, EmptyList DEF DirtyApart, FreshApart
  <1> QED
    BY <1>3, <1>4, <1>5 DEF ClipIInv

(* The invariant is kept by clear_clip_rects.                              *)
LEMMA ClearIInv == ClipIInv /\ ClearClipRects => ClipIInv'
  <1> SUFFICES ASSUME ClipIInv, ClearClipRects PROVE ClipIInv'
    OBVIOUS
  <1>1. /\ clips' = <<>> /\ clipping' = FALSE /\ fresh' = fresh /\ dirty' = dirty
        /\ mode = "idle" /\ mode' = mode /\ cut' = cut /\ index' = index
        /\ dirty = <<>> /\ fresh = <<>>
    BY DEF ClearClipRects, Ready, ClipIInv, FreshApart
  <1>2. index = 1
    BY <1>1 DEF ClipIInv, IdleAtStart
  <1>3. ClipTypeOK'
    <2>1. index' \in 1 .. Len(clips') + 1
      BY <1>1, <1>2, EmptyList
    <2>2. clipping' \in BOOLEAN
      BY <1>1, Zenon
    <2> QED
      BY <1>1, <2>1, <2>2, EmptyList, Zenon DEF ClipIInv, ClipTypeOK
  <1>4. NoOverlap' /\ PassedApart' /\ CutIsSolid' /\ IdleAtStart'
    BY <1>1, <1>2, EmptyList DEF NoOverlap, PassedApart, CutIsSolid, IdleAtStart, Searching
  <1>5. DirtyApart' /\ FreshApart'
    BY <1>1, EmptyList DEF DirtyApart, FreshApart
  <1> QED
    BY <1>3, <1>4, <1>5 DEF ClipIInv

(* The invariant is kept when move_to puts the list aside.                 *)
LEMMA KeepIInv == ClipIInv /\ KeepDirtyRects => ClipIInv'
  <1> SUFFICES ASSUME ClipIInv, KeepDirtyRects PROVE ClipIInv'
    OBVIOUS
  <1>1. /\ clips' = <<>> /\ clipping' = FALSE /\ fresh' = fresh /\ dirty' = clips
        /\ mode = "idle" /\ mode' = mode /\ cut' = cut /\ index' = index
        /\ fresh = <<>>
    BY DEF KeepDirtyRects, Ready, ClipIInv, FreshApart
  <1>2. index = 1 /\ clips \in Seq(RectType) /\ Apart(clips)
    BY <1>1 DEF ClipIInv, IdleAtStart, ClipTypeOK, NoOverlap
  <1>3. ClipTypeOK'
    <2>1. index' \in 1 .. Len(clips') + 1
      BY <1>1, <1>2, EmptyList
    <2>2. clipping' \in BOOLEAN
      BY <1>1, Zenon
    <2> QED
      BY <1>1, <1>2, <2>1, <2>2, EmptyList, Zenon DEF ClipIInv, ClipTypeOK
  <1>4. NoOverlap' /\ PassedApart' /\ CutIsSolid' /\ IdleAtStart'
    BY <1>1, <1>2, EmptyList DEF NoOverlap, PassedApart, CutIsSolid, IdleAtStart, Searching
  <1>5. DirtyApart' /\ FreshApart'
    BY <1>1, <1>2, EmptyList DEF DirtyApart, FreshApart
  <1> QED
    BY <1>3, <1>4, <1>5 DEF ClipIInv

(* The invariant is kept by every step.                                    *)
LEMMA NextIInv == ClipIInv /\ [NextClips]_clipVars => ClipIInv'
  <1> SUFFICES ASSUME ClipIInv, [NextClips]_clipVars PROVE ClipIInv'
    OBVIOUS
  <1>1. ASSUME NEW r \in Shapes,
               SubtractClipRect(r) \/ AddClipRect(r) \/ IntersectClipRect(r)
        PROVE  ClipIInv'
    BY <1>1, BeginIInv DEF SubtractClipRect, AddClipRect, IntersectClipRect
  <1>2. CASE AddDirtyRect
    BY <1>2, AddDirtyIInv
  <1>3. CASE Loop
    BY <1>3, PassIInv, SplitIInv, EndOfSearchIInv, IntersectNextIInv, EndOfIntersectIInv
       DEF Loop
  <1>4. CASE ClearClipRects
    BY <1>4, ClearIInv
  <1>5. CASE KeepDirtyRects
    BY <1>5, KeepIInv
  <1>6. CASE UNCHANGED clipVars
    BY <1>6
       DEF clipVars, ClipIInv, ClipTypeOK, NoOverlap, IdleAtStart, PassedApart, CutIsSolid, DirtyApart,
           FreshApart, Searching
  <1> QED
    BY <1>1, <1>2, <1>3, <1>4, <1>5, <1>6 DEF NextClips

(* The index of a search never leaves the list it is changing, nor do the  *)
(* rectangles it makes get a negative width (subtract_clip_rect,           *)
(* cut_out_rect).                                                          *)
THEOREM ClipTypesCorrect == ClipSpec => []ClipTypeOK
  <1>1. ClipIInv => ClipTypeOK
    BY DEF ClipIInv
  <1> QED
    BY <1>1, InitIInv, NextIInv, PTL DEF ClipSpec

(* For every set of shapes, whatever is added, cut and intersected, no two *)
(* clipping rectangles ever share a pixel, not even in the middle of a     *)
(* search (subtract_clip_rect, add_clip_rect, intersect_clip_rect).        *)
THEOREM ClipsNeverOverlap == ClipSpec => []NoOverlap
  <1>1. ClipIInv => NoOverlap
    BY DEF ClipIInv
  <1> QED
    BY <1>1, InitIInv, NextIInv, PTL DEF ClipSpec

-----------------------------------------------------------------------------
(* The refinement: what each step does to the pixels. *)

(* What the list stands for in each loop.                                  *)
LEMMA DrawableByMode ==
  /\ mode = "idle" => Drawable = Covered(clips)
  /\ mode = "subtract" => Drawable = Covered(clips) \ Pixels(cut)
  /\ mode = "add" => Drawable = Covered(clips) \cup Pixels(cut)
  /\ mode = "intersect" => Drawable = Covered(fresh) \cup (Ahead(clips, index) \cap Pixels(cut))
  <1>1. ASSUME mode = "idle" PROVE Drawable = Covered(clips)
    BY <1>1 DEF Drawable
  <1>2. ASSUME mode = "subtract" PROVE Drawable = Covered(clips) \ Pixels(cut)
    BY <1>2 DEF Drawable
  <1>3. ASSUME mode = "add" PROVE Drawable = Covered(clips) \cup Pixels(cut)
    BY <1>3 DEF Drawable
  <1>4. ASSUME mode = "intersect"
        PROVE  Drawable = Covered(fresh) \cup (Ahead(clips, index) \cap Pixels(cut))
    BY <1>4 DEF Drawable
  <1> QED
    BY <1>1, <1>2, <1>3, <1>4

(* The empty list covers nothing.                                          *)
LEMMA CoveredEmpty == Covered(<<>>) = {}
  BY EmptyList, CoveredElements

(* At first there is no pixel.                                             *)
LEMMA InitRefines == InitClips => Region!Init
  BY CoveredEmpty, DrawableByMode DEF InitClips, Region!Init

(* A subtraction takes the pixels of the rectangle away at once.           *)
LEMMA SubtractRefines ==
  ASSUME ClipIInv, NEW r \in Shapes, SubtractClipRect(r)
  PROVE  Region!Subtract(Pixels(r))
  <1>1. /\ clips' = clips /\ dirty' = dirty /\ mode = "idle"
        /\ mode' = "subtract" /\ cut' = r
    BY DEF SubtractClipRect, Begin, Ready
  <1>2. Drawable = Covered(clips)
    BY <1>1, DrawableByMode
  <1>3. Drawable' = Covered(clips) \ Pixels(r)
    BY <1>1 DEF Drawable
  <1> QED
    BY <1>1, <1>2, <1>3 DEF Region!Subtract

(* An addition gives them at once.                                         *)
LEMMA AddRefines ==
  ASSUME ClipIInv, NEW r \in Shapes, AddClipRect(r)
  PROVE  Region!Add(Pixels(r))
  <1>1. /\ clips' = clips /\ dirty' = dirty /\ mode = "idle"
        /\ mode' = "add" /\ cut' = r
    BY DEF AddClipRect, Begin, Ready
  <1>2. Drawable = Covered(clips)
    BY <1>1, DrawableByMode
  <1>3. Drawable' = Covered(clips) \cup Pixels(r)
    BY <1>1 DEF Drawable
  <1> QED
    BY <1>1, <1>2, <1>3 DEF Region!Add

(* An intersection keeps the common ones at once.                          *)
LEMMA IntersectRefines ==
  ASSUME ClipIInv, NEW r \in Shapes, IntersectClipRect(r)
  PROVE  Region!Intersect(Pixels(r))
  <1>1. /\ clips' = clips /\ dirty' = dirty /\ mode = "idle" /\ fresh' = <<>>
        /\ mode' = "intersect" /\ cut' = r /\ index' = 1
    BY DEF IntersectClipRect, Begin, Ready, ClipIInv, FreshApart
  <1>2. Drawable = Covered(clips)
    BY <1>1, DrawableByMode
  <1>3. DOMAIN clips = 1 .. Len(clips)
    BY DEF ClipIInv, ClipTypeOK
  <1>4. Drawable' = Covered(<<>>) \cup (Ahead(clips, 1) \cap Pixels(r))
    BY <1>1 DEF Drawable
  <1>5. Ahead(clips, 1) = Covered(clips)
    BY <1>3 DEF Covered, Ahead
  <1> QED
    BY <1>1, <1>2, <1>4, <1>5, CoveredEmpty DEF Region!Intersect

(* A dirty rectangle that is added gives its pixels back.                  *)
LEMMA AddDirtyRefines ==
  ASSUME ClipIInv, AddDirtyRect
  PROVE  Region!GiveBack
  <1>1. /\ clips' = clips /\ dirty' = Tail(dirty) /\ mode = "idle" /\ dirty # <<>>
        /\ mode' = "add" /\ cut' = Head(dirty)
    BY DEF AddDirtyRect, Begin
  <1>2. Drawable = Covered(clips)
    BY <1>1, DrawableByMode
  <1>3. Drawable' = Covered(clips) \cup Pixels(Head(dirty))
    BY <1>1 DEF Drawable
  <1>4. dirty \in Seq(RectType) /\ Apart(dirty)
    BY DEF ClipIInv, ClipTypeOK, DirtyApart
  <1>5. /\ Head(dirty) \in RectType /\ Tail(dirty) \in Seq(RectType)
        /\ RectsOf(dirty) = {Head(dirty)} \cup RectsOf(Tail(dirty))
        /\ \A d \in RectsOf(Tail(dirty)) : ~Intersects(d, Head(dirty))
    BY <1>1, <1>4, HeadAndTail
  <1>6. Covered(dirty) = Pixels(Head(dirty)) \cup Covered(Tail(dirty))
    BY <1>5, CoveredElements
  <1>7. Pixels(Head(dirty)) \cap Covered(Tail(dirty)) = {}
    <2> SUFFICES ASSUME NEW q \in Covered(Tail(dirty)), q \in Pixels(Head(dirty)) PROVE FALSE
      OBVIOUS
    <2>1. PICK d \in RectsOf(Tail(dirty)) : q \in Pixels(d)
      BY CoveredElements
    <2> QED
      BY <1>5, <2>1, SeqElements, ApartPixels
  <1>8. Covered(dirty)' = Covered(Tail(dirty))
    BY <1>1
  <1>9. /\ Covered(Tail(dirty)) \subseteq Covered(dirty)
        /\ Drawable' = Drawable \cup (Covered(dirty) \ Covered(Tail(dirty)))
    BY <1>2, <1>3, <1>6, <1>7
  <1> QED
    BY <1>8, <1>9 DEF Region!GiveBack

(* A step that changes no pixel stutters.                                  *)
LEMMA SameRegion ==
  ASSUME Drawable' = Drawable, dirty' = dirty
  PROVE  UNCHANGED Region!vars
  BY DEF Region!vars

(* To pass a rectangle changes no pixel.                                   *)
LEMMA PassRefines == ASSUME ClipIInv, PassRect PROVE UNCHANGED Region!vars
  <1>1. /\ clips' = clips /\ dirty' = dirty /\ mode' = mode /\ cut' = cut
        /\ mode \in {"subtract", "add"}
    BY DEF PassRect, Searching
  <1>2. Drawable' = Drawable
    BY <1>1 DEF Drawable
  <1> QED
    BY <1>1, <1>2, SameRegion

(* To split one changes no pixel but those to be taken away.               *)
LEMMA SplitRefines == ASSUME ClipIInv, SplitRect PROVE UNCHANGED Region!vars
  <1>1. dirty' = dirty /\ mode' = mode /\ cut' = cut /\ mode \in {"subtract", "add"}
    BY DEF SplitRect, Searching
  <1>2. /\ Covered(clips') \ Pixels(cut) = Covered(clips) \ Pixels(cut)
        /\ Covered(clips') \cup Pixels(cut) = Covered(clips) \cup Pixels(cut)
    BY SplitFacts
  <1>3. CASE mode = "subtract"
    <2>1. Drawable' = Covered(clips') \ Pixels(cut)
      BY <1>1, <1>3 DEF Drawable
    <2> QED
      BY <1>1, <1>2, <1>3, <2>1, DrawableByMode, SameRegion
  <1>4. CASE mode = "add"
    <2>1. Drawable' = Covered(clips') \cup Pixels(cut)
      BY <1>1, <1>4 DEF Drawable
    <2> QED
      BY <1>1, <1>2, <1>4, <2>1, DrawableByMode, SameRegion
  <1> QED
    BY <1>1, <1>3, <1>4

(* The end of a search changes no pixel.                                   *)
LEMMA EndOfSearchRefines == ASSUME ClipIInv, EndOfSearch PROVE UNCHANGED Region!vars
  <1>1. /\ dirty' = dirty /\ mode' = "idle" /\ index > Len(clips)
        /\ mode \in {"subtract", "add"}
        /\ clips' = IF mode = "add" THEN Append(clips, cut) ELSE clips
    BY DEF EndOfSearch, Searching
  <1>2. clips \in Seq(RectType) /\ cut \in RectType /\ index \in Int
    BY DEF ClipIInv, ClipTypeOK
  <1>3. Drawable' = Covered(clips')
    BY <1>1 DEF Drawable
  <1>4. CASE mode = "add"
    <2>1. Covered(clips') = Covered(clips) \cup Pixels(cut)
      BY <1>1, <1>2, <1>4, AppendFacts, CoveredElements
    <2> QED
      BY <1>1, <1>3, <1>4, <2>1, DrawableByMode, SameRegion
  <1>5. CASE mode = "subtract"
    <2>1. \A r \in RectsOf(clips) : ~Intersects(r, cut) /\ r \in RectType
      <3>1. \A i \in DOMAIN clips : i < index
        BY <1>1, <1>2
      <3> QED
        BY <1>1, <1>2, <3>1, SeqElements DEF ClipIInv, PassedApart, Searching, RectsOf
    <2>2. Covered(clips) \cap Pixels(cut) = {}
      <3> SUFFICES ASSUME NEW q \in Covered(clips), q \in Pixels(cut) PROVE FALSE
        OBVIOUS
      <3>1. PICK r \in RectsOf(clips) : q \in Pixels(r)
        BY CoveredElements
      <3> QED
        BY <1>2, <2>1, <3>1, ApartPixels
    <2>3. Drawable = Covered(clips) \ Pixels(cut) /\ Drawable' = Covered(clips)
      BY <1>1, <1>3, <1>5, DrawableByMode
    <2>4. Drawable' = Drawable
      BY <2>2, <2>3
    <2> QED
      BY <1>1, <2>4, SameRegion
  <1> QED
    BY <1>1, <1>4, <1>5

(* Nor does a turn of the other loop.                                      *)
LEMMA IntersectNextRefines == ASSUME ClipIInv, IntersectNext PROVE UNCHANGED Region!vars
  <1> DEFINE r == clips[index]
             common == Intersection(r, cut)
  <1>1. /\ clips' = clips /\ dirty' = dirty /\ mode = "intersect" /\ mode' = mode
        /\ cut' = cut /\ index' = index + 1 /\ index <= Len(clips)
        /\ fresh' = IF IsEmpty(common) THEN fresh ELSE Append(fresh, common)
    BY DEF IntersectNext
  <1>2. /\ clips \in Seq(RectType) /\ cut \in RectType /\ fresh \in Seq(RectType)
        /\ index \in 1 .. Len(clips) /\ r \in RectType
    <2>1. /\ clips \in Seq(RectType) /\ cut \in RectType /\ fresh \in Seq(RectType)
          /\ index \in 1 .. Len(clips)
      BY <1>1 DEF ClipIInv, ClipTypeOK
    <2> QED
      BY <2>1, SeqElements
  <1>3. /\ common \in RectType
        /\ Pixels(common) = Pixels(r) \cap Pixels(cut)
        /\ IsEmpty(common) => Pixels(r) \cap Pixels(cut) = {}
    BY <1>2, IntersectionFacts
  <1>4. Ahead(clips, index) = Pixels(r) \cup Ahead(clips, index + 1)
    <2>1. index .. Len(clips) = {index} \cup (index + 1 .. Len(clips))
      BY <1>2
    <2> QED
      BY <2>1 DEF Ahead
  <1> HIDE DEF common, r
  <1>5. Covered(fresh') = Covered(fresh) \cup (Pixels(r) \cap Pixels(cut))
    <2>1. CASE IsEmpty(common)
      BY <1>1, <1>3, <2>1
    <2>2. CASE ~IsEmpty(common)
      <3>1. RectsOf(fresh') = RectsOf(fresh) \cup {common}
        BY <1>1, <1>2, <1>3, <2>2, AppendFacts
      <3>2. Covered(fresh') = Covered(fresh) \cup Pixels(common)
        BY <3>1, CoveredElements
      <3> QED
        BY <1>3, <3>2
    <2> QED
      BY <2>1, <2>2
  <1>6. /\ Drawable = Covered(fresh) \cup (Ahead(clips, index) \cap Pixels(cut))
        /\ Drawable' = Covered(fresh') \cup (Ahead(clips, index + 1) \cap Pixels(cut))
    <2>1. Drawable' = Covered(fresh') \cup (Ahead(clips, index + 1) \cap Pixels(cut))
      BY <1>1 DEF Drawable
    <2> QED
      BY <1>1, <2>1, DrawableByMode
  <1>7. Drawable' = Drawable
    BY <1>4, <1>5, <1>6
  <1> QED
    BY <1>1, <1>7, SameRegion

(* Nor does its end.                                                       *)
LEMMA EndOfIntersectRefines == ASSUME ClipIInv, EndOfIntersect PROVE UNCHANGED Region!vars
  <1>1. /\ clips' = fresh /\ dirty' = dirty /\ mode = "intersect" /\ mode' = "idle"
        /\ index > Len(clips)
    BY DEF EndOfIntersect
  <1>2. clips \in Seq(RectType) /\ index \in Int
    BY DEF ClipIInv, ClipTypeOK
  <1>3. Ahead(clips, index) = {}
    <2>1. index .. Len(clips) = {}
      BY <1>1, <1>2
    <2> QED
      BY <2>1 DEF Ahead
  <1>4. Drawable' = Covered(fresh)
    BY <1>1 DEF Drawable
  <1>5. Drawable' = Drawable
    BY <1>1, <1>3, <1>4, DrawableByMode
  <1> QED
    BY <1>1, <1>5, SameRegion

(* clear_clip_rects leaves no pixel.                                       *)
LEMMA ClearRefines == ASSUME ClipIInv, ClearClipRects PROVE Region!Clear
  <1>1. clips' = <<>> /\ dirty' = dirty /\ mode' = "idle"
    BY DEF ClearClipRects, Ready
  <1>2. Drawable' = {}
    BY <1>1, CoveredEmpty DEF Drawable
  <1> QED
    BY <1>1, <1>2 DEF Region!Clear

(* move_to puts all pixels aside.                                          *)
LEMMA KeepRefines == ASSUME ClipIInv, KeepDirtyRects PROVE Region!PutAside
  <1>1. clips' = <<>> /\ dirty' = clips /\ mode = "idle" /\ mode' = "idle"
    BY DEF KeepDirtyRects, Ready
  <1>2. Drawable' = {} /\ Drawable = Covered(clips)
    BY <1>1, CoveredEmpty, DrawableByMode DEF Drawable
  <1> QED
    BY <1>1, <1>2 DEF Region!PutAside

(* Every step is one of the region or stutters.                            *)
LEMMA NextRefines == ClipIInv /\ [NextClips]_clipVars => [Region!Next]_(Region!vars)
  <1> SUFFICES ASSUME ClipIInv, [NextClips]_clipVars PROVE [Region!Next]_(Region!vars)
    OBVIOUS
  <1>1. ASSUME NEW r \in Shapes,
               SubtractClipRect(r) \/ AddClipRect(r) \/ IntersectClipRect(r)
        PROVE  Region!Next
    <2> DEFINE area == Pixels(r)
    <2>1. Region!Add(area) \/ Region!Subtract(area) \/ Region!Intersect(area)
      BY <1>1, SubtractRefines, AddRefines, IntersectRefines
    <2>2. area \in {Pixels(s) : s \in Shapes}
      OBVIOUS
    <2> HIDE DEF area
    <2> QED
      BY <2>1, <2>2 DEF Region!Next
  <1>2. CASE AddDirtyRect
    BY <1>2, AddDirtyRefines DEF Region!Next
  <1>3. CASE Loop
    BY <1>3, PassRefines, SplitRefines, EndOfSearchRefines, IntersectNextRefines,
       EndOfIntersectRefines
       DEF Loop
  <1>4. CASE ClearClipRects
    BY <1>4, ClearRefines DEF Region!Next
  <1>5. CASE KeepDirtyRects
    BY <1>5, KeepRefines DEF Region!Next
  <1>6. CASE UNCHANGED clipVars
    <2>1. Drawable' = Drawable /\ dirty' = dirty
      BY <1>6 DEF clipVars, Drawable
    <2> QED
      BY <2>1, SameRegion
  <1> QED
    BY <1>1, <1>2, <1>3, <1>4, <1>5, <1>6 DEF NextClips

(* For every set of shapes the list of rectangles is the set of pixels     *)
(* that was added and not taken away: cut_out_rect loses none and keeps    *)
(* none, intersect_clip_rect keeps the common ones, and the rectangles     *)
(* move_to puts aside come back as the same pixels.                        *)
THEOREM ClipsArePixels == ClipSpec => ImplementsPixelRegion
  <1>1. InitClips => Region!Init
    BY InitRefines
  <1>2. ClipIInv /\ [NextClips]_clipVars => [Region!Next]_(Region!vars)
    BY NextRefines
  <1> QED
    BY <1>1, <1>2, InitIInv, NextIInv, PTL DEF ClipSpec, ImplementsPixelRegion, Region!Spec

-----------------------------------------------------------------------------
(* From here on: the desktop. *)

-----------------------------------------------------------------------------
(* Recursion. The value of F[f] at w is led by the values of f at the      *)
(* elements of before[w], and no set is without one that has none of the   *)
(* set before it: then F has a fixed point.                                *)

Local(W, T, before, F) ==
  /\ F \in [[W -> T] -> [W -> T]]
  /\ \A f, g \in [W -> T], w \in W :
       (\A v \in before[w] : f[v] = g[v]) => F[f][w] = F[g][w]

Founded(W, before) ==
  /\ before \in [W -> SUBSET W]
  /\ \A S \in SUBSET W : S # {} => \E w \in S : before[w] \cap S = {}

(* f does what F says on a set that has with w all that is before w. *)
Attempt(W, T, before, F, S, f) ==
  /\ S \in SUBSET W /\ f \in [W -> T]
  /\ \A v \in S : before[v] \subseteq S /\ f[v] = F[f][v]

(* Two that do what F says agree where both do.                            *)
LEMMA AttemptsAgree ==
  ASSUME NEW W, NEW T, NEW before, NEW F, Founded(W, before), Local(W, T, before, F),
         NEW R, NEW f, Attempt(W, T, before, F, R, f),
         NEW S, NEW g, Attempt(W, T, before, F, S, g)
  PROVE  \A w \in R \cap S : f[w] = g[w]
  <1> DEFINE B == {w \in R \cap S : f[w] # g[w]}
  <1>1. ASSUME B # {} PROVE FALSE
    <2>1. B \in SUBSET W
      BY DEF Attempt
    <2>2. PICK w \in B : before[w] \cap B = {}
      BY <1>1, <2>1 DEF Founded
    <2>3. \A v \in before[w] : f[v] = g[v]
      BY <2>2 DEF Attempt
    <2>4. F[f][w] = F[g][w]
      BY <2>1, <2>2, <2>3 DEF Local, Attempt
    <2>5. f[w] = g[w]
      BY <2>2, <2>4 DEF Attempt
    <2> QED  BY <2>2, <2>5
  <1> QED  BY <1>1

(* What is defined by recursion exists.                                    *)
LEMMA Recursion ==
  ASSUME NEW W, NEW T, NEW before, NEW F, Founded(W, before), Local(W, T, before, F),
         NEW t \in T
  PROVE  \E f \in [W -> T] : f = F[f]
  <1> DEFINE Reached(w) == \E S, f : Attempt(W, T, before, F, S, f) /\ w \in S
             at(w) == CHOOSE f : \E S : Attempt(W, T, before, F, S, f) /\ w \in S
             A == {w \in W : Reached(w)}
             g == [w \in W |-> IF w \in A THEN at(w)[w] ELSE t]
  <1>1. ASSUME NEW w \in A
        PROVE  \E S : Attempt(W, T, before, F, S, at(w)) /\ w \in S
    <2>1. Reached(w)
      OBVIOUS
    <2> QED  BY <2>1
  <1> HIDE DEF at
  <1>2. ASSUME NEW w \in A, NEW S, NEW f, Attempt(W, T, before, F, S, f), w \in S
        PROVE  f[w] = at(w)[w]
    <2>1. PICK R : Attempt(W, T, before, F, R, at(w)) /\ w \in R
      BY <1>1
    <2> QED  BY <1>2, <2>1, AttemptsAgree
  <1>3. g \in [W -> T]
    <2> SUFFICES ASSUME NEW w \in W PROVE g[w] \in T
      OBVIOUS
    <2>1. CASE w \in A
      <3>1. PICK R : Attempt(W, T, before, F, R, at(w)) /\ w \in R
        BY <1>1, <2>1
      <3> QED  BY <2>1, <3>1 DEF Attempt
    <2> QED  BY <2>1
  <1>4. ASSUME NEW w \in A PROVE before[w] \subseteq A /\ g[w] = F[g][w]
    <2>1. PICK R : Attempt(W, T, before, F, R, at(w)) /\ w \in R
      BY <1>1
    <2>2. before[w] \subseteq R /\ at(w)[w] = F[at(w)][w] /\ at(w) \in [W -> T] /\ w \in W
      BY <2>1 DEF Attempt
    <2>3. R \subseteq A
      BY <2>1 DEF Attempt
    <2>4. ASSUME NEW v \in before[w] PROVE g[v] = at(w)[v]
      <3>1. v \in A /\ v \in R /\ v \in W
        BY <2>2, <2>3
      <3>2. at(w)[v] = at(v)[v]
        BY <1>2, <2>1, <3>1
      <3> QED  BY <3>1, <3>2
    <2>5. F[g][w] = F[at(w)][w]
      <3> HIDE DEF g
      <3> QED  BY <1>3, <2>2, <2>4 DEF Local
    <2>6. g[w] = at(w)[w]
      BY <2>2
    <2> QED  BY <2>2, <2>3, <2>5, <2>6
  <1>5. ASSUME NEW w \in W, w \notin A, before[w] \subseteq A PROVE FALSE
    <2> DEFINE h == [g EXCEPT ![w] = F[g][w]]
               S == A \cup {w}
    <2> HIDE DEF g, A
    <2>1. F[g][w] \in T
      BY <1>3 DEF Local
    <2>2. h \in [W -> T] /\ h[w] = F[g][w] /\ \A v \in W \ {w} : h[v] = g[v]
      BY <1>3, <2>1
    <2> HIDE DEF h
    <2>3. A \subseteq W
      BY DEF A
    <2>4. ASSUME NEW v \in S PROVE before[v] \subseteq S /\ h[v] = F[h][v]
      <3>1. before[v] \subseteq A /\ v \in W
        BY <1>4, <1>5, <2>3
      <3>2. \A u \in before[v] : h[u] = g[u]
        BY <1>5, <2>2, <2>3, <3>1
      <3>3. F[h][v] = F[g][v]
        BY <1>3, <2>2, <3>1, <3>2 DEF Local
      <3>4. h[v] = F[g][v]
        BY <1>4, <2>2, <3>1
      <3> QED  BY <3>1, <3>3, <3>4
    <2>5. Attempt(W, T, before, F, S, h)
      BY <2>2, <2>3, <2>4 DEF Attempt
    <2>6. w \in A
      BY <2>5 DEF A
    <2> QED  BY <1>5, <2>6
  <1> HIDE DEF g, A
  <1>6. \A w \in W : w \in A
    <2> DEFINE B == {w \in W : w \notin A}
    <2>1. ASSUME B # {} PROVE FALSE
      <3>1. PICK w \in B : before[w] \cap B = {}
        BY <2>1 DEF Founded
      <3>2. before[w] \subseteq A
        BY <3>1 DEF Founded
      <3> QED  BY <1>5, <3>1, <3>2
    <2> QED  BY <2>1
  <1>7. F[g] \in [W -> T]
    BY <1>3 DEF Local
  <1>8. g = F[g]
    BY <1>3, <1>4, <1>6, <1>7
  <1> QED  BY <1>3, <1>8

-----------------------------------------------------------------------------
(* The tree. *)

Others == Windows \cup Buttons
Children(w) == {v \in Others : ParentOf[v] = w}

ParentBefore == [w \in Widgets |-> IF w = Root THEN {} ELSE {ParentOf[w]}]
ChildrenBefore == [w \in Widgets |-> Children(w)]

(* The parts of the tree.                                                  *)
LEMMA TreeFacts ==
  /\ Widgets = {Root} \cup Others /\ Root \notin Others /\ Nobody \notin Widgets
  /\ Windows \subseteq Others /\ Buttons \subseteq Others
  /\ \A w \in Others : w \in Widgets /\ ParentOf[w] \in Widgets /\ w \in Children(ParentOf[w])
  /\ \A w \in Widgets : Children(w) \subseteq Widgets
  BY TreeAssumption DEF Widgets, Others, Children

(* No set of widgets is without one that has its parent outside.           *)
LEMMA ParentFounded == Founded(Widgets, ParentBefore)
  <1>1. ParentBefore \in [Widgets -> SUBSET Widgets]
    BY TreeFacts DEF ParentBefore
  <1>2. ASSUME NEW S \in SUBSET Widgets, S # {}
        PROVE  \E w \in S : ParentBefore[w] \cap S = {}
    <2>1. PICK w \in S : w = Root \/ ParentOf[w] \notin S
      BY <1>2, TreeAssumption
    <2>2. ParentBefore[w] \cap S = {}
      BY <2>1 DEF ParentBefore
    <2> QED  BY <2>2
  <1> QED  BY <1>1, <1>2 DEF Founded

(* No set of widgets is without one that has no child in it.               *)
LEMMA ChildrenFounded == Founded(Widgets, ChildrenBefore)
  <1>1. ChildrenBefore \in [Widgets -> SUBSET Widgets]
    BY TreeFacts DEF ChildrenBefore
  <1>2. ASSUME NEW S \in SUBSET Widgets, S # {}
        PROVE  \E w \in S : ChildrenBefore[w] \cap S = {}
    <2>1. PICK w \in S : \A v \in S \ {Root} : ParentOf[v] # w
      BY <1>2, TreeAssumption
    <2>2. ChildrenBefore[w] \cap S = {}
      BY <2>1, TreeFacts DEF ChildrenBefore, Children
    <2> QED  BY <2>2
  <1> QED  BY <1>1, <1>2 DEF Founded

(* Induction from the window manager down, and from the leaves up. *)
LEMMA TopDown ==
  ASSUME NEW S, Root \in S, \A w \in Others : ParentOf[w] \in S => w \in S
  PROVE  \A w \in Widgets : w \in S
  <1> DEFINE B == {w \in Widgets : w \notin S}
  <1>1. ASSUME B # {} PROVE FALSE
    <2>1. PICK w \in B : ParentBefore[w] \cap B = {}
      BY <1>1, ParentFounded DEF Founded
    <2>2. w \in Others /\ ParentOf[w] \in Widgets
      BY <2>1, TreeFacts
    <2>3. ParentOf[w] \in S
      BY <2>1, <2>2, TreeFacts DEF ParentBefore
    <2> QED  BY <2>1, <2>2, <2>3
  <1> QED  BY <1>1

(* Induction from the leaves up.                                           *)
LEMMA BottomUp ==
  ASSUME NEW S, \A w \in Widgets : Children(w) \subseteq S => w \in S
  PROVE  \A w \in Widgets : w \in S
  <1> DEFINE B == {w \in Widgets : w \notin S}
  <1>1. ASSUME B # {} PROVE FALSE
    <2>1. PICK w \in B : ChildrenBefore[w] \cap B = {}
      BY <1>1, ChildrenFounded DEF Founded
    <2>2. Children(w) \subseteq S
      BY <2>1, TreeFacts DEF ChildrenBefore
    <2> QED  BY <2>1, <2>2
  <1> QED  BY <1>1

-----------------------------------------------------------------------------
(* Desktops. *)

Points == Int \X Int
Screen == Pixels(Rect(0, 0, SizeOf[Root][1], SizeOf[Root][2]))
Colors == ({Nobody} \cup Widgets) \X {"black", "cursor", "decoration", "client", "active"}

(* The children of each widget are always the same ones, each once. *)
IsTree(lists) ==
  \A w \in Widgets : /\ IsInjective(lists[w]) /\ Range(lists[w]) = Children(w)
                     /\ Len(lists[w]) = Len(InitKids[w])

Desks ==
  {d \in [kids : [Widgets -> Seq(Widgets)], pos : [Widgets -> Points],
          active : SUBSET Buttons, screen : [Screen -> Colors]] :
     IsTree(d.kids) /\ d.pos[Root] = <<0, 0>>}

(* The sizes are numbers, and the screen is not empty.                     *)
LEMMA SizeFacts ==
  /\ \A w \in Widgets : SizeOf[w] \in Nat \X Nat /\ SizeOf[w][1] \in Nat /\ SizeOf[w][2] \in Nat
  /\ SizeOf[Root][1] > 0 /\ SizeOf[Root][2] > 0
  /\ Outline \in Nat /\ TitleBar \in Nat
  <1>1. \A w \in Widgets : SizeOf[w] \in Nat \X Nat
    BY TreeAssumption
  <1>2. \A w \in Widgets : SizeOf[w][1] \in Nat /\ SizeOf[w][2] \in Nat
    BY <1>1
  <1>3. Root \in Widgets
    BY TreeFacts
  <1> QED  BY <1>1, <1>2, <1>3, TreeAssumption

(* The client area begins at a point.                                      *)
LEMMA OffsetType ==
  ASSUME NEW w \in Widgets
  PROVE  ClientOffset(w) \in Points
  BY SizeFacts DEF ClientOffset, RelativeClientRect, FromCorners, Rect, Points

(* Sums and differences of points are points.                              *)
LEMMA PlusType ==
  ASSUME NEW p \in Points, NEW q \in Points
  PROVE  Plus(p, q) \in Points /\ Minus(p, q) \in Points
  BY DEF Points, Plus, Minus

(* The place of a widget is led by that of its parent. *)
LEMMA ScreenPosIs ==
  ASSUME NEW d, d.pos \in [Widgets -> Points]
  PROVE  /\ ScreenPos(d, Root) = d.pos[Root]
         /\ \A w \in Widgets : ScreenPos(d, w) \in Points
         /\ \A w \in Others : ScreenPos(d, w) = Plus(Plus(d.pos[w], ScreenPos(d, ParentOf[w])),
                                                     ClientOffset(ParentOf[w]))
  <1> DEFINE Step(at, v) == IF v = Root THEN d.pos[Root]
                            ELSE Plus(Plus(d.pos[v], at[ParentOf[v]]), ClientOffset(ParentOf[v]))
             Defined(at) == at = [v \in Widgets |-> Step(at, v)]
             place == CHOOSE at : Defined(at)
             F == [at \in [Widgets -> Points] |-> [v \in Widgets |-> Step(at, v)]]
  <1>1. \A w : ScreenPos(d, w) = place[w]
    BY Zenon DEF ScreenPos
  <1>2. ASSUME NEW at \in [Widgets -> Points], NEW v \in Widgets PROVE Step(at, v) \in Points
    <2>1. CASE v = Root
      BY <2>1
    <2>2. CASE v # Root
      <3>1. v \in Others /\ ParentOf[v] \in Widgets
        BY <2>2, TreeFacts
      <3>2. d.pos[v] \in Points /\ at[ParentOf[v]] \in Points /\ ClientOffset(ParentOf[v]) \in Points
        BY <3>1, OffsetType
      <3> QED  BY <2>2, <3>2, PlusType
    <2> QED  BY <2>1, <2>2
  <1>3. ASSUME NEW f \in [Widgets -> Points], NEW g \in [Widgets -> Points], NEW w \in Widgets,
               \A v \in ParentBefore[w] : f[v] = g[v]
        PROVE  Step(f, w) = Step(g, w)
    BY <1>3 DEF ParentBefore
  <1> HIDE DEF Step
  <1>4. Local(Widgets, Points, ParentBefore, F)
    BY <1>2, <1>3 DEF Local
  <1>5. <<0, 0>> \in Points
    BY DEF Points
  <1>6. \E at : Defined(at)
    <2>1. \E at \in [Widgets -> Points] : at = F[at]
      <3> HIDE DEF F
      <3> QED  BY <1>4, <1>5, ParentFounded, Recursion
    <2>2. PICK at \in [Widgets -> Points] : at = F[at]
      BY <2>1, Zenon
    <2>3. Defined(at)
      BY <2>2
    <2> QED  BY <2>3, Zenon
  <1>7. Defined(place)
    BY <1>6, Zenon
  <1> HIDE DEF place
  <1>8. \A v \in Widgets : place[v] = Step(place, v)
    BY <1>7
  <1>9. place[Root] = d.pos[Root]
    BY <1>8, TreeFacts DEF Step
  <1>10. \A v \in Others : place[v] = Plus(Plus(d.pos[v], place[ParentOf[v]]), ClientOffset(ParentOf[v]))
    BY <1>8, TreeFacts DEF Step
  <1>11. \A w \in Widgets : place[w] \in Points
    <2> DEFINE S == {w \in Widgets : place[w] \in Points}
    <2>1. Root \in S
      BY <1>9, TreeFacts
    <2>2. ASSUME NEW w \in Others, ParentOf[w] \in S PROVE w \in S
      <3>1. w \in Widgets /\ ParentOf[w] \in Widgets /\ place[ParentOf[w]] \in Points
        BY <2>2, TreeFacts
      <3>2. d.pos[w] \in Points /\ ClientOffset(ParentOf[w]) \in Points
        BY <3>1, OffsetType
      <3>3. place[w] \in Points
        BY <1>10, <3>1, <3>2, PlusType
      <3> QED  BY <3>1, <3>3
    <2> HIDE DEF S
    <2>3. \A w \in Widgets : w \in S
      BY <2>1, <2>2, TopDown
    <2> QED  BY <2>3 DEF S
  <1> QED  BY <1>1, <1>9, <1>10, <1>11

-----------------------------------------------------------------------------
(* The pixels of a widget, and those of its client area.                   *)

Body(d, w) == Pixels(ScreenRect(d, w))
Inner(d, w) == Pixels(ScreenClientRect(d, w))

(* The parts of a desktop.                                                 *)
LEMMA DeskFacts ==
  ASSUME NEW d \in Desks
  PROVE  /\ d = [kids |-> d.kids, pos |-> d.pos, active |-> d.active, screen |-> d.screen]
         /\ d.kids \in [Widgets -> Seq(Widgets)] /\ IsTree(d.kids)
         /\ d.pos \in [Widgets -> Points] /\ d.pos[Root] = <<0, 0>>
         /\ d.active \in SUBSET Buttons /\ d.screen \in [Screen -> Colors]
  BY DEF Desks

(* A desktop from its parts.                                               *)
LEMMA DeskIs ==
  ASSUME NEW k, NEW p, NEW a, NEW s,
         k \in [Widgets -> Seq(Widgets)], IsTree(k), p \in [Widgets -> Points],
         p[Root] = <<0, 0>>, a \in SUBSET Buttons, s \in [Screen -> Colors]
  PROVE  [kids |-> k, pos |-> p, active |-> a, screen |-> s] \in Desks
  BY DEF Desks

(* The coordinates of a point.                                             *)
LEMMA PointFacts ==
  ASSUME NEW p \in Points
  PROVE  p = <<p[1], p[2]>> /\ p[1] \in Int /\ p[2] \in Int
  BY DEF Points

(* Both areas in coordinates, at the place of the widget. *)
LEMMA BodyIs ==
  ASSUME NEW d, NEW w \in Widgets, ScreenPos(d, w) \in Points, NEW q
  PROVE  q \in Body(d, w) <=>
           /\ q \in Points
           /\ ScreenPos(d, w)[1] <= q[1] /\ q[1] < ScreenPos(d, w)[1] + SizeOf[w][1]
           /\ ScreenPos(d, w)[2] <= q[2] /\ q[2] < ScreenPos(d, w)[2] + SizeOf[w][2]
  <1> DEFINE s == ScreenPos(d, w)
             r == ScreenRect(d, w)
  <1>1. r.x = s[1] /\ r.y = s[2] /\ r.w = SizeOf[w][1] /\ r.h = SizeOf[w][2]
    BY DEF ScreenRect, MovedTo, RectOf, Rect
  <1>2. s[1] \in Int /\ s[2] \in Int /\ SizeOf[w][1] \in Nat /\ SizeOf[w][2] \in Nat
    BY PointFacts, SizeFacts
  <1> HIDE DEF s, r
  <1>3. q \in Pixels(r) <=> /\ q \in Points
                            /\ s[1] <= q[1] /\ q[1] < s[1] + SizeOf[w][1]
                            /\ s[2] <= q[2] /\ q[2] < s[2] + SizeOf[w][2]
    BY <1>1, <1>2 DEF Pixels, Left, Right, Top, Bottom, Points
  <1> QED  BY <1>3 DEF s, r, Body

(* The upper left corner of a client area in its widget, and the margins   *)
(* to the left and above together with those to the right and below.       *)
MarginLeft(w) == IF w \in Windows THEN Outline ELSE 0
MarginTop(w) == IF w \in Windows THEN 2 * Outline + TitleBar ELSE 0

(* The client rectangle: all of a widget, or what the outline and the      *)
(* title bar of a window leave.                                            *)
LEMMA ClientRectIs ==
  ASSUME NEW w \in Widgets
  PROVE  LET r == RelativeClientRect(w)
         IN  /\ r.x = MarginLeft(w) /\ r.y = MarginTop(w)
             /\ r.w = SizeOf[w][1] - (IF w \in Windows THEN 2 * Outline ELSE 0)
             /\ r.h = SizeOf[w][2] - (IF w \in Windows THEN 3 * Outline + TitleBar ELSE 0)
             /\ ClientOffset(w) = <<MarginLeft(w), MarginTop(w)>>
             /\ MarginLeft(w) \in Nat /\ MarginTop(w) \in Nat
  <1>1. SizeOf[w][1] \in Nat /\ SizeOf[w][2] \in Nat /\ Outline \in Nat /\ TitleBar \in Nat
    BY SizeFacts
  <1>2. CASE w \in Windows
    BY <1>1, <1>2 DEF RelativeClientRect, FromCorners, Rect, MarginLeft, MarginTop, ClientOffset
  <1>3. CASE w \notin Windows
    BY <1>1, <1>3 DEF RelativeClientRect, FromCorners, Rect, MarginLeft, MarginTop, ClientOffset
  <1> QED  BY <1>2, <1>3

(* The client area in coordinates.                                         *)
LEMMA InnerIs ==
  ASSUME NEW d, NEW w \in Widgets, ScreenPos(d, w) \in Points, NEW q
  PROVE  q \in Inner(d, w) <=>
           /\ q \in Points
           /\ ScreenPos(d, w)[1] + MarginLeft(w) <= q[1]
           /\ q[1] < ScreenPos(d, w)[1] + MarginLeft(w) + RelativeClientRect(w).w
           /\ ScreenPos(d, w)[2] + MarginTop(w) <= q[2]
           /\ q[2] < ScreenPos(d, w)[2] + MarginTop(w) + RelativeClientRect(w).h
  <1> DEFINE s == ScreenPos(d, w)
             r == ScreenClientRect(d, w)
             c == RelativeClientRect(w)
  <1>1. r.x = s[1] + MarginLeft(w) /\ r.y = s[2] + MarginTop(w) /\ r.w = c.w /\ r.h = c.h
    BY ClientRectIs DEF ScreenClientRect, MovedTo, Rect, Plus
  <1>2. s[1] \in Int /\ s[2] \in Int /\ MarginLeft(w) \in Nat /\ MarginTop(w) \in Nat
    BY PointFacts, ClientRectIs
  <1>3. c.w \in Int /\ c.h \in Int
    BY ClientRectIs, SizeFacts
  <1> HIDE DEF s, r, c
  <1>4. q \in Pixels(r) <=> /\ q \in Points
                            /\ s[1] + MarginLeft(w) <= q[1] /\ q[1] < s[1] + MarginLeft(w) + c.w
                            /\ s[2] + MarginTop(w) <= q[2] /\ q[2] < s[2] + MarginTop(w) + c.h
    BY <1>1, <1>2, <1>3 DEF Pixels, Left, Right, Top, Bottom, Points
  <1> QED  BY <1>4 DEF s, r, c, Inner

(* The screen is all of the root, and a client area lies in its widget.    *)
LEMMA AreaFacts ==
  ASSUME NEW d \in Desks
  PROVE  /\ Body(d, Root) = Screen /\ Inner(d, Root) = Screen
         /\ \A w \in Widgets : Inner(d, w) \subseteq Body(d, w) /\ Body(d, w) \subseteq Points
         /\ Everywhere(d) = Screen
  <1>1. d.pos \in [Widgets -> Points] /\ d.pos[Root] = <<0, 0>>
    BY DeskFacts
  <1>2. \A w \in Widgets : ScreenPos(d, w) \in Points
    BY <1>1, ScreenPosIs
  <1>3. ScreenPos(d, Root) = <<0, 0>> /\ Root \in Widgets /\ Root \notin Windows
    BY <1>1, ScreenPosIs, TreeFacts
  <1>4. SizeOf[Root][1] \in Nat /\ SizeOf[Root][2] \in Nat
    BY <1>3, SizeFacts
  <1>5. ScreenRect(d, Root) = Rect(0, 0, SizeOf[Root][1], SizeOf[Root][2])
    BY <1>3 DEF ScreenRect, MovedTo, RectOf, Rect
  <1>6. ScreenClientRect(d, Root) = Rect(0, 0, SizeOf[Root][1], SizeOf[Root][2])
    BY <1>3 DEF ScreenClientRect, MovedTo, Rect, Plus, ClientOffset, RelativeClientRect
  <1>7. ASSUME NEW w \in Widgets, NEW q \in Inner(d, w) PROVE q \in Body(d, w)
    <2>1. ScreenPos(d, w) \in Points
      BY <1>2
    <2> DEFINE s == ScreenPos(d, w)
               c == RelativeClientRect(w)
    <2>2. s[1] \in Int /\ s[2] \in Int
      BY <2>1, PointFacts
    <2>3. /\ q \in Points
          /\ s[1] + MarginLeft(w) <= q[1] /\ q[1] < s[1] + MarginLeft(w) + c.w
          /\ s[2] + MarginTop(w) <= q[2] /\ q[2] < s[2] + MarginTop(w) + c.h
      BY <1>7, <2>1, InnerIs
    <2>4. q[1] \in Int /\ q[2] \in Int
      BY <2>3, PointFacts
    <2>5. /\ MarginLeft(w) \in Nat /\ MarginTop(w) \in Nat
          /\ c.w \in Int /\ c.h \in Int
          /\ MarginLeft(w) + c.w <= SizeOf[w][1] /\ MarginTop(w) + c.h <= SizeOf[w][2]
      BY ClientRectIs, SizeFacts DEF MarginLeft, MarginTop
    <2>6. SizeOf[w][1] \in Nat /\ SizeOf[w][2] \in Nat
      BY SizeFacts
    <2> HIDE DEF s, c
    <2>7. /\ s[1] <= q[1] /\ q[1] < s[1] + SizeOf[w][1]
          /\ s[2] <= q[2] /\ q[2] < s[2] + SizeOf[w][2]
      BY <2>2, <2>3, <2>4, <2>5, <2>6
    <2> QED  BY <2>1, <2>3, <2>7, BodyIs DEF s
  <1>8. ASSUME NEW w \in Widgets, NEW q \in Body(d, w) PROVE q \in Points
    BY <1>2, <1>8, BodyIs
  <1> QED  BY <1>5, <1>6, <1>7, <1>8 DEF Body, Inner, Screen, Everywhere

(* A point is in an area if it is in the rectangle of the handlers,        *)
(* relative to the widget or to the client area of its parent.             *)
LEMMA ClientHasPoint ==
  ASSUME NEW d \in Desks, NEW w \in Widgets, NEW p \in Points
  PROVE  HasPoint(RelativeClientRect(w), Minus(p, ScreenPos(d, w))) <=> p \in Inner(d, w)
  <1> DEFINE s == ScreenPos(d, w)
             c == RelativeClientRect(w)
  <1>1. s \in Points
    BY DeskFacts, ScreenPosIs
  <1>2. s[1] \in Int /\ s[2] \in Int /\ p[1] \in Int /\ p[2] \in Int
    BY <1>1, PointFacts
  <1>3. /\ c.x = MarginLeft(w) /\ c.y = MarginTop(w)
        /\ MarginLeft(w) \in Nat /\ MarginTop(w) \in Nat /\ c.w \in Int /\ c.h \in Int
    BY ClientRectIs, SizeFacts
  <1>4. p \in Inner(d, w) <=> /\ s[1] + MarginLeft(w) <= p[1] /\ p[1] < s[1] + MarginLeft(w) + c.w
                              /\ s[2] + MarginTop(w) <= p[2] /\ p[2] < s[2] + MarginTop(w) + c.h
    BY <1>1, InnerIs
  <1>5. Minus(p, s)[1] = p[1] - s[1] /\ Minus(p, s)[2] = p[2] - s[2]
    BY DEF Minus
  <1> HIDE DEF s, c
  <1>6. HasPoint(c, Minus(p, s)) <=>
          /\ s[1] + MarginLeft(w) <= p[1] /\ p[1] < s[1] + MarginLeft(w) + c.w
          /\ s[2] + MarginTop(w) <= p[2] /\ p[2] < s[2] + MarginTop(w) + c.h
    BY <1>2, <1>3, <1>5 DEF HasPoint
  <1> QED  BY <1>4, <1>6 DEF s, c

(* A child's rectangle has the point that handle_mouse hands on just when  *)
(* its area on the screen has the pixel.                                   *)
LEMMA ChildHasPoint ==
  ASSUME NEW d \in Desks, NEW w \in Widgets, NEW c \in Children(w), NEW p \in Points
  PROVE  HasPoint(RectOf(d, c), Minus(Minus(p, ScreenPos(d, w)), ClientOffset(w)))
           <=> p \in Body(d, c)
  <1> DEFINE s == ScreenPos(d, w)
             t == ScreenPos(d, c)
             o == ClientOffset(w)
             r == RectOf(d, c)
             m == Minus(Minus(p, s), o)
  <1>1. c \in Others /\ ParentOf[c] = w /\ c \in Widgets
    BY TreeFacts DEF Children
  <1>2. s \in Points /\ t \in Points /\ o \in Points /\ d.pos[c] \in Points
    BY <1>1, DeskFacts, ScreenPosIs, OffsetType
  <1>3. t = Plus(Plus(d.pos[c], s), o)
    BY <1>1, DeskFacts, ScreenPosIs
  <1>4. t[1] = d.pos[c][1] + s[1] + o[1] /\ t[2] = d.pos[c][2] + s[2] + o[2]
    BY <1>3 DEF Plus
  <1>5. m[1] = p[1] - s[1] - o[1] /\ m[2] = p[2] - s[2] - o[2]
    BY DEF Minus
  <1>6. r.x = d.pos[c][1] /\ r.y = d.pos[c][2] /\ r.w = SizeOf[c][1] /\ r.h = SizeOf[c][2]
    BY DEF RectOf, Rect
  <1>7. /\ s[1] \in Int /\ s[2] \in Int /\ o[1] \in Int /\ o[2] \in Int
        /\ p[1] \in Int /\ p[2] \in Int /\ d.pos[c][1] \in Int /\ d.pos[c][2] \in Int
    BY <1>2, PointFacts
  <1>8. SizeOf[c][1] \in Nat /\ SizeOf[c][2] \in Nat
    BY <1>1, SizeFacts
  <1>9. p \in Body(d, c) <=> /\ t[1] <= p[1] /\ p[1] < t[1] + SizeOf[c][1]
                             /\ t[2] <= p[2] /\ p[2] < t[2] + SizeOf[c][2]
    BY <1>1, <1>2, BodyIs
  <1> HIDE DEF s, t, o, r, m
  <1>10. HasPoint(r, m) <=> /\ t[1] <= p[1] /\ p[1] < t[1] + SizeOf[c][1]
                            /\ t[2] <= p[2] /\ p[2] < t[2] + SizeOf[c][2]
    BY <1>4, <1>5, <1>6, <1>7, <1>8 DEF HasPoint
  <1> QED  BY <1>9, <1>10 DEF s, o, r, m

-----------------------------------------------------------------------------
(* The order of the children of a widget.                                  *)

(* The list of children, each once.                                        *)
LEMMA ChildList ==
  ASSUME NEW d \in Desks, NEW w \in Widgets
  PROVE  /\ d.kids[w] \in Seq(Widgets) /\ DOMAIN d.kids[w] = 1 .. Len(d.kids[w])
         /\ Len(d.kids[w]) \in Nat /\ Len(d.kids[w]) = Len(InitKids[w])
         /\ \A i \in 1 .. Len(d.kids[w]) : d.kids[w][i] \in Children(w)
         /\ \A c \in Children(w) : \E i \in 1 .. Len(d.kids[w]) : d.kids[w][i] = c
         /\ \A i, j \in 1 .. Len(d.kids[w]) : d.kids[w][i] = d.kids[w][j] => i = j
  <1> DEFINE k == d.kids[w]
  <1>1. k \in Seq(Widgets) /\ IsInjective(k) /\ Range(k) = Children(w) /\ Len(k) = Len(InitKids[w])
    BY DeskFacts DEF IsTree
  <1> HIDE DEF k
  <1>2. DOMAIN k = 1 .. Len(k) /\ Len(k) \in Nat
    BY <1>1, LenProperties
  <1>3. \A i \in 1 .. Len(k) : k[i] \in Children(w)
    BY <1>1, <1>2 DEF Range
  <1>4. \A c \in Children(w) : \E i \in 1 .. Len(k) : k[i] = c
    BY <1>1, <1>2 DEF Range
  <1>5. \A i, j \in 1 .. Len(k) : k[i] = k[j] => i = j
    BY <1>1, <1>2 DEF IsInjective
  <1> QED  BY <1>1, <1>2, <1>3, <1>4, <1>5 DEF k

(* The place of a widget among its siblings.                               *)
LEMMA IndexFacts ==
  ASSUME NEW d \in Desks, NEW w \in Others
  PROVE  /\ IndexIn(d, w) \in 1 .. Len(d.kids[ParentOf[w]])
         /\ d.kids[ParentOf[w]][IndexIn(d, w)] = w
  <1>1. ParentOf[w] \in Widgets /\ w \in Children(ParentOf[w])
    BY TreeFacts
  <1>2. \E i \in DOMAIN d.kids[ParentOf[w]] : d.kids[ParentOf[w]][i] = w
    BY <1>1, ChildList
  <1>3. /\ IndexIn(d, w) \in DOMAIN d.kids[ParentOf[w]]
        /\ d.kids[ParentOf[w]][IndexIn(d, w)] = w
    BY <1>2 DEF IndexIn
  <1> QED  BY <1>1, <1>3, ChildList

(* What lies above a widget: its siblings behind it in the list.           *)
LEMMA AboveIs ==
  ASSUME NEW d \in Desks, NEW w \in Others
  PROVE  /\ \A v : v \in Above(d, w) <=> /\ v \in Children(ParentOf[w])
                                         /\ IndexIn(d, w) < IndexIn(d, v)
         /\ \A v : v \in Below(d, w) <=> /\ v \in Children(ParentOf[w])
                                         /\ IndexIn(d, v) < IndexIn(d, w)
         /\ \A v \in Children(ParentOf[w]) : IndexIn(d, v) = IndexIn(d, w) => v = w
  <1> DEFINE k == d.kids[ParentOf[w]]
             n == Len(k)
             i == IndexIn(d, w)
  <1>1. ParentOf[w] \in Widgets
    BY TreeFacts
  <1>2. /\ n \in Nat
        /\ \A j \in 1 .. n : k[j] \in Children(ParentOf[w])
        /\ \A j, l \in 1 .. n : k[j] = k[l] => j = l
    BY <1>1, ChildList
  <1>3. i \in 1 .. n /\ k[i] = w
    BY IndexFacts
  <1>4. ASSUME NEW v \in Children(ParentOf[w])
        PROVE  IndexIn(d, v) \in 1 .. n /\ k[IndexIn(d, v)] = v
    BY IndexFacts DEF Children
  <1>5. Above(d, w) = {k[j] : j \in i + 1 .. n} /\ Below(d, w) = {k[j] : j \in 1 .. i - 1}
    BY DEF Above, Below
  <1> HIDE DEF k, n, i
  <1>6. ASSUME NEW v PROVE v \in Above(d, w) <=> v \in Children(ParentOf[w]) /\ i < IndexIn(d, v)
    <2>1. ASSUME v \in Above(d, w) PROVE v \in Children(ParentOf[w]) /\ i < IndexIn(d, v)
      <3>1. PICK j \in i + 1 .. n : v = k[j]
        BY <1>5, <2>1
      <3>2. j \in 1 .. n /\ i < j
        BY <1>2, <1>3
      <3>3. v \in Children(ParentOf[w])
        BY <1>2, <3>1, <3>2
      <3>4. IndexIn(d, v) = j
        BY <1>2, <1>4, <3>1, <3>2, <3>3
      <3> QED  BY <3>2, <3>3, <3>4
    <2>2. ASSUME v \in Children(ParentOf[w]), i < IndexIn(d, v) PROVE v \in Above(d, w)
      <3>1. IndexIn(d, v) \in i + 1 .. n /\ k[IndexIn(d, v)] = v
        BY <1>2, <1>3, <1>4, <2>2
      <3> QED  BY <1>5, <3>1
    <2> QED  BY <2>1, <2>2
  <1>7. ASSUME NEW v PROVE v \in Below(d, w) <=> v \in Children(ParentOf[w]) /\ IndexIn(d, v) < i
    <2>1. ASSUME v \in Below(d, w) PROVE v \in Children(ParentOf[w]) /\ IndexIn(d, v) < i
      <3>1. PICK j \in 1 .. i - 1 : v = k[j]
        BY <1>5, <2>1
      <3>2. j \in 1 .. n /\ j < i
        BY <1>2, <1>3
      <3>3. v \in Children(ParentOf[w])
        BY <1>2, <3>1, <3>2
      <3>4. IndexIn(d, v) = j
        BY <1>2, <1>4, <3>1, <3>2, <3>3
      <3> QED  BY <3>2, <3>3, <3>4
    <2>2. ASSUME v \in Children(ParentOf[w]), IndexIn(d, v) < i PROVE v \in Below(d, w)
      <3>1. IndexIn(d, v) \in 1 .. i - 1 /\ k[IndexIn(d, v)] = v
        BY <1>2, <1>3, <1>4, <2>2
      <3> QED  BY <1>5, <3>1
    <2> QED  BY <2>1, <2>2
  <1>8. ASSUME NEW v \in Children(ParentOf[w]), IndexIn(d, v) = i PROVE v = w
    BY <1>3, <1>4, <1>8
  <1> QED  BY <1>6, <1>7, <1>8 DEF i

(* Of two siblings one is above the other.                                 *)
LEMMA AboveFacts ==
  ASSUME NEW d \in Desks, NEW w \in Others
  PROVE  /\ Above(d, w) \subseteq Children(ParentOf[w]) /\ w \notin Above(d, w)
         /\ \A v \in Children(ParentOf[w]) : v = w \/ v \in Above(d, w) \/ w \in Above(d, v)
         /\ \A v \in Children(ParentOf[w]) : v \in Below(d, w) <=> w \in Above(d, v)
         /\ \A v \in Above(d, w) : Above(d, v) \subseteq Above(d, w)
         /\ \A v \in Above(d, w) : w \notin Above(d, v)
  <1>1. w \in Children(ParentOf[w])
    BY TreeFacts
  <1>2. ASSUME NEW v \in Children(ParentOf[w])
        PROVE  /\ v \in Others /\ ParentOf[v] = ParentOf[w]
               /\ IndexIn(d, v) \in Int /\ IndexIn(d, w) \in Int
    <2>1. v \in Others /\ ParentOf[v] = ParentOf[w] /\ ParentOf[w] \in Widgets
      BY TreeFacts DEF Children
    <2>2. Len(d.kids[ParentOf[w]]) \in Nat
      BY <2>1, ChildList
    <2>3. IndexIn(d, v) \in 1 .. Len(d.kids[ParentOf[w]]) /\ IndexIn(d, w) \in 1 .. Len(d.kids[ParentOf[w]])
      BY <2>1, IndexFacts
    <2> QED  BY <2>1, <2>2, <2>3
  <1>3. Above(d, w) \subseteq Children(ParentOf[w]) /\ w \notin Above(d, w)
    BY <1>1, <1>2, AboveIs
  <1>4. ASSUME NEW v \in Children(ParentOf[w])
        PROVE  v = w \/ v \in Above(d, w) \/ w \in Above(d, v)
    <2>1. v \in Others /\ w \in Children(ParentOf[v])
      BY <1>1, <1>2
    <2>2. v \in Above(d, w) <=> IndexIn(d, w) < IndexIn(d, v)
      BY AboveIs
    <2>3. w \in Above(d, v) <=> IndexIn(d, v) < IndexIn(d, w)
      BY <2>1, AboveIs
    <2>4. IndexIn(d, v) = IndexIn(d, w) => v = w
      BY AboveIs
    <2> QED  BY <1>2, <2>2, <2>3, <2>4
  <1>5. ASSUME NEW v \in Children(ParentOf[w])
        PROVE  v \in Below(d, w) <=> w \in Above(d, v)
    <2>1. v \in Others /\ w \in Children(ParentOf[v])
      BY <1>1, <1>2
    <2>2. v \in Below(d, w) <=> IndexIn(d, v) < IndexIn(d, w)
      BY AboveIs
    <2>3. w \in Above(d, v) <=> IndexIn(d, v) < IndexIn(d, w)
      BY <2>1, AboveIs
    <2> QED  BY <2>2, <2>3
  <1>6. ASSUME NEW v \in Above(d, w), NEW u \in Above(d, v) PROVE u \in Above(d, w)
    <2>1. v \in Children(ParentOf[w]) /\ v \in Others /\ ParentOf[v] = ParentOf[w]
      BY <1>2, <1>3
    <2>2. u \in Children(ParentOf[w]) /\ IndexIn(d, v) < IndexIn(d, u)
      BY <2>1, AboveIs
    <2>3. IndexIn(d, w) < IndexIn(d, v)
      BY AboveIs
    <2>4. IndexIn(d, v) \in Int /\ IndexIn(d, w) \in Int /\ IndexIn(d, u) \in Int
      BY <1>2, <2>1, <2>2
    <2>5. IndexIn(d, w) < IndexIn(d, u)
      BY <2>2, <2>3, <2>4
    <2> QED  BY <2>2, <2>5, AboveIs
  <1>7. ASSUME NEW v \in Above(d, w) PROVE w \notin Above(d, v)
    <2>1. v \in Children(ParentOf[w]) /\ v \in Others /\ ParentOf[v] = ParentOf[w]
      BY <1>2, <1>3
    <2>2. IndexIn(d, w) < IndexIn(d, v)
      BY AboveIs
    <2>3. w \in Above(d, v) => IndexIn(d, v) < IndexIn(d, w)
      BY <2>1, AboveIs
    <2> QED  BY <1>2, <2>1, <2>2, <2>3
  <1> QED  BY <1>3, <1>4, <1>5, <1>6, <1>7

(* What the mouse hits: the topmost child that the point is in. *)
Hit(d, w, p) == HitChild(d, w, Minus(p, ScreenPos(d, w)))

(* The child that is hit: the last of those that have the pixel.           *)
LEMMA HitIs ==
  ASSUME NEW d \in Desks, NEW w \in Widgets, NEW p \in Points
  PROVE  /\ Hit(d, w, p) \in Children(w) \cup {Nobody}
         /\ Hit(d, w, p) = Nobody =>
              p \notin Inner(d, w) \/ \A c \in Children(w) : p \notin Body(d, c)
         /\ Hit(d, w, p) # Nobody =>
              /\ p \in Inner(d, w) /\ p \in Body(d, Hit(d, w, p))
              /\ \A c \in Above(d, Hit(d, w, p)) : p \notin Body(d, c)
  <1> DEFINE point == Minus(p, ScreenPos(d, w))
             below == Minus(point, ClientOffset(w))
             k == d.kids[w]
             n == Len(k)
             under == {i \in DOMAIN k : HasPoint(RectOf(d, k[i]), below)}
             top == CHOOSE i \in under : \A j \in under : j <= i
  <1>1. Hit(d, w, p) = IF HasPoint(RelativeClientRect(w), point) /\ under # {} THEN k[top] ELSE Nobody
    BY DEF Hit, HitChild
  <1>2. HasPoint(RelativeClientRect(w), point) <=> p \in Inner(d, w)
    BY ClientHasPoint
  <1>3. /\ n \in Nat /\ DOMAIN k = 1 .. n
        /\ \A i \in 1 .. n : k[i] \in Children(w)
        /\ \A c \in Children(w) : \E i \in 1 .. n : k[i] = c
        /\ \A i, j \in 1 .. n : k[i] = k[j] => i = j
    BY ChildList
  <1>4. under = {i \in 1 .. n : p \in Body(d, k[i])}
    <2>1. \A i \in 1 .. n : HasPoint(RectOf(d, k[i]), below) <=> p \in Body(d, k[i])
      BY <1>3, ChildHasPoint
    <2> QED  BY <1>3, <2>1
  <1>5. ASSUME under # {} PROVE top \in under /\ \A j \in under : j <= top
    <2>1. \E i \in under : \A j \in under : j <= i
      <3> DEFINE S == {n - i : i \in under}
      <3> HIDE DEF n
      <3>0. under \subseteq 1 .. n /\ \A i \in 1 .. n : i \in Int /\ n - i \in Nat
        BY <1>3, <1>4
      <3> HIDE DEF under
      <3>1. S \subseteq Nat /\ S # {}
        BY <1>5, <3>0
      <3>2. PICK m \in S : \A l \in S : m <= l
        BY <3>1, LeastElement
      <3>3. PICK i \in under : m = n - i
        BY <3>2
      <3>4. \A j \in under : n - i <= n - j
        BY <3>2, <3>3
      <3>5. \A j \in under : j <= i
        <4>1. ASSUME NEW j \in under PROVE j <= i
          <5>1. n - i <= n - j /\ i \in Int /\ j \in Int /\ n \in Int
            BY <1>3, <3>0, <3>4
          <5> QED  BY <5>1
        <4> QED  BY <4>1
      <3> QED  BY <3>5
    <2> QED  BY <2>1
  <1> HIDE DEF under, top, k, n, point
  <1>6. CASE p \in Inner(d, w) /\ under # {}
    <2>1. Hit(d, w, p) = k[top] /\ top \in 1 .. n /\ p \in Body(d, k[top]) /\ k[top] \in Children(w)
      BY <1>1, <1>2, <1>3, <1>4, <1>5, <1>6
    <2>2. k[top] # Nobody /\ k[top] \in Others /\ ParentOf[k[top]] = w
      BY <2>1, TreeFacts DEF Children
    <2>3. ASSUME NEW c \in Above(d, k[top]), p \in Body(d, c) PROVE FALSE
      <3>1. c \in Children(w) /\ IndexIn(d, k[top]) < IndexIn(d, c)
        BY <2>2, <2>3, AboveIs
      <3>2. IndexIn(d, k[top]) \in 1 .. n /\ k[IndexIn(d, k[top])] = k[top]
        BY <2>2, IndexFacts DEF k, n
      <3>3. IndexIn(d, k[top]) = top
        BY <1>3, <2>1, <3>2
      <3>4. c \in Others /\ ParentOf[c] = w
        BY <3>1 DEF Children
      <3>5. IndexIn(d, c) \in 1 .. n /\ k[IndexIn(d, c)] = c
        BY <3>4, IndexFacts DEF k, n
      <3>6. IndexIn(d, c) \in under
        BY <1>4, <2>3, <3>5
      <3>7. IndexIn(d, c) <= top
        BY <1>5, <1>6, <3>6
      <3> QED  BY <1>3, <2>1, <3>1, <3>3, <3>5, <3>7
    <2> QED  BY <1>6, <2>1, <2>2, <2>3
  <1>7. CASE ~(p \in Inner(d, w) /\ under # {})
    <2>1. Hit(d, w, p) = Nobody
      BY <1>1, <1>2, <1>7
    <2>2. ASSUME p \in Inner(d, w), NEW c \in Children(w) PROVE p \notin Body(d, c)
      <3>1. PICK i \in 1 .. n : k[i] = c
        BY <1>3
      <3> QED  BY <1>4, <1>7, <2>2, <3>1
    <2> QED  BY <2>1, <2>2
  <1> QED  BY <1>6, <1>7

-----------------------------------------------------------------------------
(* Where a widget can be seen, and what of that it paints itself.          *)

Reach(d, w) == ClipBounds(d, w, Screen)
Own(d, w) == Reach(d, w) \ (Inner(d, w) \cap PixelsOfAll(d, Children(w)))

(* The pixels of a set of widgets.                                         *)
LEMMA PixelsOfAllIs ==
  ASSUME NEW d, NEW ws, NEW p
  PROVE  p \in PixelsOfAll(d, ws) <=> \E w \in ws : p \in Body(d, w)
  BY DEF PixelsOfAll, Body

(* clip_bounds from that of the parent.                                    *)
LEMMA ClipBoundsRecursion ==
  ASSUME NEW d \in Desks, NEW area
  PROVE  \E inside :
           /\ inside[Root] = area \cap Inner(d, Root)
           /\ \A v \in Others :
                inside[v] = (inside[ParentOf[v]] \cap Inner(d, v)) \ PixelsOfAll(d, Above(d, v))
           /\ ClipBounds(d, Root, area) = area \cap Body(d, Root)
           /\ \A v \in Others :
                ClipBounds(d, v, area) =
                  (inside[ParentOf[v]] \cap Body(d, v)) \ PixelsOfAll(d, Above(d, v))
  <1> DEFINE Step(f, v) == IF v = Root THEN area \cap Inner(d, Root)
                           ELSE (f[ParentOf[v]] \cap Inner(d, v)) \ PixelsOfAll(d, Above(d, v))
             Defined(f) == f = [v \in Widgets |-> Step(f, v)]
             inside == CHOOSE f : Defined(f)
             F == [f \in [Widgets -> SUBSET area] |-> [v \in Widgets |-> Step(f, v)]]
  <1>1. \A w : ClipBounds(d, w, area) =
                 IF w = Root THEN area \cap Body(d, Root)
                 ELSE (inside[ParentOf[w]] \cap Body(d, w)) \ PixelsOfAll(d, Above(d, w))
    BY Zenon DEF ClipBounds, Body, Inner
  <1>2. ASSUME NEW f \in [Widgets -> SUBSET area], NEW v \in Widgets
        PROVE  Step(f, v) \in SUBSET area
    <2>1. CASE v = Root
      BY <2>1
    <2>2. CASE v # Root
      <3>1. ParentOf[v] \in Widgets
        BY <2>2, TreeFacts
      <3>2. f[ParentOf[v]] \in SUBSET area
        BY <3>1
      <3> QED  BY <2>2, <3>2
    <2> QED  BY <2>1, <2>2
  <1>3. ASSUME NEW f \in [Widgets -> SUBSET area], NEW g \in [Widgets -> SUBSET area],
               NEW w \in Widgets, \A v \in ParentBefore[w] : f[v] = g[v]
        PROVE  Step(f, w) = Step(g, w)
    <2>1. w # Root => f[ParentOf[w]] = g[ParentOf[w]]
      BY <1>3 DEF ParentBefore
    <2> QED  BY <2>1
  <1> HIDE DEF Step
  <1>4. Local(Widgets, SUBSET area, ParentBefore, F)
    BY <1>2, <1>3 DEF Local
  <1>5. {} \in SUBSET area
    OBVIOUS
  <1>6. \E f : Defined(f)
    <2>1. \E f \in [Widgets -> SUBSET area] : f = F[f]
      <3> HIDE DEF F
      <3> QED  BY <1>4, <1>5, ParentFounded, Recursion
    <2>2. PICK f \in [Widgets -> SUBSET area] : f = F[f]
      BY <2>1, Zenon
    <2>3. Defined(f)
      BY <2>2
    <2> QED  BY <2>3, Zenon
  <1>7. Defined(inside)
    BY <1>6, Zenon
  <1> HIDE DEF inside
  <1>8. \A v \in Widgets : inside[v] = Step(inside, v)
    BY <1>7
  <1>9. inside[Root] = area \cap Inner(d, Root)
    BY <1>8, TreeFacts DEF Step
  <1>10. \A v \in Others : inside[v] = (inside[ParentOf[v]] \cap Inner(d, v))
                                         \ PixelsOfAll(d, Above(d, v))
    BY <1>8, TreeFacts DEF Step
  <1>11. ClipBounds(d, Root, area) = area \cap Body(d, Root)
    BY <1>1
  <1>12. \A v \in Others : ClipBounds(d, v, area) =
            (inside[ParentOf[v]] \cap Body(d, v)) \ PixelsOfAll(d, Above(d, v))
    BY <1>1, TreeFacts
  <1> QED  BY <1>9, <1>10, <1>11, <1>12, Zenon

(* What is clipped to is a part of the dirty pixels that the widget alone  *)
(* decides, within its parent's.                                           *)
LEMMA ClipBoundsIs ==
  ASSUME NEW d \in Desks, NEW area
  PROVE  /\ ClipBounds(d, Root, area) = area \cap Screen
         /\ \A v \in Others : ClipBounds(d, v, area) =
              ((ClipBounds(d, ParentOf[v], area) \cap Inner(d, ParentOf[v])) \cap Body(d, v))
                \ PixelsOfAll(d, Above(d, v))
  <1>1. PICK inside :
           /\ inside[Root] = area \cap Inner(d, Root)
           /\ \A v \in Others :
                inside[v] = (inside[ParentOf[v]] \cap Inner(d, v)) \ PixelsOfAll(d, Above(d, v))
           /\ ClipBounds(d, Root, area) = area \cap Body(d, Root)
           /\ \A v \in Others :
                ClipBounds(d, v, area) =
                  (inside[ParentOf[v]] \cap Body(d, v)) \ PixelsOfAll(d, Above(d, v))
    BY ClipBoundsRecursion
  <1>2. /\ Body(d, Root) = Screen /\ Inner(d, Root) = Screen
        /\ \A w \in Widgets : Inner(d, w) \subseteq Body(d, w)
    BY AreaFacts
  <1>3. inside[Root] = ClipBounds(d, Root, area) \cap Inner(d, Root)
    BY <1>1, <1>2
  <1>4. ASSUME NEW v \in Others PROVE inside[v] = ClipBounds(d, v, area) \cap Inner(d, v)
    <2>1. Inner(d, v) \subseteq Body(d, v)
      BY <1>2, TreeFacts
    <2>2. /\ inside[v] = (inside[ParentOf[v]] \cap Inner(d, v)) \ PixelsOfAll(d, Above(d, v))
          /\ ClipBounds(d, v, area) =
               (inside[ParentOf[v]] \cap Body(d, v)) \ PixelsOfAll(d, Above(d, v))
      BY <1>1
    <2> QED  BY <2>1, <2>2
  <1>5. \A v \in Others : inside[ParentOf[v]] =
                            ClipBounds(d, ParentOf[v], area) \cap Inner(d, ParentOf[v])
    <2> SUFFICES ASSUME NEW v \in Others
                 PROVE  inside[ParentOf[v]] =
                            ClipBounds(d, ParentOf[v], area) \cap Inner(d, ParentOf[v])
      OBVIOUS
    <2>1. ParentOf[v] = Root \/ ParentOf[v] \in Others
      BY TreeFacts
    <2> QED  BY <1>3, <1>4, <2>1
  <1>6. ASSUME NEW v \in Others
        PROVE  ClipBounds(d, v, area) =
              ((ClipBounds(d, ParentOf[v], area) \cap Inner(d, ParentOf[v])) \cap Body(d, v))
                \ PixelsOfAll(d, Above(d, v))
    BY <1>1, <1>5
  <1> QED  BY <1>1, <1>2, <1>6

(* What can be seen of a widget from what can be seen of its parent.       *)
LEMMA ReachIs ==
  ASSUME NEW d \in Desks
  PROVE  /\ Reach(d, Root) = Screen
         /\ \A w \in Others : \A p :
              p \in Reach(d, w) <=>
                /\ p \in Reach(d, ParentOf[w]) /\ p \in Inner(d, ParentOf[w]) /\ p \in Body(d, w)
                /\ \A v \in Above(d, w) : p \notin Body(d, v)
         /\ \A w \in Widgets : Reach(d, w) \subseteq Screen /\ Reach(d, w) \subseteq Body(d, w)
  <1>1. Reach(d, Root) = Screen
    BY ClipBoundsIs DEF Reach
  <1>2. ASSUME NEW w \in Others, NEW p
        PROVE  p \in Reach(d, w) <=>
                /\ p \in Reach(d, ParentOf[w]) /\ p \in Inner(d, ParentOf[w]) /\ p \in Body(d, w)
                /\ \A v \in Above(d, w) : p \notin Body(d, v)
    <2>1. Reach(d, w) = ((Reach(d, ParentOf[w]) \cap Inner(d, ParentOf[w])) \cap Body(d, w))
                          \ PixelsOfAll(d, Above(d, w))
      BY ClipBoundsIs DEF Reach
    <2>2. p \in PixelsOfAll(d, Above(d, w)) <=> \E v \in Above(d, w) : p \in Body(d, v)
      BY PixelsOfAllIs
    <2> QED  BY <2>1, <2>2
  <1>3. \A w \in Widgets : Reach(d, w) \subseteq Screen
    <2> DEFINE S == {w \in Widgets : Reach(d, w) \subseteq Screen}
    <2>1. Root \in S
      BY <1>1, TreeFacts
    <2>2. \A w \in Others : ParentOf[w] \in S => w \in S
      BY <1>2, TreeFacts
    <2> HIDE DEF S
    <2>3. \A w \in Widgets : w \in S
      BY <2>1, <2>2, TopDown
    <2> QED  BY <2>3 DEF S
  <1>4. \A w \in Widgets : Reach(d, w) \subseteq Body(d, w)
    <2> SUFFICES ASSUME NEW w \in Widgets PROVE Reach(d, w) \subseteq Body(d, w)
      OBVIOUS
    <2>1. CASE w = Root
      BY <1>1, <2>1, AreaFacts
    <2>2. CASE w \in Others
      BY <1>2, <2>2
    <2> QED  BY <2>1, <2>2, TreeFacts
  <1> QED  BY <1>1, <1>2, <1>3, <1>4

(* clip_bounds is the dirty part of what can be seen.                      *)
LEMMA ClipBoundsByReach ==
  ASSUME NEW d \in Desks, NEW w \in Widgets, NEW area
  PROVE  ClipBounds(d, w, area) = area \cap Reach(d, w)
  <1> DEFINE S == {v \in Widgets : ClipBounds(d, v, area) = area \cap Reach(d, v)}
  <1>1. Root \in S
    BY ClipBoundsIs, ReachIs, TreeFacts
  <1>2. ASSUME NEW v \in Others, ParentOf[v] \in S PROVE v \in S
    <2>1. ClipBounds(d, ParentOf[v], area) = area \cap Reach(d, ParentOf[v])
      BY <1>2
    <2>2. ClipBounds(d, v, area) =
              ((ClipBounds(d, ParentOf[v], area) \cap Inner(d, ParentOf[v])) \cap Body(d, v))
                \ PixelsOfAll(d, Above(d, v))
      BY ClipBoundsIs
    <2>3. Reach(d, v) = ((Reach(d, ParentOf[v]) \cap Inner(d, ParentOf[v])) \cap Body(d, v))
                          \ PixelsOfAll(d, Above(d, v))
      BY ClipBoundsIs DEF Reach
    <2>4. ClipBounds(d, v, area) = area \cap Reach(d, v)
      BY <2>1, <2>2, <2>3
    <2> QED  BY <2>4, TreeFacts
  <1> HIDE DEF S
  <1>3. \A v \in Widgets : v \in S
    BY <1>1, <1>2, TopDown
  <1> QED  BY <1>3 DEF S

(* The pixels a widget paints when it paints alone.                        *)
LEMMA OwnIs ==
  ASSUME NEW d \in Desks, NEW w \in Widgets, NEW p
  PROVE  p \in Own(d, w) <=>
           /\ p \in Reach(d, w)
           /\ p \notin Inner(d, w) \/ \A c \in Children(w) : p \notin Body(d, c)
  BY PixelsOfAllIs DEF Own

-----------------------------------------------------------------------------
(* Ways down the tree.                                                     *)

Leads(child) ==
  child \in [Widgets -> Widgets \cup {Nobody}] /\ \A w \in Widgets : child[w] \in Children(w) \cup {Nobody}

InFront(w, s) == <<w>> \o s

IsPath(child, s, w) ==
  /\ s \in Seq(Widgets) /\ Len(s) >= 1 /\ s[1] = w
  /\ \A i \in 1 .. Len(s) - 1 : child[s[i]] # Nobody /\ s[i + 1] = child[s[i]]
  /\ child[s[Len(s)]] = Nobody

(* A path of one widget.                                                   *)
LEMMA PathOne ==
  ASSUME NEW child, NEW w \in Widgets, child[w] = Nobody
  PROVE  IsPath(child, <<w>>, w)
  <1>1. <<w>> \in Seq(Widgets) /\ Len(<<w>>) = 1 /\ <<w>>[1] = w
    OBVIOUS
  <1> DEFINE s == <<w>>
  <1> HIDE DEF s
  <1> QED  BY <1>1 DEF IsPath, s

(* A path with one more widget before it.                                  *)
LEMMA InFrontIs ==
  ASSUME NEW S, NEW w \in S, NEW s \in Seq(S)
  PROVE  /\ InFront(w, s) \in Seq(S) /\ Len(InFront(w, s)) = Len(s) + 1 /\ InFront(w, s)[1] = w
         /\ \A i \in 1 .. Len(s) : InFront(w, s)[i + 1] = s[i]
  BY DEF InFront

(* A path that goes on to a child.                                         *)
LEMMA PathMore ==
  ASSUME NEW child, NEW w \in Widgets, child[w] # Nobody, NEW s, IsPath(child, s, child[w])
  PROVE  IsPath(child, InFront(w, s), w)
  <1> DEFINE t == InFront(w, s)
             n == Len(s)
  <1>1. /\ s \in Seq(Widgets) /\ n >= 1 /\ s[1] = child[w] /\ child[s[n]] = Nobody /\ n \in Nat
        /\ \A i \in 1 .. n - 1 : child[s[i]] # Nobody /\ s[i + 1] = child[s[i]]
    BY LenProperties DEF IsPath
  <1>2. t \in Seq(Widgets) /\ Len(t) = n + 1 /\ t[1] = w /\ \A i \in 1 .. n : t[i + 1] = s[i]
    BY <1>1, InFrontIs
  <1> HIDE DEF t, n
  <1>3. ASSUME NEW i \in 1 .. n PROVE child[t[i]] # Nobody /\ t[i + 1] = child[t[i]]
    <2>1. CASE i = 1
      BY <1>1, <1>2, <2>1
    <2>2. CASE i # 1
      <3>1. i - 1 \in 1 .. n - 1 /\ i - 1 \in 1 .. n /\ (i - 1) + 1 = i
        BY <1>1, <2>2
      <3>2. t[i] = s[i - 1] /\ t[i + 1] = s[i]
        BY <1>2, <3>1
      <3>3. child[s[i - 1]] # Nobody /\ s[i] = child[s[i - 1]]
        BY <1>1, <3>1
      <3> QED  BY <3>2, <3>3
    <2> QED  BY <2>1, <2>2
  <1>4. t[Len(t)] = s[n]
    BY <1>1, <1>2
  <1>5. Len(t) - 1 = n /\ Len(t) >= 1
    BY <1>1, <1>2
  <1> QED  BY <1>1, <1>2, <1>3, <1>4, <1>5 DEF IsPath, t

(* PathOf from the paths of the children.                                  *)
LEMMA PathRecursion ==
  ASSUME NEW child, Leads(child)
  PROVE  \E path : /\ PathOf(child) = path[Root]
                   /\ \A w \in Widgets : path[w] = IF child[w] = Nobody THEN <<w>>
                                                   ELSE InFront(w, path[child[w]])
  <1> DEFINE Step(f, w) == IF child[w] = Nobody THEN <<w>> ELSE <<w>> \o f[child[w]]
             Defined(f) == f = [w \in Widgets |-> Step(f, w)]
             path == CHOOSE f : Defined(f)
             T == Seq(Widgets)
             F == [f \in [Widgets -> T] |-> [w \in Widgets |-> Step(f, w)]]
  <1>1. PathOf(child) = path[Root]
    BY Zenon DEF PathOf
  <1>2. ASSUME NEW f \in [Widgets -> T], NEW w \in Widgets PROVE Step(f, w) \in T
    <2>1. CASE child[w] = Nobody
      BY <2>1
    <2>2. CASE child[w] # Nobody
      <3>1. child[w] \in Widgets
        BY <2>2 DEF Leads
      <3>2. f[child[w]] \in Seq(Widgets)
        BY <3>1
      <3>3. InFront(w, f[child[w]]) \in Seq(Widgets)
        BY <3>2, InFrontIs
      <3> QED  BY <2>2, <3>3 DEF InFront
    <2> QED  BY <2>1, <2>2
  <1>3. ASSUME NEW f \in [Widgets -> T], NEW g \in [Widgets -> T], NEW w \in Widgets,
               \A v \in ChildrenBefore[w] : f[v] = g[v]
        PROVE  Step(f, w) = Step(g, w)
    <2>1. child[w] # Nobody => child[w] \in ChildrenBefore[w]
      BY DEF Leads, ChildrenBefore
    <2> QED  BY <1>3, <2>1
  <1> HIDE DEF Step, T
  <1>4. Local(Widgets, T, ChildrenBefore, F)
    BY <1>2, <1>3 DEF Local
  <1>5. <<>> \in T
    BY DEF T
  <1>6. \E f : Defined(f)
    <2>1. \E f \in [Widgets -> T] : f = F[f]
      <3> HIDE DEF F
      <3> QED  BY <1>4, <1>5, ChildrenFounded, Recursion
    <2>2. PICK f \in [Widgets -> T] : f = F[f]
      BY <2>1, Zenon
    <2>3. Defined(f)
      BY <2>2
    <2> QED  BY <2>3, Zenon
  <1>7. Defined(path)
    BY <1>6, Zenon
  <1> HIDE DEF path
  <1>8. \A w \in Widgets : path[w] = Step(path, w)
    BY <1>7
  <1>9. \A w \in Widgets : path[w] = IF child[w] = Nobody THEN <<w>> ELSE InFront(w, path[child[w]])
    BY <1>8 DEF Step, InFront
  <1> QED  BY <1>1, <1>9, Zenon

(* A path begins at the window manager and goes from each widget to the    *)
(* next.                                                                   *)
LEMMA PathIs ==
  ASSUME NEW child, Leads(child)
  PROVE  IsPath(child, PathOf(child), Root)
  <1>1. PICK path : /\ PathOf(child) = path[Root]
                    /\ \A w \in Widgets : path[w] = IF child[w] = Nobody THEN <<w>>
                                                    ELSE InFront(w, path[child[w]])
    BY PathRecursion
  <1> DEFINE S == {w \in Widgets : IsPath(child, path[w], w)}
  <1>2. ASSUME NEW w \in Widgets, Children(w) \subseteq S PROVE w \in S
    <2>1. CASE child[w] = Nobody
      BY <1>1, <2>1, PathOne
    <2>2. CASE child[w] # Nobody
      <3>1. child[w] \in S
        BY <1>2, <2>2 DEF Leads
      <3>2. IsPath(child, path[child[w]], child[w])
        BY <3>1
      <3>3. IsPath(child, InFront(w, path[child[w]]), w)
        BY <2>2, <3>2, PathMore
      <3> QED  BY <1>1, <2>2, <3>3
    <2> QED  BY <2>1, <2>2
  <1> HIDE DEF S
  <1>3. \A w \in Widgets : w \in S
    BY <1>2, BottomUp
  <1> QED  BY <1>1, <1>3, TreeFacts DEF S

(* The widgets on the way: the window manager, and who is led to from one. *)
On(child) == Range(PathOf(child))

(* Who is on a path: the window manager, and whom a parent on it leads to. *)
LEMMA OnPath ==
  ASSUME NEW child, Leads(child)
  PROVE  /\ Root \in On(child) /\ EndOf(child) \in On(child) /\ On(child) \subseteq Widgets
         /\ child[EndOf(child)] = Nobody
         /\ \A w \in Others : w \in On(child) <=> /\ ParentOf[w] \in On(child)
                                                  /\ child[ParentOf[w]] = w
         /\ \A w \in On(child) : child[w] = Nobody => w = EndOf(child)
         /\ \A w \in On(child) : child[w] # Nobody => child[w] \in On(child)
  <1> DEFINE s == PathOf(child)
             n == Len(s)
  <1>1. /\ s \in Seq(Widgets) /\ n \in Nat /\ n >= 1 /\ s[1] = Root
        /\ \A i \in 1 .. n - 1 : child[s[i]] # Nobody /\ s[i + 1] = child[s[i]]
        /\ child[s[n]] = Nobody
    BY PathIs, LenProperties DEF IsPath
  <1>2. On(child) = {s[i] : i \in 1 .. n}
    BY <1>1, LenProperties DEF On, Range
  <1>3. EndOf(child) = s[n]
    BY DEF EndOf, Last
  <1>4. \A i \in 1 .. n : s[i] \in Widgets
    BY <1>1, ElementOfSeq
  <1> HIDE DEF s, n
  <1>5. \A w \in Widgets : child[w] \in Children(w) \cup {Nobody}
    BY DEF Leads
  <1>6. Root \in On(child) /\ EndOf(child) \in On(child) /\ On(child) \subseteq Widgets
        /\ child[EndOf(child)] = Nobody
    BY <1>1, <1>2, <1>3, <1>4
  <1>7. ASSUME NEW w \in On(child), child[w] # Nobody PROVE child[w] \in On(child)
    <2>1. PICK i \in 1 .. n : w = s[i]
      BY <1>2
    <2>2. i \in 1 .. n - 1 /\ i + 1 \in 1 .. n
      BY <1>1, <1>7, <2>1
    <2> QED  BY <1>1, <1>2, <2>1, <2>2
  <1>8. ASSUME NEW w \in On(child), child[w] = Nobody PROVE w = EndOf(child)
    <2>1. PICK i \in 1 .. n : w = s[i]
      BY <1>2
    <2>2. i = n
      BY <1>1, <1>8, <2>1
    <2> QED  BY <1>3, <2>1, <2>2
  <1>9. ASSUME NEW w \in Others, w \in On(child)
        PROVE  ParentOf[w] \in On(child) /\ child[ParentOf[w]] = w
    <2>1. PICK i \in 1 .. n : w = s[i]
      BY <1>2, <1>9
    <2>2. i # 1
      BY <1>1, <2>1, TreeFacts
    <2>3. i - 1 \in 1 .. n - 1 /\ i - 1 \in 1 .. n /\ (i - 1) + 1 = i
      BY <1>1, <2>2
    <2>4. child[s[i - 1]] # Nobody /\ w = child[s[i - 1]] /\ s[i - 1] \in Widgets
      BY <1>1, <1>4, <2>1, <2>3
    <2>5. w \in Children(s[i - 1])
      BY <1>5, <2>4
    <2>6. ParentOf[w] = s[i - 1]
      BY <2>5 DEF Children
    <2> QED  BY <1>2, <2>3, <2>4, <2>6
  <1>10. ASSUME NEW w \in Others, ParentOf[w] \in On(child), child[ParentOf[w]] = w
         PROVE  w \in On(child)
    BY <1>7, <1>10, TreeFacts
  <1> QED  BY <1>6, <1>7, <1>8, <1>9, <1>10

(* Two that lead alike along a path have the same one.                     *)
LEMMA SamePath ==
  ASSUME NEW f, NEW g, Leads(f), Leads(g), \A w \in On(f) : f[w] = g[w]
  PROVE  On(g) = On(f) /\ EndOf(g) = EndOf(f)
  <1> DEFINE S == {w \in Widgets : w \in On(f) <=> w \in On(g)}
  <1>1. Root \in S
    BY OnPath, TreeFacts
  <1>2. ASSUME NEW w \in Others, ParentOf[w] \in S PROVE w \in S
    <2>1. w \in On(f) <=> ParentOf[w] \in On(f) /\ f[ParentOf[w]] = w
      BY OnPath
    <2>2. w \in On(g) <=> ParentOf[w] \in On(g) /\ g[ParentOf[w]] = w
      BY OnPath
    <2> QED  BY <1>2, <2>1, <2>2, TreeFacts
  <1> HIDE DEF S
  <1>3. \A w \in Widgets : w \in S
    BY <1>1, <1>2, TopDown
  <1>4. On(f) \subseteq Widgets /\ On(g) \subseteq Widgets
    BY OnPath
  <1>5. On(g) = On(f)
    BY <1>3, <1>4 DEF S
  <1>6. EndOf(f) \in On(g) /\ g[EndOf(f)] = Nobody
    BY <1>5, OnPath
  <1> QED  BY <1>5, <1>6, OnPath

-----------------------------------------------------------------------------
(* Each pixel is painted by one widget, the one that the mouse hits there. *)

Hits(d, p) == [w \in Widgets |-> Hit(d, w, p)]
Owner(d, p) == EndOf(Hits(d, p))

(* The hits of a pixel make a path.                                        *)
LEMMA HitsLead ==
  ASSUME NEW d \in Desks, NEW p \in Points
  PROVE  Leads(Hits(d, p))
  <1>1. ASSUME NEW w \in Widgets
        PROVE  Hit(d, w, p) \in Children(w) \cup {Nobody} /\ Children(w) \subseteq Widgets
    BY HitIs, TreeFacts
  <1> QED  BY <1>1 DEF Leads, Hits

(* Pixels are points.                                                      *)
LEMMA ScreenPoints == Screen \subseteq Points
  BY SizeFacts, TreeFacts DEF Screen, Pixels, Points, Rect, Left, Right, Top, Bottom

(* The way to what is hit goes through the widgets that can be seen to     *)
(* reach the pixel, children included.                                     *)
LEMMA HitInReach ==
  ASSUME NEW d \in Desks, NEW p \in Screen
  PROVE  \A w \in Widgets : w \in On(Hits(d, p)) <=> p \in Reach(d, w)
  <1> DEFINE S == {w \in Widgets : w \in On(Hits(d, p)) <=> p \in Reach(d, w)}
  <1>1. p \in Points /\ Leads(Hits(d, p))
    BY ScreenPoints, HitsLead
  <1>2. Root \in S
    BY <1>1, OnPath, ReachIs, TreeFacts
  <1>3. ASSUME NEW w \in Others, ParentOf[w] \in S PROVE w \in S
    <2> DEFINE u == ParentOf[w]
               h == Hit(d, u, p)
    <2>1. u \in Widgets /\ w \in Children(u) /\ w # Nobody /\ w \in Widgets
      BY TreeFacts
    <2>2. w \in On(Hits(d, p)) <=> u \in On(Hits(d, p)) /\ h = w
      <3>1. Hits(d, p)[u] = h
        BY <2>1 DEF Hits
      <3> QED  BY <1>1, <3>1, OnPath
    <2>3. p \in Reach(d, w) <=> /\ p \in Reach(d, u) /\ p \in Inner(d, u) /\ p \in Body(d, w)
                                /\ \A v \in Above(d, w) : p \notin Body(d, v)
      BY ReachIs
    <2>4. /\ h \in Children(u) \cup {Nobody}
          /\ h = Nobody => p \notin Inner(d, u) \/ \A c \in Children(u) : p \notin Body(d, c)
          /\ h # Nobody => /\ p \in Inner(d, u) /\ p \in Body(d, h)
                           /\ \A c \in Above(d, h) : p \notin Body(d, c)
      BY <1>1, <2>1, HitIs
    <2> HIDE DEF h
    <2>5. ASSUME p \in Inner(d, u), p \in Body(d, w), \A v \in Above(d, w) : p \notin Body(d, v)
          PROVE  h = w
      <3>1. h # Nobody /\ h \in Children(u)
        BY <2>1, <2>4, <2>5
      <3>2. h = w \/ h \in Above(d, w) \/ w \in Above(d, h)
        BY <3>1, AboveFacts
      <3> QED  BY <2>4, <2>5, <3>1, <3>2
    <2>6. h = w => /\ p \in Inner(d, u) /\ p \in Body(d, w)
                   /\ \A v \in Above(d, w) : p \notin Body(d, v)
      BY <2>1, <2>4
    <2>7. u \in On(Hits(d, p)) <=> p \in Reach(d, u)
      BY <1>3
    <2> QED  BY <2>1, <2>2, <2>3, <2>5, <2>6, <2>7
  <1> HIDE DEF S
  <1>4. \A w \in Widgets : w \in S
    BY <1>2, <1>3, TopDown
  <1> QED  BY <1>4 DEF S

(* Every pixel has just one owner, the widget it can be seen to belong to. *)
LEMMA OwnerIs ==
  ASSUME NEW d \in Desks, NEW p \in Screen
  PROVE  /\ Owner(d, p) \in Widgets /\ p \in Own(d, Owner(d, p))
         /\ \A w \in Widgets : p \in Own(d, w) => w = Owner(d, p)
  <1> DEFINE o == Owner(d, p)
  <1>1. p \in Points /\ Leads(Hits(d, p))
    BY ScreenPoints, HitsLead
  <1>2. o \in On(Hits(d, p)) /\ o \in Widgets /\ Hits(d, p)[o] = Nobody
    BY <1>1, OnPath DEF Owner
  <1>3. ASSUME NEW w \in Widgets
        PROVE  p \in Own(d, w) <=> w \in On(Hits(d, p)) /\ Hits(d, p)[w] = Nobody
    <2>1. Hits(d, p)[w] = Hit(d, w, p)
      BY DEF Hits
    <2>2. p \in Own(d, w) <=> /\ p \in Reach(d, w)
                              /\ p \notin Inner(d, w) \/ \A c \in Children(w) : p \notin Body(d, c)
      BY OwnIs
    <2>3. Hit(d, w, p) = Nobody <=>
            p \notin Inner(d, w) \/ \A c \in Children(w) : p \notin Body(d, c)
      BY <1>1, HitIs
    <2> QED  BY <2>1, <2>2, <2>3, HitInReach
  <1>4. ASSUME NEW w \in Widgets, p \in Own(d, w) PROVE w = o
    BY <1>1, <1>3, <1>4, OnPath DEF Owner
  <1> QED  BY <1>2, <1>3, <1>4

(* Off the screen nothing but the window manager is hit.                   *)
LEMMA OwnerOutside ==
  ASSUME NEW d \in Desks, NEW p \in Points, p \notin Screen
  PROVE  Owner(d, p) = Root
  <1>1. Leads(Hits(d, p)) /\ Root \in Widgets
    BY HitsLead, TreeFacts
  <1>2. Hit(d, Root, p) = Nobody
    BY <1>1, AreaFacts, HitIs
  <1>3. Hits(d, p)[Root] = Nobody
    BY <1>1, <1>2 DEF Hits
  <1> QED  BY <1>1, <1>3, OnPath DEF Owner

-----------------------------------------------------------------------------
(* What the areas depend on.                                               *)

(* Where a widget is depends on where it and its ancestors are.            *)
LEMMA SamePlace ==
  ASSUME NEW d \in Desks, NEW e \in Desks, NEW S,
         \A w \in S : /\ w \in Widgets /\ e.pos[w] = d.pos[w]
                      /\ w # Root => ParentOf[w] \in S
  PROVE  \A w \in S : ScreenPos(e, w) = ScreenPos(d, w)
  <1> DEFINE R == {w \in Widgets : w \in S => ScreenPos(e, w) = ScreenPos(d, w)}
  <1>1. d.pos \in [Widgets -> Points] /\ e.pos \in [Widgets -> Points]
    BY DeskFacts
  <1>2. Root \in R
    BY <1>1, ScreenPosIs, TreeFacts
  <1>3. ASSUME NEW w \in Others, ParentOf[w] \in R PROVE w \in R
    <2> SUFFICES ASSUME w \in S PROVE ScreenPos(e, w) = ScreenPos(d, w)
      BY TreeFacts
    <2>1. ScreenPos(e, ParentOf[w]) = ScreenPos(d, ParentOf[w]) /\ e.pos[w] = d.pos[w]
      BY <1>3, TreeFacts
    <2> QED  BY <1>1, <2>1, ScreenPosIs
  <1> HIDE DEF R
  <1>4. \A w \in Widgets : w \in R
    BY <1>2, <1>3, TopDown
  <1> QED  BY <1>4 DEF R

(* Its areas depend on that alone.                                         *)
LEMMA SameAreas ==
  ASSUME NEW d, NEW e, NEW w, ScreenPos(e, w) = ScreenPos(d, w)
  PROVE  Body(e, w) = Body(d, w) /\ Inner(e, w) = Inner(d, w)
  BY DEF Body, Inner, ScreenRect, ScreenClientRect, MovedTo, RectOf, Rect

(* What lies above it depends on its parent's list.                        *)
LEMMA SameAbove ==
  ASSUME NEW d \in Desks, NEW e \in Desks, NEW w \in Others,
         e.kids[ParentOf[w]] = d.kids[ParentOf[w]]
  PROVE  Above(e, w) = Above(d, w) /\ Below(e, w) = Below(d, w)
  <1> DEFINE k == d.kids[ParentOf[w]]
             n == Len(k)
  <1>1. ParentOf[w] \in Widgets
    BY TreeFacts
  <1>2. \A i, j \in 1 .. n : k[i] = k[j] => i = j
    BY <1>1, ChildList
  <1>3. IndexIn(d, w) \in 1 .. n /\ k[IndexIn(d, w)] = w
    BY IndexFacts
  <1>4. IndexIn(e, w) \in 1 .. n /\ k[IndexIn(e, w)] = w
    BY IndexFacts
  <1>5. IndexIn(e, w) = IndexIn(d, w)
    BY <1>2, <1>3, <1>4
  <1> QED  BY <1>5 DEF Above, Below

SameTree(d, e) == e.kids = d.kids /\ e.pos = d.pos

(* What can be seen depends on the lists and the places.                   *)
LEMMA SameReach ==
  ASSUME NEW d \in Desks, NEW e \in Desks, SameTree(d, e)
  PROVE  \A w \in Widgets : /\ ScreenPos(e, w) = ScreenPos(d, w)
                            /\ Body(e, w) = Body(d, w) /\ Inner(e, w) = Inner(d, w)
                            /\ Reach(e, w) = Reach(d, w) /\ Own(e, w) = Own(d, w)
  <1>1. \A w \in Widgets : ScreenPos(e, w) = ScreenPos(d, w)
    <2>1. \A w \in Widgets : /\ w \in Widgets /\ e.pos[w] = d.pos[w]
                             /\ w # Root => ParentOf[w] \in Widgets
      BY TreeFacts DEF SameTree
    <2> QED  BY <2>1, SamePlace
  <1>2. \A w \in Widgets : Body(e, w) = Body(d, w) /\ Inner(e, w) = Inner(d, w)
    BY <1>1, SameAreas
  <1>3. \A w \in Others : Above(e, w) = Above(d, w) /\ Above(d, w) \subseteq Widgets
    <2> SUFFICES ASSUME NEW w \in Others
                 PROVE  Above(e, w) = Above(d, w) /\ Above(d, w) \subseteq Widgets
      OBVIOUS
    <2>1. Above(e, w) = Above(d, w)
      BY SameAbove DEF SameTree
    <2>2. Above(d, w) \subseteq Children(ParentOf[w]) /\ ParentOf[w] \in Widgets
      BY AboveFacts, TreeFacts
    <2> QED  BY <2>1, <2>2, TreeFacts
  <1> DEFINE S == {w \in Widgets : Reach(e, w) = Reach(d, w)}
  <1>4. Root \in S
    BY ReachIs, TreeFacts
  <1>5. ASSUME NEW w \in Others, ParentOf[w] \in S PROVE w \in S
    <2>1. w \in Widgets /\ ParentOf[w] \in Widgets /\ Reach(e, ParentOf[w]) = Reach(d, ParentOf[w])
      BY <1>5, TreeFacts
    <2>2. ASSUME NEW p PROVE p \in Reach(e, w) <=> p \in Reach(d, w)
      <3>1. p \in Reach(d, w) <=>
                /\ p \in Reach(d, ParentOf[w]) /\ p \in Inner(d, ParentOf[w]) /\ p \in Body(d, w)
                /\ \A v \in Above(d, w) : p \notin Body(d, v)
        BY ReachIs
      <3>2. p \in Reach(e, w) <=>
                /\ p \in Reach(e, ParentOf[w]) /\ p \in Inner(e, ParentOf[w]) /\ p \in Body(e, w)
                /\ \A v \in Above(e, w) : p \notin Body(e, v)
        BY ReachIs
      <3> QED  BY <1>2, <1>3, <2>1, <3>1, <3>2
    <2>3. Reach(e, w) = Reach(d, w)
      BY <2>2
    <2> QED  BY <2>1, <2>3
  <1> HIDE DEF S
  <1>6. \A w \in Widgets : w \in S
    BY <1>4, <1>5, TopDown
  <1>7. \A w \in Widgets : Reach(e, w) = Reach(d, w)
    BY <1>6 DEF S
  <1>8. ASSUME NEW w \in Widgets PROVE Own(e, w) = Own(d, w)
    <2>1. ASSUME NEW p PROVE p \in Own(e, w) <=> p \in Own(d, w)
      <3>1. Children(w) \subseteq Widgets
        BY TreeFacts
      <3>2. p \in Own(d, w) <=>
              /\ p \in Reach(d, w)
              /\ p \notin Inner(d, w) \/ \A c \in Children(w) : p \notin Body(d, c)
        BY OwnIs
      <3>3. p \in Own(e, w) <=>
              /\ p \in Reach(e, w)
              /\ p \notin Inner(e, w) \/ \A c \in Children(w) : p \notin Body(e, c)
        BY OwnIs
      <3> QED  BY <1>2, <1>7, <3>1, <3>2, <3>3
    <2> QED  BY <2>1
  <1> QED  BY <1>1, <1>2, <1>7, <1>8

-----------------------------------------------------------------------------
(* What the screen should show, and painting: every pixel that is painted  *)
(* is painted right.                                                       *)

Shade(d, w, p) == IF p \in Inner(d, w) THEN Client(d, w) ELSE Decoration(w)
Shown(d, p) == Shade(d, Owner(d, p), p)

(* What is painted is a color.                                             *)
LEMMA ShadeType ==
  ASSUME NEW d, NEW w \in Widgets, NEW p
  PROVE  Shade(d, w, p) \in Colors
  BY DEF Shade, Client, Decoration, Colors

(* So does the owner of each pixel; its color depends on the buttons too.  *)
LEMMA SameShown ==
  ASSUME NEW d \in Desks, NEW e \in Desks, SameTree(d, e), NEW p \in Screen
  PROVE  /\ Owner(e, p) = Owner(d, p)
         /\ e.active = d.active => Shown(e, p) = Shown(d, p)
  <1>1. Owner(d, p) \in Widgets /\ Owner(e, p) \in Widgets /\ p \in Own(e, Owner(e, p))
    BY OwnerIs
  <1>2. p \in Own(d, Owner(e, p))
    BY <1>1, SameReach
  <1>3. Owner(e, p) = Owner(d, p)
    BY <1>1, <1>2, OwnerIs
  <1>4. Inner(e, Owner(d, p)) = Inner(d, Owner(d, p))
    BY <1>1, SameReach
  <1> QED  BY <1>3, <1>4 DEF Shown, Shade, Client

Repaints(d, e, area) ==
  /\ e \in Desks /\ SameTree(d, e) /\ e.active = d.active
  /\ \A p \in Screen : \/ e.screen[p] = Shown(d, p)
                       \/ p \notin area /\ e.screen[p] = d.screen[p]

(* To paint nothing changes nothing.                                       *)
LEMMA RepaintsNothing ==
  ASSUME NEW d \in Desks
  PROVE  Repaints(d, d, {})
  BY DEF Repaints, SameTree

(* To paint twice is to paint both areas.                                  *)
LEMMA RepaintsTwice ==
  ASSUME NEW d \in Desks, NEW e, NEW f, NEW A, NEW B, Repaints(d, e, A), Repaints(e, f, B)
  PROVE  Repaints(d, f, A \cup B)
  <1>1. e \in Desks /\ f \in Desks /\ SameTree(d, f) /\ f.active = d.active
    BY DEF Repaints, SameTree
  <1>2. ASSUME NEW p \in Screen
        PROVE  f.screen[p] = Shown(d, p) \/ (p \notin A \cup B /\ f.screen[p] = d.screen[p])
    <2>1. Shown(e, p) = Shown(d, p)
      BY <1>1, SameShown DEF Repaints
    <2>2. f.screen[p] = Shown(e, p) \/ (p \notin B /\ f.screen[p] = e.screen[p])
      BY DEF Repaints
    <2>3. e.screen[p] = Shown(d, p) \/ (p \notin A /\ e.screen[p] = d.screen[p])
      BY DEF Repaints
    <2> QED  BY <2>1, <2>2, <2>3
  <1> QED  BY <1>1, <1>2 DEF Repaints

(* What repaints an area repaints less of it.                              *)
LEMMA RepaintsLess ==
  ASSUME NEW d, NEW e, NEW A, NEW B, Repaints(d, e, A), \A p \in Screen : p \in B => p \in A
  PROVE  Repaints(d, e, B)
  BY DEF Repaints

(* A desktop with another screen.                                          *)
LEMMA WithScreen ==
  ASSUME NEW d \in Desks, NEW s
  PROVE  [d EXCEPT !.screen = s] =
           [kids |-> d.kids, pos |-> d.pos, active |-> d.active, screen |-> s]
  BY DeskFacts

(* A widget that paints alone paints the dirty pixels that it owns.        *)
LEMMA PaintAloneIs ==
  ASSUME NEW d \in Desks, NEW w \in Widgets, NEW area
  PROVE  Repaints(d, PaintAlone(d, w, area), area \cap Own(d, w))
  <1> DEFINE bounds == ClipBounds(d, w, area)
             inner == (bounds \cap Inner(d, w)) \ PixelsOfAll(d, Range(d.kids[w]))
             decoration == bounds \ Inner(d, w)
             ColorAt(p) == IF p \in inner THEN Client(d, w)
                          ELSE IF p \in decoration THEN Decoration(w) ELSE d.screen[p]
             s == [p \in Screen |-> ColorAt(p)]
             e == PaintAlone(d, w, area)
             k == d.kids
             o == d.pos
             a == d.active
  <1>1. /\ d = [kids |-> k, pos |-> o, active |-> a, screen |-> d.screen]
        /\ k \in [Widgets -> Seq(Widgets)] /\ IsTree(k)
        /\ o \in [Widgets -> Points] /\ o[Root] = <<0, 0>>
        /\ a \in SUBSET Buttons /\ d.screen \in [Screen -> Colors]
    BY DeskFacts
  <1>2. bounds = area \cap Reach(d, w)
    BY ClipBoundsByReach
  <1>3. Range(d.kids[w]) = Children(w)
    BY DeskFacts DEF IsTree
  <1>4. e = IF bounds = {} THEN d
            ELSE [kids |-> k, pos |-> o, active |-> a, screen |-> s]
    <2>1. DOMAIN d.screen = Screen
      BY <1>1
    <2>2. e = IF bounds = {} THEN d ELSE [d EXCEPT !.screen = s]
      BY <2>1 DEF PaintAlone, Inner
    <2> HIDE DEF s, k, o, a
    <2>3. [d EXCEPT !.screen = s] = [kids |-> k, pos |-> o, active |-> a, screen |-> s]
      BY WithScreen DEF k, o, a
    <2> QED  BY <2>2, <2>3
  <1>5. ASSUME NEW p \in Screen
        PROVE  ColorAt(p) = IF p \in area \cap Own(d, w) THEN Shade(d, w, p) ELSE d.screen[p]
    <2>1. p \in Own(d, w) <=> p \in Reach(d, w) /\ ~(p \in Inner(d, w) /\ p \in PixelsOfAll(d, Children(w)))
      BY DEF Own
    <2> QED  BY <1>2, <1>3, <2>1 DEF Shade
  <1> HIDE DEF ColorAt
  <1>6. s \in [Screen -> Colors]
    <2>1. \A p \in Screen : d.screen[p] \in Colors /\ Shade(d, w, p) \in Colors
      BY <1>1, ShadeType
    <2> QED  BY <1>5, <2>1
  <1>7. ASSUME NEW p \in Screen, p \in Own(d, w) PROVE Shade(d, w, p) = Shown(d, p)
    BY <1>7, OwnerIs DEF Shown
  <1>8. CASE bounds = {}
    <2>1. e = d
      BY <1>4, <1>8
    <2>2. area \cap Own(d, w) = {}
      BY <1>2, <1>8 DEF Own
    <2> QED  BY <2>1, <2>2, RepaintsNothing
  <1>9. CASE bounds # {}
    <2>1. e = [kids |-> k, pos |-> o, active |-> a, screen |-> s]
      BY <1>4, <1>9
    <2> HIDE DEF e, s
    <2>2. e \in Desks
      BY <1>1, <1>6, <2>1, DeskIs
    <2>3. SameTree(d, e) /\ e.active = d.active /\ e.screen = s
      BY <2>1 DEF SameTree
    <2>4. \A p \in Screen : e.screen[p] = IF p \in area \cap Own(d, w) THEN Shade(d, w, p)
                                          ELSE d.screen[p]
      BY <1>5, <2>3 DEF s
    <2>5. Repaints(d, e, area \cap Own(d, w))
      BY <1>7, <2>2, <2>3, <2>4 DEF Repaints
    <2> QED  BY <2>5 DEF e
  <1> QED  BY <1>8, <1>9

-----------------------------------------------------------------------------
(* The order of painting.                                                  *)

(* The elements of two lists in a row.                                     *)
LEMMA ConcatRange ==
  ASSUME NEW S, NEW s \in Seq(S), NEW t \in Seq(S)
  PROVE  s \o t \in Seq(S) /\ Range(s \o t) = Range(s) \cup Range(t)
  <1> DEFINE z == s \o t
             m == Len(s)
             n == Len(t)
  <1>1. Joined(z, S, s, m, t, n)
    BY ConcatFacts
  <1>2. m \in Nat /\ n \in Nat /\ DOMAIN s = 1 .. m /\ DOMAIN t = 1 .. n
    BY LenProperties
  <1> HIDE DEF z, m, n
  <1>3. /\ z \in Seq(S) /\ Len(z) = m + n
        /\ \A i \in 1 .. m : z[i] = s[i]
        /\ \A i \in m + 1 .. m + n : z[i] = t[i - m]
    BY <1>1 DEF Joined
  <1>4. DOMAIN z = 1 .. m + n
    BY <1>3, LenProperties
  <1>5. ASSUME NEW x \in Range(z) PROVE x \in Range(s) \cup Range(t)
    <2>1. PICK i \in 1 .. m + n : x = z[i]
      BY <1>4 DEF Range
    <2>2. CASE i <= m
      <3>1. i \in 1 .. m
        BY <1>2, <2>2
      <3> QED  BY <1>2, <1>3, <2>1, <3>1 DEF Range
    <2>3. CASE ~(i <= m)
      <3>1. i \in m + 1 .. m + n /\ i - m \in 1 .. n
        BY <1>2, <2>3
      <3> QED  BY <1>2, <1>3, <2>1, <3>1 DEF Range
    <2> QED  BY <2>2, <2>3
  <1>6. ASSUME NEW x \in Range(s) PROVE x \in Range(z)
    <2>1. PICK i \in 1 .. m : x = s[i]
      BY <1>2 DEF Range
    <2>2. i \in 1 .. m + n
      BY <1>2
    <2> QED  BY <1>3, <1>4, <2>1, <2>2 DEF Range
  <1>7. ASSUME NEW x \in Range(t) PROVE x \in Range(z)
    <2>1. PICK i \in 1 .. n : x = t[i]
      BY <1>2 DEF Range
    <2>2. i + m \in m + 1 .. m + n /\ i + m \in 1 .. m + n /\ (i + m) - m = i
      BY <1>2
    <2>3. z[i + m] = x
      BY <1>3, <2>1, <2>2
    <2> QED  BY <1>4, <2>2, <2>3 DEF Range
  <1>8. z \in Seq(S) /\ Range(z) = Range(s) \cup Range(t)
    BY <1>3, <1>5, <1>6, <1>7
  <1> QED  BY <1>8 DEF z

(* The element of a list of one.                                           *)
LEMMA OneRange ==
  ASSUME NEW S, NEW w \in S
  PROVE  <<w>> \in Seq(S) /\ Len(<<w>>) = 1 /\ <<w>>[1] = w /\ Range(<<w>>) = {w}
  BY DEF Range

(* The children c of v with a dirty pixel, each with all that it holds.    *)
ListedBy(d, area, v, f, b) ==
  /\ b \in [0 .. Len(d.kids[v]) -> Seq(Widgets)]
  /\ b[0] = <<v>>
  /\ \A i \in 1 .. Len(d.kids[v]) :
       b[i] = IF Body(d, d.kids[v][i]) \cap area = {} THEN b[i - 1]
              ELSE b[i - 1] \o f[d.kids[v][i]]

ListStep(d, area, v, f, i, s) ==
  IF i = 0 THEN <<v>>
  ELSE IF Body(d, d.kids[v][i]) \cap area = {} THEN s ELSE s \o f[d.kids[v][i]]
IsList(d, area, v, f, b) ==
  b = [i \in 0 .. Len(d.kids[v]) |-> ListStep(d, area, v, f, i, b[i - 1])]
ListOf(d, area, v, f) == CHOOSE b : IsList(d, area, v, f, b)

(* Lists in a row, one for each child that meets what is dirty.            *)
LEMMA ListIs ==
  ASSUME NEW d \in Desks, NEW area, NEW v \in Widgets,
         NEW f, \A c \in Children(v) : f[c] \in Seq(Widgets)
  PROVE  ListedBy(d, area, v, f, ListOf(d, area, v, f))
  <1> DEFINE T == Seq(Widgets)
             n == Len(d.kids[v])
             b == ListOf(d, area, v, f)
             g == [i \in Nat |-> [s \in T |-> IF i \in 1 .. n THEN ListStep(d, area, v, f, i, s)
                                              ELSE s]]
  <1>1. n \in Nat /\ <<v>> \in T
    BY ChildList
  <1>2. ASSUME NEW i \in 1 .. n, NEW s \in T
        PROVE  ListStep(d, area, v, f, i, s) \in T /\ i # 0
    <2>1. d.kids[v][i] \in Children(v) /\ i # 0
      BY <1>1, ChildList
    <2>2. f[d.kids[v][i]] \in T
      BY <2>1
    <2>3. s \o f[d.kids[v][i]] \in T
      BY <2>2
    <2> QED  BY <2>1, <2>3 DEF ListStep
  <1>3. g \in [Nat -> [T -> T]]
    BY <1>2
  <1>4. ASSUME NEW i \in 1 .. n, NEW s \in T PROVE g[i][s] = ListStep(d, area, v, f, i, s)
    <2>1. i \in Nat
      BY <1>1
    <2> HIDE DEF n, T
    <2> QED  BY <2>1
  <1> HIDE DEF g, T, n
  <1>5. \E c : IsList(d, area, v, f, c)
    <2>1. PICK c : Iterates(c, n, T, <<v>>, g)
      BY <1>1, <1>3, IterationExists
    <2>2. c \in [0 .. n -> T] /\ c[0] = <<v>> /\ \A i \in 1 .. n : c[i] = g[i][c[i - 1]]
      BY <2>1 DEF Iterates
    <2>3. ASSUME NEW i \in 0 .. n PROVE c[i] = ListStep(d, area, v, f, i, c[i - 1])
      <3>1. CASE i = 0
        BY <2>2, <3>1 DEF ListStep
      <3>2. CASE i # 0
        <4>1. i \in 1 .. n /\ i - 1 \in 0 .. n
          BY <1>1, <3>2
        <4>2. c[i - 1] \in T
          BY <2>2, <4>1
        <4> QED  BY <1>4, <2>2, <4>1, <4>2
      <3> QED  BY <3>1, <3>2
    <2>4. IsList(d, area, v, f, c)
      BY <2>2, <2>3 DEF IsList, n
    <2> QED  BY <2>4
  <1>6. IsList(d, area, v, f, b)
    BY <1>5, Zenon DEF ListOf
  <1> HIDE DEF b
  <1>7. b = [i \in 0 .. n |-> ListStep(d, area, v, f, i, b[i - 1])]
    BY <1>6 DEF IsList, n
  <1>8. b[0] = <<v>>
    BY <1>1, <1>7 DEF ListStep
  <1>9. \A i \in 1 .. n : b[i] = ListStep(d, area, v, f, i, b[i - 1])
    BY <1>1, <1>7
  <1>10. Iterates(b, n, T, <<v>>, g)
    <2>1. b = [i \in 0 .. n |-> b[i]]
      BY <1>7
    <2>2. \A i \in 1 .. n : b[i - 1] \in T => b[i] = g[i][b[i - 1]]
      BY <1>4, <1>9
    <2> QED  BY <1>1, <1>3, <1>8, <2>1, <2>2, IterationTyped
  <1>11. b \in [0 .. n -> T]
    BY <1>10 DEF Iterates
  <1>12. \A i \in 1 .. n : b[i] = IF Body(d, d.kids[v][i]) \cap area = {} THEN b[i - 1]
                                  ELSE b[i - 1] \o f[d.kids[v][i]]
    <2>1. \A i \in 1 .. n : i # 0
      BY <1>1
    <2> QED  BY <1>9, <2>1 DEF ListStep
  <1>13. ListedBy(d, area, v, f, b)
    BY <1>8, <1>11, <1>12 DEF ListedBy, n, T
  <1> QED  BY <1>13 DEF b

(* It depends on the orders of the children alone.                         *)
LEMMA SameList ==
  ASSUME NEW d \in Desks, NEW area, NEW v \in Widgets,
         NEW f, NEW g, \A c \in Children(v) : f[c] \in Seq(Widgets) /\ f[c] = g[c]
  PROVE  ListOf(d, area, v, f)[Len(d.kids[v])] = ListOf(d, area, v, g)[Len(d.kids[v])]
  <1> DEFINE n == Len(d.kids[v])
             b == ListOf(d, area, v, f)
             c == ListOf(d, area, v, g)
             S == {i \in Nat : i <= n => b[i] = c[i]}
  <1>1. ListedBy(d, area, v, f, b) /\ ListedBy(d, area, v, g, c)
    BY ListIs
  <1>2. n \in Nat /\ \A i \in 1 .. n : f[d.kids[v][i]] = g[d.kids[v][i]]
    BY ChildList
  <1> HIDE DEF b, c
  <1>3. 0 \in S
    BY <1>1 DEF ListedBy
  <1>4. ASSUME NEW i \in Nat, i \in S PROVE i + 1 \in S
    <2> SUFFICES ASSUME i + 1 <= n PROVE b[i + 1] = c[i + 1]
      OBVIOUS
    <2>1. i + 1 \in 1 .. n /\ (i + 1) - 1 = i /\ b[i] = c[i]
      BY <1>2, <1>4
    <2>2. b[i + 1] = IF Body(d, d.kids[v][i + 1]) \cap area = {} THEN b[i]
                     ELSE b[i] \o f[d.kids[v][i + 1]]
      BY <1>1, <2>1 DEF ListedBy
    <2>3. c[i + 1] = IF Body(d, d.kids[v][i + 1]) \cap area = {} THEN c[i]
                     ELSE c[i] \o g[d.kids[v][i + 1]]
      BY <1>1, <2>1 DEF ListedBy
    <2> QED  BY <1>2, <2>1, <2>2, <2>3
  <1> HIDE DEF S
  <1>5. \A i \in Nat : i \in S
    BY <1>3, <1>4, SetInduction
  <1>6. n \in S /\ n <= n
    BY <1>2, <1>5
  <1>7. b[n] = c[n]
    BY <1>6, Zenon DEF S
  <1> QED  BY <1>7 DEF b, c

IsOrder(d, area, f) ==
  /\ f \in [Widgets -> Seq(Widgets)]
  /\ \A v \in Widgets :
       \E b : ListedBy(d, area, v, f, b) /\ f[v] = b[Len(d.kids[v])]

(* PaintOrder from the orders of the children.                             *)
LEMMA OrderRecursion ==
  ASSUME NEW d \in Desks, NEW area
  PROVE  \E order : IsOrder(d, area, order) /\ \A w \in Widgets : PaintOrder(d, w, area) = order[w]
  <1> DEFINE T == Seq(Widgets)
             Step(f, v) == ListOf(d, area, v, f)[Len(d.kids[v])]
             Defined(f) == f = [v \in Widgets |-> Step(f, v)]
             order == CHOOSE f : Defined(f)
             F == [f \in [Widgets -> T] |-> [v \in Widgets |-> Step(f, v)]]
  <1>1. \A w : PaintOrder(d, w, area) = order[w]
    BY Zenon DEF PaintOrder, ListOf, IsList, ListStep, Body
  <1>2. ASSUME NEW v \in Widgets, NEW f, \A c \in Children(v) : f[c] \in T
        PROVE  ListedBy(d, area, v, f, ListOf(d, area, v, f)) /\ Step(f, v) \in T
    <2>0. ListedBy(d, area, v, f, ListOf(d, area, v, f))
      BY <1>2, ListIs
    <2>1. ListOf(d, area, v, f) \in [0 .. Len(d.kids[v]) -> Seq(Widgets)]
      BY <2>0 DEF ListedBy
    <2>2. Len(d.kids[v]) \in 0 .. Len(d.kids[v])
      BY ChildList
    <2> QED  BY <2>0, <2>1, <2>2
  <1>3. ASSUME NEW f \in [Widgets -> T], NEW g \in [Widgets -> T], NEW w \in Widgets,
               \A v \in ChildrenBefore[w] : f[v] = g[v]
        PROVE  Step(f, w) = Step(g, w)
    <2>1. \A c \in Children(w) : f[c] = g[c]
      BY <1>3 DEF ChildrenBefore
    <2>2. \A c \in Children(w) : f[c] \in Seq(Widgets)
      BY TreeFacts
    <2>3. \A c \in Children(w) : f[c] \in Seq(Widgets) /\ f[c] = g[c]
      BY <2>1, <2>2
    <2> QED  BY <2>3, SameList
  <1>4. Local(Widgets, T, ChildrenBefore, F)
    <2>1. \A f \in [Widgets -> T], v \in Widgets : Step(f, v) \in T
      BY <1>2, TreeFacts
    <2> HIDE DEF Step, T
    <2> QED  BY <1>3, <2>1 DEF Local
  <1>5. <<>> \in T
    OBVIOUS
  <1>6. \E f : f \in [Widgets -> T] /\ Defined(f)
    <2>1. \E f \in [Widgets -> T] : f = F[f]
      <3> HIDE DEF F, T
      <3> QED  BY <1>4, <1>5, ChildrenFounded, Recursion
    <2>2. PICK f \in [Widgets -> T] : f = F[f]
      BY <2>1, Zenon
    <2>3. Defined(f)
      BY <2>2
    <2> QED  BY <2>3, Zenon
  <1>7. Defined(order)
    BY <1>6, Zenon
  <1> HIDE DEF order
  <1>8. \A v \in Widgets : order[v] = Step(order, v)
    BY <1>7
  <1> DEFINE S == {v \in Widgets : order[v] \in T}
  <1>9. ASSUME NEW v \in Widgets, Children(v) \subseteq S PROVE v \in S
    <2> HIDE DEF T, Step
    <2> QED  BY <1>2, <1>8, <1>9
  <1> HIDE DEF S
  <1>10. \A v \in Widgets : v \in S
    BY <1>9, BottomUp
  <1>11. \A v \in Widgets : order[v] \in T
    BY <1>10 DEF S
  <1>12. order \in [Widgets -> Seq(Widgets)]
    <2> HIDE DEF Step
    <2> QED  BY <1>7, <1>11
  <1>13. ASSUME NEW v \in Widgets
         PROVE  \E b : ListedBy(d, area, v, order, b) /\ order[v] = b[Len(d.kids[v])]
    <2>1. \A c \in Children(v) : order[c] \in T
      BY <1>11, TreeFacts
    <2>2. ListedBy(d, area, v, order, ListOf(d, area, v, order))
      BY <1>2, <2>1
    <2>3. order[v] = ListOf(d, area, v, order)[Len(d.kids[v])]
      BY <1>8
    <2> QED  BY <2>2, <2>3
  <1>14. IsOrder(d, area, order)
    BY <1>12, <1>13 DEF IsOrder
  <1> QED  BY <1>1, <1>14, Zenon

(* The order begins with the widget and goes on with those of its          *)
(* children.                                                               *)
LEMMA OrderParts ==
  ASSUME NEW d \in Desks, NEW area, NEW f, IsOrder(d, area, f), NEW v \in Widgets, NEW x
  PROVE  x \in Range(f[v]) <=>
           \/ x = v
           \/ \E c \in Children(v) : Body(d, c) \cap area # {} /\ x \in Range(f[c])
  <1> DEFINE k == d.kids[v]
             n == Len(k)
  <1>1. PICK b : ListedBy(d, area, v, f, b) /\ f[v] = b[n]
    BY DEF IsOrder
  <1>2. /\ b \in [0 .. n -> Seq(Widgets)] /\ b[0] = <<v>>
        /\ \A i \in 1 .. n : b[i] = IF Body(d, k[i]) \cap area = {} THEN b[i - 1]
                                    ELSE b[i - 1] \o f[k[i]]
    BY <1>1 DEF ListedBy
  <1>3. /\ n \in Nat
        /\ \A i \in 1 .. n : k[i] \in Children(v)
        /\ \A c \in Children(v) : \E i \in 1 .. n : k[i] = c
    BY ChildList
  <1>4. \A c \in Children(v) : f[c] \in Seq(Widgets)
    BY TreeFacts DEF IsOrder
  <1> HIDE DEF k, n
  <1> DEFINE S == {i \in Nat : i <= n =>
                     (x \in Range(b[i]) <=>
                        \/ x = v
                        \/ \E j \in 1 .. i : Body(d, k[j]) \cap area # {} /\ x \in Range(f[k[j]]))}
  <1>5. 0 \in S
    <2>1. Range(b[0]) = {v}
      BY <1>2, OneRange
    <2>2. 1 .. 0 = {}
      OBVIOUS
    <2> QED  BY <2>1, <2>2
  <1>6. ASSUME NEW i \in Nat, i \in S PROVE i + 1 \in S
    <2> SUFFICES ASSUME i + 1 <= n
                 PROVE  x \in Range(b[i + 1]) <=>
                          \/ x = v
                          \/ \E j \in 1 .. i + 1 : /\ Body(d, k[j]) \cap area # {}
                                                   /\ x \in Range(f[k[j]])
      OBVIOUS
    <2>1. i + 1 \in 1 .. n /\ (i + 1) - 1 = i /\ i <= n /\ i \in 0 .. n
      BY <1>3
    <2>2. b[i + 1] = IF Body(d, k[i + 1]) \cap area = {} THEN b[i] ELSE b[i] \o f[k[i + 1]]
      BY <1>2, <2>1
    <2>3. b[i] \in Seq(Widgets) /\ f[k[i + 1]] \in Seq(Widgets)
      BY <1>2, <1>3, <1>4, <2>1
    <2>4. Range(b[i] \o f[k[i + 1]]) = Range(b[i]) \cup Range(f[k[i + 1]])
      BY <2>3, ConcatRange
    <2>5. x \in Range(b[i]) <=>
                        \/ x = v
                        \/ \E j \in 1 .. i : Body(d, k[j]) \cap area # {} /\ x \in Range(f[k[j]])
      BY <1>6, <2>1
    <2>6. 1 .. i + 1 = (1 .. i) \cup {i + 1}
      OBVIOUS
    <2>7. x \in Range(b[i + 1]) <=>
            x \in Range(b[i]) \/ (Body(d, k[i + 1]) \cap area # {} /\ x \in Range(f[k[i + 1]]))
      BY <2>2, <2>4
    <2> QED  BY <2>5, <2>6, <2>7
  <1>7. \A i \in Nat : i \in S
    <2> HIDE DEF S
    <2> QED  BY <1>5, <1>6, SetInduction
  <1>8. x \in Range(b[n]) <=>
          \/ x = v
          \/ \E j \in 1 .. n : Body(d, k[j]) \cap area # {} /\ x \in Range(f[k[j]])
    BY <1>3, <1>7
  <1> QED  BY <1>1, <1>3, <1>8

(* With a widget all its children that meet the area are in the order.     *)
LEMMA OrderGoesDown ==
  ASSUME NEW d \in Desks, NEW area, NEW f, IsOrder(d, area, f)
  PROVE  \A w \in Widgets : \A u \in Range(f[w]) : \A c \in Children(u) :
            Body(d, c) \cap area # {} => c \in Range(f[w])
  <1> DEFINE Closed(w) == \A u \in Range(f[w]) : \A c \in Children(u) :
                             Body(d, c) \cap area # {} => c \in Range(f[w])
             S == {w \in Widgets : Closed(w)}
  <1>1. ASSUME NEW w \in Widgets, Children(w) \subseteq S PROVE w \in S
    <2> SUFFICES ASSUME NEW u \in Range(f[w]), NEW c \in Children(u), Body(d, c) \cap area # {}
                 PROVE  c \in Range(f[w])
      OBVIOUS
    <2>1. \/ u = w
          \/ \E b \in Children(w) : Body(d, b) \cap area # {} /\ u \in Range(f[b])
      BY OrderParts
    <2>2. CASE u = w
      <3>1. c \in Widgets
        BY <2>2, TreeFacts
      <3>2. c \in Range(f[c])
        BY <3>1, OrderParts
      <3> QED  BY <2>2, <3>2, OrderParts
    <2>3. CASE \E b \in Children(w) : Body(d, b) \cap area # {} /\ u \in Range(f[b])
      <3>1. PICK b \in Children(w) : Body(d, b) \cap area # {} /\ u \in Range(f[b])
        BY <2>3
      <3>2. c \in Range(f[b])
        BY <1>1, <3>1
      <3> QED  BY <3>1, <3>2, OrderParts
    <2> QED  BY <2>1, <2>2, <2>3
  <1>2. \A w \in Widgets : w \in S
    <2> HIDE DEF S
    <2> QED  BY <1>1, BottomUp
  <1> QED  BY <1>2

(* A widget and all that it holds.                                         *)
LEMMA InsideIs ==
  ASSUME NEW w \in Widgets
  PROVE  /\ InsideOf(w) \subseteq Widgets /\ w \in InsideOf(w)
         /\ w # Root => Root \notin InsideOf(w)
         /\ \A v \in Others : v \in InsideOf(w) <=> v = w \/ ParentOf[v] \in InsideOf(w)
  <1> DEFINE Step(f, v) == v = w \/ (v # Root /\ f[ParentOf[v]])
             Defined(f) == f = [v \in Widgets |-> Step(f, v)]
             within == CHOOSE f : Defined(f)
             F == [f \in [Widgets -> BOOLEAN] |-> [v \in Widgets |-> Step(f, v)]]
  <1>1. InsideOf(w) = {v \in Widgets : within[v]}
    BY Zenon DEF InsideOf
  <1>2. ASSUME NEW f \in [Widgets -> BOOLEAN], NEW v \in Widgets PROVE Step(f, v) \in BOOLEAN
    OBVIOUS
  <1>3. ASSUME NEW f \in [Widgets -> BOOLEAN], NEW g \in [Widgets -> BOOLEAN], NEW v \in Widgets,
               \A u \in ParentBefore[v] : f[u] = g[u]
        PROVE  Step(f, v) = Step(g, v)
    <2>1. v # Root => f[ParentOf[v]] = g[ParentOf[v]]
      BY <1>3 DEF ParentBefore
    <2> QED  BY <2>1, Zenon
  <1> HIDE DEF Step
  <1>4. Local(Widgets, BOOLEAN, ParentBefore, F)
    BY <1>2, <1>3, Zenon DEF Local
  <1>5. TRUE \in BOOLEAN
    OBVIOUS
  <1>6. \E f : Defined(f)
    <2>1. \E f \in [Widgets -> BOOLEAN] : f = F[f]
      <3> DEFINE T == BOOLEAN
      <3>1. Local(Widgets, T, ParentBefore, F)
        BY <1>4, Zenon
      <3>2. PICK t : t \in T
        BY <1>5, Zenon
      <3> HIDE DEF F, T
      <3>3. \E f \in [Widgets -> T] : f = F[f]
        BY <3>1, <3>2, ParentFounded, Recursion
      <3> QED  BY <3>3, Zenon DEF T
    <2>2. PICK f \in [Widgets -> BOOLEAN] : f = F[f]
      BY <2>1, Zenon
    <2>3. Defined(f)
      BY <2>2
    <2> QED  BY <2>3, Zenon
  <1>7. Defined(within)
    BY <1>6, Zenon
  <1> HIDE DEF within
  <1>8. \A v \in Widgets : within[v] = Step(within, v)
    BY <1>7, Zenon
  <1>9. \A v \in Widgets : v \in InsideOf(w) <=> v = w \/ (v # Root /\ within[ParentOf[v]])
    BY <1>1, <1>8, Zenon DEF Step
  <1>10. \A v \in Others : v \in InsideOf(w) <=> v = w \/ ParentOf[v] \in InsideOf(w)
    <2> SUFFICES ASSUME NEW v \in Others
                 PROVE  v \in InsideOf(w) <=> v = w \/ ParentOf[v] \in InsideOf(w)
      OBVIOUS
    <2>1. v \in Widgets /\ v # Root /\ ParentOf[v] \in Widgets
      BY TreeFacts
    <2>2. ParentOf[v] \in InsideOf(w) <=> within[ParentOf[v]]
      BY <1>1, <2>1, Zenon
    <2> QED  BY <1>9, <2>1, <2>2, Zenon
  <1>11. InsideOf(w) \subseteq Widgets
    BY <1>1, Zenon
  <1> QED  BY <1>9, <1>10, <1>11, TreeFacts, Zenon

(* What lies inside and reaches a pixel of the area is in the order.       *)
LEMMA OrderHasInside ==
  ASSUME NEW d \in Desks, NEW area, NEW w \in Widgets, NEW p, p \in area,
         NEW v \in InsideOf(w), p \in Reach(d, v)
  PROVE  v \in Range(PaintOrder(d, w, area))
  <1>1. PICK f : IsOrder(d, area, f) /\ PaintOrder(d, w, area) = f[w]
    BY OrderRecursion
  <1> DEFINE S == {u \in Widgets : u \in InsideOf(w) /\ p \in Reach(d, u) => u \in Range(f[w])}
  <1>2. w \in Range(f[w])
    BY <1>1, OrderParts
  <1>3. Root \in S
    BY <1>2, InsideIs, TreeFacts
  <1>4. ASSUME NEW u \in Others, ParentOf[u] \in S PROVE u \in S
    <2> SUFFICES ASSUME u \in InsideOf(w), p \in Reach(d, u) PROVE u \in Range(f[w])
      BY TreeFacts
    <2>1. u = w \/ ParentOf[u] \in InsideOf(w)
      BY InsideIs
    <2>2. CASE u = w
      BY <1>2, <2>2
    <2>3. CASE ParentOf[u] \in InsideOf(w)
      <3>1. p \in Reach(d, ParentOf[u]) /\ p \in Body(d, u)
        BY ReachIs
      <3>2. ParentOf[u] \in Range(f[w])
        BY <1>4, <2>3, <3>1
      <3>3. u \in Children(ParentOf[u]) /\ Body(d, u) \cap area # {}
        BY <3>1, TreeFacts
      <3> QED  BY <1>1, <3>2, <3>3, OrderGoesDown
    <2> QED  BY <2>1, <2>2, <2>3
  <1>5. \A u \in Widgets : u \in S
    <2> HIDE DEF S
    <2> QED  BY <1>3, <1>4, TopDown
  <1> QED  BY <1>1, <1>5, InsideIs

(* Painting a widget with all it holds. *)

PaintSteps(d, w, area, c) ==
  LET order == PaintOrder(d, w, area)
  IN  /\ order \in Seq(Widgets)
      /\ c \in [0 .. Len(order) -> Desks] /\ c[0] = d
      /\ \A i \in 1 .. Len(order) : c[i] = PaintAlone(c[i - 1], order[i], area)

(* The desktop after each widget of the order.                             *)
LEMMA PaintStepsExist ==
  ASSUME NEW d \in Desks, NEW w \in Widgets, NEW area
  PROVE  \E c : PaintSteps(d, w, area, c) /\ Paint(d, w, area) = c[Len(PaintOrder(d, w, area))]
  <1> DEFINE order == PaintOrder(d, w, area)
             n == Len(order)
             Step(c, i) == IF i = 0 THEN d ELSE PaintAlone(c[i - 1], order[i], area)
             Defined(c) == c = [i \in 0 .. n |-> Step(c, i)]
             painted == CHOOSE c : Defined(c)
             g == [i \in Nat |-> [e \in Desks |-> IF i \in 1 .. n THEN PaintAlone(e, order[i], area)
                                                  ELSE e]]
  <1>1. Paint(d, w, area) = painted[n]
    BY Zenon DEF Paint, InTurn
  <1>2. order \in Seq(Widgets)
    BY OrderRecursion DEF IsOrder
  <1>3. n \in Nat /\ \A i \in 1 .. n : order[i] \in Widgets
    BY <1>2, LenProperties, ElementOfSeq
  <1> HIDE DEF order, n
  <1>4. ASSUME NEW i \in 1 .. n, NEW e \in Desks PROVE PaintAlone(e, order[i], area) \in Desks
    BY <1>3, PaintAloneIs DEF Repaints
  <1>5. g \in [Nat -> [Desks -> Desks]]
    BY <1>4
  <1>6. ASSUME NEW i \in 1 .. n, NEW e \in Desks PROVE g[i][e] = PaintAlone(e, order[i], area)
    <2>1. i \in Nat
      BY <1>3
    <2> QED  BY <2>1
  <1> HIDE DEF g
  <1>7. \E c : Defined(c)
    <2>1. PICK c : Iterates(c, n, Desks, d, g)
      BY <1>3, <1>5, IterationExists
    <2>2. c \in [0 .. n -> Desks] /\ c[0] = d /\ \A i \in 1 .. n : c[i] = g[i][c[i - 1]]
      BY <2>1 DEF Iterates
    <2>3. ASSUME NEW i \in 0 .. n PROVE c[i] = Step(c, i)
      <3>1. CASE i = 0
        BY <2>2, <3>1
      <3>2. CASE i # 0
        <4>1. i \in 1 .. n /\ i - 1 \in 0 .. n
          BY <1>3, <3>2
        <4>2. c[i - 1] \in Desks
          BY <2>2, <4>1
        <4> QED  BY <1>6, <2>2, <3>2, <4>1, <4>2, Zenon
      <3> QED  BY <3>1, <3>2
    <2> HIDE DEF Step
    <2>4. Defined(c)
      BY <2>2, <2>3
    <2> QED  BY <2>4, Zenon
  <1>8. Defined(painted)
    BY <1>7, Zenon
  <1> HIDE DEF painted
  <1>9. painted[0] = d
    <2>1. 0 \in 0 .. n
      BY <1>3
    <2> QED  BY <1>8, <2>1, Zenon
  <1>10. ASSUME NEW i \in 1 .. n PROVE painted[i] = PaintAlone(painted[i - 1], order[i], area)
    <2>1. i \in 0 .. n /\ i # 0
      BY <1>3
    <2> QED  BY <1>8, <2>1, Zenon
  <1>11. painted = [i \in 0 .. n |-> painted[i]]
    <2> HIDE DEF Step
    <2> QED  BY <1>8
  <1>12. \A i \in 1 .. n : painted[i - 1] \in Desks => painted[i] = g[i][painted[i - 1]]
    BY <1>6, <1>10, Zenon
  <1>13. Iterates(painted, n, Desks, d, g)
    <2> HIDE DEF Step, Defined
    <2> QED  BY <1>3, <1>5, <1>9, <1>11, <1>12, IterationTyped
  <1>14. painted \in [0 .. n -> Desks]
    BY <1>13 DEF Iterates
  <1>15. PaintSteps(d, w, area, painted)
    BY <1>2, <1>9, <1>10, <1>14 DEF PaintSteps, order, n
  <1> QED  BY <1>1, <1>15, Zenon DEF order, n

(* paint repaints the dirty pixels owned by the widget and all inside it.  *)
LEMMA PaintIs ==
  ASSUME NEW d \in Desks, NEW w \in Widgets, NEW area
  PROVE  Repaints(d, Paint(d, w, area), {p \in area : Owner(d, p) \in InsideOf(w)})
  <1> DEFINE order == PaintOrder(d, w, area)
             n == Len(order)
             Done(i) == {p \in area : \E j \in 1 .. i : Owner(d, p) = order[j]}
  <1>1. PICK c : PaintSteps(d, w, area, c) /\ Paint(d, w, area) = c[n]
    BY PaintStepsExist
  <1>2. /\ order \in Seq(Widgets) /\ c \in [0 .. n -> Desks] /\ c[0] = d
        /\ \A i \in 1 .. n : c[i] = PaintAlone(c[i - 1], order[i], area)
    BY <1>1 DEF PaintSteps
  <1>3. n \in Nat /\ \A i \in 1 .. n : order[i] \in Widgets
    BY <1>2, LenProperties, ElementOfSeq
  <1>4. Range(order) = {order[i] : i \in 1 .. n}
    BY <1>2, LenProperties DEF Range
  <1>5. ASSUME NEW p \in Screen, p \in area, Owner(d, p) \in InsideOf(w)
        PROVE  Owner(d, p) \in Range(order)
    <2>1. Owner(d, p) \in Widgets /\ p \in Reach(d, Owner(d, p))
      BY OwnerIs DEF Own
    <2> QED  BY <1>5, <2>1, OrderHasInside
  <1> HIDE DEF order, n
  <1> DEFINE S == {i \in Nat : i <= n => Repaints(d, c[i], Done(i))}
  <1>6. 0 \in S
    <2>1. Done(0) = {}
      OBVIOUS
    <2> QED  BY <1>2, <2>1, RepaintsNothing
  <1>7. ASSUME NEW i \in Nat, i \in S PROVE i + 1 \in S
    <2> SUFFICES ASSUME i + 1 <= n PROVE Repaints(d, c[i + 1], Done(i + 1))
      OBVIOUS
    <2>1. i + 1 \in 1 .. n /\ (i + 1) - 1 = i /\ i <= n /\ i \in 0 .. n /\ i + 1 \in 1 .. i + 1
      BY <1>3
    <2>2. Repaints(d, c[i], Done(i)) /\ c[i] \in Desks
      BY <1>2, <1>7, <2>1
    <2> DEFINE v == order[i + 1]
    <2>3. v \in Widgets /\ c[i + 1] = PaintAlone(c[i], v, area)
      BY <1>2, <1>3, <2>1
    <2>4. Repaints(c[i], c[i + 1], area \cap Own(c[i], v))
      BY <2>2, <2>3, PaintAloneIs
    <2>5. Own(c[i], v) = Own(d, v)
      BY <2>2, <2>3, SameReach DEF Repaints
    <2>6. Repaints(d, c[i + 1], Done(i) \cup (area \cap Own(d, v)))
      <3> HIDE DEF Done, v
      <3> QED  BY <2>2, <2>4, <2>5, RepaintsTwice
    <2>7. ASSUME NEW p \in Screen, p \in Done(i + 1)
          PROVE  p \in Done(i) \cup (area \cap Own(d, v))
      <3>1. PICK j \in 1 .. i + 1 : p \in area /\ Owner(d, p) = order[j]
        BY <2>7
      <3>2. CASE j = i + 1
        <4>1. p \in Own(d, v)
          BY <3>1, <3>2, OwnerIs
        <4> QED  BY <3>1, <4>1
      <3>3. CASE j # i + 1
        <4>1. j \in 1 .. i
          BY <3>3
        <4> QED  BY <3>1, <4>1
      <3> QED  BY <3>2, <3>3
    <2> HIDE DEF Done, v
    <2> QED  BY <2>6, <2>7, RepaintsLess
  <1>8. \A i \in Nat : i \in S
    <2> HIDE DEF S
    <2> QED  BY <1>6, <1>7, SetInduction
  <1>9. Repaints(d, c[n], Done(n))
    <2>1. n \in S /\ n <= n
      BY <1>3, <1>8
    <2> HIDE DEF Done
    <2> QED  BY <2>1, Zenon
  <1>10. \A p \in Screen : p \in {q \in area : Owner(d, q) \in InsideOf(w)} => p \in Done(n)
    BY <1>4, <1>5
  <1> HIDE DEF Done
  <1> QED  BY <1>1, <1>9, <1>10, RepaintsLess

-----------------------------------------------------------------------------
(* What the screen should show, as a user sees it: the last widget in the  *)
(* order of painting that is there. It is the owner of the pixel.          *)
LEMMA VisibleIs ==
  ASSUME NEW d \in Desks
  PROVE  /\ VisibleIn(d, Root) = Screen
         /\ \A w \in Others : \A p :
              p \in VisibleIn(d, w) <=> /\ p \in VisibleIn(d, ParentOf[w])
                                        /\ p \in Inner(d, ParentOf[w]) /\ p \in Body(d, w)
         /\ \A w \in Widgets : Reach(d, w) \subseteq VisibleIn(d, w)
  <1> DEFINE Step(f, v) == IF v = Root THEN Body(d, Root)
                           ELSE f[ParentOf[v]] \cap Inner(d, ParentOf[v]) \cap Body(d, v)
             Defined(f) == f = [v \in Widgets |-> Step(f, v)]
             inside == CHOOSE f : Defined(f)
             F == [f \in [Widgets -> SUBSET Screen] |-> [v \in Widgets |-> Step(f, v)]]
  <1>1. \A w : VisibleIn(d, w) = inside[w]
    <2> DEFINE SeenStep(f, v) == IF v = Root THEN Pixels(ScreenRect(d, v))
                           ELSE f[ParentOf[v]] \cap Pixels(ScreenClientRect(d, ParentOf[v]))
                                  \cap Pixels(ScreenRect(d, v))
               seenIn == CHOOSE f : f = [v \in Widgets |-> SeenStep(f, v)]
    <2>1. \A w : VisibleIn(d, w) = seenIn[w]
      BY Zenon DEF VisibleIn
    <2>2. \A f, v : Step(f, v) = SeenStep(f, v)
      BY DEF Inner, Body
    <2> HIDE DEF Step, SeenStep
    <2>3. \A f : [v \in Widgets |-> Step(f, v)] = [v \in Widgets |-> SeenStep(f, v)]
      BY <2>2
    <2>4. inside = seenIn
      BY <2>3, Zenon
    <2> QED  BY <2>1, <2>4
  <1>0. Body(d, Root) = Screen
    BY AreaFacts
  <1>2. ASSUME NEW f \in [Widgets -> SUBSET Screen], NEW v \in Widgets
        PROVE  Step(f, v) \in SUBSET Screen
    <2>1. CASE v = Root
      BY <1>0, <2>1
    <2>2. CASE v # Root
      <3>1. ParentOf[v] \in Widgets
        BY <2>2, TreeFacts
      <3>2. f[ParentOf[v]] \in SUBSET Screen
        BY <3>1
      <3> QED  BY <2>2, <3>2
    <2> QED  BY <2>1, <2>2
  <1>3. ASSUME NEW f \in [Widgets -> SUBSET Screen], NEW g \in [Widgets -> SUBSET Screen],
               NEW w \in Widgets, \A v \in ParentBefore[w] : f[v] = g[v]
        PROVE  Step(f, w) = Step(g, w)
    <2>1. w # Root => f[ParentOf[w]] = g[ParentOf[w]]
      BY <1>3 DEF ParentBefore
    <2> QED  BY <2>1
  <1> HIDE DEF Step
  <1>4. Local(Widgets, SUBSET Screen, ParentBefore, F)
    BY <1>2, <1>3 DEF Local
  <1>5. {} \in SUBSET Screen
    OBVIOUS
  <1>6. \E f : Defined(f)
    <2>1. \E f \in [Widgets -> SUBSET Screen] : f = F[f]
      <3> HIDE DEF F
      <3> QED  BY <1>4, <1>5, ParentFounded, Recursion
    <2>2. PICK f \in [Widgets -> SUBSET Screen] : f = F[f]
      BY <2>1, Zenon
    <2>3. Defined(f)
      BY <2>2
    <2> QED  BY <2>3, Zenon
  <1>7. Defined(inside)
    BY <1>6, Zenon
  <1> HIDE DEF inside
  <1>8. \A v \in Widgets : VisibleIn(d, v) = Step(inside, v)
    BY <1>1, <1>7
  <1>9. VisibleIn(d, Root) = Screen
    BY <1>0, <1>8, TreeFacts DEF Step
  <1>10. ASSUME NEW w \in Others
         PROVE  VisibleIn(d, w) = VisibleIn(d, ParentOf[w]) \cap Inner(d, ParentOf[w]) \cap Body(d, w)
    <2>1. w \in Widgets /\ w # Root /\ ParentOf[w] \in Widgets
      BY TreeFacts
    <2>2. VisibleIn(d, w) = inside[ParentOf[w]] \cap Inner(d, ParentOf[w]) \cap Body(d, w)
      BY <1>8, <2>1 DEF Step
    <2> QED  BY <1>1, <2>2
  <1> DEFINE S == {w \in Widgets : Reach(d, w) \subseteq VisibleIn(d, w)}
  <1>11. Root \in S
    BY <1>9, ReachIs, TreeFacts
  <1>12. ASSUME NEW w \in Others, ParentOf[w] \in S PROVE w \in S
    <2>1. ASSUME NEW p \in Reach(d, w) PROVE p \in VisibleIn(d, w)
      <3>1. p \in Reach(d, ParentOf[w]) /\ p \in Inner(d, ParentOf[w]) /\ p \in Body(d, w)
        BY ReachIs
      <3> QED  BY <1>10, <1>12, <3>1
    <2> QED  BY <2>1, TreeFacts
  <1>13. \A w \in Widgets : w \in S
    <2> HIDE DEF S
    <2> QED  BY <1>11, <1>12, TopDown
  <1> QED  BY <1>9, <1>10, <1>13

(* The last of a sequence that is in a set.                                *)
LastIn(V, s, u) ==
  /\ u \in V
  /\ \E j \in 1 .. Len(s) : s[j] = u /\ \A k \in j + 1 .. Len(s) : s[k] \notin V

(* The last at a pixel in a list of one.                                   *)
LEMMA LastOfOne ==
  ASSUME NEW V, NEW w \in V
  PROVE  LastIn(V, <<w>>, w)
  BY DEF LastIn

(* The last at a pixel, when it is in the second of two lists.             *)
LEMMA LastInRest ==
  ASSUME NEW S, NEW V, NEW s \in Seq(S), NEW t \in Seq(S), NEW u, LastIn(V, t, u)
  PROVE  LastIn(V, s \o t, u)
  <1> DEFINE z == s \o t
             m == Len(s)
             n == Len(t)
  <1>1. Joined(z, S, s, m, t, n)
    BY ConcatFacts
  <1>2. m \in Nat /\ n \in Nat
    BY LenProperties
  <1>3. PICK j \in 1 .. n : t[j] = u /\ \A k \in j + 1 .. n : t[k] \notin V
    BY DEF LastIn
  <1> HIDE DEF z, m, n
  <1>4. Len(z) = m + n /\ \A i \in m + 1 .. m + n : z[i] = t[i - m]
    BY <1>1 DEF Joined
  <1>5. j + m \in m + 1 .. m + n /\ j + m \in 1 .. m + n /\ (j + m) - m = j
    BY <1>2
  <1>6. z[j + m] = u
    BY <1>3, <1>4, <1>5
  <1>7. ASSUME NEW k \in (j + m) + 1 .. m + n PROVE z[k] \notin V
    <2>1. k \in m + 1 .. m + n /\ k - m \in j + 1 .. n
      BY <1>2
    <2> QED  BY <1>3, <1>4, <2>1
  <1>8. u \in V
    BY DEF LastIn
  <1>9. LastIn(V, z, u)
    BY <1>4, <1>5, <1>6, <1>7, <1>8 DEF LastIn
  <1> QED  BY <1>9 DEF z

(* The last at a pixel, when the second list has none there.               *)
LEMMA LastBeforeRest ==
  ASSUME NEW S, NEW V, NEW s \in Seq(S), NEW t \in Seq(S), NEW u, LastIn(V, s, u),
         \A x \in Range(t) : x \notin V
  PROVE  LastIn(V, s \o t, u)
  <1> DEFINE z == s \o t
             m == Len(s)
             n == Len(t)
  <1>1. Joined(z, S, s, m, t, n)
    BY ConcatFacts
  <1>2. m \in Nat /\ n \in Nat /\ DOMAIN t = 1 .. n
    BY LenProperties
  <1>3. PICK j \in 1 .. m : s[j] = u /\ \A k \in j + 1 .. m : s[k] \notin V
    BY DEF LastIn
  <1>0. \A i \in 1 .. n : t[i] \notin V
    BY <1>2 DEF Range
  <1> HIDE DEF z, m, n
  <1>4. /\ Len(z) = m + n /\ \A i \in 1 .. m : z[i] = s[i]
        /\ \A i \in m + 1 .. m + n : z[i] = t[i - m]
    BY <1>1 DEF Joined
  <1>5. j \in 1 .. m + n
    BY <1>2
  <1>6. z[j] = u
    BY <1>3, <1>4
  <1>7. ASSUME NEW k \in j + 1 .. m + n PROVE z[k] \notin V
    <2>1. CASE k <= m
      <3>1. k \in 1 .. m /\ k \in j + 1 .. m
        BY <1>2, <2>1
      <3> QED  BY <1>3, <1>4, <3>1
    <2>2. CASE ~(k <= m)
      <3>1. k \in m + 1 .. m + n /\ k - m \in 1 .. n
        BY <1>2, <2>2
      <3> QED  BY <1>0, <1>4, <3>1
    <2> QED  BY <2>1, <2>2
  <1>8. u \in V
    BY DEF LastIn
  <1>9. LastIn(V, z, u)
    BY <1>4, <1>5, <1>6, <1>7, <1>8 DEF LastIn
  <1> QED  BY <1>9 DEF z

(* The widgets that are at a pixel. *)
At(d, p) == {w \in Widgets : p \in VisibleIn(d, w)}

(* What is not at a pixel holds nothing that is.                           *)
LEMMA NotAtPixel ==
  ASSUME NEW d \in Desks, NEW p \in Screen, NEW f, IsOrder(d, Screen, f)
  PROVE  \A w \in Widgets : w \notin At(d, p) => \A x \in Range(f[w]) : x \notin At(d, p)
  <1> DEFINE S == {w \in Widgets : w \notin At(d, p) => \A x \in Range(f[w]) : x \notin At(d, p)}
  <1>1. ASSUME NEW w \in Widgets, Children(w) \subseteq S PROVE w \in S
    <2> SUFFICES ASSUME w \notin At(d, p), NEW x \in Range(f[w]) PROVE x \notin At(d, p)
      OBVIOUS
    <2>1. \/ x = w
          \/ \E c \in Children(w) : Body(d, c) \cap Screen # {} /\ x \in Range(f[c])
      BY OrderParts
    <2>2. ASSUME NEW c \in Children(w), x \in Range(f[c]) PROVE x \notin At(d, p)
      <3>1. c \in Others /\ ParentOf[c] = w
        BY DEF Children
      <3>2. p \notin VisibleIn(d, c)
        BY <3>1, VisibleIs DEF At
      <3> QED  BY <1>1, <2>2, <3>2 DEF At
    <2> QED  BY <2>1, <2>2
  <1>2. \A w \in Widgets : w \in S
    <2> HIDE DEF S
    <2> QED  BY <1>1, BottomUp
  <1> QED  BY <1>2

(* The last in the order of painting that is at a pixel is its owner.      *)
LEMMA OwnerIsLast ==
  ASSUME NEW d \in Desks, NEW p \in Screen, NEW f, IsOrder(d, Screen, f)
  PROVE  \A w \in Widgets : p \in Reach(d, w) => LastIn(At(d, p), f[w], Owner(d, p))
  <1> DEFINE V == At(d, p)
             u == Owner(d, p)
             S == {w \in Widgets : p \in Reach(d, w) => LastIn(V, f[w], u)}
  <1>1. ASSUME NEW w \in Widgets, Children(w) \subseteq S, p \in Reach(d, w)
        PROVE  LastIn(V, f[w], u)
    <2> DEFINE n == Len(d.kids[w])
               c(i) == d.kids[w][i]
    <2>1. PICK b : ListedBy(d, Screen, w, f, b) /\ f[w] = b[n]
      BY DEF IsOrder
    <2>2. /\ n \in Nat /\ \A i \in 1 .. n : c(i) \in Children(w)
          /\ \A x \in Children(w) : \E i \in 1 .. n : c(i) = x
          /\ \A i, j \in 1 .. n : c(i) = c(j) => i = j
      BY ChildList
    <2>3. /\ b \in [0 .. n -> Seq(Widgets)] /\ b[0] = <<w>>
          /\ \A i \in 1 .. n : b[i] = IF Body(d, c(i)) \cap Screen = {} THEN b[i - 1]
                                      ELSE b[i - 1] \o f[c(i)]
      BY <2>1 DEF ListedBy
    <2>4. \A i \in 1 .. n : f[c(i)] \in Seq(Widgets)
      BY <2>2, TreeFacts DEF IsOrder
    <2>5. \E k \in 0 .. n : LastIn(V, b[k], u) /\ \A i \in k + 1 .. n : c(i) \notin V
      <3>1. CASE Hit(d, w, p) = Nobody
        <4>1. p \in Own(d, w)
          BY <1>1, <3>1, HitIs, OwnIs, ScreenPoints
        <4>2. u = w /\ w \in V
          BY <1>1, <4>1, OwnerIs, VisibleIs DEF At
        <4>3. LastIn(V, b[0], u)
          BY <2>3, <4>2, LastOfOne
        <4>4. ASSUME NEW i \in 1 .. n PROVE c(i) \notin V
          <5>1. c(i) \in Children(w) /\ c(i) \in Others /\ ParentOf[c(i)] = w
            BY <2>2 DEF Children
          <5>2. p \notin Inner(d, w) \/ p \notin Body(d, c(i))
            BY <3>1, <5>1, HitIs, ScreenPoints
          <5> HIDE DEF c
          <5> QED  BY <5>1, <5>2, VisibleIs DEF At
        <4>5. 0 \in 0 .. n /\ 0 + 1 = 1
          BY <2>2
        <4> QED  BY <4>3, <4>4, <4>5
      <3>2. CASE Hit(d, w, p) # Nobody
        <4> DEFINE h == Hit(d, w, p)
        <4>1. /\ h \in Children(w) /\ p \in Inner(d, w) /\ p \in Body(d, h)
              /\ \A x \in Above(d, h) : p \notin Body(d, x)
          BY <3>2, HitIs, ScreenPoints
        <4> HIDE DEF h
        <4>2. h \in Others /\ ParentOf[h] = w
          BY <4>1 DEF Children
        <4>3. p \in Reach(d, h)
          BY <1>1, <4>1, <4>2, ReachIs
        <4> DEFINE k == IndexIn(d, h)
        <4>4. k \in 1 .. n /\ c(k) = h
          BY <4>2, IndexFacts
        <4>5. LastIn(V, f[h], u)
          BY <1>1, <4>1, <4>3
        <4>6. b[k] = b[k - 1] \o f[h]
          BY <2>3, <4>1, <4>4
        <4>7. k - 1 \in 0 .. n /\ k \in 0 .. n
          BY <2>2, <4>4
        <4>8. LastIn(V, b[k], u)
          BY <2>3, <2>4, <4>4, <4>5, <4>6, <4>7, LastInRest
        <4>9. ASSUME NEW i \in k + 1 .. n PROVE c(i) \notin V
          <5>1. i \in 1 .. n /\ k < i
            BY <2>2, <4>4
          <5>2. c(i) \in Children(w) /\ c(i) \in Others /\ ParentOf[c(i)] = w
            BY <2>2, <5>1 DEF Children
          <5>3. IndexIn(d, c(i)) = i
            BY <2>2, <5>1, <5>2, IndexFacts
          <5>4. c(i) \in Above(d, h)
            BY <4>2, <5>1, <5>2, <5>3, AboveIs
          <5>5. p \notin Body(d, c(i))
            BY <4>1, <5>4
          <5> HIDE DEF c
          <5> QED  BY <5>2, <5>5, VisibleIs DEF At
        <4> QED  BY <4>7, <4>8, <4>9
      <3> QED  BY <3>1, <3>2
    <2>6. PICK k \in 0 .. n : LastIn(V, b[k], u) /\ \A i \in k + 1 .. n : c(i) \notin V
      BY <2>5
    <2> DEFINE R == {i \in Nat : k + i <= n => LastIn(V, b[k + i], u)}
    <2>7. 0 \in R
      BY <2>2, <2>6
    <2>8. ASSUME NEW i \in Nat, i \in R PROVE i + 1 \in R
      <3> SUFFICES ASSUME k + (i + 1) <= n PROVE LastIn(V, b[k + (i + 1)], u)
        OBVIOUS
      <3> DEFINE j == k + (i + 1)
      <3>1. /\ j \in 1 .. n /\ j - 1 = k + i /\ k + i <= n /\ j - 1 \in 0 .. n
            /\ j \in k + 1 .. n
        BY <2>2
      <3> HIDE DEF j
      <3>2. LastIn(V, b[j - 1], u) /\ c(j) \notin V /\ c(j) \in Widgets
        BY <2>2, <2>6, <2>8, <3>1, TreeFacts
      <3>3. \A x \in Range(f[c(j)]) : x \notin V
        BY <3>2, NotAtPixel
      <3>4. b[j] = b[j - 1] \/ b[j] = b[j - 1] \o f[c(j)]
        BY <2>3, <3>1
      <3>5. b[j - 1] \in Seq(Widgets) /\ f[c(j)] \in Seq(Widgets)
        BY <2>3, <2>4, <3>1
      <3>6. LastIn(V, b[j - 1] \o f[c(j)], u)
        BY <3>2, <3>3, <3>5, LastBeforeRest
      <3>7. LastIn(V, b[j], u)
        BY <3>2, <3>4, <3>6
      <3> QED  BY <3>7 DEF j
    <2>9. \A i \in Nat : i \in R
      <3> HIDE DEF R
      <3> QED  BY <2>7, <2>8, SetInduction
    <2>10. n - k \in Nat /\ k + (n - k) = n /\ k + (n - k) <= n
      BY <2>2
    <2>11. LastIn(V, b[k + (n - k)], u)
      BY <2>9, <2>10
    <2> QED  BY <2>1, <2>10, <2>11
  <1>2. \A w \in Widgets : w \in S
    <2>1. ASSUME NEW w \in Widgets, Children(w) \subseteq S PROVE w \in S
      BY <1>1, <2>1
    <2> HIDE DEF S
    <2> QED  BY <2>1, BottomUp
  <1> QED  BY <1>2

(* What a widget covers of the picture.                                    *)
LEMMA CoverIs ==
  ASSUME NEW d \in Desks, NEW w \in Widgets, NEW s \in [Screen -> Colors]
  PROVE  /\ Cover(d, s, w) \in [Screen -> Colors]
         /\ \A p \in Screen : Cover(d, s, w)[p] = IF p \in VisibleIn(d, w) THEN Shade(d, w, p)
                                                  ELSE s[p]
  <1>1. Cover(d, s, w) = [p \in Screen |-> IF p \in VisibleIn(d, w) THEN Shade(d, w, p) ELSE s[p]]
    <2>1. Everywhere(d) = Screen
      BY AreaFacts
    <2> QED  BY <2>1 DEF Cover, Shade, Inner
  <1>2. \A p \in Screen : (IF p \in VisibleIn(d, w) THEN Shade(d, w, p) ELSE s[p]) \in Colors
    BY ShadeType
  <1> QED  BY <1>1, <1>2

(* The screen is right when it shows the picture.                          *)
LEMMA PictureIs ==
  ASSUME NEW d \in Desks
  PROVE  \A p \in Screen : Picture(d)[p] = Shown(d, p)
  <1> DEFINE order == PaintOrder(d, Root, Everywhere(d))
             n == Len(order)
             T == [Screen -> Colors]
             Step(c, i) == IF i = 0 THEN d.screen ELSE Cover(d, c[i - 1], order[i])
             Defined(c) == c = [i \in 0 .. n |-> Step(c, i)]
             picture == CHOOSE c : Defined(c)
             g == [i \in Nat |-> [s \in T |-> IF i \in 1 .. n THEN Cover(d, s, order[i])
                                              ELSE s]]
  <1>1. Picture(d) = picture[n]
    BY Zenon DEF Picture, InTurn
  <1>2. PICK f : IsOrder(d, Screen, f) /\ order = f[Root]
    BY OrderRecursion, AreaFacts, TreeFacts
  <1>3. order \in Seq(Widgets)
    BY <1>2, TreeFacts DEF IsOrder
  <1>4. n \in Nat /\ \A i \in 1 .. n : order[i] \in Widgets
    BY <1>3, LenProperties, ElementOfSeq
  <1>5. ASSUME NEW p \in Screen PROVE LastIn(At(d, p), order, Owner(d, p))
    BY <1>2, OwnerIsLast, ReachIs, TreeFacts
  <1>0. d.screen \in T
    BY DeskFacts
  <1> HIDE DEF order
  <1>6. ASSUME NEW i \in 1 .. n, NEW s \in T PROVE Cover(d, s, order[i]) \in T
    BY <1>4, CoverIs
  <1> HIDE DEF n
  <1>7. ASSUME NEW i \in 1 .. n, NEW s \in T PROVE g[i][s] = Cover(d, s, order[i])
    <2>1. i \in Nat
      BY <1>4
    <2> HIDE DEF T
    <2> QED  BY <2>1
  <1>8. g \in [Nat -> [T -> T]]
    <2> HIDE DEF T
    <2> QED  BY <1>6
  <1> HIDE DEF g, T
  <1>9. PICK c : Iterates(c, n, T, d.screen, g)
    BY <1>0, <1>4, <1>8, IterationExists
  <1>10. /\ c \in [0 .. n -> T] /\ c[0] = d.screen
         /\ \A i \in 1 .. n : c[i] = Cover(d, c[i - 1], order[i])
    <2>1. c \in [0 .. n -> T] /\ c[0] = d.screen /\ \A i \in 1 .. n : c[i] = g[i][c[i - 1]]
      BY <1>9 DEF Iterates
    <2>2. ASSUME NEW i \in 1 .. n PROVE c[i] = Cover(d, c[i - 1], order[i])
      <3>1. c[i - 1] \in T
        BY <1>4, <2>1
      <3> QED  BY <1>7, <2>1, <3>1, Zenon
    <2> QED  BY <2>1, <2>2
  <1>11. \E x : Defined(x)
    <2>1. ASSUME NEW i \in 0 .. n PROVE c[i] = Step(c, i)
      <3>1. i = 0 \/ i \in 1 .. n
        BY <1>4
      <3> QED  BY <1>10, <3>1
    <2> HIDE DEF Step
    <2>2. Defined(c)
      BY <1>10, <2>1
    <2> QED  BY <2>2, Zenon
  <1>12. Defined(picture)
    BY <1>11, Zenon
  <1> HIDE DEF picture
  <1>13. picture[0] = d.screen
    <2>1. 0 \in 0 .. n
      BY <1>4
    <2> QED  BY <1>12, <2>1, Zenon
  <1>14. ASSUME NEW i \in 1 .. n PROVE picture[i] = Cover(d, picture[i - 1], order[i])
    <2>1. i \in 0 .. n /\ i # 0
      BY <1>4
    <2> QED  BY <1>12, <2>1, Zenon
  <1> DEFINE R == {i \in Nat : i <= n => picture[i] \in T}
  <1>15. \A i \in Nat : i \in R
    <2>1. 0 \in R
      BY <1>0, <1>13
    <2>2. ASSUME NEW i \in Nat, i \in R PROVE i + 1 \in R
      <3> SUFFICES ASSUME i + 1 <= n PROVE picture[i + 1] \in T
        OBVIOUS
      <3>1. i + 1 \in 1 .. n /\ (i + 1) - 1 = i /\ i <= n
        BY <1>4
      <3>2. picture[i + 1] = Cover(d, picture[i], order[i + 1]) /\ picture[i] \in T
        BY <1>14, <2>2, <3>1
      <3> QED  BY <1>6, <3>1, <3>2
    <2> HIDE DEF R
    <2> QED  BY <2>1, <2>2, SetInduction
  <1>16. ASSUME NEW p \in Screen PROVE picture[n][p] = Shown(d, p)
    <2> DEFINE u == Owner(d, p)
               V == At(d, p)
    <2>1. LastIn(V, order, u)
      BY <1>5
    <2> HIDE DEF V
    <2>2. u \in V /\ \E j \in 1 .. n : order[j] = u /\ \A k \in j + 1 .. n : order[k] \notin V
      BY <2>1 DEF LastIn, n
    <2>3. PICK j \in 1 .. n : order[j] = u /\ \A k \in j + 1 .. n : order[k] \notin V
      BY <2>2
    <2>4. ASSUME NEW i \in 1 .. n
          PROVE  picture[i][p] = IF order[i] \in V THEN Shade(d, order[i], p)
                                 ELSE picture[i - 1][p]
      <3>1. i - 1 \in Nat /\ i - 1 <= n
        BY <1>4
      <3>2. picture[i - 1] \in [Screen -> Colors]
        BY <1>15, <3>1 DEF T
      <3>3. order[i] \in Widgets
        BY <1>4
      <3>4. picture[i][p] = IF p \in VisibleIn(d, order[i]) THEN Shade(d, order[i], p)
                            ELSE picture[i - 1][p]
        BY <1>14, <3>2, <3>3, CoverIs
      <3>5. order[i] \in V <=> p \in VisibleIn(d, order[i])
        BY <3>3 DEF V, At
      <3> QED  BY <3>4, <3>5
    <2> HIDE DEF u
    <2> DEFINE Q == {i \in Nat : j + i <= n => picture[j + i][p] = Shade(d, u, p)}
    <2>5. 0 \in Q
      BY <1>4, <2>2, <2>3, <2>4
    <2>6. ASSUME NEW i \in Nat, i \in Q PROVE i + 1 \in Q
      <3> SUFFICES ASSUME j + (i + 1) <= n PROVE picture[j + (i + 1)][p] = Shade(d, u, p)
        OBVIOUS
      <3> DEFINE k == j + (i + 1)
      <3>1. k \in 1 .. n /\ k \in j + 1 .. n /\ k - 1 = j + i /\ j + i <= n
        BY <1>4
      <3> HIDE DEF k
      <3>2. picture[k - 1][p] = Shade(d, u, p) /\ order[k] \notin V
        BY <2>3, <2>6, <3>1
      <3>3. picture[k][p] = picture[k - 1][p]
        BY <2>4, <3>1, <3>2
      <3> QED  BY <3>2, <3>3 DEF k
    <2>7. \A i \in Nat : i \in Q
      <3> HIDE DEF Q
      <3> QED  BY <2>5, <2>6, SetInduction
    <2>8. n - j \in Nat /\ j + (n - j) = n /\ j + (n - j) <= n
      BY <1>4
    <2>9. picture[j + (n - j)][p] = Shade(d, u, p)
      BY <2>7, <2>8
    <2> QED  BY <2>8, <2>9 DEF Shown, u
  <1> QED  BY <1>1, <1>16

-----------------------------------------------------------------------------
(* Every pixel is right, but for those where the cursor may be.            *)
RightBut(d, K) ==
  \A p \in Screen : d.screen[p] = Shown(d, p) \/ (d.screen[p] = Cursor /\ p \in K)

(* Painting spoils nothing: what it paints is right.                       *)
LEMMA PaintKeepsRight ==
  ASSUME NEW d \in Desks, NEW e, NEW area, NEW K, Repaints(d, e, area), RightBut(d, K)
  PROVE  RightBut(e, K)
  <1> SUFFICES ASSUME NEW p \in Screen
               PROVE  e.screen[p] = Shown(e, p) \/ (e.screen[p] = Cursor /\ p \in K)
    BY DEF RightBut
  <1>1. e \in Desks /\ SameTree(d, e) /\ e.active = d.active
    BY DEF Repaints
  <1>2. Shown(e, p) = Shown(d, p)
    BY <1>1, SameShown
  <1> QED  BY <1>2 DEF Repaints, RightBut

-----------------------------------------------------------------------------
(* Raising a window: it becomes the last of its parent's children, the     *)
(* others keep their order.                                                *)
LastNow(t, S, s, n, i) ==
  /\ t \in Seq(S) /\ Len(t) = n /\ t[n] = s[i]
  /\ \A j \in 1 .. n : (j < i => t[j] = s[j]) /\ (i < j => t[j - 1] = s[j])

(* The list with one element moved to its end.                             *)
LEMMA LastNowIs ==
  ASSUME NEW S, NEW s \in Seq(S), NEW n, n = Len(s), NEW i \in 1 .. n
  PROVE  LastNow(Append(RemoveAt(s, i), s[i]), S, s, n, i)
  <1> DEFINE x == SubSeq(s, 1, i - 1)
             y == SubSeq(s, i + 1, n)
             z == x \o y
             t == Append(z, s[i])
  <1>1. n \in Nat /\ i - 1 \in 0 .. n /\ i \in 0 .. n /\ s[i] \in S
    BY LenProperties, ElementOfSeq
  <1>2. x \in Seq(S) /\ Len(x) = i - 1 /\ \A j \in 1 .. i - 1 : x[j] = s[j]
    BY <1>1, PrefixFacts DEF FirstPart
  <1>3. y \in Seq(S) /\ Len(y) = n - i /\ \A j \in 1 .. n - i : y[j] = s[j + i]
    BY <1>1, SuffixFacts DEF RestOf
  <1>4. Joined(z, S, x, i - 1, y, n - i)
    BY <1>2, <1>3, ConcatFacts
  <1>5. RemoveAt(s, i) = z
    BY DEF RemoveAt
  <1> HIDE DEF x, y, z
  <1>6. /\ z \in Seq(S) /\ Len(z) = n - 1
        /\ \A j \in 1 .. i - 1 : z[j] = s[j]
        /\ \A j \in i .. n - 1 : z[j] = s[j + 1]
    <2>1. /\ z \in Seq(S) /\ Len(z) = (i - 1) + (n - i)
          /\ \A j \in 1 .. i - 1 : z[j] = x[j]
          /\ \A j \in (i - 1) + 1 .. (i - 1) + (n - i) : z[j] = y[j - (i - 1)]
      BY <1>4 DEF Joined
    <2>2. (i - 1) + (n - i) = n - 1 /\ (i - 1) + 1 = i
      BY <1>1
    <2>3. ASSUME NEW j \in i .. n - 1 PROVE z[j] = s[j + 1]
      <3>1. j - (i - 1) \in 1 .. n - i /\ (j - (i - 1)) + i = j + 1
        BY <1>1
      <3>2. z[j] = y[j - (i - 1)]
        BY <2>1, <2>2
      <3>3. y[j - (i - 1)] = s[(j - (i - 1)) + i]
        BY <1>3, <3>1
      <3> QED  BY <3>1, <3>2, <3>3
    <2> QED  BY <1>2, <2>1, <2>2, <2>3
  <1>7. t \in Seq(S) /\ Len(t) = n /\ t[n] = s[i] /\ \A j \in 1 .. n - 1 : t[j] = z[j]
    <2>1. /\ t \in Seq(S) /\ Len(t) = Len(z) + 1 /\ t[Len(z) + 1] = s[i]
          /\ \A j \in 1 .. Len(z) : t[j] = z[j]
      BY <1>1, <1>6, AppendProperties
    <2>2. Len(z) + 1 = n /\ Len(z) = n - 1
      BY <1>1, <1>6
    <2> QED  BY <2>1, <2>2
  <1> HIDE DEF t
  <1>8. ASSUME NEW j \in 1 .. n, j < i PROVE t[j] = s[j]
    <2>1. j \in 1 .. i - 1 /\ j \in 1 .. n - 1
      BY <1>1, <1>8
    <2> QED  BY <1>6, <1>7, <2>1
  <1>9. ASSUME NEW j \in 1 .. n, i < j PROVE t[j - 1] = s[j]
    <2>1. j - 1 \in i .. n - 1 /\ j - 1 \in 1 .. n - 1 /\ (j - 1) + 1 = j
      BY <1>1, <1>9
    <2>2. t[j - 1] = z[j - 1] /\ z[j - 1] = s[(j - 1) + 1]
      BY <1>6, <1>7, <2>1
    <2> QED  BY <2>1, <2>2
  <1>10. LastNow(t, S, s, n, i)
    BY <1>7, <1>8, <1>9 DEF LastNow
  <1> QED  BY <1>5, <1>10 DEF t

(* It has the same elements, each once.                                    *)
LEMMA LastNowKeeps ==
  ASSUME NEW S, NEW s \in Seq(S), NEW n \in Nat, n = Len(s), NEW i \in 1 .. n,
         NEW t, LastNow(t, S, s, n, i), \A j, l \in 1 .. n : s[j] = s[l] => j = l
  PROVE  /\ IsInjective(t) /\ Range(t) = Range(s)
         /\ \A j, l \in 1 .. n, a, b \in 1 .. n :
              j < l /\ s[j] # s[i] /\ t[a] = s[j] /\ t[b] = s[l] => a < b
  <1>1. /\ t \in Seq(S) /\ Len(t) = n /\ t[n] = s[i]
        /\ \A j \in 1 .. n : (j < i => t[j] = s[j]) /\ (i < j => t[j - 1] = s[j])
    BY DEF LastNow
  <1>2. DOMAIN t = 1 .. n /\ DOMAIN s = 1 .. n
    BY <1>1, LenProperties
  <1> DEFINE From(a) == IF a = n THEN i ELSE IF a < i THEN a ELSE a + 1
  <1>3. ASSUME NEW a \in 1 .. n PROVE From(a) \in 1 .. n /\ t[a] = s[From(a)]
    <2>1. CASE a = n
      BY <1>1, <2>1
    <2>2. CASE a # n /\ a < i
      BY <1>1, <2>2
    <2>3. CASE a # n /\ ~(a < i)
      <3>1. a + 1 \in 1 .. n /\ i < a + 1 /\ (a + 1) - 1 = a
        BY <2>3
      <3>2. t[(a + 1) - 1] = s[a + 1]
        BY <1>1, <3>1
      <3> QED  BY <2>3, <3>1, <3>2
    <2> QED  BY <2>1, <2>2, <2>3
  <1>4. \A a, b \in 1 .. n : From(a) = From(b) => a = b
    OBVIOUS
  <1>5. \A a, b \in 1 .. n : From(a) < From(b) /\ From(a) # i => a < b
    OBVIOUS
  <1> HIDE DEF From
  <1>6. IsInjective(t)
    <2> SUFFICES ASSUME NEW a \in 1 .. n, NEW b \in 1 .. n, t[a] = t[b] PROVE a = b
      BY <1>2 DEF IsInjective
    <2>1. From(a) = From(b)
      BY <1>3
    <2> QED  BY <1>4, <2>1
  <1>7. ASSUME NEW x \in Range(t) PROVE x \in Range(s)
    BY <1>2, <1>3 DEF Range
  <1>8. ASSUME NEW x \in Range(s) PROVE x \in Range(t)
    <2>1. PICK j \in 1 .. n : x = s[j]
      BY <1>2 DEF Range
    <2>2. \E a \in 1 .. n : t[a] = s[j]
      <3>1. CASE j = i
        BY <1>1, <3>1
      <3>2. CASE j < i
        BY <1>1, <3>2
      <3>3. CASE i < j
        <4>1. j - 1 \in 1 .. n
          BY <3>3
        <4> QED  BY <1>1, <3>3, <4>1
      <3> QED  BY <3>1, <3>2, <3>3
    <2> QED  BY <1>2, <2>1, <2>2 DEF Range
  <1>9. ASSUME NEW j \in 1 .. n, NEW l \in 1 .. n, NEW a \in 1 .. n, NEW b \in 1 .. n,
               j < l, s[j] # s[i], t[a] = s[j], t[b] = s[l]
        PROVE  a < b
    <2>1. From(a) \in 1 .. n /\ s[From(a)] = s[j] /\ From(b) \in 1 .. n /\ s[From(b)] = s[l]
      BY <1>3, <1>9
    <2>2. From(a) = j /\ From(b) = l /\ j # i
      BY <1>9, <2>1
    <2> QED  BY <1>5, <1>9, <2>2
  <1>10. Range(t) = Range(s)
    BY <1>7, <1>8
  <1>11. \A j, l \in 1 .. n, a, b \in 1 .. n :
              j < l /\ s[j] # s[i] /\ t[a] = s[j] /\ t[b] = s[l] => a < b
    BY <1>9
  <1> QED  BY <1>6, <1>10, <1>11, Zenon

(* r is d with w raised, before anything is painted.                       *)
Lifted(d, w, r) ==
  /\ r \in Desks /\ r.pos = d.pos /\ r.active = d.active /\ r.screen = d.screen
  /\ \A v \in Widgets \ {ParentOf[w]} : r.kids[v] = d.kids[v]
  /\ Last(r.kids[ParentOf[w]]) = w
  /\ \A v \in Others \ {w} : Above(d, v) \subseteq Above(r, v)

(* A desktop with other lists of children.                                 *)
LEMMA WithKids ==
  ASSUME NEW d \in Desks, NEW k
  PROVE  [d EXCEPT !.kids = k] =
           [kids |-> k, pos |-> d.pos, active |-> d.active, screen |-> d.screen]
  BY DeskFacts

(* Raising lifts the window, and paints it all.                            *)
LEMMA RaiseIsLifted ==
  ASSUME NEW d \in Desks, NEW w \in Others
  PROVE  \E r : Lifted(d, w, r) /\ Raise(d, w) = Paint(r, w, Screen)
  <1> DEFINE u == ParentOf[w]
             s == d.kids[u]
             n == Len(s)
             i == IndexIn(d, w)
             t == Append(RemoveAt(s, i), w)
             k == [d.kids EXCEPT ![u] = t]
             r == [kids |-> k, pos |-> d.pos, active |-> d.active, screen |-> d.screen]
  <1>1. u \in Widgets /\ w \in Widgets
    BY TreeFacts
  <1>2. /\ s \in Seq(Widgets) /\ n \in Nat /\ n = Len(InitKids[u])
        /\ \A j, l \in 1 .. n : s[j] = s[l] => j = l
    BY <1>1, ChildList
  <1>3. i \in 1 .. n /\ s[i] = w
    BY IndexFacts
  <1>4. LastNow(t, Widgets, s, n, i)
    BY <1>2, <1>3, LastNowIs
  <1>5. t \in Seq(Widgets) /\ Len(t) = n /\ t[n] = w
    BY <1>3, <1>4 DEF LastNow
  <1>6. /\ IsInjective(t) /\ Range(t) = Range(s)
        /\ \A j, l \in 1 .. n, a, b \in 1 .. n :
              j < l /\ s[j] # w /\ t[a] = s[j] /\ t[b] = s[l] => a < b
    <2> HIDE DEF s, n, i, t
    <2>1. /\ IsInjective(t) /\ Range(t) = Range(s)
          /\ \A j, l \in 1 .. n, a, b \in 1 .. n :
              j < l /\ s[j] # s[i] /\ t[a] = s[j] /\ t[b] = s[l] => a < b
      BY <1>2, <1>3, <1>4, LastNowKeeps DEF n
    <2> QED  BY <1>3, <2>1
  <1>7. d.kids \in [Widgets -> Seq(Widgets)] /\ IsTree(d.kids)
    BY DeskFacts
  <1>8. Raise(d, w) = Paint(r, w, Screen)
    <2>1. [d EXCEPT !.kids[ParentOf[w]] = Append(RemoveAt(@, IndexIn(d, w)), w)] = r
      <3>1. [d EXCEPT !.kids[ParentOf[w]] = Append(RemoveAt(@, IndexIn(d, w)), w)]
              = [d EXCEPT !.kids = k]
        BY DeskFacts
      <3> QED  BY <3>1, WithKids
    <2> HIDE DEF r
    <2>2. Raise(d, w) = Paint(r, w, Everywhere(d))
      BY <2>1 DEF Raise
    <2> QED  BY <2>2, AreaFacts
  <1>9. r \in Desks
    <2>1. k \in [Widgets -> Seq(Widgets)]
      BY <1>5, <1>7
    <2>2. IsTree(k)
      BY <1>2, <1>5, <1>6, <1>7 DEF IsTree
    <2> HIDE DEF k
    <2> QED  BY <2>1, <2>2, DeskFacts, DeskIs DEF r
  <1>10. /\ r.pos = d.pos /\ r.active = d.active /\ r.screen = d.screen /\ r.kids[u] = t
         /\ \A v \in Widgets \ {u} : r.kids[v] = d.kids[v]
    BY <1>1, <1>7
  <1> HIDE DEF r, t, n, s
  <1>11. Last(r.kids[u]) = w
    BY <1>5, <1>10 DEF Last
  <1>12. ASSUME NEW v \in Others, v # w PROVE Above(d, v) \subseteq Above(r, v)
    <2>1. CASE ParentOf[v] # u
      <3>1. r.kids[ParentOf[v]] = d.kids[ParentOf[v]]
        BY <1>10, <2>1, TreeFacts
      <3> QED  BY <1>9, <3>1, SameAbove
    <2>2. CASE ParentOf[v] = u
      <3> SUFFICES ASSUME NEW x \in Above(d, v) PROVE x \in Above(r, v)
        OBVIOUS
      <3>1. x \in Children(u) /\ IndexIn(d, v) < IndexIn(d, x)
        BY <2>2, AboveIs
      <3>2. x \in Others /\ ParentOf[x] = u
        BY <3>1 DEF Children
      <3>3. /\ IndexIn(d, v) \in 1 .. n /\ s[IndexIn(d, v)] = v
            /\ IndexIn(d, x) \in 1 .. n /\ s[IndexIn(d, x)] = x
        BY <2>2, <3>2, IndexFacts DEF s, n
      <3>4. /\ IndexIn(r, v) \in 1 .. n /\ t[IndexIn(r, v)] = v
            /\ IndexIn(r, x) \in 1 .. n /\ t[IndexIn(r, x)] = x
        BY <1>5, <1>9, <1>10, <2>2, <3>2, IndexFacts
      <3>5. IndexIn(r, v) < IndexIn(r, x)
        BY <1>6, <1>12, <3>1, <3>3, <3>4
      <3> QED  BY <1>9, <2>2, <3>1, <3>5, AboveIs
    <2> QED  BY <2>1, <2>2
  <1>13. Lifted(d, w, r)
    BY <1>9, <1>10, <1>11, <1>12 DEF Lifted
  <1> QED  BY <1>8, <1>13

-----------------------------------------------------------------------------
(* Who owns a pixel is led by who can be seen there.                       *)
LEMMA OwnerEnds ==
  ASSUME NEW d \in Desks, NEW p \in Screen
  PROVE  /\ Owner(d, p) \in Widgets /\ p \in Reach(d, Owner(d, p))
         /\ \A c \in Children(Owner(d, p)) : p \notin Reach(d, c)
         /\ \A w \in Widgets :
              p \in Reach(d, w) /\ (\A c \in Children(w) : p \notin Reach(d, c)) => w = Owner(d, p)
  <1>1. Owner(d, p) \in Widgets /\ p \in Own(d, Owner(d, p)) /\ p \in Reach(d, Owner(d, p))
    BY OwnerIs, OwnIs
  <1>2. ASSUME NEW c \in Children(Owner(d, p)) PROVE p \notin Reach(d, c)
    <2>1. c \in Others /\ ParentOf[c] = Owner(d, p)
      BY DEF Children
    <2> QED  BY <1>1, <2>1, OwnIs, ReachIs
  <1>3. ASSUME NEW w \in Widgets, p \in Reach(d, w), \A c \in Children(w) : p \notin Reach(d, c)
        PROVE  w = Owner(d, p)
    <2> DEFINE h == Hit(d, w, p)
    <2>1. p \in Points
      BY ScreenPoints
    <2>2. h = Nobody
      <3> SUFFICES ASSUME h # Nobody PROVE FALSE
        OBVIOUS
      <3>1. /\ h \in Children(w) /\ p \in Inner(d, w) /\ p \in Body(d, h)
            /\ \A c \in Above(d, h) : p \notin Body(d, c)
        BY <2>1, HitIs
      <3> HIDE DEF h
      <3>2. h \in Others /\ ParentOf[h] = w
        BY <3>1 DEF Children
      <3> QED  BY <1>3, <3>1, <3>2, ReachIs
    <2>3. p \in Own(d, w)
      BY <1>3, <2>1, <2>2, HitIs, OwnIs
    <2> QED  BY <2>3, OwnerIs
  <1> QED  BY <1>1, <1>2, <1>3

(* The owner of a pixel depends on what reaches it.                        *)
LEMMA OwnerByReach ==
  ASSUME NEW d \in Desks, NEW e \in Desks, NEW p \in Screen,
         \A w \in Widgets : p \in Reach(e, w) => p \in Reach(d, w),
         \A w \in Widgets : p \in Reach(d, w) => p \in Reach(e, w)
  PROVE  Owner(e, p) = Owner(d, p)
  <1> DEFINE u == Owner(e, p)
  <1>1. u \in Widgets /\ p \in Reach(e, u) /\ \A c \in Children(u) : p \notin Reach(e, c)
    BY OwnerEnds
  <1>2. Children(u) \subseteq Widgets
    BY <1>1, TreeFacts
  <1> QED  BY <1>1, <1>2, OwnerEnds

(* What lies inside a child lies inside its parent.                        *)
LEMMA InsideChild ==
  ASSUME NEW w \in Widgets, NEW c \in Children(w)
  PROVE  InsideOf(c) \subseteq InsideOf(w)
  <1>1. c \in Others /\ c \in Widgets /\ ParentOf[c] = w /\ c # Root
    BY TreeFacts DEF Children
  <1> DEFINE S == {v \in Widgets : v \in InsideOf(c) => v \in InsideOf(w)}
  <1>2. Root \in S
    BY <1>1, InsideIs, TreeFacts
  <1>3. ASSUME NEW v \in Others, ParentOf[v] \in S PROVE v \in S
    <2>1. v \in InsideOf(c) => v = c \/ ParentOf[v] \in InsideOf(c)
      BY <1>1, InsideIs
    <2>2. v \in InsideOf(w) <=> v = w \/ ParentOf[v] \in InsideOf(w)
      BY InsideIs
    <2>3. w \in InsideOf(w)
      BY InsideIs
    <2> QED  BY <1>1, <1>3, <2>1, <2>2, <2>3, TreeFacts
  <1>4. \A v \in Widgets : v \in S
    <2> HIDE DEF S
    <2> QED  BY <1>2, <1>3, TopDown
  <1> QED  BY <1>1, <1>4, InsideIs

(* The parent of a widget does not lie inside it.                          *)
LEMMA ParentOutside ==
  ASSUME NEW w \in Others
  PROVE  ParentOf[w] \notin InsideOf(w)
  <1>1. w \in Widgets /\ w # Root
    BY TreeFacts
  <1>2. InsideOf(w) \subseteq Widgets /\ w \in InsideOf(w) /\ Root \notin InsideOf(w)
    BY <1>1, InsideIs
  <1>3. \E v \in InsideOf(w) : ParentBefore[v] \cap InsideOf(w) = {}
    BY <1>2, ParentFounded DEF Founded
  <1>4. PICK v \in InsideOf(w) : ParentBefore[v] \cap InsideOf(w) = {}
    BY <1>3
  <1>5. v \in Others /\ ParentOf[v] \notin InsideOf(w)
    BY <1>2, <1>4, TreeFacts DEF ParentBefore
  <1>6. v = w
    BY <1>1, <1>5, InsideIs
  <1> QED  BY <1>5, <1>6

(* A pixel is owned by a widget or by one inside it when it can be seen    *)
(* there.                                                                  *)
LEMMA OwnerInside ==
  ASSUME NEW d \in Desks, NEW p \in Screen
  PROVE  /\ \A w \in Widgets : p \in Reach(d, w) <=> Owner(d, p) \in InsideOf(w)
         /\ \A w \in Widgets : \A v \in InsideOf(w) : p \in Reach(d, v) => p \in Reach(d, w)
  <1> DEFINE u == Owner(d, p)
             S == {w \in Widgets : p \in Reach(d, w) => u \in InsideOf(w)}
  <1>1. ASSUME NEW w \in Widgets, Children(w) \subseteq S PROVE w \in S
    <2>1. CASE p \in Reach(d, w) /\ \A c \in Children(w) : p \notin Reach(d, c)
      <3>1. w = u
        BY <2>1, OwnerEnds
      <3> QED  BY <3>1, InsideIs
    <2>2. CASE \E c \in Children(w) : p \in Reach(d, c)
      <3>1. PICK c \in Children(w) : p \in Reach(d, c)
        BY <2>2
      <3>2. u \in InsideOf(c)
        BY <1>1, <3>1
      <3> QED  BY <3>1, <3>2, InsideChild
    <2>3. CASE p \notin Reach(d, w)
      BY <2>3
    <2> QED  BY <2>1, <2>2, <2>3
  <1>2. \A w \in Widgets : w \in S
    <2> HIDE DEF S
    <2> QED  BY <1>1, BottomUp
  <1>3. ASSUME NEW w \in Widgets
        PROVE  \A v \in InsideOf(w) : p \in Reach(d, v) => p \in Reach(d, w)
    <2> DEFINE R == {v \in Widgets : v \in InsideOf(w) /\ p \in Reach(d, v) => p \in Reach(d, w)}
    <2>1. Root \in R
      BY ReachIs, InsideIs, TreeFacts
    <2>2. ASSUME NEW v \in Others, ParentOf[v] \in R PROVE v \in R
      <3>1. p \in Reach(d, v) => p \in Reach(d, ParentOf[v])
        BY ReachIs
      <3>2. v \in InsideOf(w) => v = w \/ ParentOf[v] \in InsideOf(w)
        BY InsideIs
      <3> QED  BY <2>2, <3>1, <3>2, TreeFacts
    <2>3. \A v \in Widgets : v \in R
      <3> HIDE DEF R
      <3> QED  BY <2>1, <2>2, TopDown
    <2> QED  BY <2>3, InsideIs
  <1>4. u \in Widgets /\ p \in Reach(d, u)
    BY OwnerEnds
  <1> QED  BY <1>2, <1>3, <1>4

(* After raising a window the screen is as right as before, and the window *)
(* is the last of its siblings.                                            *)
LEMMA RaiseIs ==
  ASSUME NEW d \in Desks, NEW w \in Others, NEW e, e = Raise(d, w)
  PROVE  /\ e \in Desks /\ e.pos = d.pos /\ e.active = d.active
         /\ \A v \in Widgets \ {ParentOf[w]} : e.kids[v] = d.kids[v]
         /\ Last(e.kids[ParentOf[w]]) = w
         /\ \A K : RightBut(d, K) => RightBut(e, K)
  <1>1. PICK r : Lifted(d, w, r) /\ e = Paint(r, w, Screen)
    BY RaiseIsLifted
  <1>2. /\ r \in Desks /\ r.pos = d.pos /\ r.active = d.active /\ r.screen = d.screen
        /\ \A v \in Widgets \ {ParentOf[w]} : r.kids[v] = d.kids[v]
        /\ Last(r.kids[ParentOf[w]]) = w
        /\ \A v \in Others \ {w} : Above(d, v) \subseteq Above(r, v)
    BY <1>1 DEF Lifted
  <1>3. w \in Widgets
    BY TreeFacts
  <1>4. Repaints(r, e, {p \in Screen : Owner(r, p) \in InsideOf(w)})
    BY <1>1, <1>2, <1>3, PaintIs
  <1>5. e \in Desks /\ e.kids = r.kids /\ e.pos = r.pos /\ e.active = r.active
    BY <1>4 DEF Repaints, SameTree
  <1>6. ASSUME NEW v \in Widgets
        PROVE  Body(r, v) = Body(d, v) /\ Inner(r, v) = Inner(d, v)
    <2>1. \A x \in Widgets : x \in Widgets /\ r.pos[x] = d.pos[x]
                                           /\ (x # Root => ParentOf[x] \in Widgets)
      BY <1>2, TreeFacts
    <2>2. ScreenPos(r, v) = ScreenPos(d, v)
      BY <1>2, <2>1, SamePlace
    <2> QED  BY <2>2, SameAreas
  <1>7. ASSUME NEW p \in Screen
        PROVE  \A v \in Widgets : v \notin InsideOf(w) /\ p \in Reach(r, v) => p \in Reach(d, v)
    <2> DEFINE S == {v \in Widgets : v \notin InsideOf(w) /\ p \in Reach(r, v) => p \in Reach(d, v)}
    <2>1. Root \in S
      BY ReachIs, TreeFacts
    <2>2. ASSUME NEW v \in Others, ParentOf[v] \in S PROVE v \in S
      <3> SUFFICES ASSUME v \notin InsideOf(w), p \in Reach(r, v) PROVE p \in Reach(d, v)
        BY TreeFacts
      <3>1. v # w /\ ParentOf[v] \notin InsideOf(w)
        BY <1>3, InsideIs
      <3>2. /\ p \in Reach(r, ParentOf[v]) /\ p \in Inner(r, ParentOf[v]) /\ p \in Body(r, v)
            /\ \A x \in Above(r, v) : p \notin Body(r, x)
        BY <1>2, ReachIs
      <3>3. v \in Widgets /\ ParentOf[v] \in Widgets
        BY TreeFacts
      <3>4. p \in Reach(d, ParentOf[v]) /\ p \in Inner(d, ParentOf[v]) /\ p \in Body(d, v)
        BY <1>6, <2>2, <3>1, <3>2, <3>3
      <3>5. ASSUME NEW x \in Above(d, v) PROVE p \notin Body(d, x)
        <4>1. x \in Above(r, v)
          BY <1>2, <3>1
        <4>2. x \in Widgets
          BY <3>3, AboveFacts, TreeFacts
        <4> QED  BY <1>6, <3>2, <4>1, <4>2
      <3> QED  BY <3>4, <3>5, ReachIs
    <2>3. \A v \in Widgets : v \in S
      <3> HIDE DEF S
      <3> QED  BY <2>1, <2>2, TopDown
    <2> QED  BY <2>3
  <1>8. ASSUME NEW p \in Screen, Owner(r, p) \notin InsideOf(w)
        PROVE  Shown(r, p) = Shown(d, p)
    <2> DEFINE u == Owner(r, p)
    <2>1. u \in Widgets /\ p \in Own(r, u)
      BY <1>2, OwnerIs
    <2>2. p \in Reach(r, u) /\ (p \notin Inner(r, u) \/ \A c \in Children(u) : p \notin Body(r, c))
      BY <1>2, <2>1, OwnIs
    <2>3. p \in Reach(d, u)
      BY <1>7, <1>8, <2>1, <2>2
    <2>4. Children(u) \subseteq Widgets
      BY <2>1, TreeFacts
    <2>5. p \notin Inner(d, u) \/ \A c \in Children(u) : p \notin Body(d, c)
      BY <1>6, <2>1, <2>2, <2>4
    <2>6. p \in Own(d, u)
      BY <2>1, <2>3, <2>5, OwnIs
    <2>7. u = Owner(d, p)
      BY <2>1, <2>6, OwnerIs
    <2>8. Shade(r, u, p) = Shade(d, u, p)
      BY <1>2, <1>6, <2>1 DEF Shade, Client
    <2> QED  BY <2>7, <2>8 DEF Shown
  <1>9. ASSUME NEW K, RightBut(d, K) PROVE RightBut(e, K)
    <2> SUFFICES ASSUME NEW p \in Screen
                 PROVE  e.screen[p] = Shown(e, p) \/ (e.screen[p] = Cursor /\ p \in K)
      BY DEF RightBut
    <2>1. Shown(e, p) = Shown(r, p)
      BY <1>2, <1>4, <1>5, SameShown DEF Repaints
    <2>2. \/ e.screen[p] = Shown(r, p)
          \/ Owner(r, p) \notin InsideOf(w) /\ e.screen[p] = r.screen[p]
      BY <1>4 DEF Repaints
    <2>3. d.screen[p] = Shown(d, p) \/ (d.screen[p] = Cursor /\ p \in K)
      BY <1>9 DEF RightBut
    <2> QED  BY <1>2, <1>8, <2>1, <2>2, <2>3
  <1> QED  BY <1>2, <1>5, <1>9

-----------------------------------------------------------------------------
(* Moving a widget: all that is not inside it stays where it is.           *)
LEMMA CommonPixel ==
  ASSUME NEW d \in Desks, NEW a \in Others, NEW b \in Others, ParentOf[a] = ParentOf[b],
         NEW p, p \in Body(d, a), p \in Body(d, b)
  PROVE  Intersects(RectOf(d, a), RectOf(d, b))
  <1> DEFINE u == ParentOf[a]
             s == ScreenPos(d, u)
             o == ClientOffset(u)
             x == ScreenPos(d, a)
             y == ScreenPos(d, b)
             i == d.pos[a]
             j == d.pos[b]
  <1>1. a \in Widgets /\ b \in Widgets /\ u \in Widgets
    BY TreeFacts
  <1>2. d.pos \in [Widgets -> Points]
    BY DeskFacts
  <1>3. s \in Points /\ o \in Points /\ x \in Points /\ y \in Points /\ i \in Points /\ j \in Points
    BY <1>1, <1>2, ScreenPosIs, OffsetType
  <1>4. x = Plus(Plus(i, s), o) /\ y = Plus(Plus(j, s), o)
    BY <1>1, <1>2, ScreenPosIs
  <1>5. /\ RectOf(d, a) = Rect(i[1], i[2], SizeOf[a][1], SizeOf[a][2])
        /\ RectOf(d, b) = Rect(j[1], j[2], SizeOf[b][1], SizeOf[b][2])
    BY DEF RectOf
  <1>6. /\ p \in Points /\ x[1] <= p[1] /\ p[1] < x[1] + SizeOf[a][1]
        /\ x[2] <= p[2] /\ p[2] < x[2] + SizeOf[a][2]
        /\ y[1] <= p[1] /\ p[1] < y[1] + SizeOf[b][1]
        /\ y[2] <= p[2] /\ p[2] < y[2] + SizeOf[b][2]
    BY <1>1, <1>3, BodyIs
  <1>7. /\ SizeOf[a][1] \in Nat /\ SizeOf[a][2] \in Nat /\ SizeOf[b][1] \in Nat /\ SizeOf[b][2] \in Nat
    BY <1>1, SizeFacts
  <1> HIDE DEF u, s, o, x, y, i, j
  <1>8. /\ x[1] = (i[1] + s[1]) + o[1] /\ x[2] = (i[2] + s[2]) + o[2]
        /\ y[1] = (j[1] + s[1]) + o[1] /\ y[2] = (j[2] + s[2]) + o[2]
    BY <1>4 DEF Plus
  <1>9. /\ i[1] \in Int /\ i[2] \in Int /\ j[1] \in Int /\ j[2] \in Int
        /\ s[1] \in Int /\ s[2] \in Int /\ o[1] \in Int /\ o[2] \in Int
        /\ p[1] \in Int /\ p[2] \in Int
    BY <1>3, <1>6, PointFacts
  <1>10. /\ i[1] <= j[1] + SizeOf[b][1] - 1 /\ i[1] + SizeOf[a][1] - 1 >= j[1]
         /\ i[2] <= j[2] + SizeOf[b][2] - 1 /\ i[2] + SizeOf[a][2] - 1 >= j[2]
    BY <1>6, <1>7, <1>8, <1>9
  <1> QED  BY <1>5, <1>10 DEF Intersects, Rect, Left, Right, Top, Bottom

(* m is d with w elsewhere, before anything is painted.                    *)
Shifted(d, w, to, m) ==
  /\ m \in Desks /\ m.kids = d.kids /\ m.active = d.active /\ m.screen = d.screen
  /\ m.pos[w] = to /\ \A v \in Widgets \ {w} : m.pos[v] = d.pos[v]
Unmoved(d, w, m) ==
  \A v \in Widgets \ InsideOf(w) : Body(m, v) = Body(d, v) /\ Inner(m, v) = Inner(d, v)

(* A desktop with other places.                                            *)
LEMMA WithPos ==
  ASSUME NEW d \in Desks, NEW k
  PROVE  [d EXCEPT !.pos = k] =
           [kids |-> d.kids, pos |-> k, active |-> d.active, screen |-> d.screen]
  BY DeskFacts

(* A desktop with one widget moved.                                        *)
LEMMA ShiftedIs ==
  ASSUME NEW d \in Desks, NEW w \in Others, NEW to \in Points, NEW m,
         m = [d EXCEPT !.pos[w] = to]
  PROVE  Shifted(d, w, to, m)
  <1> DEFINE k == [d.pos EXCEPT ![w] = to]
             r == [kids |-> d.kids, pos |-> k, active |-> d.active, screen |-> d.screen]
  <1>1. w \in Widgets /\ w # Root
    BY TreeFacts
  <1>2. d.pos \in [Widgets -> Points] /\ d.pos[Root] = <<0, 0>>
    BY DeskFacts
  <1>3. m = [d EXCEPT !.pos = k]
    OBVIOUS
  <1>4. m = r
    BY <1>3, WithPos
  <1>5. k \in [Widgets -> Points] /\ k[Root] = <<0, 0>> /\ k[w] = to
        /\ \A v \in Widgets \ {w} : k[v] = d.pos[v]
    BY <1>1, <1>2, TreeFacts
  <1> HIDE DEF k
  <1>6. r \in Desks
    BY <1>5, DeskFacts, DeskIs
  <1>7. r.kids = d.kids /\ r.pos = k /\ r.active = d.active /\ r.screen = d.screen
    OBVIOUS
  <1> HIDE DEF r
  <1>8. Shifted(d, w, to, r)
    BY <1>5, <1>6, <1>7 DEF Shifted
  <1> QED  BY <1>4, <1>8, Zenon

(* What does not lie inside it stays.                                      *)
LEMMA ShiftedUnmoved ==
  ASSUME NEW d \in Desks, NEW w \in Others, NEW to, NEW m, Shifted(d, w, to, m)
  PROVE  /\ Unmoved(d, w, m) /\ Unmoved(m, w, d)
         /\ \A v \in Others : Above(m, v) = Above(d, v)
  <1>1. w \in Widgets
    BY TreeFacts
  <1>2. m \in Desks /\ m.kids = d.kids
    BY DEF Shifted
  <1> DEFINE S == Widgets \ InsideOf(w)
  <1>3. \A v \in S : /\ v \in Widgets /\ m.pos[v] = d.pos[v]
                     /\ v # Root => ParentOf[v] \in S
    <2> SUFFICES ASSUME NEW v \in S
                 PROVE  /\ v \in Widgets /\ m.pos[v] = d.pos[v]
                        /\ v # Root => ParentOf[v] \in S
      OBVIOUS
    <2>1. v # w
      BY <1>1, InsideIs
    <2>2. v # Root => v \in Others /\ ParentOf[v] \in Widgets
      BY TreeFacts
    <2> QED  BY <1>1, <2>1, <2>2, InsideIs DEF Shifted
  <1>4. \A v \in S : ScreenPos(m, v) = ScreenPos(d, v)
    <2> HIDE DEF S
    <2> QED  BY <1>2, <1>3, SamePlace
  <1>5. \A v \in S : Body(m, v) = Body(d, v) /\ Inner(m, v) = Inner(d, v)
    BY <1>4, SameAreas
  <1>6. \A v \in Others : Above(m, v) = Above(d, v)
    BY <1>2, SameAbove
  <1> QED  BY <1>5, <1>6 DEF Unmoved

(* Where w is hidden in both, nothing else comes to be seen.               *)
LEMMA HiddenTwice ==
  ASSUME NEW d \in Desks, NEW m \in Desks, NEW w \in Others, Unmoved(d, w, m),
         \A v \in Others : Above(m, v) = Above(d, v),
         NEW p \in Screen, p \notin Reach(d, w), p \notin Reach(m, w)
  PROVE  \A v \in Widgets : p \in Reach(m, v) => p \in Reach(d, v)
  <1>1. w \in Widgets /\ w # Root
    BY TreeFacts
  <1> DEFINE S == {v \in Widgets : p \in Reach(m, v) => p \in Reach(d, v)}
  <1>2. Root \in S
    BY ReachIs, TreeFacts
  <1>3. ASSUME NEW v \in Others, ParentOf[v] \in S PROVE v \in S
    <2> SUFFICES ASSUME p \in Reach(m, v) PROVE p \in Reach(d, v)
      BY TreeFacts
    <2>1. v \notin InsideOf(w)
      BY <1>1, OwnerInside
    <2>2. v # w /\ ParentOf[v] \notin InsideOf(w)
      BY <1>1, <2>1, InsideIs
    <2>3. v \in Widgets /\ ParentOf[v] \in Widgets
      BY TreeFacts
    <2>4. /\ p \in Reach(m, ParentOf[v]) /\ p \in Inner(m, ParentOf[v]) /\ p \in Body(m, v)
          /\ \A x \in Above(m, v) : p \notin Body(m, x)
      BY ReachIs
    <2>5. p \in Reach(d, ParentOf[v]) /\ p \in Inner(d, ParentOf[v]) /\ p \in Body(d, v)
      BY <1>3, <2>1, <2>2, <2>3, <2>4 DEF Unmoved
    <2>6. ASSUME NEW x \in Children(ParentOf[v]), x # w
          PROVE  Body(m, x) = Body(d, x)
      <3>1. x \in Others /\ x \in Widgets /\ ParentOf[x] = ParentOf[v]
        BY TreeFacts DEF Children
      <3>2. x \notin InsideOf(w)
        BY <1>1, <2>2, <2>6, <3>1, InsideIs
      <3> QED  BY <3>1, <3>2 DEF Unmoved
    <2>7. ASSUME NEW x \in Above(d, v), x # w PROVE p \notin Body(d, x)
      <3>1. x \in Children(ParentOf[v])
        BY AboveFacts
      <3> QED  BY <2>4, <2>6, <2>7, <3>1
    <2>8. ASSUME w \in Above(d, v) PROVE p \notin Body(d, w)
      <3> SUFFICES ASSUME p \in Body(d, w) PROVE FALSE
        OBVIOUS
      <3>1. ParentOf[w] = ParentOf[v]
        BY <2>8, AboveFacts DEF Children
      <3>2. PICK y \in Above(d, w) : p \in Body(d, y)
        BY <2>5, <3>1, ReachIs
      <3>3. y \in Above(d, v) /\ y # w
        BY <2>8, AboveFacts
      <3> QED  BY <2>7, <3>2, <3>3
    <2>9. \A x \in Above(d, v) : p \notin Body(d, x)
      BY <2>7, <2>8
    <2> QED  BY <2>5, <2>9, ReachIs
  <1>4. \A v \in Widgets : v \in S
    <2> HIDE DEF S
    <2> QED  BY <1>2, <1>3, TopDown
  <1> QED  BY <1>4

(* Where w is seen, only it and what is inside it hides anything from m.   *)
LEMMA StillSeen ==
  ASSUME NEW d \in Desks, NEW m \in Desks, NEW w \in Others, Unmoved(d, w, m),
         \A v \in Others : Above(m, v) = Above(d, v),
         NEW p \in Screen, p \in Reach(d, w)
  PROVE  \A v \in Widgets : v \notin InsideOf(w) /\ p \in Reach(d, v) => p \in Reach(m, v)
  <1>1. w \in Widgets /\ w # Root /\ p \in Body(d, w)
    BY ReachIs, TreeFacts
  <1> DEFINE S == {v \in Widgets : v \notin InsideOf(w) /\ p \in Reach(d, v) => p \in Reach(m, v)}
  <1>2. Root \in S
    BY ReachIs, TreeFacts
  <1>3. ASSUME NEW v \in Others, ParentOf[v] \in S PROVE v \in S
    <2> SUFFICES ASSUME v \notin InsideOf(w), p \in Reach(d, v) PROVE p \in Reach(m, v)
      BY TreeFacts
    <2>1. v # w /\ ParentOf[v] \notin InsideOf(w)
      BY <1>1, InsideIs
    <2>2. v \in Widgets /\ ParentOf[v] \in Widgets
      BY TreeFacts
    <2>3. /\ p \in Reach(d, ParentOf[v]) /\ p \in Inner(d, ParentOf[v]) /\ p \in Body(d, v)
          /\ \A x \in Above(d, v) : p \notin Body(d, x)
      BY ReachIs
    <2>4. p \in Reach(m, ParentOf[v]) /\ p \in Inner(m, ParentOf[v]) /\ p \in Body(m, v)
      BY <1>3, <2>1, <2>2, <2>3 DEF Unmoved
    <2>5. ASSUME NEW x \in Above(m, v) PROVE p \notin Body(m, x)
      <3>1. x \in Above(d, v) /\ x # w
        BY <1>1, <2>3
      <3>2. x \in Children(ParentOf[v])
        BY <3>1, AboveFacts
      <3>3. x \in Others /\ x \in Widgets /\ ParentOf[x] = ParentOf[v]
        BY <3>2, TreeFacts DEF Children
      <3>4. x \notin InsideOf(w)
        BY <1>1, <2>1, <3>1, <3>3, InsideIs
      <3> QED  BY <2>3, <3>1, <3>3, <3>4 DEF Unmoved
    <2> QED  BY <2>4, <2>5, ReachIs
  <1>4. \A v \in Widgets : v \in S
    <2> HIDE DEF S
    <2> QED  BY <1>2, <1>3, TopDown
  <1> QED  BY <1>4

(* The pixels that are to be painted: those where w is to be seen, and of  *)
(* those that it leaves the ones of its parent and of what lay below it.   *)
LeftBehind(d, w, m) == Reach(d, w) \ Body(m, w)
Uncovered(d, w, m, p) ==
  \/ Owner(m, p) \in InsideOf(w)
  \/ /\ p \in LeftBehind(d, w, m)
     /\ \/ Owner(m, p) = ParentOf[w]
        \/ \E s \in Below(d, w) : /\ Intersects(RectOf(d, s), RectOf(d, w))
                                  /\ Owner(m, p) \in InsideOf(s)

(* What a move does not uncover shows what it did.                         *)
LEMMA NotUncovered ==
  ASSUME NEW d \in Desks, NEW w \in Others, NEW to, NEW m, Shifted(d, w, to, m),
         NEW p \in Screen, ~Uncovered(d, w, m, p)
  PROVE  Shown(m, p) = Shown(d, p)
  <1>1. w \in Widgets /\ ParentOf[w] \in Widgets
    BY TreeFacts
  <1>2. m \in Desks /\ m.active = d.active
    BY DEF Shifted
  <1>3. /\ Unmoved(d, w, m) /\ Unmoved(m, w, d)
        /\ \A v \in Others : Above(m, v) = Above(d, v)
    BY ShiftedUnmoved
  <1>4. Owner(m, p) \notin InsideOf(w)
    BY DEF Uncovered
  <1>5. p \notin Reach(m, w)
    BY <1>1, <1>2, <1>4, OwnerInside
  <1>6. ParentOf[w] \notin InsideOf(w)
    BY ParentOutside
  <1>7. p \notin Reach(d, w)
    <2> SUFFICES ASSUME p \in Reach(d, w) PROVE FALSE
      OBVIOUS
    <2>1. /\ p \in Reach(d, ParentOf[w]) /\ p \in Inner(d, ParentOf[w]) /\ p \in Body(d, w)
          /\ \A v \in Above(d, w) : p \notin Body(d, v)
      BY ReachIs
    <2>2. p \in Reach(m, ParentOf[w]) /\ p \in Inner(m, ParentOf[w])
      <3>1. p \in Reach(m, ParentOf[w])
        BY <1>1, <1>2, <1>3, <1>6, <2>1, StillSeen
      <3> QED  BY <1>1, <1>3, <1>6, <2>1, <3>1 DEF Unmoved
    <2>3. ASSUME NEW x \in Children(ParentOf[w]), x # w
          PROVE  Body(m, x) = Body(d, x) /\ x \in Others /\ x \in Widgets /\ ParentOf[x] = ParentOf[w]
      <3>1. x \in Others /\ x \in Widgets /\ ParentOf[x] = ParentOf[w]
        BY TreeFacts DEF Children
      <3>2. x \notin InsideOf(w)
        BY <1>1, <1>6, <2>3, <3>1, InsideIs
      <3> QED  BY <1>3, <3>1, <3>2 DEF Unmoved
    <2>4. ASSUME NEW x \in Above(m, w) PROVE p \notin Body(m, x)
      <3>1. x \in Above(d, w) /\ x \in Children(ParentOf[w]) /\ x # w
        BY <1>3, AboveFacts
      <3> QED  BY <2>1, <2>3, <3>1
    <2>5. p \notin Body(m, w)
      BY <1>2, <1>5, <2>2, <2>4, ReachIs
    <2>6. p \in LeftBehind(d, w, m)
      BY <2>5 DEF LeftBehind
    <2> DEFINE h == Hit(m, ParentOf[w], p)
    <2>7. CASE h = Nobody
      <3>1. p \in Own(m, ParentOf[w])
        BY <1>1, <1>2, <2>2, <2>7, HitIs, OwnIs, ScreenPoints
      <3>2. Owner(m, p) = ParentOf[w]
        BY <1>1, <1>2, <3>1, OwnerIs
      <3> QED  BY <2>6, <3>2 DEF Uncovered
    <2>8. CASE h # Nobody
      <3>1. /\ h \in Children(ParentOf[w]) /\ p \in Inner(m, ParentOf[w]) /\ p \in Body(m, h)
            /\ \A c \in Above(m, h) : p \notin Body(m, c)
        BY <1>1, <1>2, <2>8, HitIs, ScreenPoints
      <3> HIDE DEF h
      <3>2. h # w
        BY <2>5, <3>1
      <3>3. p \in Body(d, h) /\ h \in Others /\ h \in Widgets /\ ParentOf[h] = ParentOf[w]
        BY <2>3, <3>1, <3>2
      <3>4. h \in Below(d, w)
        BY <2>1, <3>1, <3>2, <3>3, AboveFacts
      <3>5. Intersects(RectOf(d, h), RectOf(d, w))
        BY <2>1, <3>3, CommonPixel
      <3>6. p \in Reach(m, h)
        BY <1>2, <2>2, <3>1, <3>3, ReachIs
      <3>7. Owner(m, p) \in InsideOf(h)
        BY <1>2, <3>3, <3>6, OwnerInside
      <3> QED  BY <2>6, <3>4, <3>5, <3>7 DEF Uncovered
    <2> QED  BY <2>7, <2>8
  <1>8. \A v \in Widgets : p \in Reach(m, v) => p \in Reach(d, v)
    BY <1>2, <1>3, <1>5, <1>7, HiddenTwice
  <1>9. \A v \in Widgets : p \in Reach(d, v) => p \in Reach(m, v)
    <2>1. \A v \in Others : Above(d, v) = Above(m, v)
      BY <1>3
    <2> QED  BY <1>2, <1>3, <1>5, <1>7, <2>1, HiddenTwice
  <1>10. Owner(m, p) = Owner(d, p)
    BY <1>2, <1>8, <1>9, OwnerByReach
  <1> DEFINE u == Owner(m, p)
  <1>11. u \in Widgets
    BY <1>2, OwnerIs
  <1>12. Shade(m, u, p) = Shade(d, u, p)
    BY <1>2, <1>3, <1>4, <1>11 DEF Unmoved, Shade, Client
  <1> QED  BY <1>10, <1>12 DEF Shown

Dirty(d, w, m, everything) ==
  IF LeftBehind(d, w, m) = {} /\ everything THEN Screen ELSE LeftBehind(d, w, m)
Sibling(d, w, i) == d.kids[ParentOf[w]][i]
Meets(d, w, i) == Intersects(RectOf(d, Sibling(d, w, i)), RectOf(d, w))
SiblingSteps(d, w, m, area, c) ==
  /\ c \in [0 .. IndexIn(d, w) - 1 -> Desks] /\ c[0] = m
  /\ \A i \in 1 .. IndexIn(d, w) - 1 :
       c[i] = IF Meets(d, w, i) THEN Paint(c[i - 1], Sibling(d, w, i), area) ELSE c[i - 1]

(* The sibling at a place of the list.                                     *)
LEMMA SiblingIs ==
  ASSUME NEW d \in Desks, NEW w \in Others
  PROVE  /\ IndexIn(d, w) - 1 \in Nat
         /\ \A i \in 1 .. IndexIn(d, w) - 1 : Sibling(d, w, i) \in Widgets
         /\ Below(d, w) = {Sibling(d, w, i) : i \in 1 .. IndexIn(d, w) - 1}
  <1>1. ParentOf[w] \in Widgets /\ Children(ParentOf[w]) \subseteq Widgets
    BY TreeFacts
  <1> DEFINE n == Len(d.kids[ParentOf[w]])
             j == IndexIn(d, w)
  <1>2. n \in Nat /\ \A i \in 1 .. n : d.kids[ParentOf[w]][i] \in Children(ParentOf[w])
    BY <1>1, ChildList
  <1>3. j \in 1 .. n
    BY IndexFacts
  <1>5. Below(d, w) = {Sibling(d, w, i) : i \in 1 .. j - 1}
    BY DEF Below, Sibling
  <1> HIDE DEF n, j
  <1>4. j - 1 \in Nat /\ \A i \in 1 .. j - 1 : i \in 1 .. n
    BY <1>2, <1>3
  <1>6. \A i \in 1 .. j - 1 : Sibling(d, w, i) \in Widgets
    BY <1>1, <1>2, <1>4 DEF Sibling
  <1> QED  BY <1>4, <1>5, <1>6 DEF j

(* move_to as steps: the siblings below, the parent, the window.           *)
LEMMA MoveToSteps ==
  ASSUME NEW d \in Desks, NEW w \in Others, NEW to, NEW everything \in BOOLEAN,
         NEW m, m = [d EXCEPT !.pos[w] = to], m \in Desks
  PROVE  \E c : /\ SiblingSteps(d, w, m, Dirty(d, w, m, everything), c)
                /\ MoveTo(d, w, to, everything) =
                     Paint(PaintAlone(c[IndexIn(d, w) - 1], ParentOf[w], Dirty(d, w, m, everything)),
                           w, Screen)
  <1> DEFINE n == IndexIn(d, w) - 1
             area == Dirty(d, w, m, everything)
             Step(c, i) == IF i = 0 THEN m
                           ELSE IF Meets(d, w, i) THEN Paint(c[i - 1], Sibling(d, w, i), area)
                           ELSE c[i - 1]
             Defined(c) == c = [i \in 0 .. n |-> Step(c, i)]
             siblings == CHOOSE c : Defined(c)
             ToldOne(i, e) == IF Meets(d, w, i) THEN Paint(e, Sibling(d, w, i), area) ELSE e
             g == [i \in Nat |-> [e \in Desks |-> IF i \in 1 .. n THEN ToldOne(i, e) ELSE e]]
  <1>1. MoveTo(d, w, to, everything) =
          Paint(PaintAlone(siblings[n], ParentOf[w], area), w, Screen)
    <2> DEFINE sib(mm, stale) == CHOOSE c : c = [i \in 0 .. IndexIn(d, w) - 1 |->
                 IF i = 0 THEN mm
                 ELSE IF Intersects(RectOf(d, d.kids[ParentOf[w]][i]), RectOf(d, w))
                      THEN Paint(c[i - 1], d.kids[ParentOf[w]][i], stale)
                      ELSE c[i - 1]]
               visible == ClipBounds(d, w, Everywhere(d))
               moved == [d EXCEPT !.pos[w] = to]
               left == visible \ Pixels(ScreenRect(moved, w))
               stale == IF left = {} /\ everything THEN Everywhere(d) ELSE left
    <2>1. MoveTo(d, w, to, everything) =
            Paint(PaintAlone(sib(moved, stale)[IndexIn(d, w) - 1], ParentOf[w], stale),
                  w, Everywhere(d))
      BY Zenon DEF MoveTo
    <2>2. Everywhere(d) = Screen
      BY AreaFacts
    <2>3. moved = m
      OBVIOUS
    <2>4. left = LeftBehind(d, w, m)
      BY <2>2, <2>3 DEF LeftBehind, Reach, Body
    <2>5. stale = area
      BY <2>2, <2>4 DEF Dirty
    <2>6. siblings = sib(m, area)
      BY DEF Meets, Sibling
    <2> HIDE DEF sib, moved, left, stale, area, siblings
    <2> QED  BY <2>1, <2>2, <2>3, <2>5, <2>6
  <1>2. n \in Nat /\ \A i \in 1 .. n : Sibling(d, w, i) \in Widgets
    BY SiblingIs
  <1> HIDE DEF n, area
  <1>3. ASSUME NEW i \in 1 .. n, NEW e \in Desks PROVE ToldOne(i, e) \in Desks
    <2>1. Paint(e, Sibling(d, w, i), area) \in Desks
      BY <1>2, PaintIs DEF Repaints
    <2> QED  BY <2>1
  <1>4. ASSUME NEW i \in 1 .. n, NEW e \in Desks PROVE g[i][e] = ToldOne(i, e)
    <2>1. i \in Nat
      BY <1>2
    <2> HIDE DEF ToldOne
    <2> QED  BY <2>1
  <1>5. g \in [Nat -> [Desks -> Desks]]
    <2> HIDE DEF ToldOne
    <2> QED  BY <1>3
  <1> HIDE DEF g
  <1>6. PICK c : Iterates(c, n, Desks, m, g)
    BY <1>2, <1>5, IterationExists
  <1>7. c \in [0 .. n -> Desks] /\ c[0] = m /\ \A i \in 1 .. n : c[i] = g[i][c[i - 1]]
    BY <1>6 DEF Iterates
  <1>8. ASSUME NEW i \in 1 .. n PROVE c[i] = ToldOne(i, c[i - 1])
    <2>1. c[i - 1] \in Desks
      BY <1>2, <1>7
    <2> QED  BY <1>4, <1>7, <2>1, Zenon
  <1>9. \E x : Defined(x)
    <2>1. ASSUME NEW i \in 0 .. n PROVE c[i] = Step(c, i)
      <3>1. i = 0 \/ (i # 0 /\ i \in 1 .. n)
        BY <1>2
      <3> QED  BY <1>7, <1>8, <3>1, Zenon
    <2> HIDE DEF Step
    <2>2. Defined(c)
      BY <1>7, <2>1
    <2> QED  BY <2>2, Zenon
  <1>10. Defined(siblings)
    BY <1>9, Zenon
  <1> HIDE DEF siblings
  <1>11. siblings[0] = m
    <2>1. 0 \in 0 .. n
      BY <1>2
    <2> QED  BY <1>10, <2>1, Zenon
  <1>12. ASSUME NEW i \in 1 .. n PROVE siblings[i] = ToldOne(i, siblings[i - 1])
    <2>1. i \in 0 .. n /\ i # 0
      BY <1>2
    <2> QED  BY <1>10, <2>1, Zenon
  <1>13. siblings = [i \in 0 .. n |-> siblings[i]]
    <2> HIDE DEF Step
    <2> QED  BY <1>10
  <1>14. \A i \in 1 .. n : siblings[i - 1] \in Desks => siblings[i] = g[i][siblings[i - 1]]
    BY <1>4, <1>12, Zenon
  <1>15. Iterates(siblings, n, Desks, m, g)
    <2> HIDE DEF Step, Defined, ToldOne
    <2> QED  BY <1>2, <1>5, <1>11, <1>13, <1>14, IterationTyped
  <1>16. siblings \in [0 .. n -> Desks]
    BY <1>15 DEF Iterates
  <1>17. SiblingSteps(d, w, m, area, siblings)
    BY <1>11, <1>12, <1>16 DEF SiblingSteps, n
  <1> QED  BY <1>1, <1>17, Zenon DEF n, area

(* What the siblings repaint of the dirty pixels.                          *)
LEMMA SiblingsPainted ==
  ASSUME NEW d \in Desks, NEW w \in Others, NEW m \in Desks, NEW area,
         NEW c, SiblingSteps(d, w, m, area, c)
  PROVE  Repaints(m, c[IndexIn(d, w) - 1],
                  {p \in area : \E s \in Below(d, w) : /\ Intersects(RectOf(d, s), RectOf(d, w))
                                                       /\ Owner(m, p) \in InsideOf(s)})
  <1> DEFINE n == IndexIn(d, w) - 1
             Done(i) == {p \in area : \E j \in 1 .. i : /\ Meets(d, w, j)
                                                        /\ Owner(m, p) \in InsideOf(Sibling(d, w, j))}
             Rest == {p \in area : \E s \in Below(d, w) : /\ Intersects(RectOf(d, s), RectOf(d, w))
                                                          /\ Owner(m, p) \in InsideOf(s)}
  <1>1. /\ n \in Nat /\ \A i \in 1 .. n : Sibling(d, w, i) \in Widgets
        /\ Below(d, w) = {Sibling(d, w, i) : i \in 1 .. n}
    BY SiblingIs
  <1>2. /\ c \in [0 .. n -> Desks] /\ c[0] = m
        /\ \A i \in 1 .. n :
             c[i] = IF Meets(d, w, i) THEN Paint(c[i - 1], Sibling(d, w, i), area) ELSE c[i - 1]
    BY DEF SiblingSteps
  <1>3. \A p \in Screen : p \in Rest => p \in Done(n)
    BY <1>1 DEF Meets
  <1> HIDE DEF n, Rest
  <1> DEFINE S == {i \in Nat : i <= n => Repaints(m, c[i], Done(i))}
  <1>6. 0 \in S
    <2>1. Done(0) = {}
      OBVIOUS
    <2> QED  BY <1>2, <2>1, RepaintsNothing
  <1>7. ASSUME NEW i \in Nat, i \in S PROVE i + 1 \in S
    <2> SUFFICES ASSUME i + 1 <= n PROVE Repaints(m, c[i + 1], Done(i + 1))
      OBVIOUS
    <2>1. i + 1 \in 1 .. n /\ (i + 1) - 1 = i /\ i <= n /\ i \in 0 .. n
      BY <1>1
    <2>2. Repaints(m, c[i], Done(i)) /\ c[i] \in Desks
      BY <1>2, <1>7, <2>1
    <2> DEFINE v == Sibling(d, w, i + 1)
               New == {p \in area : Owner(c[i], p) \in InsideOf(v)}
    <2>3. v \in Widgets /\ c[i + 1] = IF Meets(d, w, i + 1) THEN Paint(c[i], v, area) ELSE c[i]
      BY <1>1, <1>2, <2>1
    <2>4. ASSUME NEW p \in Screen, p \in Done(i + 1), p \notin Done(i)
          PROVE  Meets(d, w, i + 1) /\ p \in area /\ Owner(m, p) \in InsideOf(v)
      <3>1. PICK j \in 1 .. i + 1 : /\ p \in area /\ Meets(d, w, j)
                                    /\ Owner(m, p) \in InsideOf(Sibling(d, w, j))
        BY <2>4
      <3>2. j = i + 1
        <4> SUFFICES ASSUME j # i + 1 PROVE FALSE
          OBVIOUS
        <4>1. j \in 1 .. i
          OBVIOUS
        <4> QED  BY <2>4, <3>1, <4>1
      <3> QED  BY <3>1, <3>2
    <2>5. CASE Meets(d, w, i + 1)
      <3>1. Repaints(c[i], c[i + 1], New)
        <4> HIDE DEF v
        <4> QED  BY <2>2, <2>3, <2>5, PaintIs
      <3>2. Repaints(m, c[i + 1], Done(i) \cup New)
        <4> HIDE DEF Done, New
        <4> QED  BY <2>2, <3>1, RepaintsTwice
      <3>3. ASSUME NEW p \in Screen, p \in Done(i + 1) PROVE p \in Done(i) \cup New
        <4>1. Owner(c[i], p) = Owner(m, p)
          BY <2>2, SameShown DEF Repaints
        <4> QED  BY <2>4, <3>3, <4>1
      <3> HIDE DEF Done, New
      <3> QED  BY <3>2, <3>3, RepaintsLess
    <2>6. CASE ~Meets(d, w, i + 1)
      <3>1. Repaints(m, c[i + 1], Done(i))
        BY <2>2, <2>3, <2>6
      <3>2. \A p \in Screen : p \in Done(i + 1) => p \in Done(i)
        BY <2>4, <2>6
      <3> HIDE DEF Done
      <3> QED  BY <3>1, <3>2, RepaintsLess
    <2> QED  BY <2>5, <2>6
  <1>8. \A i \in Nat : i \in S
    <2> HIDE DEF S
    <2> QED  BY <1>6, <1>7, SetInduction
  <1>9. Repaints(m, c[n], Done(n))
    <2>1. n \in S /\ n <= n
      BY <1>1, <1>8
    <2> HIDE DEF Done
    <2> QED  BY <2>1, Zenon
  <1>10. Repaints(m, c[n], Rest)
    <2> HIDE DEF Done
    <2> QED  BY <1>3, <1>9, RepaintsLess
  <1> QED  BY <1>10 DEF n, Rest

(* After a move the screen is as right as before: all it uncovers is       *)
(* repainted.                                                              *)
LEMMA MoveToIs ==
  ASSUME NEW d \in Desks, NEW w \in Others, NEW to \in Points, NEW everything \in BOOLEAN,
         NEW e, e = MoveTo(d, w, to, everything)
  PROVE  /\ e \in Desks /\ e.kids = d.kids /\ e.active = d.active
         /\ e.pos[w] = to /\ \A v \in Widgets \ {w} : e.pos[v] = d.pos[v]
         /\ \A K : RightBut(d, K) => RightBut(e, K)
  <1> DEFINE m == [d EXCEPT !.pos[w] = to]
             area == Dirty(d, w, m, everything)
             u == ParentOf[w]
             n == IndexIn(d, w) - 1
  <1>1. Shifted(d, w, to, m)
    BY ShiftedIs
  <1>2. /\ m \in Desks /\ m.kids = d.kids /\ m.active = d.active /\ m.screen = d.screen
        /\ m.pos[w] = to /\ \A v \in Widgets \ {w} : m.pos[v] = d.pos[v]
    <2> HIDE DEF m
    <2> QED  BY <1>1 DEF Shifted
  <1>3. PICK c : /\ SiblingSteps(d, w, m, area, c)
                 /\ e = Paint(PaintAlone(c[n], u, area), w, Screen)
    BY <1>2, MoveToSteps
  <1>4. w \in Widgets /\ u \in Widgets
    BY TreeFacts
  <1> HIDE DEF m
  <1> DEFINE B == {p \in area : \E s \in Below(d, w) : /\ Intersects(RectOf(d, s), RectOf(d, w))
                                                       /\ Owner(m, p) \in InsideOf(s)}
             x == c[n]
             y == PaintAlone(x, u, area)
             C == area \cap Own(x, u)
             D == {p \in Screen : Owner(y, p) \in InsideOf(w)}
  <1>5. Repaints(m, x, B)
    BY <1>2, <1>3, SiblingsPainted
  <1>6. x \in Desks
    BY <1>5 DEF Repaints
  <1>7. Repaints(x, y, C)
    BY <1>4, <1>6, PaintAloneIs
  <1>8. y \in Desks
    BY <1>7 DEF Repaints
  <1>9. Repaints(y, e, D)
    BY <1>3, <1>4, <1>8, PaintIs
  <1> HIDE DEF B, x, y, C, D, area
  <1>10. Repaints(m, y, B \cup C)
    BY <1>2, <1>5, <1>6, <1>7, RepaintsTwice
  <1>11. Repaints(m, e, (B \cup C) \cup D)
    BY <1>2, <1>8, <1>9, <1>10, RepaintsTwice
  <1>12. ASSUME NEW p \in Screen, Uncovered(d, w, m, p) PROVE p \in (B \cup C) \cup D
    <2>1. Owner(y, p) = Owner(m, p) /\ Owner(x, p) = Owner(m, p)
      BY <1>2, <1>5, <1>6, <1>8, <1>10, SameShown DEF Repaints
    <2>2. CASE Owner(m, p) \in InsideOf(w)
      BY <2>1, <2>2 DEF D
    <2>3. CASE p \in LeftBehind(d, w, m)
      <3>1. p \in area
        BY <2>3 DEF area, Dirty
      <3>2. CASE Owner(m, p) = u
        <4>1. p \in Own(x, u)
          BY <1>6, <2>1, <3>2, OwnerIs
        <4> QED  BY <3>1, <4>1 DEF C
      <3>3. CASE \E s \in Below(d, w) : /\ Intersects(RectOf(d, s), RectOf(d, w))
                                        /\ Owner(m, p) \in InsideOf(s)
        BY <3>1, <3>3 DEF B
      <3>4. CASE Owner(m, p) \in InsideOf(w)
        BY <2>2, <3>4
      <3> QED  BY <1>12, <3>2, <3>3, <3>4 DEF Uncovered
    <2> QED  BY <1>12, <2>2, <2>3 DEF Uncovered
  <1>13. /\ e \in Desks /\ e.kids = m.kids /\ e.pos = m.pos /\ e.active = m.active
    BY <1>11 DEF Repaints, SameTree
  <1>14. ASSUME NEW K, RightBut(d, K) PROVE RightBut(e, K)
    <2> SUFFICES ASSUME NEW p \in Screen
                 PROVE  e.screen[p] = Shown(e, p) \/ (e.screen[p] = Cursor /\ p \in K)
      BY DEF RightBut
    <2>1. Shown(e, p) = Shown(m, p)
      BY <1>2, <1>11, <1>13, SameShown DEF Repaints
    <2>2. \/ e.screen[p] = Shown(m, p)
          \/ ~Uncovered(d, w, m, p) /\ e.screen[p] = m.screen[p]
      BY <1>11, <1>12 DEF Repaints
    <2>3. ~Uncovered(d, w, m, p) => Shown(m, p) = Shown(d, p)
      BY <1>1, NotUncovered
    <2>4. d.screen[p] = Shown(d, p) \/ (d.screen[p] = Cursor /\ p \in K)
      BY <1>14 DEF RightBut
    <2> QED  BY <1>2, <2>1, <2>2, <2>3, <2>4
  <1> QED  BY <1>2, <1>13, <1>14

-----------------------------------------------------------------------------
(* A button that goes down or up.                                          *)
LEMMA WithActive ==
  ASSUME NEW d \in Desks, NEW k
  PROVE  [d EXCEPT !.active = k] =
           [kids |-> d.kids, pos |-> d.pos, active |-> k, screen |-> d.screen]
  BY DeskFacts

(* A button that changes its color is repainted.                           *)
LEMMA SetActiveIs ==
  ASSUME NEW d \in Desks, NEW b \in Buttons, NEW on \in BOOLEAN, NEW e, e = SetActive(d, b, on)
  PROVE  /\ e \in Desks /\ e.kids = d.kids /\ e.pos = d.pos
         /\ e.active = IF on THEN d.active \cup {b} ELSE d.active \ {b}
         /\ \A K : RightBut(d, K) => RightBut(e, K)
  <1> DEFINE a == IF on THEN d.active \cup {b} ELSE d.active \ {b}
             m == [kids |-> d.kids, pos |-> d.pos, active |-> a, screen |-> d.screen]
  <1>1. b \in Widgets
    BY TreeFacts
  <1>2. a \in SUBSET Buttons /\ \A v \in Widgets : v # b => (v \in a <=> v \in d.active)
    BY DeskFacts
  <1>3. [d EXCEPT !.active = a] = m
    BY WithActive
  <1>4. e = PaintAlone(m, b, Body(m, b))
    BY <1>3 DEF SetActive, Body
  <1>5. m.kids = d.kids /\ m.pos = d.pos /\ m.active = a /\ m.screen = d.screen
    OBVIOUS
  <1>6. m \in Desks
    <2> HIDE DEF a
    <2> QED  BY <1>2, DeskFacts, DeskIs
  <1> HIDE DEF m
  <1>7. Repaints(m, e, Body(m, b) \cap Own(m, b))
    BY <1>1, <1>4, <1>6, PaintAloneIs
  <1>8. e \in Desks /\ e.kids = d.kids /\ e.pos = d.pos /\ e.active = a
    BY <1>5, <1>7 DEF Repaints, SameTree
  <1>9. SameTree(d, m)
    BY <1>5 DEF SameTree
  <1>10. ASSUME NEW p \in Screen, p \notin Body(m, b) \cap Own(m, b)
         PROVE  Shown(m, p) = Shown(d, p)
    <2> DEFINE u == Owner(m, p)
    <2>1. u \in Widgets /\ p \in Own(m, u)
      BY <1>6, OwnerIs
    <2>2. Own(m, b) \subseteq Body(m, b)
      BY <1>1, <1>6, ReachIs DEF Own
    <2>3. u # b
      BY <1>10, <2>1, <2>2
    <2>4. Owner(d, p) = u /\ Inner(m, u) = Inner(d, u)
      BY <1>6, <1>9, <2>1, SameShown, SameReach
    <2> HIDE DEF u
    <2>5. Shade(m, u, p) = Shade(d, u, p)
      BY <1>2, <1>5, <2>1, <2>3, <2>4 DEF Shade, Client
    <2> QED  BY <2>4, <2>5 DEF Shown, u
  <1>11. ASSUME NEW K, RightBut(d, K) PROVE RightBut(e, K)
    <2> SUFFICES ASSUME NEW p \in Screen
                 PROVE  e.screen[p] = Shown(e, p) \/ (e.screen[p] = Cursor /\ p \in K)
      BY DEF RightBut
    <2>1. Shown(e, p) = Shown(m, p)
      BY <1>6, <1>7, SameShown DEF Repaints
    <2>2. \/ e.screen[p] = Shown(m, p)
          \/ p \notin Body(m, b) \cap Own(m, b) /\ e.screen[p] = m.screen[p]
      BY <1>7 DEF Repaints
    <2>3. d.screen[p] = Shown(d, p) \/ (d.screen[p] = Cursor /\ p \in K)
      BY <1>11 DEF RightBut
    <2> QED  BY <1>5, <1>10, <2>1, <2>2, <2>3
  <1> QED  BY <1>8, <1>11

(* Painting all of the window manager in an area leaves the area right.    *)
LEMMA AllInside == \A w \in Widgets : w \in InsideOf(Root)
  <1> DEFINE S == {w \in Widgets : w \in InsideOf(Root)}
  <1>1. Root \in S
    BY InsideIs, TreeFacts
  <1>2. ASSUME NEW w \in Others, ParentOf[w] \in S PROVE w \in S
    BY <1>2, InsideIs, TreeFacts
  <1>3. \A w \in Widgets : w \in S
    <2> HIDE DEF S
    <2> QED  BY <1>1, <1>2, TopDown
  <1> QED  BY <1>3

(* Painting all of the window manager in an area makes the area right.     *)
LEMMA PaintAllIs ==
  ASSUME NEW d \in Desks, NEW area, NEW e, e = Paint(d, Root, area)
  PROVE  /\ e \in Desks /\ e.kids = d.kids /\ e.pos = d.pos /\ e.active = d.active
         /\ \A p \in Screen : p \in area \/ d.screen[p] = Shown(d, p) => e.screen[p] = Shown(e, p)
  <1>1. Repaints(d, e, {p \in area : Owner(d, p) \in InsideOf(Root)})
    BY PaintIs, TreeFacts
  <1>2. e \in Desks /\ e.kids = d.kids /\ e.pos = d.pos /\ e.active = d.active
    BY <1>1 DEF Repaints, SameTree
  <1>3. ASSUME NEW p \in Screen, p \in area \/ d.screen[p] = Shown(d, p)
        PROVE  e.screen[p] = Shown(e, p)
    <2>1. Shown(e, p) = Shown(d, p)
      BY <1>1, SameShown DEF Repaints
    <2>2. Owner(d, p) \in InsideOf(Root)
      BY AllInside, OwnerIs
    <2>3. \/ e.screen[p] = Shown(d, p)
          \/ p \notin area /\ e.screen[p] = d.screen[p]
      BY <1>1, <2>2 DEF Repaints
    <2> QED  BY <1>3, <2>1, <2>3
  <1> QED  BY <1>2, <1>3

(* draw_mouse wipes the cursor where it was and draws it where it is.      *)
LEMMA DrawMouseIs ==
  ASSUME NEW d \in Desks, NEW old, NEW new, RightBut(d, CursorAt(old)),
         NEW f, f = DrawMouse(d, old, new)
  PROVE  /\ f \in Desks /\ f.kids = d.kids /\ f.pos = d.pos /\ f.active = d.active
         /\ RightBut(f, CursorAt(new))
  <1> DEFINE e == Paint(d, Root, CursorAt(old))
             s == [p \in Screen |-> IF p \in CursorAt(new) THEN Cursor ELSE e.screen[p]]
             r == [kids |-> e.kids, pos |-> e.pos, active |-> e.active, screen |-> s]
  <1>1. /\ e \in Desks /\ e.kids = d.kids /\ e.pos = d.pos /\ e.active = d.active
        /\ \A p \in Screen : p \in CursorAt(old) \/ d.screen[p] = Shown(d, p)
                               => e.screen[p] = Shown(e, p)
    BY PaintAllIs
  <1>2. ASSUME NEW p \in Screen PROVE e.screen[p] = Shown(e, p)
    <2>1. d.screen[p] = Shown(d, p) \/ p \in CursorAt(old)
      BY DEF RightBut
    <2> QED  BY <1>1, <2>1
  <1>3. f = [e EXCEPT !.screen = [p \in DOMAIN @ |-> IF p \in CursorAt(new) THEN Cursor ELSE @[p]]]
    BY Zenon DEF DrawMouse
  <1> HIDE DEF e
  <1>4. e.screen \in [Screen -> Colors]
    BY <1>1, DeskFacts
  <1>5. f = [e EXCEPT !.screen = s]
    BY <1>3, <1>4
  <1>6. f = r
    <2> HIDE DEF s
    <2>1. [e EXCEPT !.screen = s] = r
      BY <1>1, WithScreen
    <2> QED  BY <1>5, <2>1, Zenon
  <1>7. Cursor \in Colors
    BY DEF Cursor, Colors
  <1>8. s \in [Screen -> Colors]
    BY <1>4, <1>7
  <1>9. \A p \in Screen : s[p] = Shown(e, p) \/ (s[p] = Cursor /\ p \in CursorAt(new))
    BY <1>2
  <1> HIDE DEF s
  <1>10. r \in Desks
    BY <1>1, <1>8, DeskFacts, DeskIs
  <1>11. r.kids = e.kids /\ r.pos = e.pos /\ r.active = e.active /\ r.screen = s
    OBVIOUS
  <1> HIDE DEF r
  <1>12. \A p \in Screen : Shown(r, p) = Shown(e, p)
    BY <1>1, <1>10, <1>11, SameShown DEF SameTree
  <1>13. RightBut(r, CursorAt(new))
    BY <1>9, <1>11, <1>12 DEF RightBut
  <1> QED  BY <1>1, <1>6, <1>10, <1>11, <1>13

(* A terminal that paints alone spoils nothing.                            *)
LEMMA KeyPaintIs ==
  ASSUME NEW d \in Desks, NEW w \in Widgets, NEW area, NEW e, e = PaintAlone(d, w, area)
  PROVE  /\ e \in Desks /\ e.kids = d.kids /\ e.pos = d.pos /\ e.active = d.active
         /\ \A K : RightBut(d, K) => RightBut(e, K)
  <1>1. Repaints(d, e, area \cap Own(d, w))
    BY PaintAloneIs
  <1> QED  BY <1>1, PaintKeepsRight DEF Repaints, SameTree

(* The first desktop is right everywhere.                                  *)
LEMMA InitDeskIs ==
  /\ InitDesk \in Desks /\ InitDesk.kids = InitKids /\ InitDesk.pos = InitPos
  /\ InitDesk.active = {} /\ RightBut(InitDesk, {})
  <1> DEFINE s == [p \in Screen |-> Black]
             blank == [kids |-> InitKids, pos |-> InitPos, active |-> {}, screen |-> s]
  <1>1. InitDesk = Paint(blank, Root, Everywhere(blank))
    BY Zenon DEF InitDesk, Screen
  <1>2. InitKids \in [Widgets -> Seq(Widgets)] /\ InitPos \in [Widgets -> Points] /\ InitPos[Root] = <<0, 0>>
    BY DesktopAssumption DEF Points
  <1>3. IsTree(InitKids)
    BY DesktopAssumption DEF IsTree, Children, Others
  <1>4. s \in [Screen -> Colors]
    BY DEF Black, Colors
  <1>5. blank.kids = InitKids /\ blank.pos = InitPos /\ blank.active = {}
    OBVIOUS
  <1> HIDE DEF s
  <1>6. blank \in Desks
    BY <1>2, <1>3, <1>4, DeskIs
  <1> HIDE DEF blank
  <1>7. InitDesk = Paint(blank, Root, Screen)
    BY <1>1, <1>6, AreaFacts
  <1>8. /\ InitDesk \in Desks /\ InitDesk.kids = blank.kids /\ InitDesk.pos = blank.pos
        /\ InitDesk.active = blank.active
        /\ \A p \in Screen : p \in Screen \/ blank.screen[p] = Shown(blank, p)
                               => InitDesk.screen[p] = Shown(InitDesk, p)
    BY <1>6, <1>7, PaintAllIs
  <1> QED  BY <1>5, <1>8 DEF RightBut

-----------------------------------------------------------------------------
(* Focus: every window on the way that is told of the press is raised.     *)
OneEach(path) ==
  \A i, j \in 1 .. Len(path) :
    path[i] \in Windows /\ path[j] \in Windows /\ ParentOf[path[i]] = ParentOf[path[j]]
      => path[i] = path[j]
Tells(path, pressed, i) == path[i] \in Windows /\ Presses(path[i], pressed)
Focused(d, path, pressed, e, n) ==
  /\ e \in Desks /\ e.pos = d.pos /\ e.active = d.active
  /\ \A K : RightBut(d, K) => RightBut(e, K)
  /\ \A v \in Widgets :
       \/ e.kids[v] = d.kids[v]
       \/ \E i \in 1 .. n : Tells(path, pressed, i) /\ ParentOf[path[i]] = v
  /\ \A i \in 1 .. n : Tells(path, pressed, i) => Last(e.kids[ParentOf[path[i]]]) = path[i]
  /\ (\A i \in 1 .. n : ~Tells(path, pressed, i)) => e = d

(* One more widget is told of the press.                                   *)
LEMMA FocusedMore ==
  ASSUME NEW d \in Desks, NEW path \in Seq(Widgets), NEW pressed, NEW n \in Nat,
         n + 1 \in 1 .. Len(path),
         OneEach(path),
         NEW e, Focused(d, path, pressed, e, n),
         NEW f, f = IF Tells(path, pressed, n + 1) THEN Raise(e, path[n + 1]) ELSE e
  PROVE  Focused(d, path, pressed, f, n + 1)
  <1>0. Len(path) \in Nat
    BY LenProperties
  <1>1. /\ e \in Desks /\ e.pos = d.pos /\ e.active = d.active
        /\ \A K : RightBut(d, K) => RightBut(e, K)
        /\ \A v \in Widgets :
             \/ e.kids[v] = d.kids[v]
             \/ \E i \in 1 .. n : Tells(path, pressed, i) /\ ParentOf[path[i]] = v
        /\ \A i \in 1 .. n : Tells(path, pressed, i) => Last(e.kids[ParentOf[path[i]]]) = path[i]
        /\ (\A i \in 1 .. n : ~Tells(path, pressed, i)) => e = d
    BY DEF Focused
  <1>2. \A i \in 1 .. n + 1 : i \in 1 .. n \/ i = n + 1
    OBVIOUS
  <1>3. \A i \in 1 .. n : i \in 1 .. n + 1
    OBVIOUS
  <1>4. CASE ~Tells(path, pressed, n + 1)
    <2>1. f = e
      BY <1>4
    <2> QED  BY <1>1, <1>2, <1>3, <1>4, <2>1 DEF Focused
  <1>5. CASE Tells(path, pressed, n + 1)
    <2> DEFINE w == path[n + 1]
               u == ParentOf[w]
    <2>1. w \in Windows /\ w \in Others
      BY <1>5, TreeFacts DEF Tells
    <2>2. f = Raise(e, w)
      BY <1>5
    <2> HIDE DEF w
    <2>3. /\ f \in Desks /\ f.pos = e.pos /\ f.active = e.active
          /\ \A v \in Widgets \ {u} : f.kids[v] = e.kids[v]
          /\ Last(f.kids[u]) = w
          /\ \A K : RightBut(e, K) => RightBut(f, K)
      BY <1>1, <2>1, <2>2, RaiseIs
    <2>4. ASSUME NEW v \in Widgets
          PROVE  \/ f.kids[v] = d.kids[v]
                 \/ \E i \in 1 .. n + 1 : Tells(path, pressed, i) /\ ParentOf[path[i]] = v
      <3>1. CASE v = u
        BY <1>5, <3>1 DEF w
      <3>2. CASE v # u
        BY <1>1, <1>3, <2>3, <3>2
      <3> QED  BY <3>1, <3>2
    <2>5. ASSUME NEW i \in 1 .. n + 1, Tells(path, pressed, i)
          PROVE  Last(f.kids[ParentOf[path[i]]]) = path[i]
      <3>0. i \in 1 .. Len(path) /\ path[i] \in Windows /\ ParentOf[path[i]] \in Widgets
        BY <1>0, <2>5, TreeFacts DEF Tells
      <3>1. CASE ParentOf[path[i]] = u
        <4>1. path[i] = w
          BY <2>1, <3>0, <3>1 DEF w, OneEach
        <4> QED  BY <2>3, <3>1, <4>1
      <3>2. CASE ParentOf[path[i]] # u
        <4>1. i \in 1 .. n
          BY <1>2, <3>2 DEF w
        <4> QED  BY <1>1, <2>3, <2>5, <3>0, <3>2, <4>1
      <3> QED  BY <3>1, <3>2
    <2>6. ~(\A i \in 1 .. n + 1 : ~Tells(path, pressed, i))
      BY <1>5
    <2>7. \A K : RightBut(d, K) => RightBut(f, K)
      BY <1>1, <2>3
    <2> QED  BY <1>1, <2>3, <2>4, <2>5, <2>6, <2>7 DEF Focused
  <1> QED  BY <1>4, <1>5

(* After on_focus all the way down the windows on the path are the last of *)
(* their siblings.                                                         *)
LEMMA FocusIs ==
  ASSUME NEW d \in Desks, NEW path \in Seq(Widgets), NEW pressed,
         OneEach(path)
  PROVE  Focused(d, path, pressed, Focus(d, path, pressed), Len(path))
  <1> DEFINE n == Len(path)
             Step(c, i) == IF i = 0 THEN d
                           ELSE IF Tells(path, pressed, i) THEN Raise(c[i - 1], path[i])
                           ELSE c[i - 1]
             Defined(c) == c = [i \in 0 .. n |-> Step(c, i)]
             told == CHOOSE c : Defined(c)
             ToldOne(i, e) == IF Tells(path, pressed, i) THEN Raise(e, path[i]) ELSE e
             g == [i \in Nat |-> [e \in Desks |-> IF i \in 1 .. n THEN ToldOne(i, e) ELSE e]]
  <1>1. Focus(d, path, pressed) = told[n]
    BY Zenon DEF Focus, Tells, InTurn
  <1>2. n \in Nat
    BY LenProperties
  <1> HIDE DEF n
  <1>3. ASSUME NEW i \in 1 .. n, NEW e \in Desks PROVE ToldOne(i, e) \in Desks
    <2>1. CASE Tells(path, pressed, i)
      <3>1. path[i] \in Others
        BY <2>1, TreeFacts DEF Tells
      <3>2. Raise(e, path[i]) \in Desks
        BY <3>1, RaiseIs
      <3> QED  BY <2>1, <3>2
    <2>2. CASE ~Tells(path, pressed, i)
      BY <2>2
    <2> QED  BY <2>1, <2>2
  <1>4. ASSUME NEW i \in 1 .. n, NEW e \in Desks PROVE g[i][e] = ToldOne(i, e)
    <2>1. i \in Nat
      BY <1>2
    <2> HIDE DEF ToldOne
    <2> QED  BY <2>1
  <1>5. g \in [Nat -> [Desks -> Desks]]
    <2> HIDE DEF ToldOne
    <2> QED  BY <1>3
  <1> HIDE DEF g
  <1>6. PICK c : Iterates(c, n, Desks, d, g)
    BY <1>2, <1>5, IterationExists
  <1>7. c \in [0 .. n -> Desks] /\ c[0] = d /\ \A i \in 1 .. n : c[i] = g[i][c[i - 1]]
    BY <1>6 DEF Iterates
  <1>8. ASSUME NEW i \in 1 .. n PROVE c[i] = ToldOne(i, c[i - 1])
    <2>1. c[i - 1] \in Desks
      BY <1>2, <1>7
    <2> QED  BY <1>4, <1>7, <2>1, Zenon
  <1>9. \E x : Defined(x)
    <2>1. ASSUME NEW i \in 0 .. n PROVE c[i] = Step(c, i)
      <3>1. i = 0 \/ (i # 0 /\ i \in 1 .. n)
        BY <1>2
      <3> QED  BY <1>7, <1>8, <3>1, Zenon
    <2> HIDE DEF Step
    <2>2. Defined(c)
      BY <1>7, <2>1
    <2> QED  BY <2>2, Zenon
  <1>10. Defined(told)
    BY <1>9, Zenon
  <1> HIDE DEF told
  <1>11. told[0] = d
    <2>1. 0 \in 0 .. n
      BY <1>2
    <2> QED  BY <1>10, <2>1, Zenon
  <1>12. ASSUME NEW i \in 1 .. n PROVE told[i] = ToldOne(i, told[i - 1])
    <2>1. i \in 0 .. n /\ i # 0
      BY <1>2
    <2> QED  BY <1>10, <2>1, Zenon
  <1> DEFINE S == {i \in Nat : i <= n => Focused(d, path, pressed, told[i], i)}
  <1>13. 0 \in S
    <2>1. 1 .. 0 = {}
      OBVIOUS
    <2>2. Focused(d, path, pressed, d, 0)
      BY <2>1 DEF Focused
    <2> QED  BY <1>11, <2>2
  <1>14. ASSUME NEW i \in Nat, i \in S PROVE i + 1 \in S
    <2> SUFFICES ASSUME i + 1 <= n PROVE Focused(d, path, pressed, told[i + 1], i + 1)
      OBVIOUS
    <2>1. i + 1 \in 1 .. n /\ (i + 1) - 1 = i /\ i <= n /\ i + 1 \in 1 .. Len(path)
      BY <1>2 DEF n
    <2>2. told[i + 1] = IF Tells(path, pressed, i + 1) THEN Raise(told[i], path[i + 1]) ELSE told[i]
      BY <1>12, <2>1
    <2>3. Focused(d, path, pressed, told[i], i)
      BY <1>14, <2>1
    <2> QED  BY <2>1, <2>2, <2>3, FocusedMore
  <1>15. \A i \in Nat : i \in S
    <2> HIDE DEF S
    <2> QED  BY <1>13, <1>14, SetInduction
  <1>16. Focused(d, path, pressed, told[n], n)
    <2>1. n \in S /\ n <= n
      BY <1>2, <1>15
    <2> QED  BY <2>1, Zenon
  <1> QED  BY <1>1, <1>16 DEF n

(* A path goes through each widget but once, and is in its parent's way.   *)
LEMMA PathSiblings ==
  ASSUME NEW child, Leads(child)
  PROVE  /\ PathOf(child) \in Seq(Widgets)
         /\ \A i \in 1 .. Len(PathOf(child)) : PathOf(child)[i] \in On(child)
         /\ \A w \in On(child) : \E i \in 1 .. Len(PathOf(child)) : PathOf(child)[i] = w
         /\ OneEach(PathOf(child))
  <1> DEFINE s == PathOf(child)
  <1>1. s \in Seq(Widgets)
    BY PathIs DEF IsPath
  <1>2. DOMAIN s = 1 .. Len(s)
    BY <1>1, LenProperties
  <1>3. \A i \in 1 .. Len(s) : s[i] \in On(child)
    BY <1>2 DEF On, Range
  <1>4. \A w \in On(child) : \E i \in 1 .. Len(s) : s[i] = w
    BY <1>2 DEF On, Range
  <1> HIDE DEF s
  <1>5. ASSUME NEW i \in 1 .. Len(s), NEW j \in 1 .. Len(s), s[i] \in Windows, s[j] \in Windows,
               ParentOf[s[i]] = ParentOf[s[j]]
        PROVE  s[i] = s[j]
    <2>1. s[i] \in Others /\ s[j] \in Others
      BY <1>5, TreeFacts
    <2>2. child[ParentOf[s[i]]] = s[i] /\ child[ParentOf[s[j]]] = s[j]
      BY <1>3, <2>1, OnPath
    <2> QED  BY <1>5, <2>2
  <1>6. OneEach(s)
    BY <1>5 DEF OneEach
  <1> QED  BY <1>1, <1>3, <1>4, <1>6 DEF s

-----------------------------------------------------------------------------
(* The inductive invariant: what the runs check, and the types of it all.  *)
Types ==
  /\ lastPressed \subseteq Widgets /\ dragging \subseteq Windows
  /\ Leads(eventChild) /\ Leads(focusChild)
  /\ dragOffset \in [Windows -> Points]
  /\ mouse \in (0 .. SizeOf[Root][1]) \X (0 .. SizeOf[Root][2])
  /\ prevMouse \in (0 .. SizeOf[Root][1]) \X (0 .. SizeOf[Root][2])
  /\ elapsed \in 0 .. MinTicks + 1 /\ clicked \in Widgets /\ deeds \in 0 .. MaxDeeds

IInv ==
  /\ Desk \in Desks /\ Types
  /\ CaptureChain /\ DragFollowsMouse /\ KeysGoToLastClicked /\ FocusOnTop
  /\ RightBut(Desk, CursorAt(prevMouse))

(* The desktop in the variables.                                           *)
LEMMA DeskParts ==
  Desk.kids = kids /\ Desk.pos = pos /\ Desk.active = active /\ Desk.screen = screen
  BY DEF Desk

(* The desktop that a handler leaves.                                      *)
LEMMA ChangeDeskIs ==
  ASSUME NEW d \in Desks, ChangeDesk(d)
  PROVE  Desk' = d
  <1>1. d = [kids |-> d.kids, pos |-> d.pos, active |-> d.active, screen |-> d.screen]
    BY DeskFacts
  <1>2. Desk' = [kids |-> kids', pos |-> pos', active |-> active', screen |-> screen']
    BY DEF Desk
  <1>3. kids' = d.kids /\ pos' = d.pos /\ active' = d.active /\ screen' = d.screen
    BY DEF ChangeDesk
  <1> QED  BY <1>1, <1>2, <1>3

(* The mouse stays on the screen.                                          *)
LEMMA MovedByIs ==
  ASSUME Types, NEW off \in Int \X Int
  PROVE  /\ MovedBy(off) \in (0 .. SizeOf[Root][1]) \X (0 .. SizeOf[Root][2])
         /\ MovedBy(off) \in Points
  <1>1. SizeOf[Root][1] \in Nat /\ SizeOf[Root][2] \in Nat
    BY SizeFacts, TreeFacts
  <1>2. mouse[1] \in Int /\ mouse[2] \in Int /\ off[1] \in Int /\ off[2] \in Int
    BY <1>1 DEF Types
  <1>3. ASSUME NEW x \in Int, NEW high \in Nat PROVE Clamp(x, high) \in 0 .. high
    BY DEF Clamp
  <1>4. /\ Clamp(mouse[1] + off[1], SizeOf[Root][1]) \in 0 .. SizeOf[Root][1]
        /\ Clamp(mouse[2] + off[2], SizeOf[Root][2]) \in 0 .. SizeOf[Root][2]
    <2>1. mouse[1] + off[1] \in Int /\ mouse[2] + off[2] \in Int
      BY <1>2
    <2>2. Clamp(mouse[1] + off[1], SizeOf[Root][1]) \in 0 .. SizeOf[Root][1]
      BY <1>1, <1>3, <2>1
    <2>3. Clamp(mouse[2] + off[2], SizeOf[Root][2]) \in 0 .. SizeOf[Root][2]
      BY <1>1, <1>3, <2>1
    <2> QED  BY <2>2, <2>3
  <1>5. MovedBy(off) \in (0 .. SizeOf[Root][1]) \X (0 .. SizeOf[Root][2])
    BY <1>4 DEF MovedBy
  <1> QED  BY <1>1, <1>5 DEF Points

(* The movements are pairs of numbers.                                     *)
LEMMA OffsetTypes == Offsets \subseteq Int \X Int /\ EarlyOffsets \subseteq Int \X Int
  BY DesktopAssumption

(* The counters are numbers within their bounds.                           *)
LEMMA CounterTypes ==
  ASSUME Types
  PROVE  /\ elapsed \in 0 .. MinTicks + 1 /\ deeds \in 0 .. MaxDeeds
         /\ MinTicks \in Nat /\ MaxDeeds \in Nat
  BY DesktopAssumption DEF Types

(* Where an event goes. *)
Ways(p, pressed) == [w \in Widgets |-> NextOf(w, p, pressed)]

(* The way of an event is a path, and leads as the hits do where the press *)
(* is new.                                                                 *)
LEMMA WaysLead ==
  ASSUME Desk \in Desks, Leads(eventChild), NEW p \in Points, NEW pressed \in BOOLEAN
  PROVE  /\ Leads(Ways(p, pressed)) /\ Path(p, pressed) = PathOf(Ways(p, pressed))
         /\ \A w \in Widgets : /\ Ways(p, pressed)[w] = NextOf(w, p, pressed)
                               /\ HitChild(Desk, w, Relative(w, p)) = Hits(Desk, p)[w]
                               /\ NextOf(w, p, pressed) =
                                    IF Presses(w, pressed) /\ Hits(Desk, p)[w] # Nobody
                                    THEN Hits(Desk, p)[w] ELSE eventChild[w]
  <1>1. Path(p, pressed) = PathOf(Ways(p, pressed))
    BY DEF Path, Ways
  <1>2. \A w \in Widgets : HitChild(Desk, w, Relative(w, p)) = Hits(Desk, p)[w]
    BY DEF Relative, Hits, Hit
  <1>3. \A w \in Widgets : NextOf(w, p, pressed) =
                                    IF Presses(w, pressed) /\ Hits(Desk, p)[w] # Nobody
                                    THEN Hits(Desk, p)[w] ELSE eventChild[w]
    BY <1>2 DEF NextOf
  <1>4. Leads(Hits(Desk, p))
    BY HitsLead
  <1>5. \A w \in Widgets : NextOf(w, p, pressed) \in Children(w) \cup {Nobody}
                           /\ NextOf(w, p, pressed) \in Widgets \cup {Nobody}
    BY <1>3, <1>4 DEF Leads
  <1>6. Leads(Ways(p, pressed))
    BY <1>5 DEF Leads, Ways
  <1> QED  BY <1>1, <1>2, <1>3, <1>6 DEF Ways

(* With no button held the press goes to the owner of the pixel.           *)
LEMMA FreeWays ==
  ASSUME Desk \in Desks, Types, CaptureChain, lastPressed = {}, NEW p \in Points
  PROVE  /\ \A w \in Widgets : eventChild[w] = Nobody
         /\ Ways(p, TRUE) = Hits(Desk, p)
         /\ On(Ways(p, FALSE)) = {Root} /\ EndOf(Ways(p, FALSE)) = Root
         /\ \A w \in Widgets : Ways(p, FALSE)[w] = Nobody
         /\ dragging = {} /\ active = {} /\ Holder = {}
  <1>1. \A w \in Widgets : eventChild[w] = Nobody
    BY DEF CaptureChain
  <1>2. Leads(eventChild)
    BY DEF Types
  <1>3. \A w \in Widgets : Ways(p, TRUE)[w] = Hits(Desk, p)[w]
    <2>1. TRUE \in BOOLEAN
      OBVIOUS
    <2>2. \A w \in Widgets : Presses(w, TRUE)
      BY DEF Presses
    <2>3. \A w \in Widgets : /\ Ways(p, TRUE)[w] = NextOf(w, p, TRUE)
                             /\ NextOf(w, p, TRUE) =
                                    IF Presses(w, TRUE) /\ Hits(Desk, p)[w] # Nobody
                                    THEN Hits(Desk, p)[w] ELSE eventChild[w]
      BY <1>2, <2>1, WaysLead
    <2> QED  BY <1>1, <2>2, <2>3
  <1>4. Ways(p, TRUE) = Hits(Desk, p)
    BY <1>3 DEF Ways, Hits
  <1>5. \A w \in Widgets : Ways(p, FALSE)[w] = Nobody
    <2>1. FALSE \in BOOLEAN
      OBVIOUS
    <2> QED  BY <1>1, <1>2, <2>1, WaysLead DEF Presses
  <1>6. Leads(Ways(p, FALSE))
    BY <1>2, WaysLead
  <1>7. Root \in Widgets
    BY TreeFacts
  <1>8. /\ Root \in On(Ways(p, FALSE)) /\ On(Ways(p, FALSE)) \subseteq Widgets
        /\ \A w \in On(Ways(p, FALSE)) : Ways(p, FALSE)[w] = Nobody => w = EndOf(Ways(p, FALSE))
    <2> DEFINE f == Ways(p, FALSE)
    <2> HIDE DEF f
    <2>1. Leads(f)
      BY <1>6 DEF f
    <2> QED  BY <2>1, OnPath DEF f
  <1>9. \A w \in On(Ways(p, FALSE)) : w = EndOf(Ways(p, FALSE))
    BY <1>5, <1>8
  <1>10. Holder = {}
    BY DEF Holder
  <1>11. dragging = {} /\ active = {}
    BY <1>10 DEF CaptureChain
  <1> QED  BY <1>1, <1>4, <1>5, <1>8, <1>9, <1>10, <1>11

(* While one is held, everything goes to the widget that got the press.    *)
LEMMA HeldWays ==
  ASSUME Desk \in Desks, Types, CaptureChain, lastPressed # {}, NEW p \in Points,
         NEW pressed \in BOOLEAN
  PROVE  /\ On(Ways(p, pressed)) = lastPressed /\ On(eventChild) = lastPressed
         /\ EndOf(Ways(p, pressed)) = EndOf(eventChild) /\ EndOf(eventChild) \in lastPressed
         /\ \A w \in lastPressed : Ways(p, pressed)[w] = eventChild[w]
         /\ Holder = {EndOf(eventChild)}
  <1> DEFINE f == Ways(p, pressed)
  <1>1. /\ Root \in lastPressed
        /\ \A w \in lastPressed : eventChild[w] # Nobody => eventChild[w] \in lastPressed
        /\ \A w \in lastPressed \ {Root} : eventChild[ParentOf[w]] = w
        /\ \A w \in Widgets \ lastPressed : eventChild[w] = Nobody
    BY DEF CaptureChain
  <1>2. lastPressed \subseteq Widgets /\ Leads(eventChild)
    BY DEF Types
  <1>3. Leads(f)
    BY <1>2, WaysLead
  <1>4. \A w \in lastPressed : f[w] = eventChild[w]
    <2> SUFFICES ASSUME NEW w \in lastPressed PROVE f[w] = eventChild[w]
      OBVIOUS
    <2>1. w \in Widgets /\ ~Presses(w, pressed)
      BY <1>2 DEF Presses
    <2> QED  BY <1>2, <2>1, WaysLead
  <1> HIDE DEF f
  <1> DEFINE S == {w \in Widgets : w \in On(eventChild) <=> w \in lastPressed}
  <1>5. /\ Root \in On(eventChild) /\ On(eventChild) \subseteq Widgets
        /\ EndOf(eventChild) \in On(eventChild)
        /\ \A w \in Others : w \in On(eventChild) <=> /\ ParentOf[w] \in On(eventChild)
                                                      /\ eventChild[ParentOf[w]] = w
    BY <1>2, OnPath
  <1>6. Root \in S
    BY <1>1, <1>5, TreeFacts
  <1>7. ASSUME NEW w \in Others, ParentOf[w] \in S PROVE w \in S
    <2>1. w \in Widgets /\ w # Root /\ w # Nobody /\ ParentOf[w] \in Widgets
      BY TreeFacts
    <2>2. ASSUME w \in On(eventChild) PROVE w \in lastPressed
      <3>1. ParentOf[w] \in lastPressed /\ eventChild[ParentOf[w]] = w
        BY <1>5, <1>7, <2>2
      <3> QED  BY <1>1, <2>1, <3>1
    <2>3. ASSUME w \in lastPressed PROVE w \in On(eventChild)
      <3>1. eventChild[ParentOf[w]] = w
        BY <1>1, <2>1, <2>3
      <3>2. ParentOf[w] \in lastPressed
        BY <1>1, <2>1, <3>1
      <3> QED  BY <1>5, <1>7, <3>1, <3>2
    <2> QED  BY <2>1, <2>2, <2>3
  <1>8. \A w \in Widgets : w \in S
    <2> HIDE DEF S
    <2> QED  BY <1>6, <1>7, TopDown
  <1>9. On(eventChild) = lastPressed
    BY <1>2, <1>5, <1>8
  <1>10. On(f) = On(eventChild) /\ EndOf(f) = EndOf(eventChild)
    <2>1. \A w \in On(eventChild) : eventChild[w] = f[w]
      BY <1>4, <1>9
    <2> QED  BY <1>2, <1>3, <2>1, SamePath
  <1>11. Holder = {EndOf(eventChild)}
    BY DEF Holder
  <1> QED  BY <1>4, <1>5, <1>9, <1>10, <1>11 DEF f

-----------------------------------------------------------------------------
(* What each step leaves.                                                  *)
LEMMA PathEnd ==
  ASSUME NEW child
  PROVE  Last(PathOf(child)) = EndOf(child) /\ Range(PathOf(child)) = On(child)
  BY DEF EndOf, On

(* A press goes to the owner of the pixel, when nobody has the mouse.      *)
LEMMA DownFree ==
  ASSUME IInv, NEW off \in Offsets, MouseDown(off), NEW p, p = MovedBy(off)
  PROVE  /\ p \in Points /\ lastPressed = {} /\ Leads(Hits(Desk, p))
         /\ Path(p, TRUE) = PathOf(Hits(Desk, p))
         /\ Last(Path(p, TRUE)) = Owner(Desk, p) /\ Range(Path(p, TRUE)) = On(Hits(Desk, p))
         /\ \A w \in Widgets : eventChild[w] = Nobody
         /\ \A w \in Widgets : NextOf(w, p, TRUE) = Hits(Desk, p)[w]
         /\ \A w \in Widgets : HitChild(Desk, w, Relative(w, p)) = Hits(Desk, p)[w]
         /\ dragging = {} /\ active = {} /\ Holder = {}
  <1>1. Desk \in Desks /\ Types /\ CaptureChain /\ Leads(eventChild) /\ TRUE \in BOOLEAN
    BY DEF IInv, Types
  <1>2. p \in Points
    BY <1>1, MovedByIs, OffsetTypes
  <1>3. Presses(Last(Path(p, TRUE)), TRUE)
    BY Zenon DEF MouseDown
  <1>4. Path(p, TRUE) = PathOf(Ways(p, TRUE))
    BY <1>1, <1>2, WaysLead
  <1>5. lastPressed = {}
    <2> SUFFICES ASSUME lastPressed # {} PROVE FALSE
      OBVIOUS
    <2>1. EndOf(Ways(p, TRUE)) \in lastPressed
      BY <1>1, <1>2, HeldWays
    <2>2. Last(Path(p, TRUE)) = EndOf(Ways(p, TRUE))
      BY <1>4, PathEnd
    <2> QED  BY <1>3, <2>1, <2>2 DEF Presses
  <1>6. /\ \A w \in Widgets : eventChild[w] = Nobody
        /\ Ways(p, TRUE) = Hits(Desk, p)
        /\ dragging = {} /\ active = {} /\ Holder = {}
    BY <1>1, <1>2, <1>5, FreeWays
  <1>7. \A w \in Widgets : NextOf(w, p, TRUE) = Hits(Desk, p)[w]
    <2>1. \A w \in Widgets : Ways(p, TRUE)[w] = NextOf(w, p, TRUE)
      BY <1>1, <1>2, WaysLead
    <2> QED  BY <1>6, <2>1
  <1>8. \A w \in Widgets : HitChild(Desk, w, Relative(w, p)) = Hits(Desk, p)[w]
    BY <1>1, <1>2, WaysLead
  <1>9. Leads(Hits(Desk, p))
    BY <1>1, <1>2, HitsLead
  <1>10. Last(Path(p, TRUE)) = Owner(Desk, p) /\ Range(Path(p, TRUE)) = On(Hits(Desk, p))
    BY <1>4, <1>6, PathEnd DEF Owner
  <1> QED  BY <1>2, <1>4, <1>5, <1>6, <1>7, <1>8, <1>9, <1>10

(* What the owner of a pixel is shown as. *)
LEMMA SeenIsOwner ==
  ASSUME Desk \in Desks, NEW p \in Points
  PROVE  SeenUnder(p) = Owner(Desk, p)
  <1> DEFINE d == Desk
  <1>1. d \in Desks
    OBVIOUS
  <1>2. SeenUnder(p) = IF p \in Everywhere(d) THEN Picture(d)[p][1] ELSE Root
    BY DEF SeenUnder
  <1> HIDE DEF d
  <1>3. Everywhere(d) = Screen
    BY <1>1, AreaFacts
  <1>4. CASE p \in Screen
    <2>1. Picture(d)[p] = Shown(d, p)
      BY <1>1, <1>4, PictureIs
    <2>2. Shown(d, p)[1] = Owner(d, p)
      BY DEF Shown, Shade, Client, Decoration
    <2>3. SeenUnder(p) = Owner(d, p)
      BY <1>2, <1>3, <1>4, <2>1, <2>2
    <2> QED  BY <2>3 DEF d
  <1>5. CASE p \notin Screen
    <2>1. Owner(d, p) = Root
      BY <1>1, <1>5, OwnerOutside
    <2>2. SeenUnder(p) = Owner(d, p)
      BY <1>2, <1>3, <1>5, <2>1
    <2> QED  BY <2>2 DEF d
  <1> QED  BY <1>4, <1>5

(* What a press leaves of the desktop: places stay, the windows on the way *)
(* are raised, the button is down.                                         *)
LEMMA DownDesk ==
  ASSUME IInv, NEW off \in Offsets, MouseDown(off), NEW p, p = MovedBy(off)
  PROVE  /\ Desk' \in Desks /\ pos' = pos /\ RightBut(Desk', CursorAt(p))
         /\ active' = (IF Owner(Desk, p) \in Buttons THEN {Owner(Desk, p)} ELSE {})
         /\ \A w \in Widgets :
              \/ kids'[w] = kids[w]
              \/ \E v \in On(Hits(Desk, p)) \cap Windows : ParentOf[v] = w
         /\ \A v \in On(Hits(Desk, p)) \cap Windows : Last(kids'[ParentOf[v]]) = v
  <1> DEFINE d == Desk
             path == PathOf(Hits(d, p))
             end == Owner(d, p)
             e == Focus(d, path, TRUE)
             f == IF end \in Buttons THEN SetActive(e, end, TRUE) ELSE e
             g == DrawMouse(f, prevMouse, p)
  <1>1. /\ p \in Points /\ lastPressed = {} /\ Leads(Hits(Desk, p))
        /\ Path(p, TRUE) = PathOf(Hits(Desk, p))
        /\ Last(Path(p, TRUE)) = Owner(Desk, p)
        /\ active = {}
    BY DownFree
  <1>2. Desk \in Desks /\ RightBut(Desk, CursorAt(prevMouse))
    BY DEF IInv
  <1>3. ChangeDesk(g)
    <2>1. ChangeDesk(DrawMouse(IF Last(Path(p, TRUE)) \in Buttons
                               THEN SetActive(Focus(Desk, Path(p, TRUE), TRUE), Last(Path(p, TRUE)), TRUE)
                               ELSE Focus(Desk, Path(p, TRUE), TRUE), prevMouse, p))
      BY Zenon DEF MouseDown
    <2> QED  BY <1>1, <2>1
  <1>4. d.kids = kids /\ d.pos = pos /\ d.active = {} /\ d \in Desks
        /\ RightBut(d, CursorAt(prevMouse)) /\ Leads(Hits(d, p))
    BY <1>1, <1>2, DeskParts
  <1>5. /\ path \in Seq(Widgets)
        /\ \A i \in 1 .. Len(path) : path[i] \in On(Hits(d, p))
        /\ \A w \in On(Hits(d, p)) : \E i \in 1 .. Len(path) : path[i] = w
        /\ OneEach(path)
    BY <1>4, PathSiblings
  <1> HIDE DEF d, path, end
  <1>6. Focused(d, path, TRUE, e, Len(path))
    BY <1>4, <1>5, FocusIs
  <1>7. \A i \in 1 .. Len(path) : Tells(path, TRUE, i) <=> path[i] \in Windows
    BY <1>1 DEF Tells, Presses
  <1>8. /\ e \in Desks /\ e.pos = d.pos /\ e.active = d.active
        /\ \A K : RightBut(d, K) => RightBut(e, K)
        /\ \A w \in Widgets :
             \/ e.kids[w] = d.kids[w]
             \/ \E i \in 1 .. Len(path) : Tells(path, TRUE, i) /\ ParentOf[path[i]] = w
        /\ \A i \in 1 .. Len(path) : Tells(path, TRUE, i) => Last(e.kids[ParentOf[path[i]]]) = path[i]
    BY <1>6 DEF Focused
  <1> HIDE DEF e
  <1>9. /\ f \in Desks /\ f.kids = e.kids /\ f.pos = e.pos
        /\ f.active = (IF end \in Buttons THEN {end} ELSE {})
        /\ RightBut(f, CursorAt(prevMouse))
    <2>1. RightBut(e, CursorAt(prevMouse)) /\ e.active = {}
      BY <1>4, <1>8
    <2>2. CASE end \in Buttons
      <3> DEFINE h == SetActive(e, end, TRUE)
      <3>1. TRUE \in BOOLEAN
        OBVIOUS
      <3>2. /\ h \in Desks /\ h.kids = e.kids /\ h.pos = e.pos
            /\ h.active = (IF TRUE THEN e.active \cup {end} ELSE e.active \ {end})
            /\ \A K : RightBut(e, K) => RightBut(h, K)
        BY <1>8, <2>2, <3>1, SetActiveIs
      <3>3. f = h
        BY <2>2
      <3> HIDE DEF h, f
      <3> QED  BY <2>1, <2>2, <3>2, <3>3
    <2>3. CASE end \notin Buttons
      BY <1>8, <2>1, <2>3
    <2> QED  BY <2>2, <2>3
  <1> HIDE DEF f
  <1>10. /\ g \in Desks /\ g.kids = f.kids /\ g.pos = f.pos /\ g.active = f.active
         /\ RightBut(g, CursorAt(p))
    BY <1>9, DrawMouseIs
  <1> HIDE DEF g
  <1>11. Desk' = g /\ kids' = g.kids /\ pos' = g.pos /\ active' = g.active
    BY <1>3, <1>10, ChangeDeskIs DEF ChangeDesk
  <1>12. ASSUME NEW w \in Widgets
         PROVE  \/ kids'[w] = kids[w]
                \/ \E v \in On(Hits(d, p)) \cap Windows : ParentOf[v] = w
    <2>1. kids' = e.kids
      BY <1>9, <1>10, <1>11
    <2>2. CASE e.kids[w] = d.kids[w]
      BY <1>4, <2>1, <2>2
    <2>3. CASE \E i \in 1 .. Len(path) : Tells(path, TRUE, i) /\ ParentOf[path[i]] = w
      <3>1. PICK i \in 1 .. Len(path) : Tells(path, TRUE, i) /\ ParentOf[path[i]] = w
        BY <2>3
      <3>2. path[i] \in On(Hits(d, p)) \cap Windows
        BY <1>5, <1>7, <3>1
      <3> QED  BY <3>1, <3>2
    <2> QED  BY <1>8, <2>2, <2>3
  <1>13. ASSUME NEW v \in On(Hits(d, p)) \cap Windows
         PROVE  Last(kids'[ParentOf[v]]) = v
    <2>1. PICK i \in 1 .. Len(path) : path[i] = v
      BY <1>5
    <2>2. Tells(path, TRUE, i)
      BY <1>7, <2>1
    <2>3. Last(e.kids[ParentOf[path[i]]]) = path[i]
      BY <1>8, <2>2
    <2> QED  BY <1>9, <1>10, <1>11, <2>1, <2>3
  <1>14. /\ pos' = pos /\ active' = (IF end \in Buttons THEN {end} ELSE {})
         /\ Desk' \in Desks /\ RightBut(Desk', CursorAt(p))
    BY <1>4, <1>8, <1>9, <1>10, <1>11
  <1> QED  BY <1>12, <1>13, <1>14 DEF d, end

-----------------------------------------------------------------------------
(* The invariant is kept.                                                  *)
(* What a press leaves in the widgets.                                     *)
LEMMA DownEvents ==
  ASSUME IInv, NEW off \in Offsets, MouseDown(off), NEW p, p = MovedBy(off)
  PROVE  /\ lastPressed' = On(Hits(Desk, p))
         /\ eventChild' = [w \in Widgets |-> IF w \in On(Hits(Desk, p)) THEN Hits(Desk, p)[w]
                                             ELSE Nobody]
         /\ focusChild' = [w \in Widgets |-> IF w \in On(Hits(Desk, p)) THEN Hits(Desk, p)[w]
                                             ELSE focusChild[w]]
         /\ EndOf(eventChild') = Owner(Desk, p) /\ Leads(eventChild')
         /\ EndOf(focusChild') = Owner(Desk, p) /\ Leads(focusChild')
         /\ Owner(Desk, p) \in On(Hits(Desk, p)) /\ On(Hits(Desk, p)) \subseteq Widgets
  <1> DEFINE h == Hits(Desk, p)
             path == Path(p, TRUE)
  <1>1. /\ lastPressed = {} /\ Leads(h) /\ Range(path) = On(h)
        /\ \A w \in Widgets : eventChild[w] = Nobody
        /\ \A w \in Widgets : NextOf(w, p, TRUE) = h[w]
        /\ \A w \in Widgets : HitChild(Desk, w, Relative(w, p)) = h[w]
    BY DownFree
  <1>2. PassOn(path, p, TRUE)
    BY Zenon DEF MouseDown
  <1>3. /\ lastPressed' = lastPressed \cup Range(path)
        /\ eventChild' = [w \in Widgets |-> IF w \notin Range(path) THEN eventChild[w]
                                            ELSE NextOf(w, p, TRUE)]
        /\ focusChild' = [w \in Widgets |->
             IF w \in Range(path) /\ Presses(w, TRUE) THEN HitChild(Desk, w, Relative(w, p))
             ELSE focusChild[w]]
    BY <1>2 DEF PassOn
  <1>4. \A w : Presses(w, TRUE)
    BY <1>1 DEF Presses
  <1>5. Leads(focusChild)
    BY DEF IInv, Types
  <1> HIDE DEF path
  <1>6. lastPressed' = On(h)
    BY <1>1, <1>3
  <1> HIDE DEF h
  <1>7. eventChild' = [w \in Widgets |-> IF w \in On(h) THEN h[w] ELSE Nobody]
    BY <1>1, <1>3
  <1>8. focusChild' = [w \in Widgets |-> IF w \in On(h) THEN h[w] ELSE focusChild[w]]
    BY <1>1, <1>3, <1>4
  <1>9. On(h) \subseteq Widgets /\ EndOf(h) \in On(h)
    BY <1>1, OnPath
  <1>10. Leads(eventChild') /\ Leads(focusChild')
    BY <1>1, <1>5, <1>7, <1>8 DEF Leads
  <1>11. EndOf(eventChild') = EndOf(h)
    <2>1. \A w \in On(h) : h[w] = eventChild'[w]
      BY <1>7, <1>9
    <2> QED  BY <1>1, <1>10, <2>1, SamePath
  <1>12. EndOf(focusChild') = EndOf(h)
    <2>1. \A w \in On(h) : h[w] = focusChild'[w]
      BY <1>8, <1>9
    <2> QED  BY <1>1, <1>10, <2>1, SamePath
  <1>13. EndOf(h) = Owner(Desk, p)
    BY DEF Owner, h
  <1> QED  BY <1>6, <1>7, <1>8, <1>9, <1>10, <1>11, <1>12, <1>13 DEF h

(* The invariant is kept by a press.                                       *)
LEMMA DownStep ==
  ASSUME IInv, NEW off \in Offsets, MouseDown(off)
  PROVE  IInv'
  <1> DEFINE p == MovedBy(off)
             h == Hits(Desk, p)
             end == Owner(Desk, p)
  <1>1. /\ p \in Points /\ Leads(h) /\ Last(Path(p, TRUE)) = end
        /\ dragging = {} /\ active = {} /\ lastPressed = {}
    BY DownFree
  <1>2. /\ lastPressed' = On(h)
        /\ eventChild' = [w \in Widgets |-> IF w \in On(h) THEN h[w] ELSE Nobody]
        /\ focusChild' = [w \in Widgets |-> IF w \in On(h) THEN h[w] ELSE focusChild[w]]
        /\ EndOf(eventChild') = end /\ Leads(eventChild')
        /\ EndOf(focusChild') = end /\ Leads(focusChild')
        /\ end \in On(h) /\ On(h) \subseteq Widgets
    BY DownEvents
  <1>3. /\ Desk' \in Desks /\ pos' = pos /\ RightBut(Desk', CursorAt(p))
        /\ active' = (IF end \in Buttons THEN {end} ELSE {})
        /\ \A w \in Widgets :
              \/ kids'[w] = kids[w]
              \/ \E v \in On(h) \cap Windows : ParentOf[v] = w
        /\ \A v \in On(h) \cap Windows : Last(kids'[ParentOf[v]]) = v
    BY DownDesk
  <1>4. Desk \in Desks /\ Types /\ FocusOnTop
    BY DEF IInv
  <1>5. p \in (0 .. SizeOf[Root][1]) \X (0 .. SizeOf[Root][2])
    BY <1>4, MovedByIs, OffsetTypes
  <1>6. mouse' = p /\ prevMouse' = p /\ elapsed' = 0
    BY Zenon DEF MouseDown, Render
  <1>7. deeds < MaxDeeds /\ deeds' = deeds + 1 /\ clicked' = SeenUnder(p)
    BY Zenon DEF MouseDown
  <1>8. \/ /\ end \in Windows /\ dragging' = {end}
           /\ dragOffset' = [dragOffset EXCEPT ![end] = Relative(end, p)]
        \/ dragging' = {} /\ dragOffset' = dragOffset
    <2>1. IF Last(Path(p, TRUE)) \in Windows /\ Relative(Last(Path(p, TRUE)), p)[2] < DragHeight
          THEN /\ dragging' = dragging \cup {Last(Path(p, TRUE))}
               /\ dragOffset' = [dragOffset EXCEPT ![Last(Path(p, TRUE))] = Relative(Last(Path(p, TRUE)), p)]
          ELSE UNCHANGED <<dragging, dragOffset>>
      BY Zenon DEF MouseDown
    <2> QED  BY <1>1, <2>1
  <1>9. clicked' = end
    BY <1>1, <1>4, <1>7, SeenIsOwner
  <1>10. Relative(end, p) \in Points /\ Relative(end, p) = Minus(p, ScreenPos(Desk, end))
         /\ end \in Widgets
    <2>1. end \in Widgets
      BY <1>2
    <2>2. ScreenPos(Desk, end) \in Points
      BY <1>4, <2>1, DeskFacts, ScreenPosIs
    <2> QED  BY <1>1, <2>1, <2>2, PlusType DEF Relative
  <1>11. Desk'.pos = Desk.pos
    BY <1>3, DeskParts DEF Desk
  <1>12. \A w \in Widgets : ScreenPos(Desk', w) = ScreenPos(Desk, w)
    <2>1. \A w \in Widgets : /\ w \in Widgets /\ Desk'.pos[w] = Desk.pos[w]
                             /\ w # Root => ParentOf[w] \in Widgets
      BY <1>11, TreeFacts
    <2> QED  BY <1>3, <1>4, <2>1, SamePlace
  <1> HIDE DEF p, h, end
  <1>13. Types'
    <2>1. dragging' \subseteq Windows /\ dragOffset' \in [Windows -> Points]
      BY <1>4, <1>8, <1>10 DEF Types
    <2>2. deeds' \in 0 .. MaxDeeds /\ elapsed' \in 0 .. MinTicks + 1
      BY <1>4, <1>6, <1>7, CounterTypes
    <2> QED  BY <1>2, <1>5, <1>6, <1>9, <1>10, <2>1, <2>2 DEF Types
  <1>14. CaptureChain'
    <2>1. lastPressed' # {} /\ Root \in lastPressed'
      BY <1>1, <1>2, OnPath
    <2>2. Holder' = {end}
      BY <1>2, <2>1 DEF Holder
    <2>3. dragging' \cup active' \subseteq Holder'
      BY <1>3, <1>8, <2>2
    <2>4. ASSUME NEW w \in lastPressed', eventChild'[w] # Nobody PROVE eventChild'[w] \in lastPressed'
      <3>1. w \in On(h) /\ eventChild'[w] = h[w]
        BY <1>2
      <3> QED  BY <1>1, <1>2, <2>4, <3>1, OnPath
    <2>5. ASSUME NEW w \in lastPressed' \ {Root} PROVE eventChild'[ParentOf[w]] = w
      <3>1. w \in On(h) /\ w \in Others /\ ParentOf[w] \in Widgets
        BY <1>2, TreeFacts
      <3>2. ParentOf[w] \in On(h) /\ h[ParentOf[w]] = w
        BY <1>1, <3>1, OnPath
      <3> QED  BY <1>2, <3>1, <3>2
    <2>6. \A w \in Widgets \ lastPressed' : eventChild'[w] = Nobody
      BY <1>2
    <2> QED  BY <2>1, <2>3, <2>4, <2>5, <2>6 DEF CaptureChain
  <1>15. DragFollowsMouse'
    <2> SUFFICES ASSUME NEW w \in dragging'
                 PROVE  Minus(prevMouse', ScreenPos(Desk', w)) = dragOffset'[w]
      BY DEF DragFollowsMouse
    <2>1. w = end /\ end \in Windows /\ dragOffset' = [dragOffset EXCEPT ![end] = Relative(end, p)]
      BY <1>8
    <2>2. dragOffset'[end] = Relative(end, p)
      BY <1>4, <2>1 DEF Types
    <2>3. ScreenPos(Desk', w) = ScreenPos(Desk, end)
      BY <1>10, <1>12, <2>1
    <2> QED  BY <1>6, <1>10, <2>1, <2>2, <2>3
  <1>16. KeysGoToLastClicked'
    BY <1>2, <1>9 DEF KeysGoToLastClicked, KeyTarget
  <1>17. FocusOnTop'
    <2> SUFFICES ASSUME NEW w \in Widgets, focusChild'[w] \in Windows
                 PROVE  Last(kids'[w]) = focusChild'[w]
      BY DEF FocusOnTop
    <2>1. CASE w \in On(h)
      <3>1. focusChild'[w] = h[w] /\ h[w] \in Windows
        BY <1>2, <2>1
      <3>2. h[w] # Nobody /\ h[w] \in Others
        BY <3>1, TreeFacts
      <3>3. h[w] \in On(h)
        BY <1>1, <2>1, <3>2, OnPath
      <3>4. ParentOf[h[w]] = w
        BY <1>1, <3>2 DEF Leads, Children
      <3> QED  BY <1>3, <3>1, <3>3, <3>4
    <2>2. CASE w \notin On(h)
      <3>1. focusChild'[w] = focusChild[w]
        BY <1>2, <2>2
      <3>2. Last(kids[w]) = focusChild[w]
        BY <1>4, <3>1 DEF FocusOnTop
      <3>3. ASSUME NEW v \in On(h) \cap Windows, ParentOf[v] = w PROVE FALSE
        <4>1. v \in Others
          BY TreeFacts
        <4> QED  BY <1>1, <2>2, <3>3, <4>1, OnPath
      <3>4. kids'[w] = kids[w]
        BY <1>3, <3>3
      <3> QED  BY <3>1, <3>2, <3>4
    <2> QED  BY <2>1, <2>2
  <1>18. RightBut(Desk', CursorAt(prevMouse'))
    BY <1>3, <1>6
  <1> QED  BY <1>3, <1>13, <1>14, <1>15, <1>16, <1>17, <1>18 DEF IInv

(* A step that moves no widget and gives the mouse and keys to nobody else. *)
LEMMA SamePlaces ==
  ASSUME Desk \in Desks, Desk' \in Desks, pos' = pos
  PROVE  \A w \in Widgets : ScreenPos(Desk', w) = ScreenPos(Desk, w)
  <1>1. Desk'.pos = Desk.pos
    BY DeskParts DEF Desk
  <1>2. \A w \in Widgets : /\ w \in Widgets /\ Desk'.pos[w] = Desk.pos[w]
                           /\ w # Root => ParentOf[w] \in Widgets
    BY <1>1, TreeFacts
  <1> QED  BY <1>2, SamePlace

(* The invariant is kept by it.                                            *)
LEMMA QuietStep ==
  ASSUME IInv, Desk' \in Desks, kids' = kids, pos' = pos, active' = active,
         lastPressed' = lastPressed, eventChild' = eventChild, focusChild' = focusChild,
         dragging' = dragging, dragOffset' = dragOffset, clicked' = clicked,
         dragging = {} \/ prevMouse' = prevMouse,
         mouse' \in (0 .. SizeOf[Root][1]) \X (0 .. SizeOf[Root][2]),
         prevMouse' \in (0 .. SizeOf[Root][1]) \X (0 .. SizeOf[Root][2]),
         elapsed' \in 0 .. MinTicks + 1, deeds' \in 0 .. MaxDeeds,
         RightBut(Desk', CursorAt(prevMouse'))
  PROVE  IInv'
  <1>1. Types'
    BY DEF IInv, Types
  <1>2. CaptureChain'
    BY DEF IInv, CaptureChain, Holder
  <1>3. DragFollowsMouse'
    <2> SUFFICES ASSUME NEW w \in dragging'
                 PROVE  Minus(prevMouse', ScreenPos(Desk', w)) = dragOffset'[w]
      BY DEF DragFollowsMouse
    <2>1. w \in dragging /\ w \in Widgets /\ prevMouse' = prevMouse
      BY TreeFacts DEF IInv, Types
    <2>2. Minus(prevMouse, ScreenPos(Desk, w)) = dragOffset[w]
      BY <2>1 DEF IInv, DragFollowsMouse
    <2>3. ScreenPos(Desk', w) = ScreenPos(Desk, w)
      BY <2>1, SamePlaces DEF IInv
    <2> QED  BY <2>1, <2>2, <2>3
  <1>4. KeysGoToLastClicked'
    BY DEF IInv, KeysGoToLastClicked, KeyTarget
  <1>5. FocusOnTop'
    BY DEF IInv, FocusOnTop
  <1> QED  BY <1>1, <1>2, <1>3, <1>4, <1>5 DEF IInv

(* While the mouse is held and while nobody has it, nobody is told.        *)
LEMMA HeldEvents ==
  ASSUME IInv, NEW p \in Points, lastPressed # {}
  PROVE  /\ Last(Path(p, TRUE)) = EndOf(eventChild) /\ Last(Path(p, FALSE)) = EndOf(eventChild)
         /\ Range(Path(p, TRUE)) = lastPressed /\ Range(Path(p, FALSE)) = lastPressed
         /\ EndOf(eventChild) \in lastPressed /\ Holder = {EndOf(eventChild)}
         /\ Focus(Desk, Path(p, TRUE), TRUE) = Desk
         /\ PassOn(Path(p, TRUE), p, TRUE) =>
              lastPressed' = lastPressed /\ eventChild' = eventChild /\ focusChild' = focusChild
  <1>1. Desk \in Desks /\ Types /\ CaptureChain /\ Leads(eventChild) /\ Leads(focusChild)
    BY DEF IInv, Types
  <1>2. ASSUME NEW pressed \in BOOLEAN
        PROVE  /\ Last(Path(p, pressed)) = EndOf(eventChild)
               /\ Range(Path(p, pressed)) = lastPressed
               /\ EndOf(eventChild) \in lastPressed /\ Holder = {EndOf(eventChild)}
               /\ Leads(Ways(p, pressed)) /\ Path(p, pressed) = PathOf(Ways(p, pressed))
               /\ \A w \in Widgets : w \in lastPressed => NextOf(w, p, pressed) = eventChild[w]
    <2>1. Leads(Ways(p, pressed)) /\ Path(p, pressed) = PathOf(Ways(p, pressed))
      BY <1>1, WaysLead
    <2>2. \A w \in Widgets : Ways(p, pressed)[w] = NextOf(w, p, pressed)
      BY <1>1, WaysLead
    <2>3. /\ On(Ways(p, pressed)) = lastPressed
          /\ EndOf(Ways(p, pressed)) = EndOf(eventChild) /\ EndOf(eventChild) \in lastPressed
          /\ \A w \in lastPressed : Ways(p, pressed)[w] = eventChild[w]
          /\ Holder = {EndOf(eventChild)}
      BY <1>1, HeldWays
    <2>4. Last(Path(p, pressed)) = EndOf(Ways(p, pressed)) /\ Range(Path(p, pressed)) = On(Ways(p, pressed))
      BY <2>1, PathEnd
    <2> QED  BY <2>1, <2>2, <2>3, <2>4
  <1> DEFINE path == Path(p, TRUE)
  <1>3. Focus(Desk, path, TRUE) = Desk
    <2>0. Leads(Ways(p, TRUE)) /\ path = PathOf(Ways(p, TRUE)) /\ Range(path) = lastPressed
      BY <1>2
    <2> DEFINE child == Ways(p, TRUE)
    <2> HIDE DEF child
    <2>1. /\ PathOf(child) \in Seq(Widgets) /\ OneEach(PathOf(child))
          /\ \A i \in 1 .. Len(PathOf(child)) : PathOf(child)[i] \in On(child)
      BY <2>0, PathSiblings DEF child
    <2>2. path \in Seq(Widgets) /\ OneEach(path) /\ \A i \in 1 .. Len(path) : path[i] \in lastPressed
      BY <2>0, <2>1, PathEnd DEF child
    <2> HIDE DEF path
    <2>3. Focused(Desk, path, TRUE, Focus(Desk, path, TRUE), Len(path))
      BY <1>1, <2>2, FocusIs
    <2>4. \A i \in 1 .. Len(path) : ~Tells(path, TRUE, i)
      BY <2>2 DEF Tells, Presses
    <2> QED  BY <2>3, <2>4 DEF Focused
  <1>4. ASSUME PassOn(path, p, TRUE)
        PROVE  lastPressed' = lastPressed /\ eventChild' = eventChild /\ focusChild' = focusChild
    <2>1. /\ lastPressed' = lastPressed \cup Range(path)
          /\ eventChild' = [w \in Widgets |-> IF w \notin Range(path) THEN eventChild[w]
                                              ELSE NextOf(w, p, TRUE)]
          /\ focusChild' = [w \in Widgets |->
               IF w \in Range(path) /\ Presses(w, TRUE) THEN HitChild(Desk, w, Relative(w, p))
               ELSE focusChild[w]]
      BY <1>4 DEF PassOn
    <2>2. Range(path) = lastPressed /\ \A w \in Widgets : w \in lastPressed => NextOf(w, p, TRUE) = eventChild[w]
      BY <1>2
    <2> HIDE DEF path
    <2>3. eventChild' = [w \in Widgets |-> eventChild[w]]
      BY <2>1, <2>2
    <2>4. focusChild' = [w \in Widgets |-> focusChild[w]]
      BY <2>1, <2>2 DEF Presses
    <2>5. /\ eventChild = [w \in Widgets |-> eventChild[w]]
          /\ focusChild = [w \in Widgets |-> focusChild[w]]
      BY <1>1 DEF Leads
    <2> QED  BY <2>1, <2>2, <2>3, <2>4, <2>5
  <1>5. /\ Last(Path(p, TRUE)) = EndOf(eventChild) /\ Range(Path(p, TRUE)) = lastPressed
        /\ EndOf(eventChild) \in lastPressed /\ Holder = {EndOf(eventChild)}
    BY <1>2
  <1>6. Last(Path(p, FALSE)) = EndOf(eventChild) /\ Range(Path(p, FALSE)) = lastPressed
    BY <1>2
  <1> QED  BY <1>3, <1>4, <1>5, <1>6

(* The same while nobody has the mouse.                                    *)
LEMMA FreeEvents ==
  ASSUME IInv, NEW p \in Points, lastPressed = {}
  PROVE  /\ dragging = {} /\ Focus(Desk, Path(p, FALSE), FALSE) = Desk
         /\ PassOn(Path(p, FALSE), p, FALSE) =>
              lastPressed' = lastPressed /\ eventChild' = eventChild /\ focusChild' = focusChild
  <1>1. Desk \in Desks /\ Types /\ CaptureChain /\ Leads(eventChild) /\ Leads(focusChild)
    BY DEF IInv, Types
  <1>2. dragging = {} /\ \A w \in Widgets : eventChild[w] = Nobody
    BY <1>1, FreeWays
  <1> DEFINE path == Path(p, FALSE)
             child == Ways(p, FALSE)
  <1>3. Leads(child) /\ path = PathOf(child)
    BY <1>1, WaysLead
  <1> HIDE DEF path, child
  <1>4. path \in Seq(Widgets) /\ OneEach(path)
    BY <1>3, PathSiblings
  <1>5. Focused(Desk, path, FALSE, Focus(Desk, path, FALSE), Len(path))
    BY <1>1, <1>4, FocusIs
  <1>6. \A i \in 1 .. Len(path) : ~Tells(path, FALSE, i)
    BY DEF Tells, Presses
  <1>7. Focus(Desk, path, FALSE) = Desk
    BY <1>5, <1>6 DEF Focused
  <1>8. ASSUME PassOn(path, p, FALSE)
        PROVE  lastPressed' = lastPressed /\ eventChild' = eventChild /\ focusChild' = focusChild
    <2>1. /\ lastPressed' = lastPressed \ Range(path)
          /\ eventChild' = [w \in Widgets |-> IF w \notin Range(path) THEN eventChild[w] ELSE Nobody]
          /\ focusChild' = [w \in Widgets |-> focusChild[w]]
      BY <1>8 DEF PassOn, Presses
    <2>2. eventChild' = [w \in Widgets |-> eventChild[w]]
      BY <1>2, <2>1
    <2>3. /\ eventChild = [w \in Widgets |-> eventChild[w]]
          /\ focusChild = [w \in Widgets |-> focusChild[w]]
      BY <1>1 DEF Leads
    <2> QED  BY <2>1, <2>2, <2>3
  <1> QED  BY <1>2, <1>7, <1>8 DEF path

-----------------------------------------------------------------------------
(* The release. *)
LEMMA UpDesk ==
  ASSUME IInv, NEW off \in Offsets, MouseUp(off), NEW p, p = MovedBy(off)
  PROVE  /\ p \in Points /\ lastPressed # {} /\ Holder = {EndOf(eventChild)}
         /\ Last(Path(p, FALSE)) = EndOf(eventChild) /\ Range(Path(p, FALSE)) = lastPressed
         /\ Desk' \in Desks /\ kids' = kids /\ pos' = pos /\ active' = {}
         /\ RightBut(Desk', CursorAt(p))
  <1> DEFINE d == Desk
             end == EndOf(eventChild)
             e == IF end \in Buttons THEN SetActive(d, end, FALSE) ELSE d
             f == DrawMouse(e, prevMouse, p)
  <1>1. Desk \in Desks /\ Types /\ CaptureChain /\ RightBut(Desk, CursorAt(prevMouse))
    BY DEF IInv
  <1>2. p \in Points
    BY <1>1, MovedByIs, OffsetTypes
  <1>3. Last(Path(p, FALSE)) \in lastPressed
    BY Zenon DEF MouseUp
  <1>4. /\ lastPressed # {} /\ Holder = {end}
        /\ Last(Path(p, FALSE)) = end /\ Range(Path(p, FALSE)) = lastPressed
    BY <1>2, <1>3, HeldEvents
  <1>5. ChangeDesk(f)
    <2>1. ChangeDesk(DrawMouse(IF Last(Path(p, FALSE)) \in Buttons
                               THEN SetActive(Desk, Last(Path(p, FALSE)), FALSE) ELSE Desk,
                               prevMouse, p))
      BY Zenon DEF MouseUp
    <2> QED  BY <1>4, <2>1
  <1>6. d.kids = kids /\ d.pos = pos /\ d.active = active /\ d \in Desks
        /\ RightBut(d, CursorAt(prevMouse))
    BY <1>1, DeskParts
  <1>7. active \subseteq {end} /\ active \subseteq Buttons
    <2>1. active \subseteq Buttons
      BY <1>6, DeskFacts
    <2> QED  BY <1>1, <1>4, <2>1 DEF CaptureChain
  <1> HIDE DEF d, end
  <1>8. /\ e \in Desks /\ e.kids = d.kids /\ e.pos = d.pos /\ e.active = {}
        /\ RightBut(e, CursorAt(prevMouse))
    <2>1. CASE end \in Buttons
      <3> DEFINE h == SetActive(d, end, FALSE)
      <3>1. FALSE \in BOOLEAN
        OBVIOUS
      <3>2. /\ h \in Desks /\ h.kids = d.kids /\ h.pos = d.pos
            /\ h.active = (IF FALSE THEN d.active \cup {end} ELSE d.active \ {end})
            /\ \A K : RightBut(d, K) => RightBut(h, K)
        BY <1>6, <2>1, <3>1, SetActiveIs
      <3>3. e = h
        BY <2>1
      <3> HIDE DEF h, e
      <3> QED  BY <1>6, <1>7, <3>2, <3>3
    <2>2. CASE end \notin Buttons
      BY <1>6, <1>7, <2>2
    <2> QED  BY <2>1, <2>2
  <1> HIDE DEF e
  <1>9. /\ f \in Desks /\ f.kids = e.kids /\ f.pos = e.pos /\ f.active = e.active
        /\ RightBut(f, CursorAt(p))
    BY <1>8, DrawMouseIs
  <1> HIDE DEF f
  <1>10. Desk' = f /\ kids' = f.kids /\ pos' = f.pos /\ active' = f.active
    BY <1>5, <1>9, ChangeDeskIs DEF ChangeDesk
  <1>11. Desk' \in Desks /\ kids' = kids /\ pos' = pos /\ active' = {} /\ RightBut(Desk', CursorAt(p))
    BY <1>6, <1>8, <1>9, <1>10
  <1> QED  BY <1>2, <1>4, <1>11 DEF end

(* The invariant is kept by a release.                                     *)
LEMMA UpStep ==
  ASSUME IInv, NEW off \in Offsets, MouseUp(off)
  PROVE  IInv'
  <1> DEFINE p == MovedBy(off)
  <1>1. /\ p \in Points /\ lastPressed # {} /\ Holder = {EndOf(eventChild)}
        /\ Last(Path(p, FALSE)) = EndOf(eventChild) /\ Range(Path(p, FALSE)) = lastPressed
        /\ Desk' \in Desks /\ kids' = kids /\ pos' = pos /\ active' = {}
        /\ RightBut(Desk', CursorAt(p))
    BY UpDesk
  <1>2. Types /\ CaptureChain /\ FocusOnTop /\ KeysGoToLastClicked
    BY DEF IInv
  <1>3. p \in (0 .. SizeOf[Root][1]) \X (0 .. SizeOf[Root][2])
    BY <1>2, MovedByIs, OffsetTypes
  <1>4. mouse' = p /\ prevMouse' = p /\ elapsed' = 0
    BY Zenon DEF MouseUp, Render
  <1>5. dragging' = dragging \ {EndOf(eventChild)} /\ dragOffset' = dragOffset
        /\ clicked' = clicked /\ deeds' = deeds
    <2>1. dragging' = dragging \ {Last(Path(p, FALSE))} /\ UNCHANGED <<dragOffset, clicked, deeds>>
      BY Zenon DEF MouseUp
    <2> QED  BY <1>1, <2>1
  <1>6. dragging' = {}
    BY <1>1, <1>2, <1>5 DEF CaptureChain
  <1>7. /\ lastPressed' = {}
        /\ eventChild' = [w \in Widgets |-> IF w \notin lastPressed THEN eventChild[w] ELSE Nobody]
        /\ focusChild' = [w \in Widgets |-> focusChild[w]]
    <2>1. PassOn(Path(p, FALSE), p, FALSE)
      BY Zenon DEF MouseUp
    <2>2. /\ lastPressed' = lastPressed \ Range(Path(p, FALSE))
          /\ eventChild' = [w \in Widgets |-> IF w \notin Range(Path(p, FALSE)) THEN eventChild[w]
                                              ELSE Nobody]
          /\ focusChild' = [w \in Widgets |-> focusChild[w]]
      BY <2>1 DEF PassOn, Presses
    <2> QED  BY <1>1, <2>2
  <1>8. \A w \in Widgets : eventChild'[w] = Nobody
    BY <1>2, <1>7 DEF CaptureChain
  <1>9. focusChild' = focusChild /\ Leads(eventChild')
    BY <1>2, <1>7, <1>8 DEF Types, Leads
  <1>10. elapsed' \in 0 .. MinTicks + 1 /\ deeds' \in 0 .. MaxDeeds
    BY <1>2, <1>4, <1>5, CounterTypes
  <1> HIDE DEF p
  <1>11. Types'
    BY <1>2, <1>3, <1>4, <1>5, <1>6, <1>7, <1>9, <1>10 DEF Types
  <1>12. CaptureChain'
    BY <1>1, <1>6, <1>7, <1>8 DEF CaptureChain
  <1>13. DragFollowsMouse'
    BY <1>6 DEF DragFollowsMouse
  <1>14. KeysGoToLastClicked'
    BY <1>2, <1>5, <1>9 DEF KeysGoToLastClicked, KeyTarget
  <1>15. FocusOnTop'
    BY <1>1, <1>2, <1>9 DEF FocusOnTop
  <1> QED  BY <1>1, <1>4, <1>11, <1>12, <1>13, <1>14, <1>15 DEF IInv

(* A movement, with the button down or up. *)
LEMMA MoveQuiet ==
  ASSUME IInv, NEW off \in Offsets, NEW pressed \in BOOLEAN, MouseMove(off, pressed),
         NEW p, p = MovedBy(off)
  PROVE  /\ p \in Points /\ dragging = {} /\ Focus(Desk, Path(p, pressed), pressed) = Desk
         /\ lastPressed' = lastPressed /\ eventChild' = eventChild /\ focusChild' = focusChild
  <1>1. Types
    BY DEF IInv
  <1>2. p \in Points
    BY <1>1, MovedByIs, OffsetTypes
  <1>3. /\ pressed = (Last(Path(p, pressed)) \in lastPressed)
        /\ Last(Path(p, pressed)) \notin dragging
        /\ PassOn(Path(p, pressed), p, pressed)
    BY Zenon DEF MouseMove
  <1>4. CASE pressed = TRUE
    <2>1. /\ Last(Path(p, TRUE)) \in lastPressed /\ Last(Path(p, TRUE)) \notin dragging
          /\ PassOn(Path(p, TRUE), p, TRUE)
      BY <1>3, <1>4
    <2>2. lastPressed # {}
      BY <2>1
    <2>3. /\ Last(Path(p, TRUE)) = EndOf(eventChild) /\ Holder = {EndOf(eventChild)}
          /\ Focus(Desk, Path(p, TRUE), TRUE) = Desk
          /\ lastPressed' = lastPressed /\ eventChild' = eventChild /\ focusChild' = focusChild
      BY <1>2, <2>1, <2>2, HeldEvents
    <2>4. dragging = {}
      BY <2>1, <2>3 DEF IInv, CaptureChain
    <2> QED  BY <1>2, <1>4, <2>3, <2>4
  <1>5. CASE pressed = FALSE
    <2>1. /\ Last(Path(p, FALSE)) \notin lastPressed
          /\ PassOn(Path(p, FALSE), p, FALSE)
      BY <1>3, <1>5
    <2>2. lastPressed = {}
      <3>1. lastPressed # {} => Last(Path(p, FALSE)) = EndOf(eventChild) /\ EndOf(eventChild) \in lastPressed
        BY <1>2, HeldEvents
      <3> QED  BY <2>1, <3>1
    <2>3. /\ dragging = {} /\ Focus(Desk, Path(p, FALSE), FALSE) = Desk
          /\ lastPressed' = lastPressed /\ eventChild' = eventChild /\ focusChild' = focusChild
      BY <1>2, <2>1, <2>2, FreeEvents
    <2> QED  BY <1>2, <1>5, <2>3
  <1> QED  BY <1>4, <1>5

(* A movement only draws the cursor anew.                                  *)
LEMMA MoveDesk ==
  ASSUME IInv, NEW off \in Offsets, NEW pressed \in BOOLEAN, MouseMove(off, pressed),
         NEW p, p = MovedBy(off)
  PROVE  /\ Desk' \in Desks /\ kids' = kids /\ pos' = pos /\ active' = active
         /\ RightBut(Desk', CursorAt(p))
  <1> DEFINE f == DrawMouse(Desk, prevMouse, p)
  <1>1. Focus(Desk, Path(p, pressed), pressed) = Desk
    BY MoveQuiet
  <1>2. Desk \in Desks /\ RightBut(Desk, CursorAt(prevMouse))
    BY DEF IInv
  <1>3. ChangeDesk(f)
    <2>1. ChangeDesk(DrawMouse(Focus(Desk, Path(p, pressed), pressed), prevMouse, p))
      BY Zenon DEF MouseMove
    <2> QED  BY <1>1, <2>1
  <1>4. /\ f \in Desks /\ f.kids = Desk.kids /\ f.pos = Desk.pos /\ f.active = Desk.active
        /\ RightBut(f, CursorAt(p))
    BY <1>2, DrawMouseIs
  <1> HIDE DEF f
  <1>5. Desk' = f /\ kids' = f.kids /\ pos' = f.pos /\ active' = f.active
    BY <1>3, <1>4, ChangeDeskIs DEF ChangeDesk
  <1> QED  BY <1>4, <1>5, DeskParts

(* The invariant is kept by a movement.                                    *)
LEMMA MoveStep ==
  ASSUME IInv, NEW off \in Offsets, NEW pressed \in BOOLEAN, MouseMove(off, pressed)
  PROVE  IInv'
  <1> DEFINE p == MovedBy(off)
  <1>1. /\ p \in Points /\ dragging = {}
        /\ lastPressed' = lastPressed /\ eventChild' = eventChild /\ focusChild' = focusChild
    BY MoveQuiet
  <1>2. /\ Desk' \in Desks /\ kids' = kids /\ pos' = pos /\ active' = active
        /\ RightBut(Desk', CursorAt(p))
    BY MoveDesk
  <1>3. Types
    BY DEF IInv
  <1>4. p \in (0 .. SizeOf[Root][1]) \X (0 .. SizeOf[Root][2])
    BY <1>3, MovedByIs, OffsetTypes
  <1>5. mouse' = p /\ prevMouse' = p /\ elapsed' = 0
    BY Zenon DEF MouseMove, Render
  <1>6. dragging' = dragging /\ dragOffset' = dragOffset /\ clicked' = clicked /\ deeds' = deeds
    BY Zenon DEF MouseMove
  <1> HIDE DEF p
  <1>7. elapsed' \in 0 .. MinTicks + 1 /\ deeds' \in 0 .. MaxDeeds
    BY <1>3, <1>5, <1>6, CounterTypes
  <1>8. /\ mouse' \in (0 .. SizeOf[Root][1]) \X (0 .. SizeOf[Root][2])
        /\ prevMouse' \in (0 .. SizeOf[Root][1]) \X (0 .. SizeOf[Root][2])
    BY <1>4, <1>5
  <1>9. RightBut(Desk', CursorAt(prevMouse'))
    BY <1>2, <1>5
  <1> QED  BY <1>1, <1>2, <1>6, <1>7, <1>8, <1>9, QuietStep

(* The steps that leave the desk alone. *)
LEMMA SameDesk ==
  ASSUME UNCHANGED <<kids, pos, active, screen>>
  PROVE  Desk' = Desk
  BY DEF Desk

(* The invariant is kept by a dropped packet.                              *)
LEMMA SkipStep ==
  ASSUME IInv, NEW off \in EarlyOffsets, SkipPacket(off)
  PROVE  IInv'
  <1>1. Desk \in Desks /\ Types /\ RightBut(Desk, CursorAt(prevMouse))
    BY DEF IInv
  <1>2. MovedBy(off) \in (0 .. SizeOf[Root][1]) \X (0 .. SizeOf[Root][2])
    BY <1>1, MovedByIs, OffsetTypes
  <1>3. /\ mouse' = MovedBy(off)
        /\ UNCHANGED <<kids, pos, active, screen, events, prevMouse, elapsed, clicked, deeds>>
    BY DEF SkipPacket
  <1>4. Desk' = Desk
    BY <1>3, SameDesk
  <1>5. /\ kids' = kids /\ pos' = pos /\ active' = active
        /\ lastPressed' = lastPressed /\ eventChild' = eventChild /\ focusChild' = focusChild
        /\ dragging' = dragging /\ dragOffset' = dragOffset /\ clicked' = clicked
        /\ prevMouse' = prevMouse /\ elapsed' = elapsed /\ deeds' = deeds
    BY <1>3 DEF events
  <1>6. /\ mouse' \in (0 .. SizeOf[Root][1]) \X (0 .. SizeOf[Root][2])
        /\ prevMouse' \in (0 .. SizeOf[Root][1]) \X (0 .. SizeOf[Root][2])
        /\ elapsed' \in 0 .. MinTicks + 1 /\ deeds' \in 0 .. MaxDeeds
    BY <1>1, <1>2, <1>3, <1>5 DEF Types
  <1>7. Desk' \in Desks /\ RightBut(Desk', CursorAt(prevMouse'))
    BY <1>1, <1>4, <1>5
  <1> QED  BY <1>5, <1>6, <1>7, QuietStep

(* The invariant is kept by the timer.                                     *)
LEMMA TickStep ==
  ASSUME IInv, Tick
  PROVE  IInv'
  <1>1. Desk \in Desks /\ Types /\ RightBut(Desk, CursorAt(prevMouse))
    BY DEF IInv
  <1>2. /\ elapsed <= MinTicks /\ elapsed' = elapsed + 1
        /\ UNCHANGED <<kids, pos, active, screen, events, mouse, prevMouse, clicked, deeds>>
    BY DEF Tick
  <1>3. Desk' = Desk
    BY <1>2, SameDesk
  <1>4. /\ kids' = kids /\ pos' = pos /\ active' = active
        /\ lastPressed' = lastPressed /\ eventChild' = eventChild /\ focusChild' = focusChild
        /\ dragging' = dragging /\ dragOffset' = dragOffset /\ clicked' = clicked
        /\ prevMouse' = prevMouse /\ mouse' = mouse /\ deeds' = deeds
    BY <1>2 DEF events
  <1>5. elapsed' \in 0 .. MinTicks + 1 /\ deeds' \in 0 .. MaxDeeds
    BY <1>1, <1>2, <1>4, CounterTypes
  <1>6. /\ mouse' \in (0 .. SizeOf[Root][1]) \X (0 .. SizeOf[Root][2])
        /\ prevMouse' \in (0 .. SizeOf[Root][1]) \X (0 .. SizeOf[Root][2])
    BY <1>1, <1>4 DEF Types
  <1>7. Desk' \in Desks /\ RightBut(Desk', CursorAt(prevMouse'))
    BY <1>1, <1>3, <1>4
  <1> QED  BY <1>4, <1>5, <1>6, <1>7, QuietStep

(* A key only paints the terminal.                                         *)
LEMMA KeyDesk ==
  ASSUME IInv, KeyPress
  PROVE  /\ Desk' \in Desks /\ kids' = kids /\ pos' = pos /\ active' = active
         /\ RightBut(Desk', CursorAt(prevMouse))
  <1>1. Desk \in Desks /\ RightBut(Desk, CursorAt(prevMouse))
    BY DEF IInv
  <1>2. KeyTarget \in Terminals /\ \E area : ChangeDesk(PaintAlone(Desk, KeyTarget, area))
    BY Zenon DEF KeyPress
  <1>3. PICK area : ChangeDesk(PaintAlone(Desk, KeyTarget, area))
    BY <1>2
  <1>4. KeyTarget \in Widgets
    BY <1>2, DesktopAssumption, TreeFacts
  <1> DEFINE f == PaintAlone(Desk, KeyTarget, area)
  <1>5. /\ f \in Desks /\ f.kids = Desk.kids /\ f.pos = Desk.pos /\ f.active = Desk.active
        /\ RightBut(f, CursorAt(prevMouse))
    BY <1>1, <1>4, KeyPaintIs
  <1>6. ChangeDesk(f)
    BY <1>3
  <1> HIDE DEF f
  <1>7. Desk' = f /\ kids' = f.kids /\ pos' = f.pos /\ active' = f.active
    BY <1>5, <1>6, ChangeDeskIs DEF ChangeDesk
  <1> QED  BY <1>5, <1>7, DeskParts

(* The invariant is kept by a key.                                         *)
LEMMA KeyStep ==
  ASSUME IInv, KeyPress
  PROVE  IInv'
  <1>1. /\ Desk' \in Desks /\ kids' = kids /\ pos' = pos /\ active' = active
        /\ RightBut(Desk', CursorAt(prevMouse))
    BY KeyDesk
  <1>2. UNCHANGED <<events, mouse, prevMouse, elapsed, clicked, deeds>>
    BY Zenon DEF KeyPress
  <1>3. /\ lastPressed' = lastPressed /\ eventChild' = eventChild /\ focusChild' = focusChild
        /\ dragging' = dragging /\ dragOffset' = dragOffset /\ clicked' = clicked
        /\ prevMouse' = prevMouse /\ mouse' = mouse /\ elapsed' = elapsed /\ deeds' = deeds
    BY <1>2 DEF events
  <1>4. /\ mouse' \in (0 .. SizeOf[Root][1]) \X (0 .. SizeOf[Root][2])
        /\ prevMouse' \in (0 .. SizeOf[Root][1]) \X (0 .. SizeOf[Root][2])
        /\ elapsed' \in 0 .. MinTicks + 1 /\ deeds' \in 0 .. MaxDeeds
    BY <1>3 DEF IInv, Types
  <1>5. RightBut(Desk', CursorAt(prevMouse'))
    BY <1>1, <1>3
  <1> QED  BY <1>1, <1>3, <1>4, <1>5, QuietStep

(* The invariant depends on the variables alone.                           *)
LEMMA StutterStep ==
  ASSUME IInv, UNCHANGED vars
  PROVE  IInv'
  <1>1. Desk \in Desks /\ Types /\ RightBut(Desk, CursorAt(prevMouse))
    BY DEF IInv
  <1>2. /\ kids' = kids /\ pos' = pos /\ active' = active /\ screen' = screen
        /\ lastPressed' = lastPressed /\ eventChild' = eventChild /\ focusChild' = focusChild
        /\ dragging' = dragging /\ dragOffset' = dragOffset /\ clicked' = clicked
        /\ prevMouse' = prevMouse /\ mouse' = mouse /\ elapsed' = elapsed /\ deeds' = deeds
    BY DEF vars, events
  <1>3. Desk' = Desk
    BY <1>2, SameDesk
  <1>4. /\ mouse' \in (0 .. SizeOf[Root][1]) \X (0 .. SizeOf[Root][2])
        /\ prevMouse' \in (0 .. SizeOf[Root][1]) \X (0 .. SizeOf[Root][2])
        /\ elapsed' \in 0 .. MinTicks + 1 /\ deeds' \in 0 .. MaxDeeds
    BY <1>1, <1>2 DEF Types
  <1>5. Desk' \in Desks /\ RightBut(Desk', CursorAt(prevMouse'))
    BY <1>1, <1>2, <1>3
  <1> QED  BY <1>2, <1>4, <1>5, QuietStep

-----------------------------------------------------------------------------
(* The drag: a window goes with all that lies in it.                       *)
LEMMA InsideShift ==
  ASSUME NEW d \in Desks, NEW e \in Desks, NEW w \in Others,
         \A v \in Widgets \ {w} : e.pos[v] = d.pos[v]
  PROVE  \A v \in Widgets : ScreenPos(e, v) = IF v \in InsideOf(w)
                                              THEN Plus(ScreenPos(d, v), Minus(e.pos[w], d.pos[w]))
                                              ELSE ScreenPos(d, v)
  <1> DEFINE by == Minus(e.pos[w], d.pos[w])
             S == {v \in Widgets : ScreenPos(e, v) = IF v \in InsideOf(w)
                                                     THEN Plus(ScreenPos(d, v), by)
                                                     ELSE ScreenPos(d, v)}
  <1>1. d.pos \in [Widgets -> Points] /\ e.pos \in [Widgets -> Points]
    BY DeskFacts
  <1>2. w \in Widgets /\ w # Root /\ Root \in Widgets
    BY TreeFacts
  <1>3. /\ ScreenPos(d, Root) = d.pos[Root] /\ ScreenPos(e, Root) = e.pos[Root]
        /\ \A v \in Widgets : ScreenPos(d, v) \in Points /\ ScreenPos(e, v) \in Points
        /\ \A v \in Others : /\ ScreenPos(d, v) = Plus(Plus(d.pos[v], ScreenPos(d, ParentOf[v])),
                                                       ClientOffset(ParentOf[v]))
                             /\ ScreenPos(e, v) = Plus(Plus(e.pos[v], ScreenPos(e, ParentOf[v])),
                                                       ClientOffset(ParentOf[v]))
    BY <1>1, ScreenPosIs
  <1>4. by \in Points
    BY <1>1, <1>2, PlusType
  <1>5. Root \in S
    BY <1>2, <1>3, InsideIs
  <1>6. ASSUME NEW a \in Points, NEW b \in Points, NEW c \in Points, NEW q \in Points
        PROVE  /\ Plus(Plus(a, Plus(b, q)), c) = Plus(Plus(Plus(a, b), c), q)
               /\ Plus(Plus(a, b), c) = Plus(Plus(Plus(q, b), c), Minus(a, q))
    BY DEF Plus, Minus, Points
  <1>7. ASSUME NEW v \in Others, ParentOf[v] \in S PROVE v \in S
    <2> DEFINE u == ParentOf[v]
    <2>1. v \in Widgets /\ u \in Widgets
      BY TreeFacts
    <2>2. v \in InsideOf(w) <=> v = w \/ u \in InsideOf(w)
      BY <1>2, InsideIs
    <2>3. /\ d.pos[v] \in Points /\ e.pos[v] \in Points /\ ClientOffset(u) \in Points
          /\ ScreenPos(d, u) \in Points
      BY <1>1, <1>3, <2>1, OffsetType
    <2>4. /\ ScreenPos(d, v) = Plus(Plus(d.pos[v], ScreenPos(d, u)), ClientOffset(u))
          /\ ScreenPos(e, v) = Plus(Plus(e.pos[v], ScreenPos(e, u)), ClientOffset(u))
      BY <1>3
    <2>5. CASE v = w
      <3>1. u \notin InsideOf(w) /\ v \in InsideOf(w)
        BY <2>2, <2>5, ParentOutside
      <3>2. ScreenPos(e, u) = ScreenPos(d, u)
        BY <1>7, <3>1
      <3>3. /\ Plus(Plus(e.pos[v], ScreenPos(d, u)), ClientOffset(u))
               = Plus(Plus(Plus(d.pos[v], ScreenPos(d, u)), ClientOffset(u)), Minus(e.pos[v], d.pos[v]))
        BY <1>6, <2>3
      <3>4. ScreenPos(e, v) = Plus(ScreenPos(d, v), by)
        BY <2>4, <2>5, <3>2, <3>3
      <3> QED  BY <2>1, <3>1, <3>4
    <2>6. CASE v # w /\ u \in InsideOf(w)
      <3>1. ScreenPos(e, u) = Plus(ScreenPos(d, u), by) /\ v \in InsideOf(w)
        BY <1>7, <2>2, <2>6
      <3>2. e.pos[v] = d.pos[v]
        BY <2>1, <2>6
      <3> HIDE DEF by
      <3>3. Plus(Plus(d.pos[v], Plus(ScreenPos(d, u), by)), ClientOffset(u))
               = Plus(Plus(Plus(d.pos[v], ScreenPos(d, u)), ClientOffset(u)), by)
        BY <1>4, <1>6, <2>3
      <3>4. ScreenPos(e, v) = Plus(ScreenPos(d, v), by)
        BY <2>4, <3>1, <3>2, <3>3
      <3> QED  BY <2>1, <3>1, <3>4
    <2>7. CASE v # w /\ u \notin InsideOf(w)
      <3>1. ScreenPos(e, u) = ScreenPos(d, u) /\ v \notin InsideOf(w)
        BY <1>7, <2>2, <2>7
      <3>2. e.pos[v] = d.pos[v]
        BY <2>1, <2>7
      <3> QED  BY <2>1, <2>4, <3>1, <3>2
    <2> QED  BY <2>5, <2>6, <2>7
  <1>8. \A v \in Widgets : v \in S
    <2> HIDE DEF S
    <2> QED  BY <1>5, <1>7, TopDown
  <1> QED  BY <1>8 DEF S

(* Who is dragged, and that nobody is told.                                *)
LEMMA DragEvents ==
  ASSUME IInv, NEW off \in Offsets, MouseDrag(off), NEW p, p = MovedBy(off)
  PROVE  /\ p \in Points /\ EndOf(eventChild) \in Windows
         /\ dragging = {EndOf(eventChild)} /\ Holder = {EndOf(eventChild)} /\ lastPressed # {}
         /\ Last(Path(p, TRUE)) = EndOf(eventChild) /\ Focus(Desk, Path(p, TRUE), TRUE) = Desk
         /\ lastPressed' = lastPressed /\ eventChild' = eventChild /\ focusChild' = focusChild
         /\ dragging' = dragging /\ dragOffset' = dragOffset /\ clicked' = clicked
  <1>1. Types /\ CaptureChain
    BY DEF IInv
  <1>2. p \in Points
    BY <1>1, MovedByIs, OffsetTypes
  <1>3. /\ Last(Path(p, TRUE)) \in lastPressed \cap dragging
        /\ PassOn(Path(p, TRUE), p, TRUE)
        /\ dragging' = dragging /\ dragOffset' = dragOffset /\ clicked' = clicked
    BY Zenon DEF MouseDrag
  <1>5. lastPressed # {}
    BY <1>3
  <1>6. /\ Last(Path(p, TRUE)) = EndOf(eventChild) /\ Holder = {EndOf(eventChild)}
        /\ Focus(Desk, Path(p, TRUE), TRUE) = Desk
        /\ lastPressed' = lastPressed /\ eventChild' = eventChild /\ focusChild' = focusChild
    BY <1>2, <1>3, <1>5, HeldEvents
  <1>7. dragging = {EndOf(eventChild)} /\ EndOf(eventChild) \in Windows
    BY <1>1, <1>3, <1>6 DEF CaptureChain, Types
  <1> QED  BY <1>2, <1>3, <1>5, <1>6, <1>7

(* The window ends up where the mouse takes it, the point it was taken by  *)
(* under the mouse.                                                        *)
LEMMA DragDesk ==
  ASSUME IInv, NEW off \in Offsets, MouseDrag(off), NEW p, p = MovedBy(off),
         NEW end, end = EndOf(eventChild)
  PROVE  /\ Desk' \in Desks /\ kids' = kids /\ active' = active /\ RightBut(Desk', CursorAt(p))
         /\ Minus(p, ScreenPos(Desk', end)) = dragOffset[end]
         /\ \A v \in Widgets : ScreenPos(Desk', v) = IF v \in InsideOf(end)
                                                     THEN Plus(ScreenPos(Desk, v), Minus(p, prevMouse))
                                                     ELSE ScreenPos(Desk, v)
  <1> DEFINE d == Desk
             at == ScreenPos(Desk, end)
             grip == dragOffset[end]
             to == Minus(Plus(pos[end], Minus(p, at)), grip)
  <1>1. /\ p \in Points /\ end \in Windows /\ end \in dragging
        /\ Last(Path(p, TRUE)) = end /\ Focus(Desk, Path(p, TRUE), TRUE) = Desk
    BY DragEvents
  <1>2. Desk \in Desks /\ Types /\ DragFollowsMouse /\ RightBut(Desk, CursorAt(prevMouse))
    BY DEF IInv
  <1>3. end \in Others /\ end \in Widgets
    BY <1>1, TreeFacts
  <1>4. /\ d \in Desks /\ RightBut(d, CursorAt(prevMouse))
        /\ d.kids = kids /\ d.pos = pos /\ d.active = active
    BY <1>2, DeskParts
  <1>5. d.pos \in [Widgets -> Points] /\ at \in Points
    BY <1>3, <1>4, DeskFacts, ScreenPosIs
  <1>6. Relative(end, p) = Minus(p, at)
    BY DEF Relative
  <1>7. PICK everything \in BOOLEAN : ChangeDesk(DrawMouse(MoveTo(d, end, to, everything), prevMouse, p))
    <2>1. \E everything \in BOOLEAN :
            ChangeDesk(DrawMouse(MoveTo(Focus(Desk, Path(p, TRUE), TRUE), Last(Path(p, TRUE)),
                                        Minus(Plus(pos[Last(Path(p, TRUE))],
                                                   Relative(Last(Path(p, TRUE)), p)),
                                              dragOffset[Last(Path(p, TRUE))]), everything),
                                 prevMouse, p))
      BY Zenon DEF MouseDrag
    <2> HIDE DEF at, grip
    <2>2. to = Minus(Plus(pos[end], Relative(end, p)), grip)
      BY <1>6
    <2> HIDE DEF to
    <2> QED  BY <1>1, <2>1, <2>2 DEF grip
  <1>8. grip \in Points /\ Minus(prevMouse, at) = grip
    BY <1>1, <1>2 DEF Types, DragFollowsMouse
  <1>9. prevMouse \in Points /\ pos[end] \in Points
    <2>1. SizeOf[Root][1] \in Nat /\ SizeOf[Root][2] \in Nat
      BY SizeFacts, TreeFacts
    <2>2. prevMouse \in Points
      BY <1>2, <2>1 DEF Types, Points
    <2> QED  BY <1>3, <1>4, <1>5, <2>2
  <1>10. ASSUME NEW a \in Points, NEW b \in Points, NEW c \in Points, NEW q \in Points
         PROVE  /\ Minus(Minus(Plus(a, Minus(b, c)), Minus(q, c)), a) = Minus(b, q)
                /\ Minus(b, Plus(c, Minus(b, q))) = Minus(q, c)
    BY DEF Plus, Minus, Points
  <1> HIDE DEF d, at, grip
  <1>11. to \in Points
    BY <1>1, <1>5, <1>8, <1>9, PlusType
  <1>12. Minus(to, pos[end]) = Minus(p, prevMouse)
    BY <1>1, <1>5, <1>8, <1>9, <1>10
  <1> HIDE DEF to
  <1> DEFINE e == MoveTo(d, end, to, everything)
             f == DrawMouse(e, prevMouse, p)
  <1>13. /\ e \in Desks /\ e.kids = d.kids /\ e.active = d.active
         /\ e.pos[end] = to /\ \A v \in Widgets \ {end} : e.pos[v] = d.pos[v]
         /\ \A K : RightBut(d, K) => RightBut(e, K)
    BY <1>3, <1>4, <1>11, MoveToIs
  <1> HIDE DEF e
  <1>14. /\ f \in Desks /\ f.kids = e.kids /\ f.pos = e.pos /\ f.active = e.active
         /\ RightBut(f, CursorAt(p))
    BY <1>4, <1>13, DrawMouseIs
  <1>15. ChangeDesk(f)
    BY <1>7 DEF e
  <1> HIDE DEF f
  <1>16. Desk' = f /\ kids' = f.kids /\ pos' = f.pos /\ active' = f.active
    BY <1>14, <1>15, ChangeDeskIs DEF ChangeDesk
  <1>17. \A v \in Widgets \ {end} : f.pos[v] = d.pos[v]
    BY <1>13, <1>14
  <1>18. \A v \in Widgets : ScreenPos(f, v) = IF v \in InsideOf(end)
                                              THEN Plus(ScreenPos(d, v), Minus(f.pos[end], d.pos[end]))
                                              ELSE ScreenPos(d, v)
    BY <1>3, <1>4, <1>14, <1>17, InsideShift
  <1>19. Minus(f.pos[end], d.pos[end]) = Minus(p, prevMouse)
    BY <1>4, <1>12, <1>13, <1>14
  <1>20. \A v \in Widgets : ScreenPos(f, v) = IF v \in InsideOf(end)
                                              THEN Plus(ScreenPos(d, v), Minus(p, prevMouse))
                                              ELSE ScreenPos(d, v)
    BY <1>18, <1>19
  <1>21. Minus(p, ScreenPos(f, end)) = grip
    <2>1. end \in InsideOf(end)
      BY <1>3, InsideIs
    <2>2. ScreenPos(f, end) = Plus(at, Minus(p, prevMouse))
      BY <1>3, <1>20, <2>1 DEF at, d
    <2>3. Minus(p, Plus(at, Minus(p, prevMouse))) = Minus(prevMouse, at)
      BY <1>1, <1>5, <1>9, <1>10
    <2> QED  BY <1>8, <2>2, <2>3
  <1> QED  BY <1>4, <1>13, <1>14, <1>16, <1>20, <1>21 DEF d, grip

(* The invariant is kept by a drag.                                        *)
LEMMA DragStep ==
  ASSUME IInv, NEW off \in Offsets, MouseDrag(off)
  PROVE  IInv'
  <1> DEFINE p == MovedBy(off)
             end == EndOf(eventChild)
  <1>0. p = MovedBy(off)
    OBVIOUS
  <1> HIDE DEF p
  <1>1. /\ p \in Points /\ end \in Windows
        /\ dragging = {end} /\ Holder = {end} /\ lastPressed # {}
        /\ lastPressed' = lastPressed /\ eventChild' = eventChild /\ focusChild' = focusChild
        /\ dragging' = dragging /\ dragOffset' = dragOffset /\ clicked' = clicked
    <2>1. p \in Points /\ end \in Windows /\ dragging = {end} /\ Holder = {end} /\ lastPressed # {}
      BY <1>0, DragEvents
    <2>2. /\ lastPressed' = lastPressed /\ eventChild' = eventChild /\ focusChild' = focusChild
          /\ dragging' = dragging /\ dragOffset' = dragOffset /\ clicked' = clicked
      BY <1>0, DragEvents
    <2> QED  BY <2>1, <2>2
  <1>2. /\ Desk' \in Desks /\ kids' = kids /\ active' = active /\ RightBut(Desk', CursorAt(p))
        /\ Minus(p, ScreenPos(Desk', end)) = dragOffset[end]
    BY <1>0, DragDesk
  <1>3. Types /\ CaptureChain /\ FocusOnTop /\ KeysGoToLastClicked
    BY DEF IInv
  <1>4. p \in (0 .. SizeOf[Root][1]) \X (0 .. SizeOf[Root][2])
    BY <1>0, <1>3, MovedByIs, OffsetTypes
  <1> HIDE DEF end
  <1>5. mouse' = p /\ prevMouse' = p /\ elapsed' \in 0 .. MinTicks + 1 /\ deeds' \in 0 .. MaxDeeds
    <2>1. mouse' = p /\ prevMouse' = p /\ elapsed' = 0
      BY <1>0, Zenon DEF MouseDrag, Render
    <2>2. deeds < MaxDeeds /\ deeds' = deeds + 1
      BY Zenon DEF MouseDrag
    <2> QED  BY <1>3, <2>1, <2>2, CounterTypes
  <1>6. Types'
    BY <1>1, <1>3, <1>4, <1>5 DEF Types
  <1>7. CaptureChain'
    BY <1>1, <1>2, <1>3 DEF CaptureChain, Holder
  <1>8. DragFollowsMouse'
    <2> SUFFICES ASSUME NEW w \in dragging'
                 PROVE  Minus(prevMouse', ScreenPos(Desk', w)) = dragOffset'[w]
      BY DEF DragFollowsMouse
    <2> QED  BY <1>1, <1>2, <1>5
  <1>9. KeysGoToLastClicked'
    BY <1>1, <1>3 DEF KeysGoToLastClicked, KeyTarget
  <1>10. FocusOnTop'
    BY <1>1, <1>2, <1>3 DEF FocusOnTop
  <1> QED  BY <1>2, <1>5, <1>6, <1>7, <1>8, <1>9, <1>10 DEF IInv

-----------------------------------------------------------------------------
(* At first nobody has the mouse, and the keys go to the window manager.   *)
LEMMA InitStep ==
  ASSUME Init
  PROVE  IInv
  <1>1. /\ InitDesk \in Desks /\ InitDesk.active = {} /\ RightBut(InitDesk, {})
    BY InitDeskIs
  <1>2. /\ kids = InitDesk.kids /\ pos = InitDesk.pos
        /\ active = InitDesk.active /\ screen = InitDesk.screen
        /\ lastPressed = {} /\ dragging = {}
        /\ eventChild = [w \in Widgets |-> Nobody] /\ focusChild = [w \in Widgets |-> Nobody]
        /\ dragOffset = [w \in Windows |-> <<0, 0>>]
        /\ mouse = <<(SizeOf[Root][1] - 1) \div 2, (SizeOf[Root][2] - 1) \div 2>>
        /\ prevMouse = <<0, 0>> /\ elapsed \in 0 .. MinTicks + 1
        /\ clicked = Root /\ deeds = 0
    BY Zenon DEF Init
  <1>3. Desk = InitDesk
    BY <1>1, <1>2, DeskFacts DEF Desk
  <1>4. RightBut(Desk, CursorAt(prevMouse))
    BY <1>1, <1>3 DEF RightBut
  <1>5. Leads(eventChild) /\ Leads(focusChild)
    BY <1>2 DEF Leads
  <1>6. SizeOf[Root][1] \in Nat /\ SizeOf[Root][2] \in Nat /\ SizeOf[Root][1] > 0 /\ SizeOf[Root][2] > 0
    BY SizeFacts, TreeFacts
  <1>7. ASSUME NEW n \in Nat, n > 0 PROVE (n - 1) \div 2 \in 0 .. n /\ 0 \in 0 .. n
    BY <1>7
  <1>8. /\ mouse \in (0 .. SizeOf[Root][1]) \X (0 .. SizeOf[Root][2])
        /\ prevMouse \in (0 .. SizeOf[Root][1]) \X (0 .. SizeOf[Root][2])
    BY <1>2, <1>6, <1>7
  <1>9. deeds \in 0 .. MaxDeeds /\ Root \in Widgets
    BY <1>2, DesktopAssumption, TreeFacts
  <1>10. dragOffset \in [Windows -> Points]
    BY <1>2 DEF Points
  <1>11. Types
    BY <1>2, <1>5, <1>8, <1>9, <1>10 DEF Types
  <1>12. CaptureChain
    BY <1>1, <1>2 DEF CaptureChain
  <1>13. DragFollowsMouse
    BY <1>2 DEF DragFollowsMouse
  <1>14. KeysGoToLastClicked
    <2>1. focusChild[Root] = Nobody
      BY <1>2, <1>9
    <2>2. /\ Root \in On(focusChild) /\ On(focusChild) \subseteq Widgets
          /\ \A w \in On(focusChild) : focusChild[w] = Nobody => w = EndOf(focusChild)
      BY <1>5, OnPath
    <2> QED  BY <1>2, <2>1, <2>2 DEF KeysGoToLastClicked, KeyTarget
  <1>15. FocusOnTop
    BY <1>2, TreeFacts DEF FocusOnTop
  <1> QED  BY <1>1, <1>3, <1>4, <1>11, <1>12, <1>13, <1>14, <1>15 DEF IInv

(* The invariant is kept by every step.                                    *)
LEMMA NextStep ==
  ASSUME IInv, [Next]_vars
  PROVE  IInv'
  <1>1. ASSUME NEW off \in Offsets, MouseDown(off) PROVE IInv'
    BY <1>1, DownStep
  <1>2. ASSUME NEW off \in Offsets, MouseUp(off) PROVE IInv'
    BY <1>2, UpStep
  <1>3. ASSUME NEW off \in Offsets, NEW pressed \in BOOLEAN, MouseMove(off, pressed) PROVE IInv'
    BY <1>3, MoveStep
  <1>4. ASSUME NEW off \in Offsets, MouseDrag(off) PROVE IInv'
    BY <1>4, DragStep
  <1>5. ASSUME NEW off \in EarlyOffsets, SkipPacket(off) PROVE IInv'
    BY <1>5, SkipStep
  <1>6. CASE Tick
    BY <1>6, TickStep
  <1>7. CASE KeyPress
    BY <1>7, KeyStep
  <1>8. CASE UNCHANGED vars
    BY <1>8, StutterStep
  <1> QED  BY <1>1, <1>2, <1>3, <1>4, <1>5, <1>6, <1>7, <1>8, Zenon DEF Next

-----------------------------------------------------------------------------
(* The theorems. *)

(* The invariant implies the types.                                        *)
LEMMA TypesShown ==
  ASSUME IInv
  PROVE  TypeOK
  <1>1. Desk \in Desks /\ Types
    BY DEF IInv
  <1> DEFINE d == Desk
  <1>2. d.kids = kids /\ d.pos = pos /\ d.active = active /\ d.screen = screen /\ d \in Desks
    BY <1>1, DeskParts
  <1> HIDE DEF d
  <1>3. kids \in [Widgets -> Seq(Widgets)] /\ IsTree(kids) /\ pos \in [Widgets -> Points]
        /\ active \in SUBSET Buttons /\ screen \in [Screen -> Colors]
    BY <1>2, DeskFacts
  <1>4. \A w \in Widgets : Range(InitKids[w]) = Children(w)
    BY DesktopAssumption DEF Children, Others
  <1>5. \A w \in Widgets : Range(kids[w]) = Children(w) /\ Len(kids[w]) = Len(InitKids[w])
    BY <1>3 DEF IsTree
  <1>6. DOMAIN screen = Everywhere(Desk)
    BY <1>1, <1>3, AreaFacts
  <1>7. \A w \in Widgets : {eventChild[w], focusChild[w]} \subseteq Range(kids[w]) \cup {Nobody}
    BY <1>1, <1>5 DEF Types, Leads
  <1>8. pos \in [Widgets -> Int \X Int] /\ active \subseteq Buttons
        /\ dragOffset \in [Windows -> Int \X Int]
    BY <1>1, <1>3 DEF Types, Points
  <1>9. /\ lastPressed \subseteq Widgets /\ dragging \subseteq Windows
        /\ {mouse, prevMouse} \subseteq (0 .. SizeOf[Root][1]) \X (0 .. SizeOf[Root][2])
        /\ elapsed \in 0 .. MinTicks + 1 /\ clicked \in Widgets /\ deeds \in 0 .. MaxDeeds
    BY <1>1 DEF Types
  <1> QED  BY <1>4, <1>5, <1>6, <1>7, <1>8, <1>9 DEF TypeOK

(* The invariant implies that the screen is right: the picture shows the   *)
(* owners.                                                                 *)
LEMMA RightShown ==
  ASSUME IInv
  PROVE  ScreenIsRight
  <1>1. Desk \in Desks /\ RightBut(Desk, CursorAt(prevMouse))
    BY DEF IInv
  <1> DEFINE d == Desk
  <1>2. d.screen = screen /\ d \in Desks /\ RightBut(d, CursorAt(prevMouse))
    BY <1>1, DeskParts
  <1> HIDE DEF d
  <1>3. DOMAIN screen = Screen
    BY <1>2, DeskFacts
  <1>4. \A p \in Screen : Picture(d)[p] = Shown(d, p)
    BY <1>2, PictureIs
  <1>5. \A p \in Screen : \/ screen[p] = Picture(d)[p]
                          \/ screen[p] = Cursor /\ p \in CursorAt(prevMouse)
    BY <1>2, <1>4 DEF RightBut
  <1> QED  BY <1>3, <1>5 DEF ScreenIsRight, d

(* The inductive invariant holds in every state of every desktop: handlers *)
(* that run one after the other, whatever packets are dropped in between.  *)
THEOREM Invariance == Spec => []IInv
  <1>1. Init => IInv
    BY InitStep
  <1>2. IInv /\ [Next]_vars => IInv'
    BY NextStep
  <1> QED  BY <1>1, <1>2, PTL DEF Spec

(* Every variable keeps its type: raising a window only reorders the       *)
(* children of its parent, and no event path leaves the tree.              *)
THEOREM TypeCorrect == Spec => []TypeOK
  <1>1. IInv => TypeOK
    BY TypesShown
  <1> QED  BY <1>1, Invariance, PTL

(* However presses, releases and dropped packets follow each other, the    *)
(* widgets that take the button for pressed are the ones on the way to a   *)
(* single one, the capture agrees all along it, and only that one is       *)
(* dragged or active (Widget::handle_mouse, Window, Button).               *)
THEOREM OneHasTheMouse == Spec => []CaptureChain
  <1>1. IInv => CaptureChain
    BY DEF IInv
  <1> QED  BY <1>1, Invariance, PTL

(* A dragged window is always under the shown mouse at the point it was    *)
(* taken by, at any depth of the tree and past any dropped packets         *)
(* (Window::on_mouse_move, Widget::move_to).                               *)
THEOREM DraggedStaysUnderMouse == Spec => []DragFollowsMouse
  <1>1. IInv => DragFollowsMouse
    BY DEF IInv
  <1> QED  BY <1>1, Invariance, PTL

(* The keys go to the widget that was to be seen where the last press was  *)
(* taken, for every arrangement of the windows: the search of handle_mouse *)
(* agrees with what clip_bounds lets be painted.                           *)
THEOREM KeysAtLastClick == Spec => []KeysGoToLastClicked
  <1>1. IInv => KeysGoToLastClicked
    BY DEF IInv
  <1> QED  BY <1>1, Invariance, PTL

(* A window that has its parent's focus is the last of its children, so    *)
(* that nothing of them lies over it (Window::raise and on_focus).         *)
THEOREM FocusedIsOnTop == Spec => []FocusOnTop
  <1>1. IInv => FocusOnTop
    BY DEF IInv
  <1> QED  BY <1>1, Invariance, PTL

(* After every handler every pixel of the framebuffer is what lies on top  *)
(* there, or the cursor where it was drawn last: move_to, raise, the       *)
(* buttons, the terminal and draw_mouse repaint all they uncover, for every *)
(* tree and all sizes (Widget::paint, move_to, WindowManager::draw_mouse). *)
THEOREM NothingLeftUnpainted == Spec => []ScreenIsRight
  <1>1. IInv => ScreenIsRight
    BY RightShown
  <1> QED  BY <1>1, Invariance, PTL

-----------------------------------------------------------------------------
(* The clicks: every handler is a step of the abstract specification.      *)
Where == [w \in Widgets |-> ScreenPos(Desk, w)]

(* The mouse is at a point.                                                *)
LEMMA ShownMouse ==
  ASSUME NEW m \in (0 .. SizeOf[Root][1]) \X (0 .. SizeOf[Root][2])
  PROVE  m \in Points
  <1>1. SizeOf[Root][1] \in Nat /\ SizeOf[Root][2] \in Nat
    BY SizeFacts, TreeFacts
  <1> QED  BY <1>1 DEF Points

(* At first the clicks are as they should be.                              *)
LEMMA InitClicks ==
  ASSUME Init
  PROVE  User!Init
  <1>1. IInv
    BY InitStep
  <1>2. Desk = InitDesk
    <2>1. InitDesk \in Desks
      BY InitDeskIs
    <2>2. /\ kids = InitDesk.kids /\ pos = InitDesk.pos
          /\ active = InitDesk.active /\ screen = InitDesk.screen
      BY Zenon DEF Init
    <2> QED  BY <2>1, <2>2, DeskFacts DEF Desk
  <1>3. Holder = {}
    <2>1. lastPressed = {}
      BY Zenon DEF Init
    <2> QED  BY <2>1 DEF Holder
  <1>4. KeyTarget \in Widgets
    <2>1. Leads(focusChild)
      BY <1>1 DEF IInv, Types
    <2> QED  BY <2>1, OnPath DEF KeyTarget
  <1>5. prevMouse \in Int \X Int
    <2>1. prevMouse \in (0 .. SizeOf[Root][1]) \X (0 .. SizeOf[Root][2])
      BY <1>1 DEF IInv, Types
    <2> QED  BY <2>1, ShownMouse DEF Points
  <1> QED  BY <1>2, <1>3, <1>4, <1>5 DEF User!Init

(* The widgets are where they were when no position changes.               *)
LEMMA SameWhere ==
  ASSUME IInv, IInv', pos' = pos
  PROVE  Where' = Where
  <1>1. \A w \in Widgets : ScreenPos(Desk', w) = ScreenPos(Desk, w)
    BY SamePlaces DEF IInv
  <1>2. Where' = [w \in Widgets |-> ScreenPos(Desk', w)]
    BY DEF Where
  <1> QED  BY <1>1, <1>2 DEF Where

(* A step that moves nothing and tells nobody is a movement of the         *)
(* pointer.                                                                *)
LEMMA QuietClicks ==
  ASSUME IInv, IInv', pos' = pos,
         lastPressed' = lastPressed, eventChild' = eventChild, focusChild' = focusChild
  PROVE  User!Next
  <1>1. Where' = Where
    BY SameWhere
  <1>2. Holder' = Holder /\ KeyTarget' = KeyTarget
    BY DEF Holder, KeyTarget
  <1>3. prevMouse' \in Int \X Int
    <2>1. prevMouse' \in (0 .. SizeOf[Root][1]) \X (0 .. SizeOf[Root][2])
      BY DEF IInv, Types
    <2> QED  BY <2>1, ShownMouse DEF Points
  <1>4. User!Point
    BY <1>1, <1>2, <1>3 DEF User!Point, Where
  <1> QED  BY <1>4 DEF User!Next

(* A press is a press.                                                     *)
LEMMA DownClicks ==
  ASSUME IInv, IInv', NEW off \in Offsets, MouseDown(off)
  PROVE  User!Next
  <1> DEFINE p == MovedBy(off)
             end == Owner(Desk, p)
  <1>1. Holder = {}
    BY DownFree
  <1>2. pos' = pos
    BY DownDesk
  <1>3. /\ lastPressed' = On(Hits(Desk, p)) /\ EndOf(eventChild') = end
        /\ EndOf(focusChild') = end
        /\ end \in On(Hits(Desk, p)) /\ On(Hits(Desk, p)) \subseteq Widgets
    BY DownEvents
  <1> HIDE DEF p, end
  <1>4. end \in Widgets /\ lastPressed' # {}
    BY <1>3
  <1>5. Holder' = {end} /\ KeyTarget' = end
    BY <1>3, <1>4 DEF Holder, KeyTarget
  <1>6. Where' = Where
    BY <1>2, SameWhere
  <1>7. prevMouse' \in Int \X Int
    <2>1. prevMouse' \in (0 .. SizeOf[Root][1]) \X (0 .. SizeOf[Root][2])
      BY DEF IInv, Types
    <2> QED  BY <2>1, ShownMouse DEF Points
  <1>8. User!Press
    BY <1>1, <1>4, <1>5, <1>6, <1>7 DEF User!Press, Where
  <1> QED  BY <1>8 DEF User!Next

(* A release is a release.                                                 *)
LEMMA UpClicks ==
  ASSUME IInv, IInv', NEW off \in Offsets, MouseUp(off)
  PROVE  User!Next
  <1> DEFINE p == MovedBy(off)
  <1>1. /\ p \in Points /\ lastPressed # {} /\ Holder = {EndOf(eventChild)}
        /\ Range(Path(p, FALSE)) = lastPressed /\ pos' = pos
    BY UpDesk
  <1>2. /\ lastPressed' = lastPressed \ Range(Path(p, FALSE))
        /\ focusChild' = [w \in Widgets |-> focusChild[w]]
    <2>1. PassOn(Path(p, FALSE), p, FALSE)
      BY Zenon DEF MouseUp
    <2> QED  BY <2>1 DEF PassOn, Presses
  <1>3. focusChild' = focusChild
    <2>1. focusChild = [w \in Widgets |-> focusChild[w]]
      BY DEF IInv, Types, Leads
    <2> QED  BY <1>2, <2>1
  <1> HIDE DEF p
  <1>4. Holder' = {} /\ Holder # {} /\ KeyTarget' = KeyTarget
    BY <1>1, <1>2, <1>3 DEF Holder, KeyTarget
  <1>5. Where' = Where
    BY <1>1, SameWhere
  <1>6. prevMouse' \in Int \X Int
    <2>1. prevMouse' \in (0 .. SizeOf[Root][1]) \X (0 .. SizeOf[Root][2])
      BY DEF IInv, Types
    <2> QED  BY <2>1, ShownMouse DEF Points
  <1>7. User!Release
    BY <1>4, <1>5, <1>6 DEF User!Release, Where
  <1> QED  BY <1>7 DEF User!Next

(* A drag is a drag.                                                       *)
LEMMA DragClicks ==
  ASSUME IInv, IInv', NEW off \in Offsets, MouseDrag(off)
  PROVE  User!Next
  <1> DEFINE p == MovedBy(off)
             end == EndOf(eventChild)
             q == prevMouse
  <1>1. /\ p \in Points /\ end \in Windows /\ Holder = {end}
        /\ lastPressed' = lastPressed /\ eventChild' = eventChild /\ focusChild' = focusChild
    BY DragEvents
  <1>2. \A v \in Widgets : ScreenPos(Desk', v) = IF v \in InsideOf(end)
                                                 THEN Plus(ScreenPos(Desk, v), Minus(p, prevMouse))
                                                 ELSE ScreenPos(Desk, v)
    BY DragDesk
  <1>3. prevMouse' = p
    BY Zenon DEF MouseDrag, Render
  <1>4. prevMouse' \in Int \X Int
    BY <1>1, <1>3 DEF Points
  <1> HIDE DEF p, end
  <1>5. Holder' = Holder /\ KeyTarget' = KeyTarget
    BY <1>1 DEF Holder, KeyTarget
  <1>6. \A v \in Widgets : Where[v] = ScreenPos(Desk, v) /\ Where[v] \in Points
    <2>1. Desk.pos \in [Widgets -> Points]
      BY DeskFacts DEF IInv
    <2> QED  BY <2>1, ScreenPosIs DEF Where
  <1>7. q \in Points
    <2>1. prevMouse \in (0 .. SizeOf[Root][1]) \X (0 .. SizeOf[Root][2])
      BY DEF IInv, Types
    <2> QED  BY <2>1, ShownMouse
  <1>8. Where' = [w \in Widgets |-> ScreenPos(Desk', w)]
    BY DEF Where
  <1> HIDE DEF q
  <1>9. ASSUME NEW v \in Widgets, v \in InsideOf(end)
        PROVE  ScreenPos(Desk', v) = <<Where[v][1] + p[1] - q[1], Where[v][2] + p[2] - q[2]>>
    <2>1. ScreenPos(Desk', v) = Plus(Where[v], Minus(p, q))
      BY <1>2, <1>6, <1>9 DEF q
    <2>2. ASSUME NEW a \in Points, NEW b \in Points, NEW c \in Points
          PROVE  Plus(a, Minus(b, c)) = <<a[1] + b[1] - c[1], a[2] + b[2] - c[2]>>
      BY DEF Points, Plus, Minus
    <2> QED  BY <1>1, <1>6, <1>7, <2>1, <2>2
  <1>10. \A v \in Widgets : ScreenPos(Desk', v) =
                              IF v \in InsideOf(end)
                              THEN <<Where[v][1] + p[1] - q[1], Where[v][2] + p[2] - q[2]>>
                              ELSE Where[v]
    BY <1>2, <1>6, <1>9
  <1>11. Where' = [v \in Widgets |->
                     IF v \in InsideOf(end)
                     THEN <<Where[v][1] + p[1] - q[1], Where[v][2] + p[2] - q[2]>>
                     ELSE Where[v]]
    BY <1>8, <1>10
  <1>12. Where' = [v \in Widgets |->
                     IF v \in InsideOf(end)
                     THEN <<Where[v][1] + prevMouse'[1] - prevMouse[1],
                            Where[v][2] + prevMouse'[2] - prevMouse[2]>>
                     ELSE Where[v]]
    BY <1>3, <1>11, Zenon DEF q
  <1>13. end \in Holder \cap Windows
    BY <1>1
  <1>14. \E w \in Holder \cap Windows :
           Where' = [v \in Widgets |->
                       IF v \in InsideOf(w)
                       THEN <<Where[v][1] + prevMouse'[1] - prevMouse[1],
                              Where[v][2] + prevMouse'[2] - prevMouse[2]>>
                       ELSE Where[v]]
    BY <1>12, <1>13, Zenon
  <1>15. User!Drag
    BY <1>4, <1>5, <1>14, Zenon DEF User!Drag, Where
  <1> QED  BY <1>15 DEF User!Next

(* Every step is a click, a release, a movement or a drag.                 *)
LEMMA StepClicks ==
  ASSUME IInv, IInv', [Next]_vars
  PROVE  User!Next
  <1>1. ASSUME NEW off \in Offsets, MouseDown(off) PROVE User!Next
    BY <1>1, DownClicks
  <1>2. ASSUME NEW off \in Offsets, MouseUp(off) PROVE User!Next
    BY <1>2, UpClicks
  <1>3. ASSUME NEW off \in Offsets, NEW pressed \in BOOLEAN, MouseMove(off, pressed) PROVE User!Next
    <2>1. lastPressed' = lastPressed /\ eventChild' = eventChild /\ focusChild' = focusChild
      BY <1>3, MoveQuiet
    <2>2. pos' = pos
      BY <1>3, MoveDesk
    <2> QED  BY <2>1, <2>2, QuietClicks
  <1>4. ASSUME NEW off \in Offsets, MouseDrag(off) PROVE User!Next
    BY <1>4, DragClicks
  <1>5. ASSUME NEW off \in EarlyOffsets, SkipPacket(off) PROVE User!Next
    BY <1>5, QuietClicks DEF SkipPacket, events
  <1>6. CASE Tick
    BY <1>6, QuietClicks DEF Tick, events
  <1>7. CASE KeyPress
    <2>1. lastPressed' = lastPressed /\ eventChild' = eventChild /\ focusChild' = focusChild
      <3>1. UNCHANGED events
        BY <1>7, Zenon DEF KeyPress
      <3> QED  BY <3>1 DEF events
    <2>2. pos' = pos
      BY <1>7, KeyDesk
    <2> QED  BY <2>1, <2>2, QuietClicks
  <1>8. CASE UNCHANGED vars
    BY <1>8, QuietClicks DEF vars, events
  <1> QED  BY <1>1, <1>2, <1>3, <1>4, <1>5, <1>6, <1>7, <1>8, Zenon DEF Next

(* Every handler is one click, release, movement or drag of the abstract   *)
(* specification, or nothing: a press gives the mouse and the keys to one  *)
(* widget until the release, and only a drag moves anything, a window with *)
(* all it holds by as much as the mouse.                                   *)
THEOREM Refinement == Spec => ImplementsClicks
  <1>1. Init => User!Init
    BY InitClicks
  <1>2. IInv /\ IInv' /\ [Next]_vars
          => [User!Next]_<<Holder, KeyTarget, [w \in Widgets |-> ScreenPos(Desk, w)], prevMouse>>
    BY StepClicks
  <1> QED  BY <1>1, <1>2, Invariance, PTL DEF Spec, ImplementsClicks, User!Spec
=============================================================================
