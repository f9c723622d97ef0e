------------------------------- MODULE BoxDraw -------------------------------
(***************************************************************************)
(* Box drawing characters (Screen::drawGlyph, drawBoxChar): they are not   *)
(* taken from a font but painted as rectangles, each in a cell of its own, *)
(* and a frame is whole only if strokes painted by two calls meet.         *)
(*                                                                         *)
(* Two cells beside or above each other are drawn in either order over     *)
(* whatever they showed before.  A character is its style and the set of   *)
(* sides its lines reach by its Unicode name; what the code paints for it  *)
(* is Painted and StyleOn.                                                 *)
(***************************************************************************)
EXTENDS Integers, FiniteSets

CONSTANTS CellSizes,    \* sizes of a cell, records with w and h
          NoBox         \* a cell not drawn yet

\* The strokes of a smaller cell would reach its sides from its middle.
ASSUME BoxAssumption ==
    CellSizes \subseteq [w : {n \in Nat : n >= 6}, h : {n \in Nat : n >= 6}]

VARIABLE boxes          \* the two cells: size, direction, characters, lit points

Sides == {"left", "right", "up", "down"}
Across == {"left", "right"}
Upright == {"up", "down"}
LineStyles == {"light", "double", "heavy"}

\* Lines, corners, tees and the cross in three styles, and light half lines.
BoxChars ==
    [style : LineStyles, arms : {s \in SUBSET Sides : Cardinality(s) >= 2}]
    \cup [style : {"light"}, arms : {{s} : s \in Sides}]

-----------------------------------------------------------------------------
(* The table of drawBoxChar *)

\* The sides a character's strokes are painted towards: the entries of the two
\* upright half lines are exchanged.
Painted(c) ==
    IF c.arms = {"up"} THEN {"down"}
    ELSE IF c.arms = {"down"} THEN {"up"} ELSE c.arms

\* Heavy tees have a light stem.
StyleOn(c, axis) ==
    IF c.style = "heavy" /\ Cardinality(c.arms) = 3 /\ Cardinality(c.arms \cap axis) = 1
    THEN "light" ELSE c.style

\* Where the strokes of a line lie around the middle of the cell: first
\* position and thickness.
Bands(style, centre) ==
    CASE style = "light" -> {<<centre - 1, 2>>}
      [] style = "double" -> {<<centre - 2, 1>>, <<centre + 1, 1>>}
      [] style = "heavy" -> {<<centre - 2, 4>>}

\* The stretch of a cell n long that a line covers: all of it or one half.
Stretch(towards, first, n) ==
    IF Cardinality(towards) = 2 THEN <<0, n>>
    ELSE IF towards = {first} THEN <<0, n \div 2>>
    ELSE <<n \div 2, n - n \div 2>>

Rectangle(x, y) == [x |-> x[1], y |-> y[1], w |-> x[2], h |-> y[2]]

Strokes(c, w, h) ==
    LET across == Painted(c) \cap Across
        upright == Painted(c) \cap Upright
    IN  {Rectangle(Stretch(across, "left", w), b) :
            b \in IF across = {} THEN {} ELSE Bands(StyleOn(c, Across), h \div 2)}
        \cup {Rectangle(b, Stretch(upright, "up", h)) :
            b \in IF upright = {} THEN {} ELSE Bands(StyleOn(c, Upright), w \div 2)}

-----------------------------------------------------------------------------
PointsOf(r, left, top) ==
    (left + r.x .. left + r.x + r.w - 1) \X (top + r.y .. top + r.y + r.h - 1)

Corner(b, i) ==
    IF i = 1 THEN <<0, 0>> ELSE IF b.beside THEN <<b.w, 0>> ELSE <<0, b.h>>
CellPoints(b, i) ==
    PointsOf([x |-> 0, y |-> 0, w |-> b.w, h |-> b.h], Corner(b, i)[1], Corner(b, i)[2])

\* Any character may have been shown before, here by all of its points or none.
BoxInit ==
    \E s \in CellSizes, d, full \in BOOLEAN :
        LET b == [w |-> s.w, h |-> s.h, beside |-> d, shown |-> <<NoBox, NoBox>>, lit |-> {}]
        IN  boxes = [b EXCEPT !.lit = IF full THEN CellPoints(b, 1) \cup CellPoints(b, 2) ELSE {}]

\* drawGlyph of a character from U+2500 to U+257F: the background of its cell,
\* then its strokes.
drawBoxChar(i, c) ==
    LET at == Corner(boxes, i)
    IN  boxes' = [boxes EXCEPT
            !.shown[i] = c,
            !.lit = (@ \ CellPoints(boxes, i))
                    \cup UNION {PointsOf(r, at[1], at[2]) : r \in Strokes(c, boxes.w, boxes.h)}]

BoxNext ==
    \E i \in 1 .. 2 : /\ boxes.shown[i] = NoBox
                      /\ \E c \in BoxChars : drawBoxChar(i, c)

-----------------------------------------------------------------------------
(* Properties *)

\* The lit points of a cell along one of its sides.
Edge(b, i, side) ==
    LET at == Corner(b, i)
    IN  CASE side = "left" -> {y \in 0 .. b.h - 1 : <<at[1], at[2] + y>> \in b.lit}
          [] side = "right" -> {y \in 0 .. b.h - 1 : <<at[1] + b.w - 1, at[2] + y>> \in b.lit}
          [] side = "up" -> {x \in 0 .. b.w - 1 : <<at[1] + x, at[2]>> \in b.lit}
          [] side = "down" -> {x \in 0 .. b.w - 1 : <<at[1] + x, at[2] + b.h - 1>> \in b.lit}

HalfUpright(c) == c.arms \in {{"up"}, {"down"}}

\* A drawn cell has light on exactly the sides its character's name gives it,
\* however its neighbour was drawn and whatever was shown before
\* (drawBoxChar; the two upright half lines, which the code exchanges, are
\* left out).
LinesReachTheirSides ==
    \A i \in 1 .. 2 :
        LET c == boxes.shown[i]
        IN  c # NoBox =>
                HalfUpright(c) \/ \A s \in Sides : s \in c.arms <=> Edge(boxes, i, s) # {}

\* Lines of one style that run towards each other from neighbouring cells meet
\* point by point, so that a frame has no gap, and lines of two styles do not
\* pass for one (drawBoxChar; the stems of heavy tees, which the code paints
\* light, are left out).
LinesMeet ==
    LET a == boxes.shown[1]
        b == boxes.shown[2]
        towards == IF boxes.beside THEN <<"right", "left">> ELSE <<"down", "up">>
        axis == IF boxes.beside THEN Across ELSE Upright
    IN  a # NoBox /\ b # NoBox /\ ~HalfUpright(a) /\ ~HalfUpright(b)
        /\ StyleOn(a, axis) = a.style /\ StyleOn(b, axis) = b.style
        /\ towards[1] \in a.arms /\ towards[2] \in b.arms =>
            (a.style = b.style <=> Edge(boxes, 1, towards[1]) = Edge(boxes, 2, towards[2]))

\* Within a cell the strokes of a light or heavy character touch each other
\* (drawBoxChar; the outer strokes of double corners do not in the code).
LinesJoin ==
    \A i \in 1 .. 2 :
        LET c == boxes.shown[i]
        IN  c # NoBox =>
                LET strokes == Strokes(c, boxes.w, boxes.h)
                    Touch(p, q) == PointsOf(p, 0, 0) \cap PointsOf(q, 0, 0) # {}
                IN  c.style # "double" => \A p, q \in strokes : Touch(p, q)

BoxesJoin == LinesReachTheirSides /\ LinesMeet /\ LinesJoin
=============================================================================
