----------------------------- MODULE CursorMotion -----------------------------
(***************************************************************************)
(* The cursor of a terminal in both directions: control characters,        *)
(* positioning sequences, margins, tab stops, the saved position and the   *)
(* report of it (vterm_action.cpp, VTerm::move_cursor, reset and resize).  *)
(*                                                                         *)
(* A window is resized once, by its constructor, from nothing.  Of the     *)
(* text only the right halves of double width characters matter, where the *)
(* cursor does not stay; what scrolls is VTermLines' concern.  Parameters  *)
(* are 16 bit words, as they come from the parser.                         *)
(***************************************************************************)
EXTENDS Integers, FiniteSets, FiniteSetsExt

CONSTANTS
    TermW, TermH,   \* the size of the window
    Params,         \* numbers a program sends
    TypedTo,        \* columns a line of text ends in
    MaxMotions      \* bound: actions of a behaviour

VARIABLES
    pos,            \* [x, y, top, bot, saved, tabs, relative, crlf]
    rights,         \* the cells that are right halves
    motion          \* [op, arg, from]: the last action and where it began

cursorVars == <<pos, rights, motion>>

Words == 65536     \* values of a 16 bit word
U16(n) == n % Words
AtLeastOne(n) == IF n < 1 THEN 1 ELSE n

(* move_cursor takes 16 bit words, stays on the screen and off the right   *)
(* halves.                                                                 *)
move_cursor(t, x, y) ==
    LET cx == IF U16(x) >= TermW THEN TermW - 1 ELSE U16(x)
        cy == IF U16(y) >= TermH THEN TermH - 1 ELSE U16(y)
    IN  [t EXCEPT !.x = IF cx > 0 /\ <<cx, cy>> \in rights THEN cx - 1 ELSE cx, !.y = cy]

Does(op, arg, t) ==
    /\ motion.n < MaxMotions
    /\ motion' = [op |-> op, arg |-> arg, from |-> pos, n |-> motion.n + 1]
    /\ pos' = t

(* Scrolling the lines between the margins takes the halves along; margins *)
(* around one line, or none, scroll nothing (scroll_region with num = mx). *)
Scrolled(n) ==
    LET bot == IF pos.bot >= TermH THEN TermH - 1 ELSE pos.bot
        region == pos.top .. bot
    IN  IF bot <= pos.top THEN rights
        ELSE {c \in rights : c[2] \notin region} \union
             {c \in {<<d[1], d[2] - n>> : d \in {e \in rights : e[2] \in region}} : c[2] \in region}

ReturnIf(flag, t) == IF flag THEN move_cursor(t, 0, t.y) ELSE t

lf ==
    IF pos.y < pos.bot
    THEN Does("lf", 0, ReturnIf(pos.crlf, move_cursor(pos, pos.x, pos.y + 1))) /\ UNCHANGED rights
    ELSE Does("lf", 0, ReturnIf(pos.crlf, pos)) /\ rights' = Scrolled(1)

next_line ==
    IF pos.y < pos.bot
    THEN Does("lf", 0, move_cursor(move_cursor(pos, pos.x, pos.y + 1), 0, pos.y + 1))
         /\ UNCHANGED rights
    ELSE Does("lf", 0, move_cursor(pos, 0, pos.y)) /\ rights' = Scrolled(1)

index_up ==
    IF pos.y > pos.top
    THEN Does("ri", 0, move_cursor(pos, pos.x, pos.y - 1)) /\ UNCHANGED rights
    ELSE Does("ri", 0, pos) /\ rights' = Scrolled(-1)

-----------------------------------------------------------------------------
Stays(op, arg, t) == Does(op, arg, t) /\ UNCHANGED rights

cr == Stays("cr", 0, move_cursor(pos, 0, pos.y))

bs ==
    LET x == pos.x - 1
    IN  /\ pos.x > 0
        /\ Stays("bs", 0, move_cursor(pos, IF x > 0 /\ <<x, pos.y>> \in rights THEN x - 1 ELSE x,
                                      pos.y))

(* A stop in column 0 is no stop.                                          *)
NextStop(x) == LET ahead == {i \in pos.tabs : i > x /\ i < TermW}
               IN  IF ahead = {} THEN ((x + 8) \div 8) * 8 ELSE Min(ahead)
tab ==
    LET x == NextStop(pos.x)
    IN  Stays("tab", 0, move_cursor(pos, IF x < TermW THEN x ELSE TermW - 1, pos.y))

set_tab == Stays("set", 0, [pos EXCEPT !.tabs = @ \union {pos.x}])
clear_tab(n) == Stays("clear", n, [pos EXCEPT !.tabs = CASE n = 3 -> {}
                                                       [] n = 0 -> @ \ {pos.x}
                                                       [] OTHER -> @])

Less(a, n) == IF a < n THEN 0 ELSE a - n
Within(a, size) == IF U16(a) >= size THEN size - 1 ELSE U16(a)

cursor_left(p) ==
    LET x == Less(pos.x, AtLeastOne(p))
    IN  Stays("left", p, move_cursor(pos, IF x > 0 /\ <<x, pos.y>> \in rights THEN x - 1 ELSE x,
                                     pos.y))
cursor_right(p) ==
    LET x == Within(pos.x + AtLeastOne(p), TermW)
    IN  Stays("right", p, move_cursor(pos, IF x < TermW - 1 /\ <<x, pos.y>> \in rights
                                           THEN x + 1 ELSE x, pos.y))

(* With and without a return.                                              *)
cursor_up(p, x) == Stays("up", p, move_cursor(pos, x, Less(pos.y, AtLeastOne(p))))
cursor_down(p, x) == Stays("down", p, move_cursor(pos, x, Within(pos.y + AtLeastOne(p), TermH)))

cursor_position(row, col) ==
    Stays("position", <<row, col>>,
          move_cursor(pos, AtLeastOne(col) - 1,
                      AtLeastOne(row) - 1 + IF pos.relative THEN pos.top ELSE 0))
cursor_position_col(p) == Stays("column", p, move_cursor(pos, AtLeastOne(p) - 1, pos.y))
cursor_position_row(p) == Stays("row", p, move_cursor(pos, pos.x, AtLeastOne(p) - 1))

(* The top margin is not compared with anything.                           *)
set_margins(p, q) ==
    LET top == AtLeastOne(p) - 1
        bot == (IF q < 1 \/ q > TermH THEN TermH ELSE q) - 1
        m == [pos EXCEPT !.top = top, !.bot = bot]
        below == IF m.y < top THEN move_cursor(m, m.x, top) ELSE m
    IN  Stays("margins", 0, IF below.y > bot THEN move_cursor(below, below.x, bot) ELSE below)

save_cursor == Stays("save", 0, [pos EXCEPT !.saved = <<pos.x, pos.y>>])
restore_cursor == Stays("restore", 0, move_cursor(pos, pos.saved[1], pos.saved[2]))

enable_mode(field) == Stays("mode", 0, [pos EXCEPT ![field] = ~ @])

(* What status_report sends, taken for a position to go to.                *)
status_report == <<U16(pos.y + 1), U16(pos.x + 1)>>
GoToReport == cursor_position(status_report[1], status_report[2])

(* do_normal_char leaves the cursor behind the last character, in the      *)
(* column past the last one if need be, and makes and breaks wide          *)
(* characters on the way: a wide one ends right there.                     *)
Types(x, wide) ==
    /\ x > 0 /\ wide => x > 1
    /\ Does("text", 0, [pos EXCEPT !.x = x])
    /\ rights' = {c \in rights : c[2] # pos.y} \union (IF wide THEN {<<x - 1, pos.y>>} ELSE {})

Fresh == [x |-> 0, y |-> 0, top |-> 0, bot |-> TermH - 1, saved |-> <<0, 0>>, tabs |-> {},
          relative |-> FALSE, crlf |-> FALSE]
reset == Does("reset", 0, Fresh) /\ rights' = {}

-----------------------------------------------------------------------------
(* VTerm::VTerm, reset and the first resize.                               *)
CursorInit == pos = Fresh /\ rights = {} /\ motion = [op |-> "reset", arg |-> 0, from |-> Fresh, n |-> 0]

CursorNext ==
    \/ lf \/ next_line \/ index_up \/ cr \/ bs \/ tab \/ set_tab
    \/ save_cursor \/ restore_cursor \/ GoToReport \/ reset
    \/ enable_mode("relative") \/ enable_mode("crlf")
    \/ \E n \in {0, 1, 3} : clear_tab(n)
    \/ \E p \in Params :
          \/ cursor_left(p) \/ cursor_right(p)
          \/ cursor_position_col(p) \/ cursor_position_row(p)
          \/ \E x \in {0, pos.x} : cursor_up(p, x) \/ cursor_down(p, x)
          \/ \E q \in Params : cursor_position(p, q) \/ set_margins(p, q)
    \/ \E x \in TypedTo, wide \in BOOLEAN : Types(x, wide)

-----------------------------------------------------------------------------
(* The cursor is on the screen, in the column behind it only after text    *)
(* that filled the row, and the saved position is one it has had.          *)
CursorOnScreen ==
    /\ pos.x \in 0 .. TermW /\ pos.y \in 0 .. TermH - 1
    /\ pos.x = TermW => motion.op \in {"text", "lf", "ri", "set", "clear", "save", "mode", "margins"}
    /\ pos.saved \in (0 .. TermW) \X (0 .. TermH - 1)
    /\ pos.tabs \subseteq 0 .. TermW

(* A tab goes to the next stop set, else to the next multiple of eight,    *)
(* skipping none; only from behind the last column does it go back.        *)
TabStops ==
    LET from == motion.from
    IN  motion.op = "tab" =>
          /\ from.x < TermW => pos.x >= from.x
          /\ pos.x = from.x => from.x = TermW - 1 \/ <<from.x + 1, pos.y>> \in rights
          /\ \A i \in pos.tabs : i > from.x /\ i < pos.x => <<pos.x, pos.y>> \in rights
          /\ \/ pos.x \in pos.tabs \/ pos.x = TermW - 1
             \/ pos.x % 8 = 0 \/ <<pos.x + 1, pos.y>> \in rights

(* A line feed and a reverse line feed keep a cursor between the margins   *)
(* between them.                                                           *)
MarginsHold ==
    LET from == motion.from
    IN  motion.op \in {"lf", "ri"} /\ from.y \in from.top .. from.bot => pos.y \in pos.top .. pos.bot

(* Down is down and up is up, as long as the sum is a word.                *)
DirectionKept ==
    LET from == motion.from
    IN  /\ motion.op = "down" /\ motion.arg + from.y < Words => pos.y >= from.y
        /\ motion.op = "up" => pos.y <= from.y
        /\ motion.op = "right" /\ motion.arg + from.x < Words /\ from.x < TermW =>
             pos.x >= from.x
        /\ motion.op = "left" => pos.x <= from.x

(* A program that sends the reported position back, or restores the saved  *)
(* one, is where it was; from behind the last column it is in the last     *)
(* one, and in relative mode the report does not count from the margin     *)
(* that a position counts from.                                            *)
PositionComesBack ==
    LET from == motion.from
        Back(p) == \/ <<pos.x, pos.y>> = p
                   \/ p[1] = TermW /\ pos.y = p[2] /\ pos.x >= TermW - 2
    IN  /\ motion.op = "position" /\ motion.arg = <<from.y + 1, from.x + 1>> /\ ~ from.relative =>
             Back(<<from.x, from.y>>)
        /\ motion.op = "restore" =>
             Back(from.saved) \/ <<from.saved[1], from.saved[2]>> \in rights
=============================================================================
