--------------------------- MODULE TextSelection ---------------------------
(***************************************************************************)
(* Selecting text with the mouse (src/src/lib/shell.cpp, VTerm::inverse,   *)
(* src/src/mouse.cpp): the cells whose video is reversed, the text kept    *)
(* for pasting, and the reports a program gets instead.  A position is an  *)
(* offset into the rows of the view; the view may be scrolled back, so the *)
(* cell at an offset is a cell of some stored line.                        *)
(***************************************************************************)
EXTENDS Integers, Sequences, FiniteSetsExt

CONSTANTS
  SelW, SelH,    \* columns and rows of the view
  SelHistory,    \* lines scrolled out
  RowTexts,      \* rows: functions from columns to cells
  WordCells,     \* cells that are word characters
  MaxEvents      \* bound: events

\* A cell is "L" or "R", the halves of a double width character, or single.
ASSUME SelAssumption ==
  /\ SelW \in Nat \ {0, 1} /\ SelH \in Nat \ {0} /\ SelHistory \in Nat
  /\ \A text \in RowTexts : DOMAIN text = 0 .. SelW - 1
  /\ \A text \in RowTexts : \A x \in 0 .. SelW - 1 :
       /\ text[x] = "L" => x + 1 < SelW /\ text[x + 1] = "R"
       /\ text[x] = "R" => x > 0 /\ text[x - 1] = "L"
  /\ {"L", "R"} \subseteq WordCells
  /\ MaxEvents \in Nat

VARIABLES
  lines,       \* texts of the stored lines, history first
  view,        \* visual_start_line
  reversed,    \* cells whose reverse bit is set by a selection
  mSelState,   \* start, end, selecting, color_inversed
  mSelText,    \* the text kept: cells in order, or << >>
  mouse_report,\* what the program wants: MouseNone, MouseX10, MouseX11
  sent,        \* what the last event sent to the program
  events,      \* events so far
  astray       \* the view moved under a selection, or a drag left the screen

selVars == <<lines, view, reversed, mSelState, mSelText, mouse_report, sent,
             events, astray>>

Total == SelHistory + SelH
Offsets == 0 .. SelW * SelH - 1
CellOf(pos) == <<view + (pos \div SelW), pos % SelW>>
charAttr(pos) == lines[CellOf(pos)[1]][CellOf(pos)[2]]

\* Offsets inverse reverses between two others: both halves of a character.
Span(a, b) ==
  LET from == Min({a, b})
      to == Max({a, b})
  IN  (IF charAttr(from) = "R" THEN from - 1 ELSE from) ..
      (IF charAttr(to) = "L" THEN to + 1 ELSE to)

\* Set difference of the reversed cells with those of offsets ps.
Flipped(set, ps) ==
  LET flip == {CellOf(p) : p \in ps} IN (set \ flip) \cup (flip \ set)

inverseTextColor(set, a, b) == Flipped(set, Span(a, b))

-----------------------------------------------------------------------------
NoSelection == [start |-> 0, end |-> 0, selecting |-> FALSE, color_inversed |-> FALSE]

\* resetTextSelect: the cells to reverse back are those the offsets mean now.
\* mutant: the selection is dropped and its cells stay reversed
Reset_Lit(sel) == reversed

Reset(sel) ==
  IF sel.color_inversed THEN inverseTextColor(reversed, sel.start, sel.end)
  ELSE reversed

Deselected(sel) == [sel EXCEPT !.selecting = FALSE, !.color_inversed = FALSE]

\* startTextSelect behind resetTextSelect.
Started(pos) ==
  /\ mSelState' = [start |-> pos, end |-> pos, selecting |-> TRUE,
                   color_inversed |-> TRUE]
  /\ reversed' = inverseTextColor(Reset(mSelState), pos, pos)

\* middleTextSelect on one side of the start: the reversed cells change
\* between the old and the new end, of which the inner one moves outwards or
\* inwards by one character; that can be before the first cell of the screen,
\* and then the 32 bit offset wraps.
SameSide(right, end, new_end) ==
  LET forth == new_end > end
      inner == IF right = forth THEN end ELSE new_end
      moved == IF right THEN inner + (IF charAttr(inner) = "L" THEN 2 ELSE 1)
                        ELSE inner - (IF charAttr(inner) = "R" THEN 2 ELSE 1)
      a == IF right = forth THEN moved ELSE end
      b == IF right = forth THEN new_end ELSE moved
      still == IF a = b THEN forth ELSE b > a
  IN  [wraps |-> moved < 0, changes |-> still = forth, a |-> a, b |-> b]

Middle(pos) ==
  LET start == mSelState.start
      end == mSelState.end
      right == end >= start
      step == SameSide(right, end, pos)
  IN  /\ mSelState' = [mSelState EXCEPT !.end = pos]
      /\ IF right # (pos >= start)
         THEN /\ reversed' = inverseTextColor(inverseTextColor(reversed, start, end),
                                              start, pos)
              /\ UNCHANGED astray
         ELSE IF step.wraps THEN astray' = TRUE /\ UNCHANGED reversed
         ELSE /\ reversed' = IF step.changes
                             THEN inverseTextColor(reversed, step.a, step.b)
                             ELSE reversed
              /\ UNCHANGED astray

\* endTextSelect keeps the characters between start and end; a position on the
\* right half of a double width character counts as the character.
Kept(p) == charAttr(p) # "R" \/ p = Min({mSelState.start, mSelState.end})

Copied ==
  LET from == Min({mSelState.start, mSelState.end})
      to == Max({mSelState.start, mSelState.end})
      after[p \in from - 1 .. to] ==
        IF p < from THEN << >>
        ELSE IF Kept(p) THEN Append(after[p - 1], CellOf(p)) ELSE after[p - 1]
  IN  after[to]

\* autoTextSelect looks left and right of x for the end of the run of word, or
\* of other, characters.  It stops at the first and at the last column without
\* looking at what is in them.
inword(pos) == charAttr(pos) \in WordCells

WordFrom(pos) ==
  LET row == pos - (pos % SelW)
      Other == {p \in row + 1 .. pos : inword(p) # inword(pos)}
  IN  IF Other = {} THEN row ELSE Max(Other) + 1

WordTo(pos) ==
  LET last == pos - (pos % SelW) + SelW - 1
      Other == {p \in pos .. last - 1 : inword(p) # inword(pos)}
  IN  IF Other = {} THEN last ELSE Min(Other) - 1

AutoSelect(pos) ==
  /\ mSelState' = [start |-> WordFrom(pos), end |-> WordTo(pos),
                   selecting |-> FALSE, color_inversed |-> TRUE]
  /\ reversed' = inverseTextColor(Reset(mSelState), WordFrom(pos), WordTo(pos))

-----------------------------------------------------------------------------
SelInit ==
  /\ lines \in [0 .. Total - 1 -> RowTexts]
  /\ view = SelHistory
  /\ reversed = {} /\ mSelState = NoSelection /\ mSelText = << >>
  /\ mouse_report \in {"MouseNone", "MouseX10", "MouseX11"}
  /\ sent = "nothing" /\ events = 0 /\ astray = FALSE

Event ==
  /\ events < MaxEvents /\ ~astray     \* bound: what follows is not modelled
  /\ events' = events + 1

\* mouseInput: buttons select text when the program wants no reports, or with
\* Shift; and report otherwise.
Selects(shift) == mouse_report = "MouseNone" \/ shift

Press(pos) ==
  /\ Started(pos) /\ sent' = "nothing"
  /\ UNCHANGED <<mSelText, astray>>

Drag(pos) ==
  /\ IF mSelState.selecting THEN Middle(pos)
     ELSE Started(pos) /\ UNCHANGED astray
  /\ sent' = "nothing"
  /\ UNCHANGED mSelText

Release(pos) ==
  /\ mSelState' = [mSelState EXCEPT !.selecting = FALSE]
  /\ mSelText' = Copied
  /\ sent' = "nothing"
  /\ UNCHANGED <<reversed, astray>>

DoubleClick(pos) ==
  /\ AutoSelect(pos) /\ sent' = "nothing"
  /\ UNCHANGED <<mSelText, astray>>

\* The right button pastes.
Paste ==
  /\ reversed' = Reset(mSelState)
  /\ mSelState' = Deselected(mSelState)
  /\ sent' = IF mSelText # << >> THEN "text" ELSE "nothing"
  /\ UNCHANGED <<mSelText, astray>>

\* A report: presses always, releases and the wheel under MouseX11 only,
\* moves never.
Report(type) ==
  /\ sent' = IF \/ type \in {"Press", "DblClick"}
                \/ type \in {"Release", "Wheel"} /\ mouse_report = "MouseX11"
             THEN "report" ELSE "nothing"
  /\ UNCHANGED <<mSelState, mSelText, reversed, astray>>

MouseEvent ==
  /\ Event
  /\ UNCHANGED <<lines, view, mouse_report>>
  /\ \/ /\ Selects(FALSE) \/ Selects(TRUE)
        /\ \/ \E pos \in Offsets : Press(pos) \/ Drag(pos) \/ Release(pos) \/ DoubleClick(pos)
           \/ Paste
     \/ /\ ~Selects(FALSE)
        /\ \E type \in {"Press", "Release", "DblClick", "Move", "Wheel"} : Report(type)

\* Output of the program, and a key: both reset the selection first; output
\* also ends scrolling back, after the reset, and changes a line.
readyRead(y, text) ==
  /\ Event
  /\ reversed' = Reset(mSelState)
  /\ mSelState' = Deselected(mSelState)
  /\ view' = SelHistory
  /\ lines' = [lines EXCEPT ![SelHistory + y] = text]
  /\ UNCHANGED <<mSelText, mouse_report, sent, astray>>

keyInput ==
  /\ Event
  /\ reversed' = Reset(mSelState)
  /\ mSelState' = Deselected(mSelState)
  /\ sent' = "key"
  /\ UNCHANGED <<lines, view, mSelText, mouse_report, astray>>

\* Scrolling back keeps the offsets of the selection.
historyDisplay(to) ==
  /\ Event
  /\ to # view
  /\ view' = to
  /\ astray' = mSelState.color_inversed
  /\ UNCHANGED <<lines, reversed, mSelState, mSelText, mouse_report, sent>>

SelNext ==
  \/ MouseEvent \/ keyInput
  \/ \E y \in 0 .. SelH - 1, text \in RowTexts : readyRead(y, text)
  \/ \E to \in 0 .. SelHistory : historyDisplay(to)

SelSpec == SelInit /\ [][SelNext]_selVars

-----------------------------------------------------------------------------
Highlighted ==
  IF mSelState.color_inversed
  THEN {CellOf(p) : p \in Span(mSelState.start, mSelState.end)} ELSE {}

\* However the mouse is dragged, to and fro, past the start and over double
\* width characters, the reversed cells are the characters from the start to
\* the end of the selection, and none stays reversed without one.
ReversedIsSelected == ~astray => reversed = Highlighted

\* Releasing the button keeps the highlighted characters, each once, in order,
\* apart from those whose highlight was taken away before.
KeepsHighlighted ==
  (mSelText' # mSelText /\ mSelState.color_inversed) =>
       LET cells == {mSelText'[i] : i \in DOMAIN mSelText'} IN
       /\ cells \subseteq reversed
       /\ \A cell \in reversed :
            \/ cell \in cells
            \/ lines[cell[1]][cell[2]] = "R" /\ <<cell[1], cell[2] - 1>> \in cells
            \/ lines[cell[1]][cell[2]] = "L" /\ <<cell[1], cell[2] + 1>> \in cells
       /\ Len(mSelText') = Cardinality(
            {cell \in reversed : lines[cell[1]][cell[2]] # "R"})

\* A double click selects the run of word characters, or of others, under the
\* mouse, but for the first and last column of a row.
SelectsWord ==
  \A pos \in Offsets :
       (mSelState'.color_inversed /\ ~mSelState'.selecting /\ ~mSelState.color_inversed
        /\ pos \in mSelState'.start .. mSelState'.end
        /\ pos % SelW \notin {0, SelW - 1}) =>
          \A p \in mSelState'.start .. mSelState'.end :
            p % SelW \in {0, SelW - 1} \/ inword(p) = inword(pos)
=============================================================================
