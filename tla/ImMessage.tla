------------------------------ MODULE ImMessage -----------------------------
(* The messages of immessage.h and the socket pair between FbTerm and an     *)
(* input method server: one stream of bytes, and so one queue, per           *)
(* direction.  The messages that only carry data to a handler which sends    *)
(* nothing and keeps nothing the properties tell apart are left out          *)
(* (SendKey, PutText, TermMode); DrawText is handled as FillRect is.         *)
EXTENDS Naturals, SequencesExt

CONSTANTS NR_IM_WINS,  \* windows a server may have
          Cursors,     \* positions of the text cursor
          NoRect       \* the empty rectangle

ASSUME MessageAssumption ==
    NR_IM_WINS \in Nat \ {0} /\ NoRect \notin Cursors /\ Cursors # {}

VARIABLES toIM, toFb  \* written and not yet read, oldest first

\* A window is put at a cursor position: different windows, and different
\* positions of one window, do not overlap.
Wins  == 1 .. NR_IM_WINS
Rects == Cursors \cup {NoRect}

M(type) == [type |-> type]
CursorPosition(c) == [type |-> "CursorPosition", cursor |-> c]
SetWin(w, rect)   == [type |-> "SetWin", winid |-> w, rect |-> rect]
FillRect(w, rect) == [type |-> "FillRect", winid |-> w, rect |-> rect]

ToIM == {M(t) : t \in {"FbTermInfo", "Active", "Deactive", "ShowUI", "HideUI",
                       "AckWin", "AckPing"}}
          \cup {CursorPosition(c) : c \in Cursors}
ToFb == {M(t) : t \in {"Connect", "AckHideUI", "Ping"}}
          \cup {SetWin(w, r) : w \in Wins, r \in Rects}
          \cup {FillRect(w, r) : w \in Wins, r \in Cursors}
=============================================================================
