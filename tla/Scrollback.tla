----------------------------- MODULE Scrollback -----------------------------
(***************************************************************************)
(* What a window promises about its scroll-back history: a log of the last *)
(* Limit lines that left the top of the page, oldest first, and a position *)
(* in it where the view starts.  A line enters the log only from the top   *)
(* of the page and in page order; once there it never changes, and only    *)
(* newer lines push it out.  The last of the lines that leave may be cut   *)
(* short as it goes.                                                       *)
(***************************************************************************)
EXTENDS Integers, Sequences

CONSTANTS Limit, PageSize,
          Shortened(_)  \* texts a line may be cut to as it leaves the page

VARIABLES
  log,    \* the lines kept, oldest first
  page,   \* the lines on the screen, from the top
  view    \* number of log lines above the view

svars == <<log, page, view>>

SInit == log = <<>> /\ Len(page) = PageSize /\ view = 0

\* The k top lines of the page, as they leave it.
Leaving(k) ==
  LET top == SubSeq(page, 1, k)
  IN  {top} \cup (IF k = 0 THEN {} ELSE {[top EXCEPT ![k] = t] : t \in Shortened(top[k])})

Push(k) ==
  \E lines \in Leaving(k) :
    LET all == log \o lines
        excess == IF Len(all) > Limit THEN Len(all) - Limit ELSE 0
    IN  log' = SubSeq(all, excess + 1, Len(all))

\* The page changes, pushing lines or not; the view is at the bottom.
Write ==
  /\ view' = Len(log')
  /\ Len(page') = PageSize
  /\ \E k \in 0 .. PageSize : Push(k)

\* The user scrolls the view.
Look ==
  /\ view' \in 0 .. Len(log)
  /\ UNCHANGED <<log, page>>

SNext == Write \/ Look

SSpec == SInit /\ [][SNext]_svars
=============================================================================
