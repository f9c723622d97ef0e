-------------------------------- MODULE ImApi -------------------------------
(* im/imapi.c: the server's end of the connection, as a server uses it that  *)
(* is programmed like im/example.c: its callbacks put the windows next to    *)
(* the cursor when they are shown and take them away when it is deactivated. *)
EXTENDS ImMessage

VARIABLE im  \* the server process

Origin == CHOOSE c \in Cursors : TRUE  \* a cursor not reported yet

\* A server that has done nothing yet, or is no more.
Blank(pc) == [pc |-> pc, im_active |-> FALSE, cursor |-> Origin, pending |-> <<>>,
              batch |-> <<>>, again |-> FALSE, calls |-> <<>>]
NoServer  == Blank("none")

\* pc: "none" no process, "started" before connect_fbterm, "running" in
\* check_im_message, "reading" blocked in its read, "waiting" in wait_message,
\* "dead" exited.  batch is what process_messages has left, again says that
\* check_im_message reads the socket after it; calls is what the callback of
\* the current message, and process_message after it, have left to do.
Call(op)          == [op |-> op]
set_im_window(w, r) == [op |-> "set_im_window", winid |-> w, rect |-> r]
fill_rect(w, r)     == [op |-> "fill_rect", winid |-> w, rect |-> r]

Calls == {Call("deactivated"), Call("AckHideUI")}
           \cup {set_im_window(w, r) : w \in Wins, r \in Rects}
           \cup {fill_rect(w, r) : w \in Wins, r \in Cursors}

ServerState ==
    [pc: {"none", "started", "running", "reading", "waiting", "dead"},
     im_active: BOOLEAN, cursor: Cursors, pending: Seq(ToIM),
     batch: Seq(ToIM), again: BOOLEAN, calls: Seq(Calls)]

-----------------------------------------------------------------------------
\* What the callbacks of im/example.c call: im_show draws each window where the
\* cursor was last reported to be, im_deactive empties them.
im_show(c) ==
    [i \in 1 .. 2 * NR_IM_WINS |-> LET w == (i + 1) \div 2
                                   IN  IF i % 2 = 1 THEN set_im_window(w, c)
                                                    ELSE fill_rect(w, c)]
im_deactive == [w \in Wins |-> set_im_window(w, NoRect)]

\* process_message: the calls that a message leads to, those of the callback
\* first.
Response(m) ==
    IF m.type = "Active"         THEN <<>>
    ELSE IF m.type = "Deactive"  THEN Append(im_deactive, Call("deactivated"))
    ELSE IF m.type = "HideUI"    THEN <<Call("AckHideUI")>>
    ELSE IF m.type = "ShowUI" /\ im.im_active         THEN im_show(im.cursor)
    ELSE IF m.type = "CursorPosition" /\ im.im_active THEN im_show(m.cursor)
    ELSE <<>>

-----------------------------------------------------------------------------
\* connect_fbterm, before the loop around check_im_message.
connect_fbterm ==
    /\ im.pc = "started"
    /\ toFb' = Append(toFb, M("Connect"))
    /\ im' = [im EXCEPT !.pc = "reading"]
    /\ UNCHANGED toIM

\* check_im_message starts over: first what wait_message has put aside, then
\* the socket.
check_im_message ==
    /\ im.pc = "running" /\ im.calls = <<>> /\ im.batch = <<>>
    /\ im' = IF im.again \/ im.pending = <<>>
             THEN [im EXCEPT !.pc = "reading", !.again = FALSE]
             ELSE [im EXCEPT !.batch = im.pending, !.pending = <<>>,
                             !.again = TRUE]
    /\ UNCHANGED <<toIM, toFb>>

\* Its read: what has arrived by then.
read ==
    /\ im.pc = "reading"
    /\ \E n \in 1 .. Len(toIM) :
         /\ im' = [im EXCEPT !.pc = "running", !.batch = SubSeq(toIM, 1, n)]
         /\ toIM' = SubSeq(toIM, n + 1, Len(toIM))
    /\ UNCHANGED toFb

process_message ==
    /\ im.pc = "running" /\ im.calls = <<>> /\ im.batch # <<>>
    /\ LET m == Head(im.batch)
       IN  im' = [im EXCEPT
                    !.batch = Tail(@), !.calls = Response(m),
                    !.im_active = @ \/ m.type = "Active",
                    !.cursor = IF m.type = "CursorPosition" /\ im.im_active
                               THEN m.cursor ELSE @]
    /\ UNCHANGED <<toIM, toFb>>

\* The next call of the callback.
Calling(op) == im.pc = "running" /\ im.calls # <<>> /\ Head(im.calls).op = op
Called == [im EXCEPT !.calls = Tail(@)]

setImWindow ==
    /\ Calling("set_im_window")
    /\ IF im.im_active
       THEN /\ toFb' = Append(toFb, SetWin(Head(im.calls).winid, Head(im.calls).rect))
            /\ im' = [Called EXCEPT !.pc = "waiting"]
       ELSE im' = Called /\ UNCHANGED toFb
    /\ UNCHANGED toIM

fillRect ==
    /\ Calling("fill_rect")
    /\ toFb' = Append(toFb, FillRect(Head(im.calls).winid, Head(im.calls).rect))
    /\ im' = Called
    /\ UNCHANGED toIM

deactivated ==
    /\ Calling("deactivated")
    /\ im' = [Called EXCEPT !.im_active = FALSE]
    /\ UNCHANGED <<toIM, toFb>>

ackHideUI ==
    /\ Calling("AckHideUI")
    /\ toFb' = Append(toFb, M("AckHideUI"))
    /\ im' = Called
    /\ UNCHANGED toIM

\* mutant: FbTerm is not asked for a sign of life when messages are put aside
WakeUp_Never(aside) == toFb

\* After wait_message has put messages aside: have FbTerm send something, for
\* nobody may find a message in the socket for which check_im_message is due.
WakeUp(aside) == IF aside # <<>> THEN Append(toFb, M("Ping")) ELSE toFb

\* One read of wait_message(AckWin): all else that arrived is put aside.
wait_message ==
    /\ im.pc = "waiting"
    /\ \E n \in 1 .. Len(toIM) :
         LET got == SubSeq(toIM, 1, n)
             Ack(i) == got[i] = M("AckWin")
         IN  /\ toIM' = SubSeq(toIM, n + 1, Len(toIM))
             /\ \/ /\ \A i \in 1 .. n : ~Ack(i)
                   /\ im' = [im EXCEPT !.pending = @ \o got]
                   /\ UNCHANGED toFb
                \/ \E k \in 1 .. n :
                     /\ Ack(k) /\ \A i \in 1 .. k - 1 : ~Ack(i)
                     /\ im' = [im EXCEPT !.pending = @ \o RemoveAt(got, k),
                                         !.pc = "running"]
                     /\ toFb' = WakeUp(im.pending \o RemoveAt(got, k))

\* The server exits or crashes.
Exit ==
    /\ im.pc \notin {"none", "dead"}
    /\ im' = Blank("dead")
    /\ UNCHANGED <<toIM, toFb>>

Server ==
    \/ connect_fbterm \/ check_im_message \/ read \/ process_message
    \/ setImWindow \/ fillRect \/ deactivated \/ ackHideUI \/ wait_message
=============================================================================
