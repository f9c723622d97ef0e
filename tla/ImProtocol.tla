----------------------------- MODULE ImProtocol -----------------------------
(* The input method of one window: ImProxy in FbTerm and the server process, *)
(* joined by a socket pair, with FbTerm starting, killing and surviving it.  *)
(* FbTerm goes on as soon as something has to be handled; the server is as   *)
(* slow as it likes, and with Timeouts slower than FbTerm waits.             *)
EXTENDS ImProxy, ImApi

CONSTANTS Crashes,   \* the server may exit by itself
          MaxUnread, \* bound: nobody acts with more messages unhandled
          MaxValid   \* bound: nor when mValidWinNum has grown so far

vars == <<proxyVars, im, toIM, toFb>>

ImTypeOK ==
    /\ ProxyTypeOK /\ im \in ServerState
    /\ toIM \in Seq(ToIM) /\ toFb \in Seq(ToFb)

Init ==
    /\ ProxyInit
    /\ im = NoServer
    /\ toIM = <<>> /\ toFb = <<>>

-----------------------------------------------------------------------------
\* toggleIm (Ctrl+Space) without a proxy: fork the server, wait for Connect.
createImProcess ==
    /\ active /\ ~proxy.there
    /\ proxy' = waitImMessage([proxy EXCEPT !.there = TRUE], "Connect")
    /\ im' = Blank("started")
    /\ UNCHANGED <<active, mScrollEnable, mRawMode, mCursor, toIM, toFb>>

\* The server's end is closed and everything it sent is read: ready() finds
\* the end of the file, ioError ends the wait.
ioError ==
    /\ proxy.there /\ im.pc = "dead" /\ toFb = <<>>
    /\ proxy.mMsgWaitState = "WaitingMessage"
    /\ proxy' = [proxy EXCEPT !.mMsgWaitState = "GotMessage"]
    /\ UNCHANGED <<active, mScrollEnable, mRawMode, mCursor, im, toIM, toFb>>

\* ~ImProxy: the connection is closed, a server that still runs is ended or
\* ends at the end of the file.
Delete ==
    /\ proxy.there /\ ~Waiting
    /\ destroyed
    /\ im' = NoServer
    /\ toIM' = <<>> /\ toFb' = <<>>
    /\ UNCHANGED <<active, mCursor>>

\* killIm (Ctrl+Alt+K).
killIm == active /\ Delete

\* childProcessExited, or the hang-up of the connection, whichever is handled
\* first: what the server sent may be lost.
serverGone == im.pc = "dead" /\ Delete

-----------------------------------------------------------------------------
Room == /\ Len(toIM) + Len(toFb) + Len(im.pending) + Len(im.batch) < MaxUnread
        /\ proxy.mValidWinNum < MaxValid

User == /\ Room
        /\ toggleIm \/ drawCursor \/ leave \/ enter
        /\ UNCHANGED im

Answer == (readyRead \/ connected \/ hidden) /\ UNCHANGED im

Next ==
    \/ User
    \/ createImProcess \/ killIm
    \/ Answer \/ ioError \/ serverGone
    \/ Server /\ UNCHANGED proxyVars
    \/ Crashes /\ Exit /\ UNCHANGED proxyVars

Spec == Init /\ [][Next]_vars

\* The main loop comes back to every connection that has something to read,
\* and a wait reads its own; the server, in the end, does what it does next.
\* Nothing makes a wait time out: what is shown to end ends by an answer.
Fairness ==
    /\ WF_vars(readyRead /\ UNCHANGED im)
    /\ WF_vars((proxy.mMsgWaitState = "GotMessage" /\ (connected \/ hidden))
                 /\ UNCHANGED im)
    /\ WF_vars(ioError)
    /\ WF_vars(serverGone)
    /\ WF_vars(Server /\ UNCHANGED proxyVars)

FairSpec == Spec /\ Fairness

-----------------------------------------------------------------------------
(* Properties *)

\* immessage.h: a server sends SetWin, "and waits FbTerm to response a AckWin
\* message. Now IM server can begin to draw".  When it draws, FbTerm has the
\* window where it is drawn, whatever became of the shell in the meantime.
DrawsInOwnWindow ==
    Calling("fill_rect") /\ im.im_active
        => proxy.mWins[Head(im.calls).winid] = Head(im.calls).rect

\* Every window on the screen is repainted and found for new drawings: those
\* loops count the windows with mValidWinNum, which may be too large but never
\* too small.
RedrawsEveryWindow == Visited(proxy) = Shown(proxy)

\* A drawing that reaches the window it is made for is kept for repainting,
\* as long as there is room.
DrawingsAreKept ==
    [][OnFillRect /\ proxy.mConnected
         => LET w == Head(toFb).winid
            IN  proxy'.mWinMsgs[w] = proxy.mWinMsgs[w] + 1
                  \/ proxy.mWinMsgs[w] = NR_WIN_MSGS]_vars

\* The keyboard is in raw mode exactly while the server of the window on the
\* screen is to get the keys: not after the server was killed or died, not
\* while another window or console is shown, nor while FbTerm waits for it.
RawModeFollowsServer ==
    mRawMode = (active /\ proxy.mConnected /\ proxy.mActive /\ ~Waiting)

\* FbTerm waits for AckHideUI while the server may wait for AckWin: FbTerm is
\* answered without running into its timeout.
HideIsAnswered ==
    proxy.mMsgWaitState = "WaitingMessage" ~> proxy.mMsgWaitState # "WaitingMessage"

\* set_im_window returns, also when FbTerm is waiting, shows another window,
\* or kills the server.
SetWindowReturns == im.pc = "waiting" ~> im.pc # "waiting"

\* immessage.h: FbTerm "sends a HideUI message to IM server, then waits for a
\* AckHideUI message responsed from IM server before switching".  While the
\* window of an active input method is left, the server draws nothing.
HiddenDrawsNothing ==
    Calling("fill_rect") /\ im.im_active /\ proxy.mActive => active
=============================================================================
