------------------------------- MODULE ImProxy ------------------------------
(* ImProxy (improxy.cpp): FbTerm's end of the connection to the input method *)
(* of one window, with the part of FbShell and FbShellManager that drives    *)
(* it.  Every operation of the main loop is one step, except that one which  *)
(* waits for a message (waitImMessage) is cut where it waits: meanwhile      *)
(* nothing is handled but the messages of this connection.                   *)
EXTENDS ImMessage

CONSTANTS NR_WIN_MSGS,  \* drawing messages kept for a window
          Timeouts      \* the server may be slower than waitImMessage waits

ASSUME WinMsgsAssumption == NR_WIN_MSGS \in Nat

VARIABLES proxy,          \* the window's mImProxy, .there = FALSE when it is 0
          active,         \* the window is the manager's active one
          mScrollEnable,  \* Screen: pixels may be moved
          mRawMode,       \* TtyInput: keys are read as key codes
          mCursor         \* FbShell: where the text cursor is

proxyVars == <<proxy, active, mScrollEnable, mRawMode, mCursor>>

NoProxy == [there |-> FALSE, mConnected |-> FALSE, mActive |-> FALSE,
            mMsgWaitState |-> "NoMessageToWait", mMsgWaitType |-> "Connect",
            mWins |-> [w \in Wins |-> NoRect], mValidWinNum |-> 0,
            mWinMsgs |-> [w \in Wins |-> 0]]

ProxyState ==
    [there: BOOLEAN, mConnected: BOOLEAN, mActive: BOOLEAN,
     mMsgWaitState: {"NoMessageToWait", "WaitingMessage", "GotMessage"},
     mMsgWaitType: {"Connect", "AckHideUI"},
     mWins: [Wins -> Rects], mValidWinNum: Nat,
     mWinMsgs: [Wins -> 0 .. NR_WIN_MSGS]]

ProxyTypeOK ==
    /\ proxy \in ProxyState
    /\ active \in BOOLEAN /\ mScrollEnable \in BOOLEAN /\ mRawMode \in BOOLEAN
    /\ mCursor \in Cursors

ProxyInit ==
    /\ proxy = NoProxy /\ active = TRUE
    /\ mScrollEnable = TRUE /\ mRawMode = FALSE
    /\ mCursor \in Cursors

Waiting == proxy.mMsgWaitState # "NoMessageToWait"

\* The windows that addWinMsg and redrawImWin get to: they stop after
\* mValidWinNum of them.
Shown(p) == {w \in Wins : p.mWins[w] # NoRect}
Visited(p) ==
    {w \in Shown(p) : Cardinality({v \in Shown(p) : v < w}) < p.mValidWinNum}

-----------------------------------------------------------------------------
waitImMessage(p, type) ==
    [p EXCEPT !.mMsgWaitState = "WaitingMessage", !.mMsgWaitType = type]

toggleActive(p) == [p EXCEPT !.mActive = p.mConnected /\ ~@]

\* what toggleActive and then reportCursor send
ToggleMessages(p) ==
    IF ~p.mConnected THEN <<>>
    ELSE IF p.mActive THEN <<M("Deactive")>>
    ELSE <<M("Active"), CursorPosition(mCursor)>>

\* mutant: a window that moves is counted out and not in again
setImWin_NotCountedIn(p, w, rect) ==
    LET moves == active /\ p.mWins[w] \notin {NoRect, rect}
        adds  == p.mWins[w] = NoRect /\ rect # NoRect
    IN  [p EXCEPT !.mWins[w] = rect, !.mWinMsgs[w] = 0,
                  !.mValidWinNum = IF moves THEN @ - 1 ELSE IF adds THEN @ + 1 ELSE @]

\* mutant: the window of an inactive shell is not recorded
setImWin_WhenActive(p, w, rect) ==
    IF active /\ rect # NoRect
    THEN [p EXCEPT !.mWins[w] = rect, !.mWinMsgs[w] = 0,
                   !.mValidWinNum = IF p.mWins[w] = NoRect THEN @ + 1 ELSE @]
    ELSE p

\* setImWin: take the window away from its old place, repaint that (expose),
\* and put it to the new one with nothing drawn on it yet.
TakeAway(p, w) == [p EXCEPT !.mWins[w] = NoRect, !.mValidWinNum = @ - 1]

PutTo(p, w, rect) ==
    [p EXCEPT !.mWins[w] = rect, !.mWinMsgs[w] = 0,
              !.mValidWinNum = IF w \notin Shown(p) /\ rect # NoRect
                               THEN @ + 1 ELSE @]

setImWin(p, w, rect) ==
    PutTo(IF active /\ p.mWins[w] \notin {NoRect, rect} THEN TakeAway(p, w) ELSE p,
          w, rect)

\* mutant: only what is drawn at once is kept
addWinMsg_WhenDrawn(p, w, rect) ==
    IF active /\ w \in Visited(p) /\ p.mWins[w] = rect /\ p.mWinMsgs[w] < NR_WIN_MSGS
    THEN [p EXCEPT !.mWinMsgs[w] = @ + 1] ELSE p

\* addWinMsg: keep the drawing with the window it is in, for redrawImWin.
addWinMsg(p, w, rect) ==
    IF w \in Visited(p) /\ p.mWins[w] = rect /\ p.mWinMsgs[w] < NR_WIN_MSGS
    THEN [p EXCEPT !.mWinMsgs[w] = @ + 1] ELSE p

-----------------------------------------------------------------------------
\* readyRead: one message of what was read.  GotMessage ends waitImMessage
\* after the rest of the batch.
Received(type) ==
    /\ proxy.there /\ toFb # <<>> /\ Head(toFb).type = type
    /\ toFb' = Tail(toFb)

\* The proxy after the check for the awaited message.
Noted ==
    IF proxy.mMsgWaitState = "WaitingMessage"
         /\ proxy.mMsgWaitType = Head(toFb).type
    THEN [proxy EXCEPT !.mMsgWaitState = "GotMessage"] ELSE proxy

OnConnect ==
    /\ Received("Connect")
    /\ proxy' = [Noted EXCEPT !.mConnected = TRUE]
    /\ toIM' = Append(toIM, M("FbTermInfo"))
    /\ UNCHANGED <<active, mScrollEnable, mRawMode, mCursor>>

OnAckHideUI ==
    /\ Received("AckHideUI")
    /\ proxy' = Noted
    /\ UNCHANGED <<active, mScrollEnable, mRawMode, mCursor, toIM>>

OnPing ==
    /\ Received("Ping")
    /\ toIM' = Append(toIM, M("AckPing"))
    /\ UNCHANGED proxyVars

\* mutant: a window that is not shown is not acknowledged
OnSetWin_AckWhenActive ==
    /\ Received("SetWin")
    /\ proxy' = setImWin(proxy, Head(toFb).winid, Head(toFb).rect)
    /\ mScrollEnable' = IF active THEN proxy'.mValidWinNum = 0 ELSE mScrollEnable
    /\ toIM' = IF active THEN Append(toIM, M("AckWin")) ELSE toIM
    /\ UNCHANGED <<active, mRawMode, mCursor>>

OnSetWin ==
    /\ Received("SetWin")
    /\ proxy' = setImWin(proxy, Head(toFb).winid, Head(toFb).rect)
    /\ mScrollEnable' = IF active THEN proxy'.mValidWinNum = 0 ELSE mScrollEnable
    /\ toIM' = Append(toIM, M("AckWin"))
    /\ UNCHANGED <<active, mRawMode, mCursor>>

OnFillRect ==
    /\ Received("FillRect")
    /\ proxy' = addWinMsg(proxy, Head(toFb).winid, Head(toFb).rect)
    /\ UNCHANGED <<active, mScrollEnable, mRawMode, mCursor, toIM>>

readyRead == OnConnect \/ OnAckHideUI \/ OnPing \/ OnSetWin \/ OnFillRect

-----------------------------------------------------------------------------
\* toggleIm (Ctrl+Space) with a proxy that is there already.
toggleIm ==
    /\ active /\ proxy.there /\ ~Waiting
    /\ proxy' = toggleActive(proxy)
    /\ mRawMode' = (proxy'.mConnected /\ proxy'.mActive)
    /\ toIM' = toIM \o ToggleMessages(proxy)
    /\ UNCHANGED <<active, mScrollEnable, mCursor, toFb>>

\* drawCursor, after output of the program: tells only where it is active.
drawCursor ==
    /\ ~Waiting
    /\ \E c \in Cursors \ {mCursor} :
         /\ mCursor' = c
         /\ toIM' = IF active /\ proxy.mConnected /\ proxy.mActive
                    THEN Append(toIM, CursorPosition(c)) ELSE toIM
    /\ UNCHANGED <<proxy, active, mScrollEnable, mRawMode, toFb>>

\* The manager makes another window active, or none (switchVt(false)).
leave ==
    /\ active /\ ~Waiting
    /\ IF proxy.mConnected /\ proxy.mActive
       THEN /\ proxy' = waitImMessage(proxy, "AckHideUI")
            /\ mRawMode' = FALSE
            /\ toIM' = Append(toIM, M("HideUI"))
            /\ UNCHANGED active
       ELSE /\ active' = FALSE
            /\ UNCHANGED <<proxy, mRawMode, toIM>>
    /\ UNCHANGED <<mScrollEnable, mCursor, toFb>>

\* The manager makes this window active (switchVt(true), reportCursor).
enter ==
    /\ ~active /\ ~Waiting
    /\ active' = TRUE
    /\ IF proxy.mConnected /\ proxy.mActive
       THEN /\ mRawMode' = TRUE
            /\ toIM' = toIM \o <<M("ShowUI"), CursorPosition(mCursor)>>
       ELSE UNCHANGED <<mRawMode, toIM>>
    /\ UNCHANGED <<proxy, mScrollEnable, mCursor, toFb>>

\* waitImMessage returns: the awaited message came, the connection broke
\* (ioError), or two seconds have passed.  What its caller does then.
Returned ==
    /\ Waiting
    /\ proxy.mMsgWaitState = "GotMessage" \/ Timeouts

connected ==
    LET p == [proxy EXCEPT !.mMsgWaitState = "NoMessageToWait"]
    IN  /\ Returned /\ proxy.mMsgWaitType = "Connect"
        /\ proxy' = toggleActive(p)
        /\ mRawMode' = (proxy'.mConnected /\ proxy'.mActive)
        /\ toIM' = toIM \o ToggleMessages(p)
        /\ UNCHANGED <<active, mScrollEnable, mCursor, toFb>>

hidden ==
    /\ Returned /\ proxy.mMsgWaitType = "AckHideUI"
    /\ proxy' = [proxy EXCEPT !.mMsgWaitState = "NoMessageToWait"]
    /\ mScrollEnable' = TRUE
    /\ active' = FALSE
    /\ UNCHANGED <<mRawMode, mCursor, toIM, toFb>>

\* mutant: the keyboard stays as the server wanted it
destroyed_KeepsRawMode ==
    LET gone == Cardinality(Shown(proxy))
    IN  /\ proxy' = NoProxy
        /\ mScrollEnable' = IF active /\ gone > 0
                            THEN proxy.mValidWinNum = gone ELSE mScrollEnable
        /\ UNCHANGED mRawMode

\* ~ImProxy: the keyboard is FbTerm's again, the windows vanish one by one.
destroyed ==
    LET gone == Cardinality(Shown(proxy))
    IN  /\ proxy' = NoProxy
        /\ mScrollEnable' = IF active /\ gone > 0
                            THEN proxy.mValidWinNum = gone ELSE mScrollEnable
        /\ mRawMode' = IF active /\ proxy.mConnected THEN FALSE ELSE mRawMode
=============================================================================
