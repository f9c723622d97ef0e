-------------------------- MODULE ImProtocolProofs --------------------------
(* What holds of ImProtocol for any number of windows, kept drawings and     *)
(* cursor positions, any number of unread messages, with and without         *)
(* timeouts and crashes.  RedrawsEveryWindow is not inductive: that the      *)
(* loops get to every window follows from the count being large enough,      *)
(* CountedIn, which setImWin keeps because it counts a window out only after   *)
(* it was there.  RawModeFollowsServer needs Standing: an answer of a killed *)
(* or leaving window cannot make its input method active.                    *)
EXTENDS ImProtocol, FiniteSetTheorems, TLAPS

CountedIn(p) == Cardinality(Shown(p)) <= p.mValidWinNum

\* An input method that is active has connected, FbTerm waits for it only in
\* the window on the screen, and without a proxy there is no state of one.
Standing ==
    /\ proxy.mActive => proxy.mConnected
    /\ Waiting => active
    /\ ~proxy.there => proxy = NoProxy

ProxyOK  == ProxyTypeOK /\ CountedIn(proxy) /\ Standing /\ RawModeFollowsServer
ServerOK == im \in ServerState /\ toIM \in Seq(ToIM) /\ toFb \in Seq(ToFb)

Inv == ProxyOK /\ ServerOK

-----------------------------------------------------------------------------
(* Windows *)

\* The windows are finitely many, and so are those that are shown.
LEMMA ShownIsFinite ==
    ASSUME NEW p
    PROVE  IsFiniteSet(Shown(p)) /\ Cardinality(Shown(p)) \in Nat
<1>1. IsFiniteSet(Wins)
    BY FS_Interval, MessageAssumption DEF Wins
<1>2. Shown(p) \subseteq Wins
    BY DEF Shown
<1> QED BY <1>1, <1>2, FS_Subset, FS_CardinalityType

\* A loop that counts at least as many windows as there are gets to all.
LEMMA VisitedAll ==
    ASSUME NEW p \in ProxyState, CountedIn(p)
    PROVE  Visited(p) = Shown(p)
<1> SUFFICES ASSUME NEW w \in Shown(p)
             PROVE  Cardinality({v \in Shown(p) : v < w}) < p.mValidWinNum
    BY DEF Visited
<1> DEFINE Before == {v \in Shown(p) : v < w}
<1>1. Before \subseteq Shown(p) \ {w}
    BY MessageAssumption DEF Shown, Wins
<1>2. IsFiniteSet(Shown(p)) /\ Cardinality(Shown(p)) \in Nat
    BY ShownIsFinite
<1>3. /\ IsFiniteSet(Shown(p) \ {w})
      /\ Cardinality(Shown(p) \ {w}) = Cardinality(Shown(p)) - 1
    BY <1>2, FS_RemoveElement
<1>4. /\ IsFiniteSet(Before)
      /\ Cardinality(Before) <= Cardinality(Shown(p) \ {w})
    BY <1>1, <1>3, FS_Subset
<1>5. Cardinality(Before) \in Nat
    BY <1>4, FS_CardinalityType
<1>6. p.mValidWinNum \in Nat
    BY DEF ProxyState
<1> HIDE DEF Before
<1>7. Cardinality(Before) < p.mValidWinNum
    BY <1>2, <1>3, <1>4, <1>5, <1>6 DEF CountedIn
<1> QED BY <1>7 DEF Before

\* A record of the proxy is the record of its fields.
LEMMA ProxyFields ==
    ASSUME NEW p \in ProxyState
    PROVE  /\ p = [there |-> p.there, mConnected |-> p.mConnected,
                   mActive |-> p.mActive, mMsgWaitState |-> p.mMsgWaitState,
                   mMsgWaitType |-> p.mMsgWaitType, mWins |-> p.mWins,
                   mValidWinNum |-> p.mValidWinNum, mWinMsgs |-> p.mWinMsgs]
           /\ p.there \in BOOLEAN /\ p.mConnected \in BOOLEAN
           /\ p.mActive \in BOOLEAN
           /\ p.mMsgWaitState \in {"NoMessageToWait", "WaitingMessage", "GotMessage"}
           /\ p.mMsgWaitType \in {"Connect", "AckHideUI"}
           /\ p.mWins \in [Wins -> Rects] /\ p.mValidWinNum \in Nat
           /\ p.mWinMsgs \in [Wins -> 0 .. NR_WIN_MSGS]
BY DEF ProxyState

\* The fields that a window is put and taken away in; the others stay.
SameConnection(q, p) ==
    /\ q.there = p.there /\ q.mConnected = p.mConnected
    /\ q.mActive = p.mActive /\ q.mMsgWaitState = p.mMsgWaitState
    /\ q.mMsgWaitType = p.mMsgWaitType

\* Taking a window away that is there: one window less, and counted out.
LEMMA TakeAwayOK ==
    ASSUME NEW p \in ProxyState, CountedIn(p), NEW w \in Shown(p)
    PROVE  LET q == TakeAway(p, w)
           IN  q \in ProxyState /\ CountedIn(q) /\ SameConnection(q, p)
<1> DEFINE q == TakeAway(p, w)
<1>1. w \in Wins /\ NoRect \in Rects
    BY DEF Shown, Rects
<1>2. /\ q = [p EXCEPT !.mWins = [p.mWins EXCEPT ![w] = NoRect],
                       !.mValidWinNum = p.mValidWinNum - 1]
    BY DEF TakeAway
<1>3. /\ q = [there |-> p.there, mConnected |-> p.mConnected,
              mActive |-> p.mActive, mMsgWaitState |-> p.mMsgWaitState,
              mMsgWaitType |-> p.mMsgWaitType,
              mWins |-> [p.mWins EXCEPT ![w] = NoRect],
              mValidWinNum |-> p.mValidWinNum - 1, mWinMsgs |-> p.mWinMsgs]
    BY <1>2, ProxyFields
<1> HIDE DEF q
<1>4. Shown(q) = Shown(p) \ {w}
    BY <1>1, <1>3, ProxyFields DEF Shown
<1>5. /\ Cardinality(Shown(q)) = Cardinality(Shown(p)) - 1
      /\ Cardinality(Shown(p)) \in Nat /\ Cardinality(Shown(q)) \in Nat
    BY <1>4, ShownIsFinite, FS_RemoveElement
<1>6. p.mValidWinNum - 1 \in Nat /\ CountedIn(q)
    BY <1>3, <1>5, ProxyFields DEF CountedIn
<1>7. [p.mWins EXCEPT ![w] = NoRect] \in [Wins -> Rects]
    BY <1>1, ProxyFields
<1>8. q \in ProxyState
    BY <1>3, <1>6, <1>7, ProxyFields DEF ProxyState
<1>9. SameConnection(q, p)
    BY <1>3 DEF SameConnection
<1> QED BY <1>6, <1>8, <1>9 DEF q

\* Putting a window somewhere, or nowhere: one more at most, and then counted.
LEMMA PutToOK ==
    ASSUME NEW p \in ProxyState, CountedIn(p), NEW w \in Wins, NEW r \in Rects
    PROVE  LET q == PutTo(p, w, r)
           IN  q \in ProxyState /\ CountedIn(q) /\ SameConnection(q, p)
<1> DEFINE q   == PutTo(p, w, r)
           num == IF w \notin Shown(p) /\ r # NoRect
                  THEN p.mValidWinNum + 1 ELSE p.mValidWinNum
<1>1. q = [p EXCEPT !.mWins = [p.mWins EXCEPT ![w] = r],
                    !.mWinMsgs = [p.mWinMsgs EXCEPT ![w] = 0],
                    !.mValidWinNum = num]
    BY DEF PutTo
<1> HIDE DEF num
<1>2. /\ q = [there |-> p.there, mConnected |-> p.mConnected,
              mActive |-> p.mActive, mMsgWaitState |-> p.mMsgWaitState,
              mMsgWaitType |-> p.mMsgWaitType,
              mWins |-> [p.mWins EXCEPT ![w] = r],
              mValidWinNum |-> num,
              mWinMsgs |-> [p.mWinMsgs EXCEPT ![w] = 0]]
    BY <1>1, ProxyFields
<1> HIDE DEF q
<1>3. Shown(q) = IF r = NoRect THEN Shown(p) \ {w} ELSE Shown(p) \cup {w}
    BY <1>2, ProxyFields DEF Shown
<1>4. IsFiniteSet(Shown(p)) /\ Cardinality(Shown(p)) \in Nat
    BY ShownIsFinite
<1>5. num \in Nat /\ CountedIn(q)
    <2>1. CASE w \notin Shown(p) /\ r # NoRect
        <3>1. Cardinality(Shown(q)) = Cardinality(Shown(p)) + 1
            BY <2>1, <1>3, <1>4, FS_AddElement
        <3> QED BY <2>1, <3>1, <1>2, <1>4, ProxyFields DEF CountedIn, num
    <2>2. CASE ~(w \notin Shown(p) /\ r # NoRect)
        <3>1. Shown(q) \subseteq Shown(p)
            BY <2>2, <1>3
        <3>2. /\ Cardinality(Shown(q)) <= Cardinality(Shown(p))
              /\ Cardinality(Shown(q)) \in Nat
            BY <3>1, <1>4, FS_Subset, ShownIsFinite
        <3> QED BY <2>2, <3>2, <1>2, <1>4, ProxyFields DEF CountedIn, num
    <2> QED BY <2>1, <2>2
<1>6. /\ [p.mWins EXCEPT ![w] = r] \in [Wins -> Rects]
      /\ [p.mWinMsgs EXCEPT ![w] = 0] \in [Wins -> 0 .. NR_WIN_MSGS]
    BY ProxyFields, WinMsgsAssumption
<1>7. q \in ProxyState
    BY <1>2, <1>5, <1>6, ProxyFields DEF ProxyState
<1>8. SameConnection(q, p)
    BY <1>2 DEF SameConnection
<1> QED BY <1>5, <1>7, <1>8 DEF q

\* setImWin keeps the proxy a proxy and the count large enough, and touches
\* nothing that concerns the connection.
LEMMA SetImWinOK ==
    ASSUME NEW p \in ProxyState, CountedIn(p), NEW w \in Wins, NEW r \in Rects
    PROVE  LET q == setImWin(p, w, r)
           IN  q \in ProxyState /\ CountedIn(q) /\ SameConnection(q, p)
<1>1. CASE active /\ p.mWins[w] \notin {NoRect, r}
    <2>1. w \in Shown(p)
        BY <1>1 DEF Shown
    <2>2. /\ TakeAway(p, w) \in ProxyState /\ CountedIn(TakeAway(p, w))
          /\ SameConnection(TakeAway(p, w), p)
        BY <2>1, TakeAwayOK
    <2>3. setImWin(p, w, r) = PutTo(TakeAway(p, w), w, r)
        BY <1>1 DEF setImWin
    <2>4. /\ setImWin(p, w, r) \in ProxyState /\ CountedIn(setImWin(p, w, r))
          /\ SameConnection(setImWin(p, w, r), TakeAway(p, w))
        BY <2>2, <2>3, PutToOK
    <2> QED BY <2>2, <2>4 DEF SameConnection
<1>2. CASE ~(active /\ p.mWins[w] \notin {NoRect, r})
    <2>1. setImWin(p, w, r) = PutTo(p, w, r)
        BY <1>2 DEF setImWin
    <2> QED BY <2>1, PutToOK
<1> QED BY <1>1, <1>2

\* A drawing that is kept changes nothing but the window's messages.
LEMMA AddWinMsgOK ==
    ASSUME NEW p \in ProxyState, CountedIn(p), NEW w, NEW r
    PROVE  LET q == addWinMsg(p, w, r)
           IN  q \in ProxyState /\ CountedIn(q) /\ SameConnection(q, p)
<1> DEFINE q == addWinMsg(p, w, r)
<1>1. CASE w \in Visited(p) /\ p.mWins[w] = r /\ p.mWinMsgs[w] < NR_WIN_MSGS
    <2>1. q = [p EXCEPT !.mWinMsgs = [p.mWinMsgs EXCEPT ![w] = p.mWinMsgs[w] + 1]]
        BY <1>1 DEF addWinMsg
    <2>2. w \in Wins
        BY <1>1 DEF Visited, Shown
    <2>3. [p.mWinMsgs EXCEPT ![w] = p.mWinMsgs[w] + 1] \in [Wins -> 0 .. NR_WIN_MSGS]
        BY <1>1, <2>2, ProxyFields, WinMsgsAssumption
    <2>4. q = [there |-> p.there, mConnected |-> p.mConnected,
               mActive |-> p.mActive, mMsgWaitState |-> p.mMsgWaitState,
               mMsgWaitType |-> p.mMsgWaitType, mWins |-> p.mWins,
               mValidWinNum |-> p.mValidWinNum,
               mWinMsgs |-> [p.mWinMsgs EXCEPT ![w] = p.mWinMsgs[w] + 1]]
        BY <2>1, ProxyFields
    <2> HIDE DEF q
    <2>5. q \in ProxyState
        BY <2>3, <2>4, ProxyFields DEF ProxyState
    <2>6. CountedIn(q)
        BY <2>4 DEF CountedIn, Shown
    <2>7. SameConnection(q, p)
        BY <2>4 DEF SameConnection
    <2> QED BY <2>5, <2>6, <2>7 DEF q
<1>2. CASE ~(w \in Visited(p) /\ p.mWins[w] = r /\ p.mWinMsgs[w] < NR_WIN_MSGS)
    BY <1>2 DEF addWinMsg, SameConnection
<1> QED BY <1>1, <1>2

-----------------------------------------------------------------------------
(* Messages *)

\* A SetWin carries a window and where it is put.
LEMMA SetWinFields ==
    ASSUME NEW m \in ToFb, m.type = "SetWin"
    PROVE  m.winid \in Wins /\ m.rect \in Rects
BY DEF ToFb, M, SetWin, FillRect

\* What FbTerm and the server send is of the types that the sockets carry.
LEMMA MessageTypes ==
    /\ \A t \in {"FbTermInfo", "Active", "Deactive", "ShowUI", "HideUI",
                 "AckWin", "AckPing"} : M(t) \in ToIM
    /\ \A c \in Cursors : CursorPosition(c) \in ToIM
    /\ \A t \in {"Connect", "AckHideUI", "Ping"} : M(t) \in ToFb
    /\ \A w \in Wins, r \in Rects : SetWin(w, r) \in ToFb
    /\ \A w \in Wins, c \in Cursors : FillRect(w, c) \in ToFb
BY DEF ToIM, ToFb

\* The calls carry what their messages need.
LEMMA CallFields ==
    ASSUME NEW x \in Calls
    PROVE  /\ x.op = "set_im_window" => x.winid \in Wins /\ x.rect \in Rects
           /\ x.op = "fill_rect" => x.winid \in Wins /\ x.rect \in Cursors
BY DEF Calls, Call, set_im_window, fill_rect

\* A server that is not there, has started or has exited is a server's state.
LEMMA BlankOK ==
    ASSUME NEW s \in {"none", "started", "dead"}
    PROVE  Blank(s) \in ServerState
<1>1. Origin \in Cursors
    BY MessageAssumption DEF Origin
<1>2. <<>> \in Seq(ToIM) /\ <<>> \in Seq(Calls)
    OBVIOUS
<1> QED BY <1>1, <1>2 DEF Blank, ServerState

\* What a message makes the server do is a sequence of calls.
LEMMA ResponseOK ==
    ASSUME NEW m \in ToIM, im \in ServerState
    PROVE  Response(m) \in Seq(Calls)
<1>1. ASSUME NEW c \in Cursors PROVE im_show(c) \in Seq(Calls)
    <2>1. ASSUME NEW i \in 1 .. 2 * NR_IM_WINS PROVE (i + 1) \div 2 \in Wins
        BY MessageAssumption DEF Wins
    <2>2. /\ \A w \in Wins : set_im_window(w, c) \in Calls
          /\ \A w \in Wins : fill_rect(w, c) \in Calls
        BY DEF Calls, Rects
    <2>3. im_show(c) \in [1 .. 2 * NR_IM_WINS -> Calls]
        BY <2>1, <2>2 DEF im_show
    <2>4. 2 * NR_IM_WINS \in Nat
        BY MessageAssumption
    <2> QED BY <2>3, <2>4
<1>2. im_deactive \in Seq(Calls)
    <2>1. \A w \in Wins : set_im_window(w, NoRect) \in Calls
        BY DEF Calls, Rects
    <2>2. im_deactive \in [1 .. NR_IM_WINS -> Calls]
        BY <2>1 DEF im_deactive, Wins
    <2> QED BY <2>2, MessageAssumption
<1>3. Call("deactivated") \in Calls /\ Call("AckHideUI") \in Calls
    BY DEF Calls
<1>4. m.type = "CursorPosition" => m.cursor \in Cursors
    BY DEF ToIM, M, CursorPosition
<1>5. im.cursor \in Cursors
    BY DEF ServerState
<1>6. Append(im_deactive, Call("deactivated")) \in Seq(Calls)
    BY <1>2, <1>3
<1>7. <<Call("AckHideUI")>> \in Seq(Calls)
    BY <1>3
<1> HIDE DEF im_show, im_deactive
<1> QED BY <1>1, <1>4, <1>5, <1>6, <1>7 DEF Response

-----------------------------------------------------------------------------
(* The server *)

\* The fields of a server.
LEMMA ServerFields ==
    ASSUME NEW s \in ServerState
    PROVE  /\ s.pc \in {"none", "started", "running", "reading", "waiting", "dead"}
           /\ s.im_active \in BOOLEAN /\ s.cursor \in Cursors
           /\ s.pending \in Seq(ToIM) /\ s.batch \in Seq(ToIM)
           /\ s.again \in BOOLEAN /\ s.calls \in Seq(Calls)
BY DEF ServerState

\* A sequence with one element less is a sequence of the same elements.
LEMMA RemoveAtOK ==
    ASSUME NEW S, NEW s \in Seq(S), NEW k \in 1 .. Len(s)
    PROVE  RemoveAt(s, k) \in Seq(S)
BY DEF RemoveAt

\* Whatever the server does, its state stays one, and what it sends and
\* leaves unread is messages.
LEMMA ServerStep ==
    ASSUME ServerOK, Server
    PROVE  ServerOK'
<1>0. im \in ServerState /\ toIM \in Seq(ToIM) /\ toFb \in Seq(ToFb)
    BY DEF ServerOK
<1>a. im.calls # <<>> =>
        Tail(im.calls) \in Seq(Calls) /\ Head(im.calls) \in Calls
    BY <1>0, ServerFields
<1>b. im.calls # <<>> => Called \in ServerState
    BY <1>0, <1>a DEF Called, ServerState
<1>1. CASE connect_fbterm
    <2>1. [im EXCEPT !.pc = "reading"] \in ServerState
        BY <1>0 DEF ServerState
    <2>2. M("Connect") \in ToFb
        BY MessageTypes
    <2>3. Append(toFb, M("Connect")) \in Seq(ToFb)
        BY <1>0, <2>2
    <2> QED BY <1>0, <1>1, <2>1, <2>3 DEF connect_fbterm, ServerOK
<1>2. CASE check_im_message
    <2>1. [im EXCEPT !.pc = "reading", !.again = FALSE] \in ServerState
        BY <1>0 DEF ServerState
    <2>2. [im EXCEPT !.batch = im.pending, !.pending = <<>>, !.again = TRUE]
            \in ServerState
        <3>1. [im EXCEPT !.batch = im.pending, !.again = TRUE] \in ServerState
            BY <1>0 DEF ServerState
        <3>2. ASSUME NEW s \in ServerState, NEW q \in Seq(ToIM)
              PROVE  [s EXCEPT !.pending = q] \in ServerState
            BY DEF ServerState
        <3>4. <<>> \in Seq(ToIM)
            OBVIOUS
        <3>3. [im EXCEPT !.batch = im.pending, !.pending = <<>>, !.again = TRUE]
                = [[im EXCEPT !.batch = im.pending, !.again = TRUE]
                     EXCEPT !.pending = <<>>]
            BY <1>0 DEF ServerState
        <3> QED BY <3>1, <3>2, <3>3, <3>4
    <2> QED BY <1>0, <1>2, <2>1, <2>2 DEF check_im_message, ServerOK
<1>3. CASE read
    <2>1. PICK n \in 1 .. Len(toIM) :
            /\ im' = [im EXCEPT !.pc = "running", !.batch = SubSeq(toIM, 1, n)]
            /\ toIM' = SubSeq(toIM, n + 1, Len(toIM))
        BY <1>3 DEF read
    <2>2. SubSeq(toIM, 1, n) \in Seq(ToIM)
        BY <1>0
    <2>3. toIM' \in Seq(ToIM)
        BY <1>0, <2>1
    <2>4. im' \in ServerState
        BY <1>0, <2>1, <2>2 DEF ServerState
    <2> QED BY <1>0, <1>3, <2>3, <2>4 DEF read, ServerOK
<1>4. CASE process_message
    <2> DEFINE m == Head(im.batch)
    <2>1. m \in ToIM /\ Tail(im.batch) \in Seq(ToIM)
        BY <1>0, <1>4, ServerFields DEF process_message
    <2>2. Response(m) \in Seq(Calls)
        BY <1>0, <2>1, ResponseOK
    <2>3. m.type = "CursorPosition" => m.cursor \in Cursors
        BY <2>1 DEF ToIM, M, CursorPosition
    <2> DEFINE act == im.im_active \/ m.type = "Active"
               cur == IF m.type = "CursorPosition" /\ im.im_active
                      THEN m.cursor ELSE im.cursor
    <2>4. act \in BOOLEAN /\ cur \in Cursors
        BY <1>0, <2>3, ServerFields
    <2>5. im' = [im EXCEPT !.batch = Tail(im.batch), !.calls = Response(m),
                           !.im_active = act, !.cursor = cur]
        BY <1>4 DEF process_message
    <2> HIDE DEF m, act, cur
    <2>6. im' \in ServerState
        BY <1>0, <2>1, <2>2, <2>4, <2>5 DEF ServerState, m
    <2> QED BY <1>0, <1>4, <2>6 DEF process_message, ServerOK
<1>5. CASE setImWindow
    <2>1. Head(im.calls).winid \in Wins /\ Head(im.calls).rect \in Rects
        BY <1>5, <1>a, CallFields DEF setImWindow, Calling
    <2>2. im.calls # <<>>
        BY <1>5 DEF setImWindow, Calling
    <2>3. [Called EXCEPT !.pc = "waiting"] \in ServerState
        BY <1>b, <2>2 DEF ServerState
    <2>4. CASE im.im_active
        <3>1. SetWin(Head(im.calls).winid, Head(im.calls).rect) \in ToFb
            BY <2>1, MessageTypes
        <3>2. toFb' \in Seq(ToFb)
            BY <1>0, <1>5, <2>4, <3>1 DEF setImWindow
        <3>3. im' \in ServerState /\ toIM' = toIM
            BY <1>5, <2>3, <2>4 DEF setImWindow
        <3> QED BY <1>0, <3>2, <3>3 DEF ServerOK
    <2>5. CASE ~im.im_active
        BY <1>0, <1>5, <1>b, <2>2, <2>5 DEF setImWindow, ServerOK
    <2> QED BY <2>4, <2>5
<1>6. CASE fillRect
    <2>1. im.calls # <<>>
        BY <1>6 DEF fillRect, Calling
    <2>2. Head(im.calls).winid \in Wins /\ Head(im.calls).rect \in Cursors
        BY <1>6, <1>a, CallFields DEF fillRect, Calling
    <2> QED BY <1>0, <1>6, <1>b, <2>1, <2>2, MessageTypes DEF fillRect, ServerOK
<1>7. CASE deactivated
    <2>1. im.calls # <<>>
        BY <1>7 DEF deactivated, Calling
    <2>2. [Called EXCEPT !.im_active = FALSE] \in ServerState
        BY <1>b, <2>1 DEF ServerState
    <2> QED BY <1>0, <1>7, <2>2 DEF deactivated, ServerOK
<1>8. CASE ackHideUI
    <2>1. im.calls # <<>>
        BY <1>8 DEF ackHideUI, Calling
    <2> QED BY <1>0, <1>8, <1>b, <2>1, MessageTypes DEF ackHideUI, ServerOK
<1>9. CASE wait_message
    <2>1. PICK n \in 1 .. Len(toIM) :
            LET got == SubSeq(toIM, 1, n)
                Ack(i) == got[i] = M("AckWin")
            IN  /\ toIM' = SubSeq(toIM, n + 1, Len(toIM))
                /\ \/ /\ \A i \in 1 .. n : ~Ack(i)
                      /\ im' = [im EXCEPT !.pending = @ \o got]
                      /\ UNCHANGED toFb
                   \/ \E k \in 1 .. n :
                        /\ Ack(k) /\ \A i \in 1 .. k - 1 : ~Ack(i)
                        /\ im' = [im EXCEPT !.pending = @ \o RemoveAt(got, k),
                                            !.pc = "running"]
                        /\ toFb' = WakeUp(im.pending \o RemoveAt(got, k))
        BY <1>9 DEF wait_message
    <2> DEFINE got == SubSeq(toIM, 1, n)
    <2>a. toIM' = SubSeq(toIM, n + 1, Len(toIM))
        BY <2>1
    <2>b. got \in Seq(ToIM) /\ Len(got) = n
        BY <1>0
    <2>c. toIM' \in Seq(ToIM)
        BY <1>0, <2>a
    <2>2. got \in Seq(ToIM) /\ Len(got) = n /\ toIM' \in Seq(ToIM)
        BY <2>b, <2>c
    <2> HIDE DEF got
    <2>3. CASE im' = [im EXCEPT !.pending = @ \o got] /\ UNCHANGED toFb
        <3>1. im.pending \o got \in Seq(ToIM)
            BY <1>0, <2>2, ServerFields
        <3>2. im' \in ServerState
            BY <1>0, <2>3, <3>1 DEF ServerState
        <3> QED BY <1>0, <2>2, <2>3, <3>2 DEF ServerOK
    <2>4. ASSUME NEW k \in 1 .. n,
                 im' = [im EXCEPT !.pending = @ \o RemoveAt(got, k),
                                  !.pc = "running"],
                 toFb' = WakeUp(im.pending \o RemoveAt(got, k))
          PROVE  ServerOK'
        <3>1. RemoveAt(got, k) \in Seq(ToIM)
            BY <2>2, RemoveAtOK
        <3> DEFINE aside == im.pending \o RemoveAt(got, k)
        <3>2. aside \in Seq(ToIM)
            BY <1>0, <3>1, ServerFields
        <3>3. im' = [im EXCEPT !.pending = aside, !.pc = "running"]
            BY <2>4
        <3> HIDE DEF aside
        <3>4. im' \in ServerState
            BY <1>0, <3>2, <3>3 DEF ServerState
        <3>5. toFb' \in Seq(ToFb)
            BY <1>0, <2>4, MessageTypes DEF WakeUp
        <3> QED BY <2>2, <3>4, <3>5 DEF ServerOK
    <2> QED BY <2>1, <2>3, <2>4 DEF got
<1> QED BY <1>1, <1>2, <1>3, <1>4, <1>5, <1>6, <1>7, <1>8, <1>9 DEF Server

-----------------------------------------------------------------------------
(* FbTerm *)

\* No proxy is a proxy, without windows.
LEMMA NoProxyOK ==
    NoProxy \in ProxyState /\ CountedIn(NoProxy)
<1>1. NoProxy \in ProxyState
    BY WinMsgsAssumption DEF NoProxy, ProxyState, Rects
<1>2. Shown(NoProxy) = {}
    BY DEF NoProxy, Shown
<1>3. Cardinality(Shown(NoProxy)) = 0
    BY <1>2, FS_EmptySet
<1>4. NoProxy.mValidWinNum = 0
    BY DEF NoProxy
<1> QED BY <1>1, <1>3, <1>4 DEF CountedIn

\* Changes of the fields that concern the connection.
LEMMA WaitOK ==
    ASSUME NEW p \in ProxyState, CountedIn(p),
           NEW s \in {"NoMessageToWait", "WaitingMessage", "GotMessage"},
           NEW t \in {"Connect", "AckHideUI"}
    PROVE  LET q == [p EXCEPT !.mMsgWaitState = s]
               r == [p EXCEPT !.mMsgWaitState = s, !.mMsgWaitType = t]
           IN  /\ q \in ProxyState /\ CountedIn(q)
               /\ r \in ProxyState /\ CountedIn(r)
BY DEF ProxyState, CountedIn, Shown

LEMMA ToggleOK ==
    ASSUME NEW p \in ProxyState, CountedIn(p), mCursor \in Cursors
    PROVE  /\ toggleActive(p) \in ProxyState /\ CountedIn(toggleActive(p))
           /\ toggleActive(p).mActive => toggleActive(p).mConnected
           /\ toggleActive(p).there = p.there
           /\ toggleActive(p).mConnected = p.mConnected
           /\ toggleActive(p).mMsgWaitState = p.mMsgWaitState
           /\ ToggleMessages(p) \in Seq(ToIM)
<1>1. toggleActive(p) = [p EXCEPT !.mActive = p.mConnected /\ ~p.mActive]
    BY DEF toggleActive
<1>2. (p.mConnected /\ ~p.mActive) \in BOOLEAN
    OBVIOUS
<1>3. /\ toggleActive(p) \in ProxyState
      /\ toggleActive(p).mActive = (p.mConnected /\ ~p.mActive)
      /\ toggleActive(p).there = p.there
      /\ toggleActive(p).mConnected = p.mConnected
      /\ toggleActive(p).mMsgWaitState = p.mMsgWaitState
      /\ toggleActive(p).mWins = p.mWins
      /\ toggleActive(p).mValidWinNum = p.mValidWinNum
    BY <1>1, <1>2 DEF ProxyState
<1>4. CountedIn(toggleActive(p))
    BY <1>3 DEF CountedIn, Shown
<1>5. ToggleMessages(p) \in Seq(ToIM)
    <2>1. M("Active") \in ToIM /\ M("Deactive") \in ToIM
        BY MessageTypes
    <2>2. CursorPosition(mCursor) \in ToIM
        BY MessageTypes
    <2> QED BY <2>1, <2>2 DEF ToggleMessages
<1> QED BY <1>3, <1>4, <1>5

\* What readyRead does with one message.
LEMMA ReadyReadStep ==
    ASSUME Inv, readyRead
    PROVE  ProxyOK' /\ toIM' \in Seq(ToIM) /\ toFb' \in Seq(ToFb)
<1>0. /\ proxy \in ProxyState /\ CountedIn(proxy)
      /\ active \in BOOLEAN /\ mScrollEnable \in BOOLEAN /\ mRawMode \in BOOLEAN
      /\ mCursor \in Cursors
      /\ toIM \in Seq(ToIM) /\ toFb \in Seq(ToFb)
    BY DEF Inv, ProxyOK, ProxyTypeOK, ServerOK
<1>1. PICK type : Received(type)
    BY DEF readyRead, OnConnect, OnAckHideUI, OnPing, OnSetWin, OnFillRect
<1>2. /\ proxy.there /\ toFb # <<>>
      /\ Head(toFb) \in ToFb /\ toFb' \in Seq(ToFb)
    BY <1>0, <1>1 DEF Received
<1>3. /\ Noted \in ProxyState /\ CountedIn(Noted)
      /\ Noted.there = proxy.there /\ Noted.mConnected = proxy.mConnected
      /\ Noted.mActive = proxy.mActive
      /\ Noted.mMsgWaitState # "NoMessageToWait" <=> Waiting
    BY <1>0 DEF Noted, ProxyState, CountedIn, Shown, Waiting
<1>4. CASE OnConnect
    <2>1. /\ proxy' = [Noted EXCEPT !.mConnected = TRUE]
          /\ toIM' = Append(toIM, M("FbTermInfo"))
          /\ UNCHANGED <<active, mScrollEnable, mRawMode, mCursor>>
        BY <1>4 DEF OnConnect
    <2>2. toIM' \in Seq(ToIM)
        BY <1>0, <2>1, MessageTypes
    <2>3. /\ proxy' \in ProxyState /\ CountedIn(proxy')
          /\ proxy'.there /\ proxy'.mConnected
          /\ proxy'.mActive = proxy.mActive
          /\ proxy'.mMsgWaitState # "NoMessageToWait" <=> Waiting
        BY <1>2, <1>3, <2>1 DEF ProxyState, CountedIn, Shown
    <2>4. Standing' /\ RawModeFollowsServer'
        BY <2>1, <2>3 DEF Inv, ProxyOK, Standing, RawModeFollowsServer, Waiting
    <2> QED BY <1>0, <1>2, <2>1, <2>2, <2>3, <2>4
            DEF ProxyOK, ProxyTypeOK, CountedIn, Shown
<1>5. CASE OnAckHideUI
    <2>1. /\ proxy' = Noted
          /\ UNCHANGED <<active, mScrollEnable, mRawMode, mCursor, toIM>>
        BY <1>5 DEF OnAckHideUI
    <2>2. Standing' /\ RawModeFollowsServer'
        BY <1>2, <1>3, <2>1 DEF Inv, ProxyOK, Standing, RawModeFollowsServer, Waiting
    <2> QED BY <1>0, <1>2, <1>3, <2>1, <2>2 DEF ProxyOK, ProxyTypeOK, CountedIn, Shown
<1>6. CASE OnPing
    <2>1. UNCHANGED proxyVars /\ toIM' = Append(toIM, M("AckPing"))
        BY <1>6 DEF OnPing
    <2>2. toIM' \in Seq(ToIM)
        BY <1>0, <2>1, MessageTypes
    <2> QED BY <1>2, <2>1, <2>2
            DEF Inv, ProxyOK, proxyVars, ProxyTypeOK, CountedIn, Shown, Standing,
                RawModeFollowsServer, Waiting
<1>7. CASE OnSetWin
    <2>1. /\ Head(toFb).type = "SetWin"
          /\ proxy' = setImWin(proxy, Head(toFb).winid, Head(toFb).rect)
          /\ mScrollEnable' = IF active THEN proxy'.mValidWinNum = 0 ELSE mScrollEnable
          /\ toIM' = Append(toIM, M("AckWin"))
          /\ UNCHANGED <<active, mRawMode, mCursor>>
        BY <1>7 DEF OnSetWin, Received
    <2>2. Head(toFb).winid \in Wins /\ Head(toFb).rect \in Rects
        BY <1>2, <2>1, SetWinFields
    <2>3. proxy' \in ProxyState /\ CountedIn(proxy') /\ SameConnection(proxy', proxy)
        BY <1>0, <2>1, <2>2, SetImWinOK
    <2>4. toIM' \in Seq(ToIM)
        BY <1>0, <2>1, MessageTypes
    <2>5. mScrollEnable' \in BOOLEAN
        BY <1>0, <2>1
    <2>6. Standing' /\ RawModeFollowsServer'
        BY <1>2, <2>1, <2>3 DEF Inv, ProxyOK, Standing, RawModeFollowsServer, Waiting,
                                SameConnection
    <2> QED BY <1>0, <1>2, <2>1, <2>3, <2>4, <2>5, <2>6
            DEF ProxyOK, ProxyTypeOK, CountedIn, Shown
<1>8. CASE OnFillRect
    <2>1. /\ proxy' = addWinMsg(proxy, Head(toFb).winid, Head(toFb).rect)
          /\ UNCHANGED <<active, mScrollEnable, mRawMode, mCursor, toIM>>
        BY <1>8 DEF OnFillRect
    <2>2. proxy' \in ProxyState /\ CountedIn(proxy') /\ SameConnection(proxy', proxy)
        BY <1>0, <2>1, AddWinMsgOK
    <2>3. Standing' /\ RawModeFollowsServer'
        BY <1>2, <2>1, <2>2 DEF Inv, ProxyOK, Standing, RawModeFollowsServer, Waiting,
                                SameConnection
    <2> QED BY <1>0, <1>2, <2>1, <2>2, <2>3 DEF ProxyOK, ProxyTypeOK, CountedIn, Shown
<1> QED BY <1>4, <1>5, <1>6, <1>7, <1>8 DEF readyRead

\* What a change of the window on the screen, of the cursor or of the input
\* method does.
LEMMA UserStep ==
    ASSUME Inv, toggleIm \/ drawCursor \/ leave \/ enter
    PROVE  ProxyOK' /\ toIM' \in Seq(ToIM) /\ toFb' \in Seq(ToFb)
<1>0. /\ proxy \in ProxyState /\ CountedIn(proxy)
      /\ active \in BOOLEAN /\ mScrollEnable \in BOOLEAN /\ mRawMode \in BOOLEAN
      /\ mCursor \in Cursors
      /\ toIM \in Seq(ToIM) /\ toFb \in Seq(ToFb)
      /\ Standing /\ RawModeFollowsServer
    BY DEF Inv, ProxyOK, ProxyTypeOK, ServerOK
<1>1. CASE toggleIm
    <2>1. /\ active /\ proxy.there /\ ~Waiting
          /\ proxy' = toggleActive(proxy)
          /\ mRawMode' = (proxy'.mConnected /\ proxy'.mActive)
          /\ toIM' = toIM \o ToggleMessages(proxy)
          /\ UNCHANGED <<active, mScrollEnable, mCursor, toFb>>
        BY <1>1 DEF toggleIm
    <2>2. /\ proxy' \in ProxyState /\ CountedIn(proxy')
          /\ proxy'.mActive => proxy'.mConnected
          /\ proxy'.there = proxy.there
          /\ proxy'.mMsgWaitState = proxy.mMsgWaitState
          /\ ToggleMessages(proxy) \in Seq(ToIM)
        BY <1>0, <2>1, ToggleOK
    <2>3. toIM' \in Seq(ToIM)
        BY <1>0, <2>1, <2>2
    <2>4. Standing' /\ RawModeFollowsServer'
        BY <2>1, <2>2 DEF Standing, RawModeFollowsServer, Waiting
    <2> QED BY <1>0, <2>1, <2>2, <2>3, <2>4 DEF ProxyOK, ProxyTypeOK, CountedIn, Shown
<1>2. CASE drawCursor
    <2>1. PICK c \in Cursors \ {mCursor} :
            /\ mCursor' = c
            /\ toIM' = IF active /\ proxy.mConnected /\ proxy.mActive
                       THEN Append(toIM, CursorPosition(c)) ELSE toIM
        BY <1>2 DEF drawCursor
    <2>2. UNCHANGED <<proxy, active, mScrollEnable, mRawMode, toFb>>
        BY <1>2 DEF drawCursor
    <2>3. CursorPosition(c) \in ToIM
        BY MessageTypes
    <2>4. toIM' \in Seq(ToIM)
        BY <1>0, <2>1, <2>3
    <2> QED BY <1>0, <2>1, <2>2, <2>4
            DEF ProxyOK, ProxyTypeOK, CountedIn, Shown, Standing, RawModeFollowsServer,
                Waiting
<1>3. CASE leave
    <2>0. /\ active /\ ~Waiting
          /\ UNCHANGED <<mScrollEnable, mCursor, toFb>>
        BY <1>3 DEF leave
    <2>1. CASE proxy.mConnected /\ proxy.mActive
        <3>1. /\ proxy' = [proxy EXCEPT !.mMsgWaitState = "WaitingMessage",
                                        !.mMsgWaitType = "AckHideUI"]
              /\ mRawMode' = FALSE
              /\ toIM' = Append(toIM, M("HideUI"))
              /\ UNCHANGED active
            BY <1>3, <2>1 DEF leave, waitImMessage
        <3>2. proxy' \in ProxyState /\ CountedIn(proxy')
            BY <1>0, <3>1, WaitOK
        <3>3. /\ proxy'.there = proxy.there /\ proxy'.mConnected = proxy.mConnected
              /\ proxy'.mActive = proxy.mActive
              /\ proxy'.mMsgWaitState = "WaitingMessage"
            BY <1>0, <3>1 DEF ProxyState
        <3>4. proxy.there
            BY <1>0, <2>1 DEF Standing, NoProxy
        <3>5. toIM' \in Seq(ToIM)
            BY <1>0, <3>1, MessageTypes
        <3>6. Standing' /\ RawModeFollowsServer'
            BY <1>0, <2>0, <3>1, <3>3, <3>4 DEF Standing, RawModeFollowsServer, Waiting
        <3> QED BY <1>0, <2>0, <3>1, <3>2, <3>5, <3>6
                DEF ProxyOK, ProxyTypeOK, CountedIn, Shown
    <2>2. CASE ~(proxy.mConnected /\ proxy.mActive)
        <3>1. active' = FALSE /\ UNCHANGED <<proxy, mRawMode, toIM>>
            BY <1>3, <2>2 DEF leave
        <3> QED BY <1>0, <2>0, <2>2, <3>1
                DEF ProxyOK, ProxyTypeOK, CountedIn, Shown, Standing,
                    RawModeFollowsServer, Waiting
    <2> QED BY <2>1, <2>2
<1>4. CASE enter
    <2>0. /\ ~active /\ ~Waiting /\ active' = TRUE
          /\ UNCHANGED <<proxy, mScrollEnable, mCursor, toFb>>
        BY <1>4 DEF enter
    <2>1. CASE proxy.mConnected /\ proxy.mActive
        <3>1. /\ mRawMode' = TRUE
              /\ toIM' = toIM \o <<M("ShowUI"), CursorPosition(mCursor)>>
            BY <1>4, <2>1 DEF enter
        <3>2. M("ShowUI") \in ToIM /\ CursorPosition(mCursor) \in ToIM
            BY <1>0, MessageTypes
        <3>3. toIM' \in Seq(ToIM)
            BY <1>0, <3>1, <3>2
        <3> QED BY <1>0, <2>0, <2>1, <3>1, <3>3
                DEF ProxyOK, ProxyTypeOK, CountedIn, Shown, Standing,
                    RawModeFollowsServer, Waiting
    <2>2. CASE ~(proxy.mConnected /\ proxy.mActive)
        <3>1. UNCHANGED <<mRawMode, toIM>>
            BY <1>4, <2>2 DEF enter
        <3> QED BY <1>0, <2>0, <2>2, <3>1
                DEF ProxyOK, ProxyTypeOK, CountedIn, Shown, Standing,
                    RawModeFollowsServer, Waiting
    <2> QED BY <2>1, <2>2
<1> QED BY <1>1, <1>2, <1>3, <1>4

\* What FbTerm does when a wait is over.
LEMMA ReturnStep ==
    ASSUME Inv, connected \/ hidden
    PROVE  ProxyOK' /\ toIM' \in Seq(ToIM) /\ toFb' \in Seq(ToFb)
<1>0. /\ proxy \in ProxyState /\ CountedIn(proxy)
      /\ active \in BOOLEAN /\ mScrollEnable \in BOOLEAN /\ mRawMode \in BOOLEAN
      /\ mCursor \in Cursors
      /\ toIM \in Seq(ToIM) /\ toFb \in Seq(ToFb)
      /\ Standing /\ RawModeFollowsServer
    BY DEF Inv, ProxyOK, ProxyTypeOK, ServerOK
<1> DEFINE p == [proxy EXCEPT !.mMsgWaitState = "NoMessageToWait"]
<1>1. p \in ProxyState /\ CountedIn(p)
    BY <1>0 DEF ProxyState, CountedIn, Shown
<1>2. /\ p.there = proxy.there /\ p.mConnected = proxy.mConnected
      /\ p.mActive = proxy.mActive /\ p.mMsgWaitState = "NoMessageToWait"
    BY <1>0 DEF ProxyState
<1>3. Waiting /\ active /\ proxy.there /\ ~mRawMode
    <2>1. Waiting
        BY DEF connected, hidden, Returned
    <2>2. NoProxy.mMsgWaitState = "NoMessageToWait"
        BY DEF NoProxy
    <2>3. proxy.there
        BY <1>0, <2>1, <2>2 DEF Standing, Waiting
    <2>4. active /\ ~mRawMode
        BY <1>0, <2>1 DEF Standing, RawModeFollowsServer
    <2> QED BY <2>1, <2>3, <2>4
<1>4. CASE connected
    <2>1. /\ proxy' = toggleActive(p)
          /\ mRawMode' = (proxy'.mConnected /\ proxy'.mActive)
          /\ toIM' = toIM \o ToggleMessages(p)
          /\ UNCHANGED <<active, mScrollEnable, mCursor, toFb>>
        BY <1>4 DEF connected
    <2> HIDE DEF p
    <2>2. /\ proxy' \in ProxyState /\ CountedIn(proxy')
          /\ proxy'.mActive => proxy'.mConnected
          /\ proxy'.there = p.there
          /\ proxy'.mMsgWaitState = p.mMsgWaitState
          /\ ToggleMessages(p) \in Seq(ToIM)
        BY <1>0, <1>1, <2>1, ToggleOK
    <2>3. toIM' \in Seq(ToIM)
        BY <1>0, <2>1, <2>2
    <2>4. Standing' /\ RawModeFollowsServer'
        BY <1>2, <1>3, <2>1, <2>2 DEF Standing, RawModeFollowsServer, Waiting
    <2> QED BY <1>0, <2>1, <2>2, <2>3, <2>4 DEF ProxyOK, ProxyTypeOK, CountedIn, Shown
<1>5. CASE hidden
    <2>1. /\ proxy' = p /\ mScrollEnable' = TRUE /\ active' = FALSE
          /\ UNCHANGED <<mRawMode, mCursor, toIM, toFb>>
        BY <1>5 DEF hidden
    <2> HIDE DEF p
    <2>2. Standing' /\ RawModeFollowsServer'
        BY <1>0, <1>2, <1>3, <2>1 DEF Standing, RawModeFollowsServer, Waiting
    <2> QED BY <1>0, <1>1, <2>1, <2>2 DEF ProxyOK, ProxyTypeOK, CountedIn, Shown
<1> QED BY <1>4, <1>5

\* Starting the server, noticing its end and removing the proxy.
LEMMA LifeStep ==
    ASSUME Inv, createImProcess \/ ioError \/ Delete
    PROVE  Inv'
<1>0. /\ proxy \in ProxyState /\ CountedIn(proxy)
      /\ active \in BOOLEAN /\ mScrollEnable \in BOOLEAN /\ mRawMode \in BOOLEAN
      /\ mCursor \in Cursors
      /\ im \in ServerState /\ toIM \in Seq(ToIM) /\ toFb \in Seq(ToFb)
      /\ Standing /\ RawModeFollowsServer
    BY DEF Inv, ProxyOK, ProxyTypeOK, ServerOK
<1>1. CASE createImProcess
    <2>1. /\ active /\ ~proxy.there
          /\ proxy' = waitImMessage([proxy EXCEPT !.there = TRUE], "Connect")
          /\ im' = Blank("started")
          /\ UNCHANGED <<active, mScrollEnable, mRawMode, mCursor, toIM, toFb>>
        BY <1>1 DEF createImProcess
    <2>2. /\ [proxy EXCEPT !.there = TRUE] \in ProxyState
          /\ CountedIn([proxy EXCEPT !.there = TRUE])
        BY <1>0 DEF ProxyState, CountedIn, Shown
    <2>3. proxy' \in ProxyState /\ CountedIn(proxy')
        BY <2>1, <2>2, WaitOK DEF waitImMessage
    <2>4. /\ proxy'.there /\ ~proxy'.mConnected /\ ~proxy'.mActive
          /\ proxy'.mMsgWaitState = "WaitingMessage"
        BY <1>0, <2>1 DEF Standing, NoProxy, waitImMessage
    <2>5. Standing' /\ RawModeFollowsServer'
        BY <1>0, <2>1, <2>4 DEF Standing, RawModeFollowsServer, Waiting, NoProxy
    <2>6. im' \in ServerState
        BY <2>1, BlankOK
    <2> QED BY <1>0, <2>1, <2>3, <2>5, <2>6
            DEF Inv, ProxyOK, ServerOK, ProxyTypeOK, CountedIn, Shown
<1>2. CASE ioError
    <2>1. /\ proxy.there /\ proxy.mMsgWaitState = "WaitingMessage"
          /\ proxy' = [proxy EXCEPT !.mMsgWaitState = "GotMessage"]
          /\ UNCHANGED <<active, mScrollEnable, mRawMode, mCursor, im, toIM, toFb>>
        BY <1>2 DEF ioError
    <2>2. proxy' \in ProxyState /\ CountedIn(proxy')
        BY <1>0, <2>1 DEF ProxyState, CountedIn, Shown
    <2>3. /\ proxy'.there /\ proxy'.mConnected = proxy.mConnected
          /\ proxy'.mActive = proxy.mActive /\ proxy'.mMsgWaitState = "GotMessage"
        BY <1>0, <2>1 DEF ProxyState
    <2>4. Standing' /\ RawModeFollowsServer'
        BY <1>0, <2>1, <2>3 DEF Standing, RawModeFollowsServer, Waiting
    <2> QED BY <1>0, <2>1, <2>2, <2>4
            DEF Inv, ProxyOK, ServerOK, ProxyTypeOK, CountedIn, Shown
<1>3. CASE Delete
    <2>1. /\ proxy.there /\ ~Waiting
          /\ proxy' = NoProxy
          /\ im' = NoServer /\ toIM' = <<>> /\ toFb' = <<>>
          /\ UNCHANGED <<active, mCursor>>
        BY <1>3 DEF Delete, destroyed
    <2>2. /\ mScrollEnable' \in BOOLEAN
          /\ mRawMode' = IF active /\ proxy.mConnected THEN FALSE ELSE mRawMode
        BY <1>0, <1>3 DEF Delete, destroyed
    <2>3. mRawMode' = FALSE
        BY <1>0, <2>2 DEF RawModeFollowsServer
    <2>4. proxy' \in ProxyState /\ CountedIn(proxy')
        BY <2>1, NoProxyOK
    <2>5. Standing' /\ RawModeFollowsServer'
        BY <2>1, <2>3 DEF Standing, RawModeFollowsServer, Waiting, NoProxy
    <2>6. im' \in ServerState
        BY <2>1, BlankOK DEF NoServer
    <2>7. toIM' \in Seq(ToIM) /\ toFb' \in Seq(ToFb)
        BY <2>1
    <2> QED BY <1>0, <2>1, <2>2, <2>3, <2>4, <2>5, <2>6, <2>7
            DEF Inv, ProxyOK, ServerOK, ProxyTypeOK, CountedIn, Shown
<1> QED BY <1>1, <1>2, <1>3

-----------------------------------------------------------------------------
(* Theorems *)

LEMMA InitInv == Init => Inv
<1> SUFFICES ASSUME Init PROVE Inv
    OBVIOUS
<1>1. proxy \in ProxyState /\ CountedIn(proxy)
    BY NoProxyOK DEF Init, ProxyInit
<1>2. im \in ServerState
    BY BlankOK DEF Init, NoServer
<1>3. Standing /\ RawModeFollowsServer
    BY DEF Init, ProxyInit, Standing, RawModeFollowsServer, Waiting, NoProxy
<1>4. toIM \in Seq(ToIM) /\ toFb \in Seq(ToFb)
    BY DEF Init
<1>5. /\ active \in BOOLEAN /\ mScrollEnable \in BOOLEAN /\ mRawMode \in BOOLEAN
      /\ mCursor \in Cursors
    BY DEF Init, ProxyInit
<1> QED BY <1>1, <1>2, <1>3, <1>4, <1>5 DEF Inv, ProxyOK, ServerOK, ProxyTypeOK

LEMMA NextInv == Inv /\ [Next]_vars => Inv'
<1> SUFFICES ASSUME Inv, [Next]_vars PROVE Inv'
    OBVIOUS
<1>1. ASSUME UNCHANGED proxyVars PROVE ProxyOK'
    BY <1>1 DEF Inv, ProxyOK, proxyVars, ProxyTypeOK, CountedIn, Shown, Standing,
                RawModeFollowsServer, Waiting
<1>2. CASE User
    BY <1>2, UserStep DEF User, Inv, ServerOK
<1>3. CASE createImProcess \/ ioError \/ killIm \/ serverGone
    BY <1>3, LifeStep DEF killIm, serverGone
<1>4. CASE Answer
    BY <1>4, ReadyReadStep, ReturnStep DEF Answer, Inv, ServerOK
<1>5. CASE Server /\ UNCHANGED proxyVars
    BY <1>1, <1>5, ServerStep DEF Inv
<1>6. CASE Crashes /\ Exit /\ UNCHANGED proxyVars
    BY <1>1, <1>6, BlankOK DEF Exit, Inv, ServerOK
<1>7. CASE UNCHANGED vars
    BY <1>1, <1>7 DEF vars, Inv, ServerOK
<1> QED BY <1>2, <1>3, <1>4, <1>5, <1>6, <1>7 DEF Next

LEMMA Invariance == Spec => []Inv
BY InitInv, NextInv, PTL DEF Spec

\* The proxy of improxy.cpp and the server of imapi.c stay in their states,
\* the number of windows a natural number, and only the messages of
\* immessage.h are sent, in the direction each is for.
THEOREM ImTypeCorrect == Spec => []ImTypeOK
<1>1. Inv => ImTypeOK
    BY DEF Inv, ProxyOK, ServerOK, ImTypeOK
<1> QED BY <1>1, Invariance, PTL

\* redrawImWin and addWinMsg stop after mValidWinNum windows: whatever windows
\* the server set, moved and emptied, in the window on the screen or behind
\* it, they get to every one.
THEOREM WindowsAreRedrawn == Spec => []RedrawsEveryWindow
<1>1. Inv => RedrawsEveryWindow
    BY VisitedAll DEF Inv, ProxyOK, ProxyTypeOK, RedrawsEveryWindow
<1> QED BY <1>1, Invariance, PTL

\* switchVt, toggleActive and ~ImProxy leave the keyboard in raw mode exactly
\* while the server of the window on the screen is to get the keys, with any
\* order of answers, timeouts, crashes and changes of the window.
THEOREM KeyboardIsGivenBack == Spec => []RawModeFollowsServer
<1>1. Inv => RawModeFollowsServer
    BY DEF Inv, ProxyOK
<1> QED BY <1>1, Invariance, PTL
-----------------------------------------------------------------------------
(* The dialogue about a window.  A server that has asked for a window waits  *)
(* until FbTerm has put it there: the request or its answer is under way,    *)
(* and only one of them, and no drawing is behind a request in the socket.   *)

NoneOf(q, t) == \A i \in DOMAIN q : q[i].type # t
OnlyAt(q, t, i) ==
    i \in DOMAIN q /\ q[i].type = t /\ \A j \in DOMAIN q : q[j].type = t => j = i

\* The server draws next, in a window that FbTerm has.
NextFill(s) == s.calls # <<>> /\ s.calls[1].op = "fill_rect"
FillReady(wins, s) == NextFill(s) => wins[s.calls[1].winid] = s.calls[1].rect

\* A request is under way, for the window that is drawn in next.
Asked(s, q) ==
    \E i \in DOMAIN q :
        /\ OnlyAt(q, "SetWin", i)
        /\ NextFill(s) => q[i].winid = s.calls[1].winid /\ q[i].rect = s.calls[1].rect

\* Every drawing of a callback follows the request for its window, and no
\* callback draws and deactivates.
CallsOK(s) ==
    /\ s.pc \in {"none", "dead"} => s.calls = <<>>
    /\ \A i \in DOMAIN s.calls : s.calls[i].op = "fill_rect" =>
         /\ s.im_active
         /\ i > 1 => s.calls[i - 1] = set_im_window(s.calls[i].winid, s.calls[i].rect)
         /\ \A j \in DOMAIN s.calls : s.calls[j].op # "deactivated"

Asks(s, qi, qf)          == Asked(s, qf) /\ NoneOf(qi, "AckWin")
IsAnswered(wins, s, qi, qf) ==
    /\ NoneOf(qf, "SetWin") /\ FillReady(wins, s)
    /\ \E i \in DOMAIN qi : OnlyAt(qi, "AckWin", i)
Idle(wins, s, qi, qf) ==
    NoneOf(qf, "SetWin") /\ NoneOf(qi, "AckWin") /\ FillReady(wins, s)

TurnOK(wins, s, qi, qf) ==
    /\ s.pc \notin {"waiting", "dead"} => Idle(wins, s, qi, qf)
    /\ s.pc = "waiting" => Asks(s, qi, qf) \/ IsAnswered(wins, s, qi, qf)

\* The drawings in the socket are for windows that FbTerm has, and will still
\* have when it reads them.
FillsOK(wins, q) ==
    \A i \in DOMAIN q : q[i].type = "FillRect" =>
        /\ wins[q[i].winid] = q[i].rect
        /\ \A j \in 1 .. i - 1 : q[j].type # "SetWin"

Dialogue ==
    /\ CallsOK(im) /\ TurnOK(proxy.mWins, im, toIM, toFb)
    /\ FillsOK(proxy.mWins, toFb)
    /\ ~proxy.there => im = NoServer

LEMMA AppendQueue ==
    ASSUME NEW S, NEW q \in Seq(S), NEW x \in S, NEW t
    PROVE  LET r == Append(q, x)
           IN  /\ NoneOf(q, t) /\ x.type # t => NoneOf(r, t)
               /\ \A i \in DOMAIN q : OnlyAt(q, t, i) /\ x.type # t
                      => OnlyAt(r, t, i) /\ i \in DOMAIN r /\ r[i] = q[i]
               /\ NoneOf(q, t) /\ x.type = t
                      => /\ OnlyAt(r, t, Len(q) + 1)
                         /\ Len(q) + 1 \in DOMAIN r /\ r[Len(q) + 1] = x
<1> DEFINE r == Append(q, x)
<1>1. /\ Len(q) \in Nat /\ DOMAIN q = 1 .. Len(q) /\ DOMAIN r = 1 .. Len(q) + 1
      /\ r[Len(q) + 1] = x /\ \A i \in 1 .. Len(q) : r[i] = q[i]
    OBVIOUS
<1> HIDE DEF r
<1>2. NoneOf(q, t) /\ x.type # t => NoneOf(r, t)
    BY <1>1 DEF NoneOf
<1>3. ASSUME NEW i \in DOMAIN q, OnlyAt(q, t, i), x.type # t
      PROVE  OnlyAt(r, t, i) /\ i \in DOMAIN r /\ r[i] = q[i]
    BY <1>1, <1>3 DEF OnlyAt
<1>4. NoneOf(q, t) /\ x.type = t
        => OnlyAt(r, t, Len(q) + 1) /\ Len(q) + 1 \in DOMAIN r /\ r[Len(q) + 1] = x
    BY <1>1 DEF OnlyAt, NoneOf
<1> QED BY <1>2, <1>3, <1>4 DEF r

LEMMA ConcatQueue ==
    ASSUME NEW S, NEW q \in Seq(S), NEW m \in Seq(S), NEW t, NoneOf(m, t)
    PROVE  LET r == q \o m
           IN  /\ NoneOf(q, t) => NoneOf(r, t)
               /\ \A i \in DOMAIN q : OnlyAt(q, t, i) => i \in DOMAIN r /\ OnlyAt(r, t, i)
<1> DEFINE r == q \o m
<1>1. /\ Len(q) \in Nat /\ DOMAIN q = 1 .. Len(q)
      /\ Len(m) \in Nat /\ DOMAIN m = 1 .. Len(m)
      /\ DOMAIN r = 1 .. Len(q) + Len(m)
      /\ \A i \in 1 .. Len(q) : r[i] = q[i]
      /\ \A i \in Len(q) + 1 .. Len(q) + Len(m) : r[i] = m[i - Len(q)]
    OBVIOUS
<1> HIDE DEF r
<1>2. \A i \in Len(q) + 1 .. Len(q) + Len(m) : r[i].type # t
    <2> SUFFICES ASSUME NEW i \in Len(q) + 1 .. Len(q) + Len(m) PROVE r[i].type # t
        OBVIOUS
    <2>1. i - Len(q) \in DOMAIN m /\ r[i] = m[i - Len(q)]
        BY <1>1
    <2> QED BY <2>1 DEF NoneOf
<1>3. \A i \in DOMAIN r : i \in DOMAIN q \/ i \in Len(q) + 1 .. Len(q) + Len(m)
    BY <1>1
<1>4. NoneOf(q, t) => NoneOf(r, t)
    BY <1>1, <1>2, <1>3 DEF NoneOf
<1>5. ASSUME NEW i \in DOMAIN q, OnlyAt(q, t, i) PROVE i \in DOMAIN r /\ OnlyAt(r, t, i)
    BY <1>1, <1>2, <1>3, <1>5 DEF OnlyAt
<1> QED BY <1>4, <1>5 DEF r

LEMMA TailQueue ==
    ASSUME NEW S, NEW q \in Seq(S), q # <<>>, NEW t
    PROVE  LET r == Tail(q)
           IN  /\ NoneOf(q, t) => NoneOf(r, t)
               /\ \A i \in DOMAIN q : OnlyAt(q, t, i) =>
                    IF Head(q).type = t
                    THEN i = 1 /\ NoneOf(r, t)
                    ELSE i - 1 \in DOMAIN r /\ OnlyAt(r, t, i - 1) /\ r[i - 1] = q[i]
<1> DEFINE r == Tail(q)
<1>1. /\ Len(q) \in Nat \ {0} /\ DOMAIN q = 1 .. Len(q) /\ DOMAIN r = 1 .. Len(q) - 1
      /\ Head(q) = q[1] /\ \A i \in 1 .. Len(q) - 1 : r[i] = q[i + 1]
    OBVIOUS
<1> HIDE DEF r
<1>2. \A i \in DOMAIN r : i + 1 \in DOMAIN q /\ r[i] = q[i + 1] /\ i + 1 # 1
    BY <1>1
<1>3. NoneOf(q, t) => NoneOf(r, t)
    BY <1>2 DEF NoneOf
<1>4. ASSUME NEW i \in DOMAIN q, OnlyAt(q, t, i), Head(q).type = t
      PROVE  i = 1 /\ NoneOf(r, t)
    <2>1. i = 1
        BY <1>1, <1>4 DEF OnlyAt
    <2> QED BY <1>2, <1>4, <2>1 DEF OnlyAt, NoneOf
<1>5. ASSUME NEW i \in DOMAIN q, OnlyAt(q, t, i), Head(q).type # t
      PROVE  i - 1 \in DOMAIN r /\ OnlyAt(r, t, i - 1) /\ r[i - 1] = q[i]
    <2>1. i # 1 /\ q[i].type = t
        BY <1>1, <1>5 DEF OnlyAt
    <2>2. i - 1 \in DOMAIN r /\ r[i - 1] = q[i]
        BY <1>1, <2>1
    <2>3. ASSUME NEW j \in DOMAIN r, r[j].type = t PROVE j = i - 1
        <3>1. j + 1 = i
            BY <1>2, <1>5, <2>3 DEF OnlyAt
        <3> QED BY <1>1, <3>1
    <2> QED BY <2>1, <2>2, <2>3 DEF OnlyAt
<1> QED BY <1>3, <1>4, <1>5 DEF r

\* A read of the first n messages.
LEMMA SplitQueue ==
    ASSUME NEW S, NEW q \in Seq(S), NEW n \in 1 .. Len(q), NEW t
    PROVE  LET a == SubSeq(q, 1, n)
               b == SubSeq(q, n + 1, Len(q))
           IN  /\ a \in Seq(S) /\ Len(a) = n /\ b \in Seq(S)
               /\ NoneOf(q, t) => NoneOf(a, t) /\ NoneOf(b, t)
               /\ \A i \in DOMAIN q : OnlyAt(q, t, i) =>
                    IF NoneOf(a, t) THEN \E j \in DOMAIN b : OnlyAt(b, t, j)
                                    ELSE NoneOf(b, t)
<1> DEFINE a == SubSeq(q, 1, n)
           b == SubSeq(q, n + 1, Len(q))
<1>1. /\ Len(q) \in Nat /\ DOMAIN q = 1 .. Len(q) /\ n \in Nat
      /\ a \in Seq(S) /\ Len(a) = n /\ b \in Seq(S)
      /\ DOMAIN a = 1 .. n /\ DOMAIN b = 1 .. Len(q) - n
      /\ \A i \in 1 .. n : a[i] = q[i]
      /\ \A i \in 1 .. Len(q) - n : b[i] = q[n + i]
    OBVIOUS
<1> HIDE DEF a, b
<1>2. /\ \A i \in DOMAIN a : i \in DOMAIN q /\ a[i] = q[i] /\ i <= n
      /\ \A i \in DOMAIN b : n + i \in DOMAIN q /\ b[i] = q[n + i] /\ n + i > n
    BY <1>1
<1>3. NoneOf(q, t) => NoneOf(a, t) /\ NoneOf(b, t)
    BY <1>2 DEF NoneOf
<1>4. ASSUME NEW i \in DOMAIN q, OnlyAt(q, t, i), NoneOf(a, t)
      PROVE  \E j \in DOMAIN b : OnlyAt(b, t, j)
    <2>1. ~(i <= n) /\ i \in Nat
        BY <1>1, <1>4 DEF OnlyAt, NoneOf
    <2>2. i - n \in DOMAIN b /\ b[i - n] = q[i]
        BY <1>1, <2>1
    <2>3. ASSUME NEW j \in DOMAIN b, b[j].type = t PROVE j = i - n
        <3>1. n + j = i
            BY <1>2, <1>4, <2>3 DEF OnlyAt
        <3> QED BY <1>1, <3>1
    <2>4. OnlyAt(b, t, i - n)
        BY <1>4, <2>2, <2>3 DEF OnlyAt
    <2> QED BY <2>2, <2>4
<1>5. ASSUME NEW i \in DOMAIN q, OnlyAt(q, t, i), ~NoneOf(a, t)
      PROVE  NoneOf(b, t)
    <2>1. PICK k \in DOMAIN a : a[k].type = t
        BY <1>5 DEF NoneOf
    <2>2. k = i /\ i <= n
        BY <1>2, <1>5, <2>1 DEF OnlyAt
    <2>3. ASSUME NEW j \in DOMAIN b, b[j].type = t PROVE FALSE
        <3>1. n + j = i
            BY <1>2, <1>5, <2>3 DEF OnlyAt
        <3> QED BY <1>1, <2>2, <3>1
    <2> QED BY <2>3 DEF NoneOf
<1> QED BY <1>1, <1>3, <1>4, <1>5 DEF a, b

LEMMA AppendFills ==
    ASSUME NEW S, NEW q \in Seq(S), NEW x \in S, NEW wins, FillsOK(wins, q),
           x.type = "FillRect" => wins[x.winid] = x.rect /\ NoneOf(q, "SetWin")
    PROVE  FillsOK(wins, Append(q, x))
<1> DEFINE r == Append(q, x)
<1>1. /\ Len(q) \in Nat /\ DOMAIN q = 1 .. Len(q) /\ DOMAIN r = 1 .. Len(q) + 1
      /\ r[Len(q) + 1] = x /\ \A i \in 1 .. Len(q) : r[i] = q[i]
    OBVIOUS
<1> HIDE DEF r
<1>2. ASSUME NEW i \in DOMAIN r, r[i].type = "FillRect"
      PROVE  /\ wins[r[i].winid] = r[i].rect
             /\ \A j \in 1 .. i - 1 : r[j].type # "SetWin"
    <2>1. CASE i = Len(q) + 1
        BY <1>1, <1>2, <2>1 DEF NoneOf
    <2>2. CASE i # Len(q) + 1
        <3>1. i \in DOMAIN q /\ r[i] = q[i] /\ \A j \in 1 .. i - 1 : r[j] = q[j]
            BY <1>1, <2>2
        <3> QED BY <1>2, <3>1 DEF FillsOK
    <2> QED BY <2>1, <2>2
<1> QED BY <1>2 DEF FillsOK, r

LEMMA TailFills ==
    ASSUME NEW S, NEW q \in Seq(S), q # <<>>, NEW wins, NEW after, FillsOK(wins, q),
           Head(q).type # "SetWin" => after = wins
    PROVE  FillsOK(after, Tail(q))
<1> DEFINE r == Tail(q)
<1>1. /\ Len(q) \in Nat \ {0} /\ DOMAIN q = 1 .. Len(q) /\ DOMAIN r = 1 .. Len(q) - 1
      /\ Head(q) = q[1] /\ \A i \in 1 .. Len(q) - 1 : r[i] = q[i + 1]
    OBVIOUS
<1> HIDE DEF r
<1>2. ASSUME NEW i \in DOMAIN r, r[i].type = "FillRect"
      PROVE  /\ after[r[i].winid] = r[i].rect
             /\ \A j \in 1 .. i - 1 : r[j].type # "SetWin"
    <2>1. i + 1 \in DOMAIN q /\ r[i] = q[i + 1]
        BY <1>1
    <2>2. \A j \in 1 .. i : q[j].type # "SetWin"
        <3>1. \A j \in 1 .. (i + 1) - 1 : q[j].type # "SetWin"
            BY <1>2, <2>1 DEF FillsOK
        <3> QED BY <1>1, <3>1
    <2>3. after = wins
        BY <1>1, <2>2
    <2>4. \A j \in 1 .. i - 1 : r[j] = q[j + 1] /\ j + 1 \in 1 .. i
        BY <1>1
    <2> QED BY <1>2, <2>1, <2>2, <2>3, <2>4 DEF FillsOK
<1> QED BY <1>2 DEF FillsOK, r

\* The calls that are left after the first, and what comes first among them.
LEMMA CalledOK ==
    ASSUME NEW s \in ServerState, CallsOK(s), s.calls # <<>>
    PROVE  LET rest == Tail(s.calls)
           IN  /\ \A i \in DOMAIN rest : rest[i].op = "fill_rect" =>
                    /\ s.im_active
                    /\ i > 1 => rest[i - 1] = set_im_window(rest[i].winid, rest[i].rect)
                    /\ \A j \in DOMAIN rest : rest[j].op # "deactivated"
                    /\ s.calls[1].op # "deactivated"
               /\ rest # <<>> /\ rest[1].op = "fill_rect" =>
                    /\ s.calls[1] = set_im_window(rest[1].winid, rest[1].rect)
                    /\ s.im_active
<1> DEFINE q == s.calls
           rest == Tail(q)
<1>0. q \in Seq(Calls) /\ q # <<>>
    BY ServerFields
<1>1. /\ Len(q) \in Nat \ {0} /\ DOMAIN q = 1 .. Len(q) /\ DOMAIN rest = 1 .. Len(q) - 1
      /\ \A i \in 1 .. Len(q) - 1 : rest[i] = q[i + 1]
    BY <1>0
<1>2. \A i \in DOMAIN q : q[i].op = "fill_rect" =>
         /\ s.im_active
         /\ i > 1 => q[i - 1] = set_im_window(q[i].winid, q[i].rect)
         /\ \A j \in DOMAIN q : q[j].op # "deactivated"
    BY DEF CallsOK
<1>3. rest # <<>> => 1 \in DOMAIN rest
    BY <1>0
<1> HIDE DEF q, rest
<1>4. ASSUME NEW i \in DOMAIN rest, rest[i].op = "fill_rect"
      PROVE  /\ s.im_active
             /\ i > 1 => rest[i - 1] = set_im_window(rest[i].winid, rest[i].rect)
             /\ \A j \in DOMAIN rest : rest[j].op # "deactivated"
             /\ q[1].op # "deactivated"
             /\ i = 1 => q[1] = set_im_window(rest[i].winid, rest[i].rect)
    <2>1. /\ i + 1 \in DOMAIN q /\ rest[i] = q[i + 1] /\ i + 1 > 1
          /\ (i + 1) - 1 = i /\ 1 \in DOMAIN q
          /\ i > 1 => rest[i - 1] = q[i]
        BY <1>1
    <2>2. q[i] = set_im_window(rest[i].winid, rest[i].rect) /\ s.im_active
          /\ \A j \in DOMAIN q : q[j].op # "deactivated"
        BY <1>2, <1>4, <2>1
    <2>3. \A j \in DOMAIN rest : j + 1 \in DOMAIN q /\ rest[j] = q[j + 1]
        BY <1>1
    <2> QED BY <2>1, <2>2, <2>3
<1>5. ASSUME rest # <<>>, rest[1].op = "fill_rect"
      PROVE  q[1] = set_im_window(rest[1].winid, rest[1].rect) /\ s.im_active
    BY <1>3, <1>4, <1>5
<1>6. \A i \in DOMAIN rest : rest[i].op = "fill_rect" =>
         /\ s.im_active
         /\ i > 1 => rest[i - 1] = set_im_window(rest[i].winid, rest[i].rect)
         /\ \A j \in DOMAIN rest : rest[j].op # "deactivated"
         /\ q[1].op # "deactivated"
    BY <1>4
<1> QED BY <1>5, <1>6 DEF q, rest

\* The server after the first of its calls: what it is to do is a callback's
\* rest, and a drawing comes next only if the window has just been asked for.
LEMMA NextCall ==
    ASSUME NEW s \in ServerState, CallsOK(s), s.calls # <<>>,
           NEW t, t.calls = Tail(s.calls), t.pc \in {"running", "waiting"},
           t.im_active = s.im_active \/ s.calls[1].op = "deactivated"
    PROVE  /\ CallsOK(t)
           /\ NextFill(t) => /\ s.im_active
                             /\ s.calls[1] = set_im_window(t.calls[1].winid, t.calls[1].rect)
<1>1. \A i \in DOMAIN t.calls : t.calls[i].op = "fill_rect" =>
         /\ s.im_active
         /\ i > 1 => t.calls[i - 1] = set_im_window(t.calls[i].winid, t.calls[i].rect)
         /\ \A j \in DOMAIN t.calls : t.calls[j].op # "deactivated"
         /\ s.calls[1].op # "deactivated"
    BY CalledOK
<1>2. CallsOK(t)
    BY <1>1 DEF CallsOK
<1>3. NextFill(t) => /\ s.im_active
                     /\ s.calls[1] = set_im_window(t.calls[1].winid, t.calls[1].rect)
    BY CalledOK DEF NextFill
<1> QED BY <1>2, <1>3

\* A callback draws only where it has asked for the window before, first of
\* all it asks.
LEMMA ResponseShape ==
    ASSUME NEW m, im \in ServerState
    PROVE  LET calls == Response(m)
           IN  \A i \in DOMAIN calls : calls[i].op = "fill_rect" =>
                 /\ im.im_active /\ i > 1
                 /\ calls[i - 1] = set_im_window(calls[i].winid, calls[i].rect)
                 /\ \A j \in DOMAIN calls : calls[j].op # "deactivated"
<1> DEFINE Shape(calls) ==
        \A i \in DOMAIN calls : calls[i].op = "fill_rect" =>
          /\ im.im_active /\ i > 1
          /\ calls[i - 1] = set_im_window(calls[i].winid, calls[i].rect)
          /\ \A j \in DOMAIN calls : calls[j].op # "deactivated"
<1>1. ASSUME NEW c, im.im_active PROVE Shape(im_show(c))
    <2>0. NR_IM_WINS \in Nat
        BY MessageAssumption
    <2>1. /\ DOMAIN im_show(c) = 1 .. 2 * NR_IM_WINS
          /\ \A i \in 1 .. 2 * NR_IM_WINS :
               im_show(c)[i] = IF i % 2 = 1 THEN set_im_window((i + 1) \div 2, c)
                                            ELSE fill_rect((i + 1) \div 2, c)
        BY DEF im_show
    <2>2. \A w : /\ set_im_window(w, c).op = "set_im_window"
                 /\ fill_rect(w, c).op = "fill_rect"
                 /\ fill_rect(w, c).winid = w /\ fill_rect(w, c).rect = c
        BY DEF set_im_window, fill_rect
    <2>3. \A j \in DOMAIN im_show(c) : im_show(c)[j].op # "deactivated"
        BY <2>1, <2>2
    <2>4. ASSUME NEW i \in 1 .. 2 * NR_IM_WINS, im_show(c)[i].op = "fill_rect"
          PROVE  i > 1 /\ im_show(c)[i - 1]
                   = set_im_window(im_show(c)[i].winid, im_show(c)[i].rect)
        <3>1. i % 2 # 1
            BY <2>1, <2>2, <2>4
        <3>2. /\ i > 1 /\ (i - 1) % 2 = 1 /\ ((i - 1) + 1) \div 2 = (i + 1) \div 2
              /\ i - 1 \in 1 .. 2 * NR_IM_WINS
            BY <2>0, <3>1
        <3>3. im_show(c)[i] = fill_rect((i + 1) \div 2, c)
            BY <2>1, <3>1
        <3>4. im_show(c)[i - 1] = set_im_window(((i - 1) + 1) \div 2, c)
            BY <2>1, <3>2
        <3> QED BY <2>2, <3>2, <3>3, <3>4
    <2> QED BY <1>1, <2>1, <2>3, <2>4
<1>2. Shape(<<>>)
    OBVIOUS
<1>3. Shape(<<Call("AckHideUI")>>)
    BY DEF Call
<1>4. Shape(Append(im_deactive, Call("deactivated")))
    <2>1. /\ DOMAIN im_deactive = 1 .. NR_IM_WINS
          /\ \A w \in 1 .. NR_IM_WINS : im_deactive[w] = set_im_window(w, NoRect)
        BY DEF im_deactive, Wins
    <2>2. \A w \in 1 .. NR_IM_WINS : im_deactive[w] \in Calls
        BY <2>1 DEF Calls, Wins, Rects
    <2>3. im_deactive \in Seq(Calls) /\ Call("deactivated") \in Calls
        <3>1. im_deactive \in [1 .. NR_IM_WINS -> Calls]
            BY <2>2 DEF im_deactive, Wins
        <3> QED BY <3>1, MessageAssumption DEF Calls
    <2> DEFINE d == im_deactive
               r == Append(d, Call("deactivated"))
    <2>4. /\ DOMAIN r = 1 .. Len(d) + 1 /\ Len(d) \in Nat
          /\ r[Len(d) + 1] = Call("deactivated")
          /\ \A i \in 1 .. Len(d) : r[i] = d[i] /\ i \in DOMAIN d
        BY <2>3
    <2> HIDE DEF d, r
    <2>5. \A i \in 1 .. Len(d) : r[i].op = "set_im_window"
        BY <2>1, <2>4 DEF d, set_im_window
    <2>6. Call("deactivated").op = "deactivated"
        BY DEF Call
    <2>7. ASSUME NEW i \in DOMAIN r PROVE r[i].op # "fill_rect"
        <3>1. i \in 1 .. Len(d) \/ i = Len(d) + 1
            BY <2>4
        <3> QED BY <2>4, <2>5, <2>6, <3>1
    <2>8. Shape(r)
        BY <2>7
    <2> QED BY <2>8 DEF r, d
<1> HIDE DEF Shape
<1>5. Shape(Response(m))
    BY <1>1, <1>2, <1>3, <1>4 DEF Response
<1> QED BY <1>5 DEF Shape

\* Of the messages to the server, only the answer to a request is an AckWin.
LEMMA AckType ==
    /\ \A m \in ToIM : m.type = "AckWin" <=> m = M("AckWin")
    /\ \A t : M(t).type = t
    /\ \A c : CursorPosition(c).type = "CursorPosition"
    /\ \A w, r : SetWin(w, r).type = "SetWin" /\ FillRect(w, r).type = "FillRect"
BY DEF ToIM, M, CursorPosition, SetWin, FillRect

\* FbTerm says something else, or reads something else, than what the dialogue
\* is about.
LEMMA SaysOther ==
    ASSUME NEW wins, NEW s, NEW qi \in Seq(ToIM), NEW qf, TurnOK(wins, s, qi, qf)
    PROVE  /\ \A m \in ToIM : m.type # "AckWin" => TurnOK(wins, s, Append(qi, m), qf)
           /\ \A m \in Seq(ToIM) : NoneOf(m, "AckWin") => TurnOK(wins, s, qi \o m, qf)
<1>1. ASSUME NEW m \in ToIM, m.type # "AckWin" PROVE TurnOK(wins, s, Append(qi, m), qf)
    <2> DEFINE r == Append(qi, m)
    <2>1. /\ NoneOf(qi, "AckWin") => NoneOf(r, "AckWin")
          /\ \A i \in DOMAIN qi : OnlyAt(qi, "AckWin", i)
                => OnlyAt(r, "AckWin", i) /\ i \in DOMAIN r
        BY <1>1, AppendQueue
    <2> HIDE DEF r
    <2>2. TurnOK(wins, s, r, qf)
        BY <2>1 DEF TurnOK, Asks, IsAnswered, Idle
    <2> QED BY <2>2 DEF r
<1>2. ASSUME NEW m \in Seq(ToIM), NoneOf(m, "AckWin") PROVE TurnOK(wins, s, qi \o m, qf)
    <2> DEFINE r == qi \o m
    <2>1. /\ NoneOf(qi, "AckWin") => NoneOf(r, "AckWin")
          /\ \A i \in DOMAIN qi : OnlyAt(qi, "AckWin", i)
                => i \in DOMAIN r /\ OnlyAt(r, "AckWin", i)
        BY <1>2, ConcatQueue
    <2> HIDE DEF r
    <2>2. TurnOK(wins, s, r, qf)
        BY <2>1 DEF TurnOK, Asks, IsAnswered, Idle
    <2> QED BY <2>2 DEF r
<1> QED BY <1>1, <1>2

LEMMA ReadsOther ==
    ASSUME NEW wins, NEW s, NEW qi, NEW qf \in Seq(ToFb), TurnOK(wins, s, qi, qf),
           qf # <<>>, Head(qf).type # "SetWin"
    PROVE  TurnOK(wins, s, qi, Tail(qf))
<1> DEFINE r == Tail(qf)
<1>1. /\ NoneOf(qf, "SetWin") => NoneOf(r, "SetWin")
      /\ \A i \in DOMAIN qf : OnlyAt(qf, "SetWin", i) =>
           i - 1 \in DOMAIN r /\ OnlyAt(r, "SetWin", i - 1) /\ r[i - 1] = qf[i]
    BY TailQueue
<1> HIDE DEF r
<1>2. ASSUME Asked(s, qf) PROVE Asked(s, r)
    <2>1. PICK i \in DOMAIN qf :
            /\ OnlyAt(qf, "SetWin", i)
            /\ NextFill(s) => qf[i].winid = s.calls[1].winid /\ qf[i].rect = s.calls[1].rect
        BY <1>2 DEF Asked
    <2>2. i - 1 \in DOMAIN r /\ OnlyAt(r, "SetWin", i - 1) /\ r[i - 1] = qf[i]
        BY <1>1, <2>1
    <2> QED BY <2>1, <2>2 DEF Asked
<1>3. TurnOK(wins, s, qi, r)
    BY <1>1, <1>2 DEF TurnOK, Asks, IsAnswered, Idle
<1> QED BY <1>3 DEF r

\* FbTerm reads the request, puts the window there and answers: the turn is
\* the server's.
LEMMA Answers ==
    ASSUME NEW wins, NEW after, NEW s, NEW qi \in Seq(ToIM), NEW qf \in Seq(ToFb),
           TurnOK(wins, s, qi, qf), qf # <<>>, Head(qf).type = "SetWin",
           after[Head(qf).winid] = Head(qf).rect
    PROVE  TurnOK(after, s, Append(qi, M("AckWin")), Tail(qf))
<1> DEFINE r == Append(qi, M("AckWin"))
           u == Tail(qf)
<1>0. 1 \in DOMAIN qf /\ Head(qf) = qf[1]
    OBVIOUS
<1>1. ~NoneOf(qf, "SetWin")
    BY <1>0 DEF NoneOf
<1>2. CASE s.pc = "waiting"
    <2>1. Asked(s, qf) /\ NoneOf(qi, "AckWin")
        BY <1>1, <1>2 DEF TurnOK, Asks, IsAnswered
    <2>2. PICK i \in DOMAIN qf :
            /\ OnlyAt(qf, "SetWin", i)
            /\ NextFill(s) => qf[i].winid = s.calls[1].winid /\ qf[i].rect = s.calls[1].rect
        BY <2>1 DEF Asked
    <2>3. i = 1 /\ NoneOf(u, "SetWin")
        BY <2>2, TailQueue
    <2>4. FillReady(after, s)
        BY <1>0, <2>2, <2>3 DEF FillReady
    <2>5. M("AckWin") \in ToIM /\ M("AckWin").type = "AckWin"
        BY MessageTypes, AckType
    <2>6. OnlyAt(r, "AckWin", Len(qi) + 1) /\ Len(qi) + 1 \in DOMAIN r
        BY <2>1, <2>5, AppendQueue
    <2> HIDE DEF r, u
    <2>7. IsAnswered(after, s, r, u)
        BY <2>3, <2>4, <2>6 DEF IsAnswered
    <2>8. TurnOK(after, s, r, u)
        BY <1>2, <2>7 DEF TurnOK
    <2> QED BY <2>8 DEF r, u
<1>3. CASE s.pc # "waiting"
    <2>1. s.pc = "dead"
        BY <1>1, <1>3 DEF TurnOK, Idle
    <2> QED BY <2>1 DEF TurnOK
<1> QED BY <1>2, <1>3

\* setImWin puts the window where it is asked to be.
LEMMA SetImWinPuts ==
    ASSUME NEW p \in ProxyState, CountedIn(p), NEW w \in Wins, NEW r \in Rects
    PROVE  setImWin(p, w, r).mWins[w] = r
<1>1. ASSUME NEW q \in ProxyState PROVE PutTo(q, w, r).mWins[w] = r
    <2> DEFINE a == [q EXCEPT !.mWins = [q.mWins EXCEPT ![w] = r]]
               num == IF w \notin Shown(q) /\ r # NoRect
                      THEN q.mValidWinNum + 1 ELSE q.mValidWinNum
    <2>1. PutTo(q, w, r) = [q EXCEPT !.mWins = [q.mWins EXCEPT ![w] = r],
                    !.mWinMsgs = [q.mWinMsgs EXCEPT ![w] = 0],
                    !.mValidWinNum = num]
        BY DEF PutTo
    <2> HIDE DEF num
    <2>2. PutTo(q, w, r).mWins = [q.mWins EXCEPT ![w] = r]
        BY <2>1, ProxyFields
    <2> QED BY <2>2, ProxyFields
<1>2. CASE active /\ p.mWins[w] \notin {NoRect, r}
    <2>1. w \in Shown(p)
        BY <1>2 DEF Shown
    <2>2. TakeAway(p, w) \in ProxyState
        BY <2>1, TakeAwayOK
    <2>3. setImWin(p, w, r) = PutTo(TakeAway(p, w), w, r)
        BY <1>2 DEF setImWin
    <2> QED BY <1>1, <2>2, <2>3
<1>3. CASE ~(active /\ p.mWins[w] \notin {NoRect, r})
    <2>1. setImWin(p, w, r) = PutTo(p, w, r)
        BY <1>3 DEF setImWin
    <2> QED BY <1>1, <2>1
<1> QED BY <1>2, <1>3

\* What the server does next to what FbTerm knows of its windows.
LEMMA ServerDialogue ==
    ASSUME ServerOK, Dialogue, Server, UNCHANGED proxyVars
    PROVE  Dialogue'
<1> DEFINE wins == proxy.mWins
<1>0. /\ im \in ServerState /\ toIM \in Seq(ToIM) /\ toFb \in Seq(ToFb)
      /\ CallsOK(im) /\ TurnOK(wins, im, toIM, toFb) /\ FillsOK(wins, toFb)
    BY DEF ServerOK, Dialogue
<1>w. proxy' = proxy
    BY DEF proxyVars
<1>n. proxy.there
    <2>1. im.pc # "none"
        BY DEF Server, connect_fbterm, check_im_message, read, process_message,
               setImWindow, fillRect, deactivated, ackHideUI, wait_message, Calling
    <2>2. NoServer.pc = "none"
        BY DEF NoServer, Blank
    <2> QED BY <2>1, <2>2 DEF Dialogue
<1>q. SUFFICES CallsOK(im') /\ TurnOK(wins, im', toIM', toFb') /\ FillsOK(wins, toFb')
    BY <1>w, <1>n DEF Dialogue
<1> HIDE DEF wins
\* A message of another kind to FbTerm, and the turn is still the server's.
<1>s. ASSUME NEW m \in ToFb, m.type \notin {"SetWin", "FillRect"}
      PROVE  /\ FillsOK(wins, Append(toFb, m))
             /\ NoneOf(toFb, "SetWin") => NoneOf(Append(toFb, m), "SetWin")
    BY <1>0, <1>s, AppendFills, AppendQueue
<1>i. im.pc \notin {"waiting", "dead"} => Idle(wins, im, toIM, toFb)
    BY <1>0 DEF TurnOK
<1>c. ASSUME im.calls # <<>>, im.pc = "running"
      PROVE  /\ Head(im.calls) = im.calls[1]
             /\ Called.calls = Tail(im.calls) /\ Called.pc = "running"
             /\ Called.im_active = im.im_active
             /\ CallsOK(Called)
             /\ NextFill(Called) =>
                  /\ im.im_active
                  /\ im.calls[1] = set_im_window(Called.calls[1].winid, Called.calls[1].rect)
    <2>1. /\ Head(im.calls) = im.calls[1]
          /\ Called.calls = Tail(im.calls) /\ Called.pc = "running"
          /\ Called.im_active = im.im_active
        BY <1>0, <1>c, ServerFields DEF Called, ServerState
    <2> QED BY <1>0, <1>c, <2>1, NextCall
<1>o. \A w, r : set_im_window(w, r).op = "set_im_window" /\ set_im_window(w, r).winid = w
                  /\ set_im_window(w, r).rect = r
    BY DEF set_im_window
<1>1. CASE connect_fbterm
    <2>1. /\ im.pc = "started" /\ toFb' = Append(toFb, M("Connect")) /\ toIM' = toIM
          /\ im'.pc = "reading" /\ im'.calls = im.calls /\ im'.im_active = im.im_active
        BY <1>0, <1>1 DEF connect_fbterm, ServerState
    <2>2. M("Connect") \in ToFb /\ M("Connect").type = "Connect"
        BY MessageTypes, AckType
    <2>3. FillsOK(wins, toFb') /\ NoneOf(toFb', "SetWin")
        BY <1>i, <1>s, <2>1, <2>2 DEF Idle
    <2>4. CallsOK(im')
        BY <1>0, <2>1 DEF CallsOK
    <2>5. TurnOK(wins, im', toIM', toFb')
        BY <1>i, <2>1, <2>3 DEF TurnOK, Idle, FillReady, NextFill
    <2> QED BY <2>3, <2>4, <2>5
<1>2. CASE check_im_message
    <2>1. /\ im.pc = "running" /\ toFb' = toFb /\ toIM' = toIM
          /\ im'.pc \in {"reading", "running"}
          /\ im'.calls = im.calls /\ im'.im_active = im.im_active
        BY <1>0, <1>2 DEF check_im_message, ServerState
    <2>4. CallsOK(im')
        BY <1>0, <2>1 DEF CallsOK
    <2>5. TurnOK(wins, im', toIM', toFb')
        BY <1>i, <2>1 DEF TurnOK, Idle, FillReady, NextFill
    <2> QED BY <1>0, <2>1, <2>4, <2>5
<1>3. CASE read
    <2>1. PICK n \in 1 .. Len(toIM) :
            /\ im' = [im EXCEPT !.pc = "running", !.batch = SubSeq(toIM, 1, n)]
            /\ toIM' = SubSeq(toIM, n + 1, Len(toIM))
        BY <1>3 DEF read
    <2>2. /\ im.pc = "reading" /\ toFb' = toFb /\ im'.pc = "running"
          /\ im'.calls = im.calls /\ im'.im_active = im.im_active
        BY <1>0, <1>3, <2>1 DEF read, ServerState
    <2>3. NoneOf(toIM', "AckWin")
        BY <1>0, <1>i, <2>1, <2>2, SplitQueue DEF Idle
    <2>4. CallsOK(im')
        BY <1>0, <2>2 DEF CallsOK
    <2>5. TurnOK(wins, im', toIM', toFb')
        BY <1>i, <2>2, <2>3 DEF TurnOK, Idle, FillReady, NextFill
    <2> QED BY <1>0, <2>2, <2>4, <2>5
<1>4. CASE process_message
    <2> DEFINE m == Head(im.batch)
    <2>1. /\ im.pc = "running" /\ im.calls = <<>> /\ im.batch # <<>>
          /\ toFb' = toFb /\ toIM' = toIM
        BY <1>4 DEF process_message
    <2>2. /\ im'.pc = "running" /\ im'.calls = Response(m)
          /\ im'.im_active = (im.im_active \/ m.type = "Active")
        <3> DEFINE b == Tail(im.batch)
                   r == Response(m)
                   a == im.im_active \/ m.type = "Active"
                   c == IF m.type = "CursorPosition" /\ im.im_active
                        THEN m.cursor ELSE im.cursor
        <3>1. im' = [im EXCEPT !.batch = b, !.calls = r, !.im_active = a, !.cursor = c]
            BY <1>4 DEF process_message
        <3> HIDE DEF b, r, a, c
        <3>2. im'.pc = im.pc /\ im'.calls = r /\ im'.im_active = a
            BY <1>0, <3>1 DEF ServerState
        <3> QED BY <2>1, <3>2 DEF r, a
    <2> HIDE DEF m
    <2>3. \A i \in DOMAIN im'.calls : im'.calls[i].op = "fill_rect" =>
            /\ im.im_active /\ i > 1
            /\ im'.calls[i - 1] = set_im_window(im'.calls[i].winid, im'.calls[i].rect)
            /\ \A j \in DOMAIN im'.calls : im'.calls[j].op # "deactivated"
        BY <1>0, <2>2, ResponseShape
    <2>4. CallsOK(im')
        BY <2>2, <2>3 DEF CallsOK
    <2>5. ~NextFill(im')
        <3>1. m \in ToIM
            BY <1>0, <2>1, ServerFields DEF m
        <3>2. im'.calls \in Seq(Calls)
            BY <1>0, <2>2, <3>1, ResponseOK
        <3>3. im'.calls # <<>> => 1 \in DOMAIN im'.calls
            BY <3>2
        <3> QED BY <2>3, <3>3 DEF NextFill
    <2>6. TurnOK(wins, im', toIM', toFb')
        BY <1>i, <2>1, <2>2, <2>5 DEF TurnOK, Idle, FillReady
    <2> QED BY <1>0, <2>1, <2>4, <2>6
<1>5. CASE setImWindow
    <2>1. /\ im.pc = "running" /\ im.calls # <<>> /\ Head(im.calls).op = "set_im_window"
          /\ toIM' = toIM
        BY <1>5 DEF setImWindow, Calling
    <2>2. CASE im.im_active
        <3> DEFINE x == SetWin(Head(im.calls).winid, Head(im.calls).rect)
        <3>1. toFb' = Append(toFb, x) /\ im' = [Called EXCEPT !.pc = "waiting"]
            BY <1>5, <2>2 DEF setImWindow
        <3>2. x \in ToFb /\ x.type = "SetWin"
              /\ x.winid = Head(im.calls).winid /\ x.rect = Head(im.calls).rect
            <4>1. Head(im.calls) \in Calls
                BY <1>0, <2>1, ServerFields
            <4> QED BY <2>1, <4>1, CallFields, MessageTypes DEF SetWin
        <3> HIDE DEF x
        <3>3. /\ im'.pc = "waiting" /\ im'.calls = Tail(im.calls)
              /\ im'.im_active = im.im_active
            BY <1>0, <1>c, <2>1, <3>1, ServerFields DEF Called, ServerState
        <3>4. CallsOK(im')
            BY <1>0, <2>1, <3>3, NextCall
        <3>5. FillsOK(wins, toFb')
            BY <1>0, <3>1, <3>2, AppendFills
        <3>6. NoneOf(toFb, "SetWin") /\ NoneOf(toIM', "AckWin")
            BY <1>i, <2>1 DEF Idle
        <3>7. /\ OnlyAt(toFb', "SetWin", Len(toFb) + 1)
              /\ Len(toFb) + 1 \in DOMAIN toFb' /\ toFb'[Len(toFb) + 1] = x
            BY <1>0, <3>1, <3>2, <3>6, AppendQueue
        <3>8. NextFill(im') => x.winid = im'.calls[1].winid /\ x.rect = im'.calls[1].rect
            <4>1. im'.calls = Called.calls /\ (NextFill(im') <=> NextFill(Called))
                BY <1>c, <2>1, <3>3 DEF NextFill
            <4> HIDE DEF NextFill
            <4>2. NextFill(im') => /\ Head(im.calls)
                                        = set_im_window(im'.calls[1].winid, im'.calls[1].rect)
                BY <1>c, <2>1, <4>1
            <4> QED BY <1>o, <3>2, <4>2
        <3>9. Asked(im', toFb')
            BY <3>7, <3>8 DEF Asked
        <3>10. TurnOK(wins, im', toIM', toFb')
            BY <3>3, <3>6, <3>9 DEF TurnOK, Asks
        <3> QED BY <3>4, <3>5, <3>10
    <2>3. CASE ~im.im_active
        <3>1. im' = Called /\ toFb' = toFb
            BY <1>5, <2>3 DEF setImWindow
        <3>2. CallsOK(im') /\ ~NextFill(im') /\ im'.pc = "running"
            BY <1>c, <2>1, <2>3, <3>1
        <3>3. TurnOK(wins, im', toIM', toFb')
            BY <1>i, <2>1, <3>1, <3>2 DEF TurnOK, Idle, FillReady
        <3> QED BY <1>0, <3>1, <3>2, <3>3
    <2> QED BY <2>2, <2>3
<1>6. CASE fillRect
    <2> DEFINE x == FillRect(Head(im.calls).winid, Head(im.calls).rect)
    <2>1. /\ im.pc = "running" /\ im.calls # <<>> /\ Head(im.calls).op = "fill_rect"
          /\ toIM' = toIM /\ im' = Called /\ toFb' = Append(toFb, x)
        BY <1>6 DEF fillRect, Calling
    <2>2. x \in ToFb /\ x.type = "FillRect"
          /\ x.winid = Head(im.calls).winid /\ x.rect = Head(im.calls).rect
        <3>1. Head(im.calls) \in Calls
            BY <1>0, <2>1, ServerFields
        <3> QED BY <2>1, <3>1, CallFields, MessageTypes DEF FillRect
    <2> HIDE DEF x
    <2>3. /\ NoneOf(toFb, "SetWin") /\ NoneOf(toIM, "AckWin")
          /\ wins[x.winid] = x.rect
        BY <1>c, <1>i, <2>1, <2>2 DEF Idle, FillReady, NextFill
    <2>4. FillsOK(wins, toFb')
        BY <1>0, <2>1, <2>2, <2>3, AppendFills
    <2>5. NoneOf(toFb', "SetWin")
        BY <1>0, <2>1, <2>2, <2>3, AppendQueue
    <2>6. CallsOK(im') /\ ~NextFill(im') /\ im'.pc = "running"
        <3>1. Head(im.calls) = im.calls[1] /\ im.calls[1].op # "set_im_window"
            BY <1>c, <2>1
        <3> QED BY <1>c, <1>o, <2>1, <3>1
    <2>7. TurnOK(wins, im', toIM', toFb')
        BY <2>1, <2>3, <2>5, <2>6 DEF TurnOK, Idle, FillReady
    <2> QED BY <2>4, <2>6, <2>7
<1>7. CASE deactivated
    <2>1. /\ im.pc = "running" /\ im.calls # <<>> /\ Head(im.calls).op = "deactivated"
          /\ toIM' = toIM /\ toFb' = toFb
          /\ im' = [Called EXCEPT !.im_active = FALSE]
        BY <1>7 DEF deactivated, Calling
    <2>2. im'.calls = Tail(im.calls) /\ im'.pc = "running" /\ im.calls[1].op = "deactivated"
        BY <1>0, <1>c, <2>1, ServerFields DEF Called, ServerState
    <2>3. CallsOK(im') /\ ~NextFill(im')
        <3>1. /\ CallsOK(im')
              /\ NextFill(im') => im.calls[1] = set_im_window(im'.calls[1].winid,
                                                              im'.calls[1].rect)
            BY <1>0, <2>1, <2>2, NextCall
        <3> QED BY <1>o, <2>2, <3>1
    <2>4. TurnOK(wins, im', toIM', toFb')
        BY <1>i, <2>1, <2>2, <2>3 DEF TurnOK, Idle, FillReady
    <2> QED BY <1>0, <2>1, <2>3, <2>4
<1>8. CASE ackHideUI
    <2>1. /\ im.pc = "running" /\ im.calls # <<>> /\ Head(im.calls).op = "AckHideUI"
          /\ toIM' = toIM /\ im' = Called /\ toFb' = Append(toFb, M("AckHideUI"))
        BY <1>8 DEF ackHideUI, Calling
    <2>2. M("AckHideUI") \in ToFb /\ M("AckHideUI").type = "AckHideUI"
        BY MessageTypes, AckType
    <2>3. FillsOK(wins, toFb') /\ NoneOf(toFb', "SetWin")
        BY <1>i, <1>s, <2>1, <2>2 DEF Idle
    <2>4. CallsOK(im') /\ ~NextFill(im') /\ im'.pc = "running"
        <3>1. Head(im.calls) = im.calls[1] /\ im.calls[1].op # "set_im_window"
            BY <1>c, <2>1
        <3> QED BY <1>c, <1>o, <2>1, <3>1
    <2>5. TurnOK(wins, im', toIM', toFb')
        BY <1>i, <2>1, <2>3, <2>4 DEF TurnOK, Idle, FillReady
    <2> QED BY <2>3, <2>4, <2>5
<1>9. CASE wait_message
    <2>1. PICK n \in 1 .. Len(toIM) :
            LET got == SubSeq(toIM, 1, n)
                Ack(i) == got[i] = M("AckWin")
            IN  /\ toIM' = SubSeq(toIM, n + 1, Len(toIM))
                /\ \/ /\ \A i \in 1 .. n : ~Ack(i)
                      /\ im' = [im EXCEPT !.pending = @ \o got]
                      /\ UNCHANGED toFb
                   \/ \E k \in 1 .. n :
                        /\ Ack(k) /\ \A i \in 1 .. k - 1 : ~Ack(i)
                        /\ im' = [im EXCEPT !.pending = @ \o RemoveAt(got, k),
                                            !.pc = "running"]
                        /\ toFb' = WakeUp(im.pending \o RemoveAt(got, k))
        BY <1>9 DEF wait_message
    <2> DEFINE got == SubSeq(toIM, 1, n)
    <2>2. im.pc = "waiting" /\ (Asks(im, toIM, toFb) \/ IsAnswered(wins, im, toIM, toFb))
        BY <1>0, <1>9 DEF wait_message, TurnOK
    <2>3. /\ got \in Seq(ToIM) /\ Len(got) = n
          /\ NoneOf(toIM, "AckWin") => NoneOf(got, "AckWin") /\ NoneOf(toIM', "AckWin")
          /\ \A i \in DOMAIN toIM : OnlyAt(toIM, "AckWin", i) =>
               IF NoneOf(got, "AckWin") THEN \E j \in DOMAIN toIM' : OnlyAt(toIM', "AckWin", j)
                                        ELSE NoneOf(toIM', "AckWin")
        BY <1>0, <2>1, SplitQueue
    <2> HIDE DEF got
    <2>4. DOMAIN got = 1 .. n /\ \A i \in 1 .. n : got[i] \in ToIM
        BY <2>3
    <2>5. CASE /\ \A i \in 1 .. n : got[i] # M("AckWin")
               /\ im' = [im EXCEPT !.pending = @ \o got] /\ UNCHANGED toFb
        <3>1. NoneOf(got, "AckWin")
            BY <2>4, <2>5, AckType DEF NoneOf
        <3>2. im'.pc = "waiting" /\ im'.calls = im.calls /\ im'.im_active = im.im_active
            BY <1>0, <2>2, <2>5 DEF ServerState
        <3>3. Asks(im', toIM', toFb') \/ IsAnswered(wins, im', toIM', toFb')
            <4>1. CASE Asks(im, toIM, toFb)
                BY <2>3, <2>5, <3>2, <4>1 DEF Asks, Asked, NextFill
            <4>2. CASE IsAnswered(wins, im, toIM, toFb)
                BY <2>3, <2>5, <3>1, <3>2, <4>2 DEF IsAnswered, FillReady, NextFill
            <4> QED BY <2>2, <4>1, <4>2
        <3>4. CallsOK(im') /\ TurnOK(wins, im', toIM', toFb')
            BY <1>0, <3>2, <3>3 DEF CallsOK, TurnOK
        <3> QED BY <1>0, <2>5, <3>4
    <2>6. ASSUME NEW k \in 1 .. n, got[k] = M("AckWin"),
                 im' = [im EXCEPT !.pending = @ \o RemoveAt(got, k), !.pc = "running"],
                 toFb' = WakeUp(im.pending \o RemoveAt(got, k))
          PROVE  CallsOK(im') /\ TurnOK(wins, im', toIM', toFb') /\ FillsOK(wins, toFb')
        <3>1. ~NoneOf(got, "AckWin")
            BY <2>4, <2>6, AckType DEF NoneOf
        <3>2. /\ im'.pc = "running" /\ im'.calls = im.calls
              /\ im'.im_active = im.im_active
            <4> DEFINE p == im.pending \o RemoveAt(got, k)
            <4>1. im' = [im EXCEPT !.pending = p, !.pc = "running"]
                BY <2>6
            <4> HIDE DEF p
            <4> QED BY <1>0, <4>1 DEF ServerState
        <3>3. IsAnswered(wins, im, toIM, toFb) /\ NoneOf(toIM', "AckWin")
            BY <2>2, <2>3, <3>1 DEF Asks, IsAnswered
        <3>4. M("Ping") \in ToFb /\ M("Ping").type = "Ping"
            BY MessageTypes, AckType
        <3>5. FillsOK(wins, toFb') /\ NoneOf(toFb', "SetWin")
            BY <1>0, <1>s, <2>6, <3>3, <3>4 DEF WakeUp, IsAnswered
        <3>6. CallsOK(im') /\ TurnOK(wins, im', toIM', toFb')
            BY <1>0, <3>2, <3>3, <3>5
               DEF CallsOK, TurnOK, Idle, IsAnswered, FillReady, NextFill
        <3> QED BY <3>5, <3>6
    <2> QED BY <2>1, <2>5, <2>6 DEF got
<1> QED BY <1>1, <1>2, <1>3, <1>4, <1>5, <1>6, <1>7, <1>8, <1>9 DEF Server

\* What FbTerm does with one message of the server.
LEMMA ReadDialogue ==
    ASSUME Inv, Dialogue, readyRead, UNCHANGED im
    PROVE  Dialogue'
<1>0. /\ proxy \in ProxyState /\ CountedIn(proxy)
      /\ toIM \in Seq(ToIM) /\ toFb \in Seq(ToFb)
      /\ CallsOK(im) /\ TurnOK(proxy.mWins, im, toIM, toFb) /\ FillsOK(proxy.mWins, toFb)
    BY DEF Inv, ProxyOK, ProxyTypeOK, ServerOK, Dialogue
<1>1. PICK type : Received(type)
    BY DEF readyRead, OnConnect, OnAckHideUI, OnPing, OnSetWin, OnFillRect
<1>2. proxy.there /\ toFb # <<>> /\ toFb' = Tail(toFb) /\ Head(toFb) \in ToFb
    BY <1>0, <1>1 DEF Received
<1> SUFFICES /\ TurnOK(proxy'.mWins, im, toIM', Tail(toFb))
             /\ FillsOK(proxy'.mWins, Tail(toFb)) /\ proxy'.there
    BY <1>0, <1>2 DEF Dialogue
<1>3. ASSUME Head(toFb).type # "SetWin"
      PROVE  TurnOK(proxy.mWins, im, toIM, Tail(toFb)) /\ FillsOK(proxy.mWins, Tail(toFb))
    BY <1>0, <1>2, <1>3, ReadsOther, TailFills
<1>4. Noted.mWins = proxy.mWins /\ Noted.there = proxy.there /\ Noted \in ProxyState
    BY <1>0 DEF Noted, ProxyState
<1>5. CASE OnConnect
    <2>1. /\ Head(toFb).type = "Connect" /\ proxy' = [Noted EXCEPT !.mConnected = TRUE]
          /\ toIM' = Append(toIM, M("FbTermInfo"))
        BY <1>5 DEF OnConnect, Received
    <2>2. proxy'.mWins = proxy.mWins /\ proxy'.there = proxy.there
        BY <1>4, <2>1 DEF ProxyState
    <2>3. M("FbTermInfo") \in ToIM /\ M("FbTermInfo").type # "AckWin"
        BY MessageTypes, AckType
    <2> QED BY <1>0, <1>2, <1>3, <2>1, <2>2, <2>3, SaysOther
<1>6. CASE OnAckHideUI
    BY <1>2, <1>3, <1>4, <1>6 DEF OnAckHideUI, Received
<1>7. CASE OnPing
    <2>1. /\ Head(toFb).type = "Ping" /\ proxy' = proxy
          /\ toIM' = Append(toIM, M("AckPing"))
        BY <1>7 DEF OnPing, Received, proxyVars
    <2>2. M("AckPing") \in ToIM /\ M("AckPing").type # "AckWin"
        BY MessageTypes, AckType
    <2> QED BY <1>0, <1>2, <1>3, <2>1, <2>2, SaysOther
<1>8. CASE OnSetWin
    <2>1. /\ Head(toFb).type = "SetWin"
          /\ proxy' = setImWin(proxy, Head(toFb).winid, Head(toFb).rect)
          /\ toIM' = Append(toIM, M("AckWin"))
        BY <1>8 DEF OnSetWin, Received
    <2>2. Head(toFb).winid \in Wins /\ Head(toFb).rect \in Rects
        BY <1>2, <2>1, SetWinFields
    <2>3. /\ proxy'.mWins[Head(toFb).winid] = Head(toFb).rect
          /\ proxy'.there = proxy.there
        BY <1>0, <2>1, <2>2, SetImWinOK, SetImWinPuts DEF SameConnection
    <2>4. TurnOK(proxy'.mWins, im, toIM', Tail(toFb))
        BY <1>0, <1>2, <2>1, <2>3, Answers
    <2>5. FillsOK(proxy'.mWins, Tail(toFb))
        BY <1>0, <1>2, <2>1, TailFills
    <2> QED BY <1>2, <2>3, <2>4, <2>5
<1>9. CASE OnFillRect
    <2>1. /\ Head(toFb).type = "FillRect" /\ toIM' = toIM
          /\ proxy' = addWinMsg(proxy, Head(toFb).winid, Head(toFb).rect)
        BY <1>9 DEF OnFillRect, Received
    <2>2. proxy'.mWins = proxy.mWins /\ proxy'.there = proxy.there
        BY <1>0, <2>1 DEF addWinMsg, ProxyState
    <2> QED BY <1>2, <1>3, <2>1, <2>2
<1> QED BY <1>5, <1>6, <1>7, <1>8, <1>9 DEF readyRead

\* What FbTerm sends by itself asks and answers nothing, and no other step of
\* it moves a window.
LEMMA FbTermDialogue ==
    ASSUME Inv, Dialogue, UNCHANGED im,
           toggleIm \/ drawCursor \/ leave \/ enter \/ connected \/ hidden
    PROVE  Dialogue'
<1>0. /\ proxy \in ProxyState /\ mCursor \in Cursors
      /\ toIM \in Seq(ToIM) /\ toFb \in Seq(ToFb)
      /\ CallsOK(im) /\ TurnOK(proxy.mWins, im, toIM, toFb) /\ FillsOK(proxy.mWins, toFb)
    BY DEF Inv, ProxyOK, ProxyTypeOK, ServerOK, Dialogue
<1>1. SUFFICES /\ TurnOK(proxy.mWins, im, toIM', toFb)
               /\ proxy'.mWins = proxy.mWins /\ proxy'.there = proxy.there
               /\ toFb' = toFb
    BY <1>0 DEF Dialogue
<1>2. ASSUME NEW p \in ProxyState
      PROVE  /\ toggleActive(p).mWins = p.mWins /\ toggleActive(p).there = p.there
             /\ ToggleMessages(p) \in Seq(ToIM) /\ NoneOf(ToggleMessages(p), "AckWin")
    <2>1. toggleActive(p).mWins = p.mWins /\ toggleActive(p).there = p.there
        BY <1>2 DEF toggleActive, ProxyState
    <2>2. /\ M("Active") \in ToIM /\ M("Deactive") \in ToIM /\ CursorPosition(mCursor) \in ToIM
          /\ M("Active").type # "AckWin" /\ M("Deactive").type # "AckWin"
          /\ CursorPosition(mCursor).type # "AckWin"
        BY <1>0, MessageTypes, AckType
    <2>3. /\ ToggleMessages(p) \in Seq(ToIM)
          /\ \/ ToggleMessages(p) = <<>> \/ ToggleMessages(p) = <<M("Deactive")>>
             \/ ToggleMessages(p) = <<M("Active"), CursorPosition(mCursor)>>
        BY <2>2 DEF ToggleMessages
    <2>4. NoneOf(ToggleMessages(p), "AckWin")
        BY <2>2, <2>3 DEF NoneOf
    <2> QED BY <2>1, <2>3, <2>4
<1>3. CASE toggleIm
    <2>1. /\ proxy' = toggleActive(proxy) /\ toIM' = toIM \o ToggleMessages(proxy)
          /\ toFb' = toFb
        BY <1>3 DEF toggleIm
    <2> QED BY <1>0, <1>2, <2>1, SaysOther
<1>4. CASE drawCursor
    <2>1. PICK c \in Cursors \ {mCursor} :
            toIM' = IF active /\ proxy.mConnected /\ proxy.mActive
                    THEN Append(toIM, CursorPosition(c)) ELSE toIM
        BY <1>4 DEF drawCursor
    <2>2. proxy' = proxy /\ toFb' = toFb
        BY <1>4 DEF drawCursor
    <2>3. CursorPosition(c) \in ToIM /\ CursorPosition(c).type # "AckWin"
        BY MessageTypes, AckType
    <2> QED BY <1>0, <2>1, <2>2, <2>3, SaysOther
<1>5. CASE leave
    <2>1. M("HideUI") \in ToIM /\ M("HideUI").type # "AckWin"
        BY MessageTypes, AckType
    <2>2. toFb' = toFb /\ (toIM' = toIM \/ toIM' = Append(toIM, M("HideUI")))
        BY <1>5 DEF leave
    <2>3. proxy'.mWins = proxy.mWins /\ proxy'.there = proxy.there
        BY <1>0, <1>5 DEF leave, waitImMessage, ProxyState
    <2> QED BY <1>0, <2>1, <2>2, <2>3, SaysOther
<1>6. CASE enter
    <2>1. /\ M("ShowUI") \in ToIM /\ M("ShowUI").type # "AckWin"
          /\ CursorPosition(mCursor) \in ToIM /\ CursorPosition(mCursor).type # "AckWin"
        BY <1>0, MessageTypes, AckType
    <2>2. /\ <<M("ShowUI"), CursorPosition(mCursor)>> \in Seq(ToIM)
          /\ NoneOf(<<M("ShowUI"), CursorPosition(mCursor)>>, "AckWin")
        BY <2>1 DEF NoneOf
    <2>3. /\ toFb' = toFb /\ proxy' = proxy
          /\ toIM' = toIM \/ toIM' = toIM \o <<M("ShowUI"), CursorPosition(mCursor)>>
        BY <1>6 DEF enter
    <2> QED BY <1>0, <2>2, <2>3, SaysOther
<1>7. CASE connected
    <2> DEFINE p == [proxy EXCEPT !.mMsgWaitState = "NoMessageToWait"]
    <2>1. p \in ProxyState /\ p.mWins = proxy.mWins /\ p.there = proxy.there
        BY <1>0 DEF ProxyState
    <2>2. /\ proxy' = toggleActive(p) /\ toIM' = toIM \o ToggleMessages(p)
          /\ toFb' = toFb
        BY <1>7 DEF connected
    <2> HIDE DEF p
    <2> QED BY <1>0, <1>2, <2>1, <2>2, SaysOther
<1>8. CASE hidden
    BY <1>0, <1>8 DEF hidden, ProxyState
<1> QED BY <1>3, <1>4, <1>5, <1>6, <1>7, <1>8

\* The server comes and goes: it begins with nothing asked, and one that is
\* no more asks nothing.
LEMMA LifeDialogue ==
    ASSUME Inv, Dialogue,
           createImProcess \/ ioError \/ Delete \/ (Exit /\ UNCHANGED proxyVars)
    PROVE  Dialogue'
<1>0. /\ proxy \in ProxyState /\ im \in ServerState /\ Standing
      /\ CallsOK(im) /\ TurnOK(proxy.mWins, im, toIM, toFb) /\ FillsOK(proxy.mWins, toFb)
    BY DEF Inv, ProxyOK, ProxyTypeOK, ServerOK, Dialogue
<1>1. \A pc : Blank(pc).pc = pc /\ Blank(pc).calls = <<>>
    BY DEF Blank
<1>2. \A pc : CallsOK(Blank(pc)) /\ ~NextFill(Blank(pc))
    BY <1>1 DEF CallsOK, NextFill
<1>3. CASE createImProcess
    <2>1. /\ ~proxy.there /\ im' = Blank("started") /\ toIM' = toIM /\ toFb' = toFb
          /\ proxy' = [[proxy EXCEPT !.there = TRUE] EXCEPT
                           !.mMsgWaitState = "WaitingMessage", !.mMsgWaitType = "Connect"]
        BY <1>3 DEF createImProcess, waitImMessage
    <2>2. proxy'.mWins = proxy.mWins /\ proxy'.there = TRUE
        BY <1>0, <2>1 DEF ProxyState
    <2>3. im.pc = "none"
        BY <1>1, <2>1 DEF Dialogue, NoServer
    <2>4. NoneOf(toFb, "SetWin") /\ NoneOf(toIM, "AckWin")
        BY <1>0, <2>3 DEF TurnOK, Idle
    <2>5. TurnOK(proxy.mWins, Blank("started"), toIM, toFb)
        BY <1>1, <1>2, <2>4 DEF TurnOK, Idle, FillReady
    <2> QED BY <1>0, <1>2, <2>1, <2>2, <2>5 DEF Dialogue
<1>4. CASE ioError
    <2>1. /\ proxy' = [proxy EXCEPT !.mMsgWaitState = "GotMessage"]
          /\ UNCHANGED <<im, toIM, toFb>>
        BY <1>4 DEF ioError
    <2>2. proxy'.mWins = proxy.mWins /\ proxy'.there = proxy.there
        BY <1>0, <2>1 DEF ProxyState
    <2> QED BY <2>1, <2>2 DEF Dialogue
<1>5. CASE Delete
    <2>1. im' = NoServer /\ toIM' = <<>> /\ toFb' = <<>>
        BY <1>5 DEF Delete
    <2>2. \A wins : TurnOK(wins, NoServer, <<>>, <<>>) /\ FillsOK(wins, <<>>)
        BY <1>1, <1>2 DEF TurnOK, Idle, FillReady, NoneOf, FillsOK, NoServer
    <2> QED BY <1>2, <2>1, <2>2 DEF Dialogue, NoServer
<1>6. CASE Exit /\ UNCHANGED proxyVars
    <2>1. /\ im.pc # "none" /\ im' = Blank("dead") /\ toIM' = toIM /\ toFb' = toFb
          /\ proxy' = proxy
        BY <1>6 DEF Exit, proxyVars
    <2>2. proxy.there
        BY <1>1, <2>1 DEF Dialogue, NoServer
    <2>3. TurnOK(proxy.mWins, Blank("dead"), toIM, toFb)
        BY <1>1 DEF TurnOK
    <2> QED BY <1>0, <1>2, <2>1, <2>2, <2>3 DEF Dialogue
<1> QED BY <1>3, <1>4, <1>5, <1>6

LEMMA InitDialogue == Init => Dialogue
<1> SUFFICES ASSUME Init PROVE Dialogue
    OBVIOUS
<1>1. im = NoServer /\ toIM = <<>> /\ toFb = <<>>
    BY DEF Init
<1>2. NoServer.pc = "none" /\ NoServer.calls = <<>>
    BY DEF NoServer, Blank
<1> QED BY <1>1, <1>2 DEF Dialogue, CallsOK, TurnOK, Idle, FillReady, NextFill, NoneOf,
                          FillsOK

LEMMA NextDialogue == Inv /\ Dialogue /\ [Next]_vars => Dialogue'
<1> SUFFICES ASSUME Inv, Dialogue, [Next]_vars PROVE Dialogue'
    OBVIOUS
<1>1. CASE User
    BY <1>1, FbTermDialogue DEF User
<1>2. CASE createImProcess \/ ioError \/ killIm \/ serverGone
    BY <1>2, LifeDialogue DEF killIm, serverGone
<1>3. CASE Answer
    BY <1>3, ReadDialogue, FbTermDialogue DEF Answer
<1>4. CASE Server /\ UNCHANGED proxyVars
    BY <1>4, ServerDialogue DEF Inv
<1>5. CASE Crashes /\ Exit /\ UNCHANGED proxyVars
    BY <1>5, LifeDialogue
<1>6. CASE UNCHANGED vars
    BY <1>6 DEF vars, proxyVars, Dialogue
<1> QED BY <1>1, <1>2, <1>3, <1>4, <1>5, <1>6 DEF Next

LEMMA DialogueInvariance == Spec => [](Inv /\ Dialogue)
BY InitInv, NextInv, InitDialogue, NextDialogue, PTL DEF Spec

\* set_im_window of imapi.c returns only when FbTerm has the window where it
\* was asked to be: what the callback draws next is drawn there, whichever
\* messages of FbTerm crossed the request, whether the shell is on the screen,
\* after timeouts, crashes and a server that was killed and started again.
THEOREM DrawnWhereAsked == Spec => []DrawsInOwnWindow
<1>1. Inv /\ Dialogue => DrawsInOwnWindow
    <2> SUFFICES ASSUME Inv, Dialogue, Calling("fill_rect")
                 PROVE  proxy.mWins[Head(im.calls).winid] = Head(im.calls).rect
        BY DEF DrawsInOwnWindow
    <2>1. /\ im.pc = "running" /\ im.calls # <<>> /\ Head(im.calls).op = "fill_rect"
        BY DEF Calling
    <2>2. im.calls \in Seq(Calls)
        BY ServerFields DEF Inv, ServerOK
    <2>3. Head(im.calls) = im.calls[1]
        BY <2>1, <2>2
    <2> QED BY <2>1, <2>3 DEF Dialogue, TurnOK, Idle, FillReady, NextFill
<1> QED BY <1>1, DialogueInvariance, PTL

\* A drawing that FbTerm reads is for a window that it has, at the place it
\* was drawn for, and addWinMsg gets to that window: it is kept for
\* redrawImWin, unless the window's messages are full.
THEOREM DrawingsKept == Spec => DrawingsAreKept
<1> DEFINE w == Head(toFb).winid
           Kept == OnFillRect /\ proxy.mConnected
                     => LET v == Head(toFb).winid
                        IN  proxy'.mWinMsgs[v] = proxy.mWinMsgs[v] + 1
                              \/ proxy.mWinMsgs[v] = NR_WIN_MSGS
<1>1. Inv /\ Dialogue /\ [Next]_vars => [Kept]_vars
    <2> SUFFICES ASSUME Inv, Dialogue, OnFillRect,
                        proxy.mWinMsgs[w] # NR_WIN_MSGS
                 PROVE  proxy'.mWinMsgs[w] = proxy.mWinMsgs[w] + 1
        OBVIOUS
    <2>1. /\ proxy \in ProxyState /\ CountedIn(proxy) /\ toFb \in Seq(ToFb)
          /\ FillsOK(proxy.mWins, toFb)
        BY DEF Inv, ProxyOK, ProxyTypeOK, ServerOK, Dialogue
    <2>2. /\ toFb # <<>> /\ Head(toFb).type = "FillRect"
          /\ proxy' = addWinMsg(proxy, w, Head(toFb).rect)
        BY DEF OnFillRect, Received
    <2>3. /\ Head(toFb) = toFb[1] /\ 1 \in DOMAIN toFb /\ Head(toFb) \in ToFb
        BY <2>1, <2>2
    <2>4. proxy.mWins[w] = Head(toFb).rect
        BY <2>1, <2>2, <2>3 DEF FillsOK
    <2>5. w \in Wins /\ Head(toFb).rect \in Cursors
        BY <2>2, <2>3 DEF ToFb, M, SetWin, FillRect
    <2>6. w \in Shown(proxy)
        BY <2>4, <2>5, MessageAssumption DEF Shown
    <2>7. w \in Visited(proxy)
        BY <2>1, <2>6, VisitedAll
    <2>8. proxy.mWinMsgs[w] \in 0 .. NR_WIN_MSGS
        BY <2>1, <2>5, ProxyFields
    <2>9. proxy.mWinMsgs[w] < NR_WIN_MSGS
        BY <2>8, WinMsgsAssumption
    <2>10. proxy' = [proxy EXCEPT !.mWinMsgs = [proxy.mWinMsgs EXCEPT
                                                  ![w] = proxy.mWinMsgs[w] + 1]]
        BY <2>2, <2>4, <2>7, <2>9 DEF addWinMsg
    <2>11. proxy'.mWinMsgs = [proxy.mWinMsgs EXCEPT ![w] = proxy.mWinMsgs[w] + 1]
        BY <2>1, <2>10 DEF ProxyState
    <2> QED BY <2>1, <2>5, <2>11, ProxyFields
<1>2. [](Inv /\ Dialogue) /\ [][Next]_vars => [][Kept]_vars
    BY <1>1, PTL
<1> QED BY <1>2, DialogueInvariance DEF Spec, DrawingsAreKept
=============================================================================
