------------------------------ MODULE FrontEnd ------------------------------
(***************************************************************************)
(* FbShell (src/src/fbshell.cpp) around the window table of ShellManager:  *)
(* the terminal modes, palette and input method of each window, and the    *)
(* console they are installed in while the window is the active one: modes *)
(* of its keyboard, cursor timer, screen palette, raw keyboard.  A manager *)
(* handler changes the active window at most once, so what setActive makes *)
(* of the console follows from mActiveShell before and after the handler.  *)
(***************************************************************************)
EXTENDS ShellManager

CONSTANTS Entries,      \* palette entries the programs change
          MaxRequests   \* bound: what the programs and the server ask for

ASSUME RequestsAssumption == MaxRequests \in Nat

VARIABLES front,        \* per window: what its FbShell object holds
          con,          \* the console, and the statics of fbshell.cpp
          requests      \* requests so far (bound)

frontVars == <<man, front, con, requests>>

KeyModes == {"CursorKeyEscO", "AutoRepeatKey", "ApplicKeypad", "CRWithLF"}
ReportedModes == KeyModes \ {"AutoRepeatKey"}
CursorModes == {"CursorVisible", "CursorNone"}
ModeNames == KeyModes \cup CursorModes

\* Palette entries: compiled in, read from the configuration, set by a program.
Chosen == {"red", "blue"}
Colours == {"builtin", "configured"} \cup Chosen
Palette(colour) == [e \in Entries |-> colour]

\* ModeFlag(): everything off but key repeat, line wrapping and the cursor.
ModeFlag == [m \in ModeNames |-> m \in {"AutoRepeatKey", "CursorVisible"}]

\* ImProxy as its window sees it; told and at: the last TermMode and
\* CursorPosition message sent to its server.
NoProxy ==
    [mConnected |-> FALSE, mActive |-> FALSE, mRawInput |-> FALSE,
     told |-> {}, at |-> 0]

NewShell ==
    [modes |-> ModeFlag, mPaletteChanged |-> FALSE,
     mPalette |-> Palette("builtin"), mCursor |-> 0, mImProxy |-> NoProxy]

FrontTypeOK ==
    /\ front \in [Shells ->
          [modes : [ModeNames -> BOOLEAN], mPaletteChanged : BOOLEAN,
           mPalette : [Entries -> Colours], mCursor : 0 .. 1,
           mImProxy : [mConnected : BOOLEAN, mActive : BOOLEAN, mRawInput : BOOLEAN,
                       told : SUBSET ReportedModes, at : 0 .. 1]]]
    /\ con \in [keys : [KeyModes -> BOOLEAN], timer : BOOLEAN, raw : BOOLEAN,
                mPalette : Shells \cup {None, "unset"}, mFillColors : [Entries -> Colours],
                defaultPalette : [Entries -> Colours]]
    /\ requests \in 0 .. MaxRequests

-----------------------------------------------------------------------------
\* enableCursor runs the flashing timer of the active window's cursor.
CursorFlashes(modes) == modes["CursorVisible"] /\ ~modes["CursorNone"]

\* modeChanged: the part of the console that shows the window's modes.
modeChanged(c, w) ==
    [c EXCEPT !.keys = [m \in KeyModes |-> w.modes[m]],
              !.timer = CursorFlashes(w.modes)]

Reported(w) == {m \in ReportedModes : w.modes[m]}

\* reportMode and reportCursor reach a connected, active proxy only.
reportMode(w) ==
    IF w.mImProxy.mActive THEN [w EXCEPT !.mImProxy.told = Reported(w)] ELSE w
reportCursor(w) ==
    IF w.mImProxy.mActive THEN [w EXCEPT !.mImProxy.at = w.mCursor] ELSE w

\* The palette a window shows: a pointer to its own or to the default (None).
OwnPalette(w, s) == IF w.mPaletteChanged THEN s ELSE None
Contents(c, w) == IF w.mPaletteChanged THEN w.mPalette ELSE c.defaultPalette

\* Screen::setPalette compares pointers: the pixel values are computed anew
\* only when the screen is given another palette than it has.
setPalette(c, pointer, contents) ==
    IF c.mPalette = pointer THEN c
    ELSE [c EXCEPT !.mPalette = pointer, !.mFillColors = contents]

setWindowPalette(c, w, s) == setPalette(c, OwnPalette(w, s), Contents(c, w))
setDefaultPalette(c) == setPalette(c, None, c.defaultPalette)

\* configColors, first thing in every switchVt.
configColors(c) == [c EXCEPT !.defaultPalette = Palette("configured")]

rawOnEnter(c, w) ==
    [c EXCEPT !.raw = IF w.mImProxy.mActive THEN w.mImProxy.mRawInput ELSE @]

\* mutant: the palette of a window that never changed its own is left alone
switchVtEnter_KeepsPalette(c, w, s) ==
    LET raw == rawOnEnter(configColors(c), w)
    IN  modeChanged(IF w.mPaletteChanged THEN setWindowPalette(raw, w, s) ELSE raw, w)

\* switchVt(true, old): palette, modes and raw keyboard of the new owner.
switchVtEnter(c, w, s) ==
    modeChanged(setWindowPalette(rawOnEnter(configColors(c), w), w, s), w)

rawOnLeave(c, w) == [c EXCEPT !.raw = IF w.mImProxy.mActive THEN FALSE ELSE @]
defaultModes(c) == [c EXCEPT !.keys = [m \in KeyModes |-> m = "AutoRepeatKey"],
                             !.timer = FALSE]

\* switchVt(false, peer): without a peer the console gets its defaults back.
switchVtLeave(c, w, alone) ==
    LET cooked == rawOnLeave(configColors(c), w)
    IN  IF alone THEN setDefaultPalette(defaultModes(cooked)) ELSE cooked

\* setActive(s) as the two objects and the console see it.
Handover(c, fr, old, new) ==
    LET left == IF old = None THEN c ELSE switchVtLeave(c, fr[old], new = None)
    IN  IF old = new THEN c
        ELSE IF new = None THEN left ELSE switchVtEnter(left, fr[new], new)

\* mutant: the new owner's input method is not told where it stands
Greeted_Silently(fr, old, new) == fr

Greeted(fr, old, new) ==
    IF new \in {None, old} THEN fr
    ELSE [fr EXCEPT ![new] = reportCursor(reportMode(@))]

\* What a manager handler does to windows and console, given the windows'
\* objects when it calls setActive.
Follow(c, fr) ==
    /\ con' = Handover(c, fr, man.mActiveShell, man'.mActiveShell)
    /\ front' = Greeted(fr, man.mActiveShell, man'.mActiveShell)
    /\ UNCHANGED requests

-----------------------------------------------------------------------------
FrontInit ==
    \E active \in BOOLEAN, s \in Shells :
        LET start == [keys |-> [m \in KeyModes |-> m = "AutoRepeatKey"],
                      timer |-> FALSE, raw |-> FALSE,
                      mPalette |-> "unset", mFillColors |-> Palette("builtin"),
                      defaultPalette |-> Palette("builtin")]
            windows == [t \in Shells |-> NewShell]
        IN  /\ man = FirstWindow(active, s)
            /\ front = windows
            /\ con = Handover(start, windows, None, man.mActiveShell)
            /\ requests = 0

\* `new FbShell' finds an address whose object is gone; its fields are new.
OpenWindow ==
    \E s \in Shells \ LiveShells(man.mShellList) :
        /\ man' = createShell(man, s)
        /\ Follow(con, [front EXCEPT ![s] = NewShell])

\* ~ImProxy: the keyboard is cooked again when its window is the active one.
DropProxy(c, fr, s) ==
    [c  |-> [c EXCEPT !.raw = IF fr[s].mImProxy.mConnected /\ man.mActiveShell = s
                              THEN FALSE ELSE @],
     fr |-> [fr EXCEPT ![s].mImProxy = NoProxy]]

\* ~FbShell deletes the proxy, then leaves the table.
CloseWindow(s) ==
    LET dropped == DropProxy(con, front, s)
    IN  /\ s \in LiveShells(man.mShellList)
        /\ man' = shellExited(man, s)
        /\ Follow(dropped.c, dropped.fr)

ChooseWindow(num) == man' = switchShell(man, num) /\ Follow(con, front)
ChooseConsole(enter) == man' = switchVc(man, enter) /\ Follow(con, front)

IsActive(s) == man.mActiveShell = s

Asked == requests < MaxRequests /\ requests' = requests + 1

\* mutant: a window in the background changes the console too
ChangeMode_Anywhere(s, m) ==
    LET w == [front[s] EXCEPT !.modes[m] = ~@]
    IN  /\ Asked
        /\ s \in LiveShells(man.mShellList)
        /\ front' = [front EXCEPT ![s] = IF IsActive(s) /\ m \in ReportedModes
                                         THEN reportMode(w) ELSE w]
        /\ con' = modeChanged(con, w)
        /\ UNCHANGED man

\* enable_mode, set_cursor_type and keypad_*, each with its modeChanged.
ChangeMode(s, m) ==
    LET w == [front[s] EXCEPT !.modes[m] = ~@]
    IN  /\ Asked
        /\ s \in LiveShells(man.mShellList)
        /\ front' = [front EXCEPT ![s] = IF IsActive(s) /\ m \in ReportedModes
                                         THEN reportMode(w) ELSE w]
        /\ con' = IF IsActive(s) THEN modeChanged(con, w) ELSE con
        /\ UNCHANGED man

\* VTerm::reset: the modes of a new window, announced in one modeChanged.
ResetTerminal(s) ==
    LET w == [front[s] EXCEPT !.modes = ModeFlag]
    IN  /\ Asked
        /\ s \in LiveShells(man.mShellList)
        /\ front' = [front EXCEPT ![s] = IF IsActive(s) THEN reportMode(w) ELSE w]
        /\ con' = IF IsActive(s) THEN modeChanged(con, w) ELSE con
        /\ UNCHANGED man

\* request(PaletteSet): a window's own palette starts as a copy of the default.
SetColour(s, e, colour) ==
    LET w == [front[s] EXCEPT !.mPaletteChanged = TRUE,
                              !.mPalette = [Contents(con, front[s]) EXCEPT ![e] = colour]]
    IN  /\ Asked
        /\ s \in LiveShells(man.mShellList)
        /\ front' = [front EXCEPT ![s] = w]
        /\ con' = IF IsActive(s) THEN setWindowPalette(con, w, s) ELSE con
        /\ UNCHANGED man

\* request(PaletteClear)
ClearColours(s) ==
    /\ Asked
    /\ s \in LiveShells(man.mShellList)
    /\ front[s].mPaletteChanged
    /\ front' = [front EXCEPT ![s].mPaletteChanged = FALSE]
    /\ con' = IF IsActive(s) THEN setDefaultPalette(con) ELSE con
    /\ UNCHANGED man

\* drawCursor at a new place; only the active window reports it.
MoveCursor(s) ==
    LET w == [front[s] EXCEPT !.mCursor = 1 - @]
    IN  /\ Asked
        /\ s \in LiveShells(man.mShellList)
        /\ front' = [front EXCEPT ![s] = IF IsActive(s) THEN reportCursor(w) ELSE w]
        /\ UNCHANGED <<man, con>>

\* toggleIm creates the proxy at the first use (raw: what its server asks for
\* in Connect; a server that does not connect leaves the proxy silent).
connect(p, connects, raw) ==
    IF p.mConnected THEN p
    ELSE [p EXCEPT !.mConnected = connects, !.mRawInput = connects /\ raw]
toggleActive(p) == [p EXCEPT !.mActive = p.mConnected /\ ~@]

ToggleIm ==
    \E s \in LiveShells(man.mShellList), connects \in BOOLEAN, raw \in BOOLEAN :
        LET made == connect(front[s].mImProxy, connects, raw)
            toggled == toggleActive(made)
            w == [front[s] EXCEPT !.mImProxy = toggled]
        IN  /\ Asked
            /\ IsActive(s)
            /\ (front[s].mImProxy.mConnected \/ ~connects) => ~raw
            /\ front' = [front EXCEPT ![s] = reportMode(reportCursor(w))]
            /\ con' = IF made.mConnected
                      THEN [con EXCEPT !.raw = toggled.mRawInput /\ toggled.mActive]
                      ELSE con
            /\ UNCHANGED man

\* killIm from the keyboard, or childProcessExited for the server's process.
EndIm(s) ==
    LET dropped == DropProxy(con, front, s)
    IN  /\ Asked
        /\ s \in LiveShells(man.mShellList)
        /\ front[s].mImProxy.mConnected
        /\ con' = dropped.c
        /\ front' = dropped.fr
        /\ UNCHANGED man

FrontNext ==
    \/ OpenWindow
    \/ ToggleIm
    \/ \E num \in Slots : ChooseWindow(num)
    \/ \E enter \in BOOLEAN : ChooseConsole(enter)
    \/ \E s \in Shells :
          \/ CloseWindow(s) \/ ResetTerminal(s) \/ ClearColours(s)
          \/ MoveCursor(s) \/ EndIm(s)
          \/ \E m \in ModeNames : ChangeMode(s, m)
          \/ \E e \in Entries, colour \in Chosen : SetColour(s, e, colour)

FrontSpec == FrontInit /\ [][FrontNext]_frontVars

-----------------------------------------------------------------------------
\* The keyboard modes of the console and the cursor timer are those of the
\* active window, and the defaults when none is: no way of leaving or entering
\* a window, and no request of a background window, leaves others behind.
ConsoleHasWindowModes ==
    LET s == man.mActiveShell
    IN  /\ TypeOK /\ FrontTypeOK
        /\ IF s = None
           THEN /\ con.keys = [m \in KeyModes |-> m = "AutoRepeatKey"]
                /\ ~con.timer
           ELSE /\ con.keys = [m \in KeyModes |-> front[s].modes[m]]
                /\ con.timer = CursorFlashes(front[s].modes)

\* The screen draws with the palette of the active window, its own if it has
\* one, and with the default palette while none is active; a palette installed
\* or taken back in the background waits for its window.
ScreenHasWindowPalette ==
    LET s == man.mActiveShell
    IN  \/ con.mPalette = IF s = None THEN None ELSE OwnPalette(front[s], s)
        \/ con.mPalette = "unset" /\ s = None

\* The keyboard is raw exactly while the active window's input method is on and
\* has asked for it: a server that goes, or a switch of window, never leaves a
\* keyboard nobody can translate.  And while it is on it has the modes it must
\* translate keys with, and the cursor's place, as they are now.
ImFollowsWindow ==
    LET s == man.mActiveShell
        On == s # None /\ front[s].mImProxy.mActive
    IN  /\ con.raw = (On /\ front[s].mImProxy.mRawInput)
        /\ On => /\ front[s].mImProxy.told = Reported(front[s])
                 /\ front[s].mImProxy.at = front[s].mCursor
=============================================================================
