--------------------------- MODULE FrontEndProofs ---------------------------
(* Proofs about FrontEnd for every number of slots, every set of windows and *)
(* palette entries and every number of requests: what the console holds is   *)
(* what the active window keeps for it.                                      *)
EXTENDS FrontEnd, ShellManagerProofs

ProxyType ==
    [mConnected : BOOLEAN, mActive : BOOLEAN, mRawInput : BOOLEAN,
     told : SUBSET ReportedModes, at : 0 .. 1]
WindowType ==
    [modes : [ModeNames -> BOOLEAN], mPaletteChanged : BOOLEAN,
     mPalette : [Entries -> Colours], mCursor : 0 .. 1, mImProxy : ProxyType]
ConsoleType ==
    [keys : [KeyModes -> BOOLEAN], timer : BOOLEAN, raw : BOOLEAN,
     mPalette : Shells \cup {None, "unset"}, mFillColors : [Entries -> Colours],
     defaultPalette : [Entries -> Colours]]

\* The three properties of FrontEnd, of any console c, windows fr and active
\* window s: the operators that hand the console over are composed of others,
\* and the lemmas speak of the states in between.
ModesFor(c, fr, s) ==
    IF s = None
    THEN /\ c.keys = [m \in KeyModes |-> m = "AutoRepeatKey"]
         /\ ~c.timer
    ELSE /\ c.keys = [m \in KeyModes |-> fr[s].modes[m]]
         /\ c.timer = CursorFlashes(fr[s].modes)

PaletteFor(c, fr, s) ==
    \/ c.mPalette = IF s = None THEN None ELSE OwnPalette(fr[s], s)
    \/ c.mPalette = "unset" /\ s = None

RawFor(c, fr, s) ==
    c.raw = (s # None /\ fr[s].mImProxy.mActive /\ fr[s].mImProxy.mRawInput)

ToldFor(fr, s) ==
    s # None /\ fr[s].mImProxy.mActive =>
        /\ fr[s].mImProxy.told = Reported(fr[s])
        /\ fr[s].mImProxy.at = fr[s].mCursor

ConsoleFor(c, fr, s) ==
    ModesFor(c, fr, s) /\ PaletteFor(c, fr, s) /\ RawFor(c, fr, s) /\ ToldFor(fr, s)

\* An input method that is on is connected; ~ImProxy rests on it.
Linked(fr) == \A s \in Shells : fr[s].mImProxy.mActive => fr[s].mImProxy.mConnected

Well(c, fr) ==
    c \in ConsoleType /\ fr \in [Shells -> WindowType] /\ Linked(fr)

FrontInv ==
    /\ Inv
    /\ Well(con, front)
    /\ requests \in 0 .. MaxRequests
    /\ ConsoleFor(con, front, man.mActiveShell)

-----------------------------------------------------------------------------
LEMMA PaletteType ==
  /\ Palette("builtin") \in [Entries -> Colours]
  /\ Palette("configured") \in [Entries -> Colours]
BY DEF Palette, Colours

LEMMA ModeFlagType == ModeFlag \in [ModeNames -> BOOLEAN]
BY DEF ModeFlag

LEMMA FlashesType ==
  ASSUME NEW modes \in [ModeNames -> BOOLEAN]
  PROVE  CursorFlashes(modes) \in BOOLEAN
BY DEF CursorFlashes, ModeNames, CursorModes

LEMMA NewShellType == NewShell \in WindowType /\ NewShell.mImProxy = NoProxy
BY PaletteType, ModeFlagType DEF NewShell, WindowType, NoProxy, ProxyType

LEMMA ReportedType ==
  ASSUME NEW w \in WindowType
  PROVE  Reported(w) \in SUBSET ReportedModes
BY DEF Reported

-----------------------------------------------------------------------------
(* What each step of switchVt leaves of the console.                         *)

LEMMA ModeChangedIs ==
  ASSUME NEW c \in ConsoleType, NEW w \in WindowType
  PROVE  /\ modeChanged(c, w) \in ConsoleType
         /\ modeChanged(c, w).keys = [m \in KeyModes |-> w.modes[m]]
         /\ modeChanged(c, w).timer = CursorFlashes(w.modes)
         /\ modeChanged(c, w).raw = c.raw
         /\ modeChanged(c, w).mPalette = c.mPalette
<1>1. w.modes \in [ModeNames -> BOOLEAN]
  BY DEF WindowType
<1>2. [m \in KeyModes |-> w.modes[m]] \in [KeyModes -> BOOLEAN]
  BY <1>1 DEF ModeNames
<1>3. CursorFlashes(w.modes) \in BOOLEAN
  BY <1>1, FlashesType
<1> QED
  BY <1>2, <1>3 DEF modeChanged, ConsoleType

LEMMA SetPaletteIs ==
  ASSUME NEW c \in ConsoleType, NEW p \in Pointers, NEW colours \in [Entries -> Colours]
  PROVE  /\ setPalette(c, p, colours) \in ConsoleType
         /\ setPalette(c, p, colours).mPalette = p
         /\ setPalette(c, p, colours).keys = c.keys
         /\ setPalette(c, p, colours).timer = c.timer
         /\ setPalette(c, p, colours).raw = c.raw
<1>1. CASE c.mPalette = p
  BY <1>1 DEF setPalette
<1>2. CASE c.mPalette # p
  <2>1. setPalette(c, p, colours) = [c EXCEPT !.mPalette = p, !.mFillColors = colours]
    BY <1>2 DEF setPalette
  <2> QED BY <2>1 DEF ConsoleType, Pointers
<1> QED
  BY <1>1, <1>2

LEMMA WindowPaletteIs ==
  ASSUME NEW c \in ConsoleType, NEW w \in WindowType, NEW s \in Shells
  PROVE  /\ setWindowPalette(c, w, s) \in ConsoleType
         /\ setWindowPalette(c, w, s).mPalette = OwnPalette(w, s)
         /\ setWindowPalette(c, w, s).keys = c.keys
         /\ setWindowPalette(c, w, s).timer = c.timer
         /\ setWindowPalette(c, w, s).raw = c.raw
<1>1. OwnPalette(w, s) \in Pointers
  BY DEF OwnPalette, Pointers
<1>2. Contents(c, w) \in [Entries -> Colours]
  BY DEF Contents, WindowType, ConsoleType
<1> QED
  BY <1>1, <1>2, SetPaletteIs DEF setWindowPalette

LEMMA DefaultPaletteIs ==
  ASSUME NEW c \in ConsoleType
  PROVE  /\ setDefaultPalette(c) \in ConsoleType
         /\ setDefaultPalette(c).mPalette = None
         /\ setDefaultPalette(c).keys = c.keys
         /\ setDefaultPalette(c).timer = c.timer
         /\ setDefaultPalette(c).raw = c.raw
<1>1. None \in Pointers /\ c.defaultPalette \in [Entries -> Colours]
  BY DEF Pointers, ConsoleType
<1> QED
  BY <1>1, SetPaletteIs DEF setDefaultPalette

LEMMA ConfigColorsIs ==
  ASSUME NEW c \in ConsoleType
  PROVE  /\ configColors(c) \in ConsoleType
         /\ configColors(c).raw = c.raw
BY PaletteType DEF configColors, ConsoleType

LEMMA RawOnEnterIs ==
  ASSUME NEW c \in ConsoleType, NEW w \in WindowType
  PROVE  /\ rawOnEnter(c, w) \in ConsoleType
         /\ rawOnEnter(c, w).raw = IF w.mImProxy.mActive THEN w.mImProxy.mRawInput ELSE c.raw
<1>1. w.mImProxy.mRawInput \in BOOLEAN
  BY DEF WindowType, ProxyType
<1> QED
  BY <1>1 DEF rawOnEnter, ConsoleType

LEMMA RawOnLeaveIs ==
  ASSUME NEW c \in ConsoleType, NEW w \in WindowType
  PROVE  /\ rawOnLeave(c, w) \in ConsoleType
         /\ rawOnLeave(c, w).raw = IF w.mImProxy.mActive THEN FALSE ELSE c.raw
BY DEF rawOnLeave, ConsoleType

LEMMA DefaultModesIs ==
  ASSUME NEW c \in ConsoleType
  PROVE  /\ defaultModes(c) \in ConsoleType
         /\ defaultModes(c).keys = [m \in KeyModes |-> m = "AutoRepeatKey"]
         /\ ~defaultModes(c).timer
         /\ defaultModes(c).raw = c.raw
BY DEF defaultModes, ConsoleType

LEMMA EnterIs ==
  ASSUME NEW c \in ConsoleType, NEW w \in WindowType, NEW s \in Shells
  PROVE  /\ switchVtEnter(c, w, s) \in ConsoleType
         /\ switchVtEnter(c, w, s).keys = [m \in KeyModes |-> w.modes[m]]
         /\ switchVtEnter(c, w, s).timer = CursorFlashes(w.modes)
         /\ switchVtEnter(c, w, s).mPalette = OwnPalette(w, s)
         /\ switchVtEnter(c, w, s).raw =
                IF w.mImProxy.mActive THEN w.mImProxy.mRawInput ELSE c.raw
<1> DEFINE a == configColors(c)
           b == rawOnEnter(a, w)
           d == setWindowPalette(b, w, s)
<1>1. a \in ConsoleType /\ a.raw = c.raw
  BY ConfigColorsIs
<1> HIDE DEF a
<1>2. b \in ConsoleType /\ b.raw = IF w.mImProxy.mActive THEN w.mImProxy.mRawInput ELSE a.raw
  BY <1>1, RawOnEnterIs
<1> HIDE DEF b
<1>3. d \in ConsoleType /\ d.mPalette = OwnPalette(w, s) /\ d.raw = b.raw
  BY <1>2, WindowPaletteIs
<1> HIDE DEF d
<1>4. switchVtEnter(c, w, s) = modeChanged(d, w)
  BY DEF switchVtEnter, a, b, d
<1> QED
  BY <1>1, <1>2, <1>3, <1>4, ModeChangedIs

LEMMA LeaveIs ==
  ASSUME NEW c \in ConsoleType, NEW w \in WindowType, NEW alone \in BOOLEAN
  PROVE  /\ switchVtLeave(c, w, alone) \in ConsoleType
         /\ switchVtLeave(c, w, alone).raw = IF w.mImProxy.mActive THEN FALSE ELSE c.raw
         /\ alone =>
              /\ switchVtLeave(c, w, alone).keys = [m \in KeyModes |-> m = "AutoRepeatKey"]
              /\ ~switchVtLeave(c, w, alone).timer
              /\ switchVtLeave(c, w, alone).mPalette = None
<1> DEFINE a == configColors(c)
           b == rawOnLeave(a, w)
           d == defaultModes(b)
<1>1. a \in ConsoleType /\ a.raw = c.raw
  BY ConfigColorsIs
<1> HIDE DEF a
<1>2. b \in ConsoleType /\ b.raw = IF w.mImProxy.mActive THEN FALSE ELSE a.raw
  BY <1>1, RawOnLeaveIs
<1> HIDE DEF b
<1>3. /\ d \in ConsoleType /\ d.raw = b.raw /\ ~d.timer
      /\ d.keys = [m \in KeyModes |-> m = "AutoRepeatKey"]
  BY <1>2, DefaultModesIs
<1> HIDE DEF d
<1>4. switchVtLeave(c, w, alone) = IF alone THEN setDefaultPalette(d) ELSE b
  BY DEF switchVtLeave, a, b, d
<1>5. CASE alone
  <2>1. switchVtLeave(c, w, alone) = setDefaultPalette(d)
    BY <1>4, <1>5
  <2>2. /\ setDefaultPalette(d) \in ConsoleType
        /\ setDefaultPalette(d).mPalette = None
        /\ setDefaultPalette(d).keys = d.keys /\ setDefaultPalette(d).timer = d.timer
        /\ setDefaultPalette(d).raw = d.raw
    BY <1>3, DefaultPaletteIs
  <2>3. d.raw = IF w.mImProxy.mActive THEN FALSE ELSE c.raw
    BY <1>1, <1>2, <1>3
  <2> QED BY <1>3, <2>1, <2>2, <2>3
<1>6. CASE ~alone
  BY <1>1, <1>2, <1>4, <1>6
<1> QED
  BY <1>5, <1>6

-----------------------------------------------------------------------------
(* What the input method is told.                                            *)

LEMMA ReportModeIs ==
  ASSUME NEW w \in WindowType
  PROVE  LET r == reportMode(w)
         IN  /\ r \in WindowType
             /\ r.modes = w.modes /\ r.mPaletteChanged = w.mPaletteChanged
             /\ r.mCursor = w.mCursor
             /\ r.mImProxy.mActive = w.mImProxy.mActive
             /\ r.mImProxy.mConnected = w.mImProxy.mConnected
             /\ r.mImProxy.mRawInput = w.mImProxy.mRawInput
             /\ r.mImProxy.at = w.mImProxy.at
             /\ w.mImProxy.mActive => r.mImProxy.told = Reported(w)
             /\ ~w.mImProxy.mActive => r = w
<1>1. CASE ~w.mImProxy.mActive
  BY <1>1 DEF reportMode
<1>2. CASE w.mImProxy.mActive
  <2>1. reportMode(w) = [w EXCEPT !.mImProxy = [w.mImProxy EXCEPT !.told = Reported(w)]]
    BY <1>2 DEF reportMode
  <2>2. w.mImProxy \in ProxyType /\ Reported(w) \in SUBSET ReportedModes
    BY ReportedType DEF WindowType
  <2> DEFINE q == [w.mImProxy EXCEPT !.told = Reported(w)]
  <2>3. /\ q \in ProxyType /\ q.told = Reported(w) /\ q.mActive = w.mImProxy.mActive
        /\ q.mConnected = w.mImProxy.mConnected
        /\ q.mRawInput = w.mImProxy.mRawInput /\ q.at = w.mImProxy.at
    BY <2>2 DEF ProxyType
  <2> HIDE DEF q
  <2>4. [w EXCEPT !.mImProxy = q] \in WindowType
    BY <2>3 DEF WindowType
  <2>5. /\ [w EXCEPT !.mImProxy = q].mImProxy = q
        /\ [w EXCEPT !.mImProxy = q].modes = w.modes
        /\ [w EXCEPT !.mImProxy = q].mPaletteChanged = w.mPaletteChanged
        /\ [w EXCEPT !.mImProxy = q].mCursor = w.mCursor
    BY DEF WindowType
  <2>6. reportMode(w) = [w EXCEPT !.mImProxy = q]
    BY <2>1 DEF q
  <2> QED BY <1>2, <2>3, <2>4, <2>5, <2>6
<1> QED
  BY <1>1, <1>2

LEMMA ReportCursorIs ==
  ASSUME NEW w \in WindowType
  PROVE  LET r == reportCursor(w)
         IN  /\ r \in WindowType
             /\ r.modes = w.modes /\ r.mPaletteChanged = w.mPaletteChanged
             /\ r.mCursor = w.mCursor
             /\ r.mImProxy.mActive = w.mImProxy.mActive
             /\ r.mImProxy.mConnected = w.mImProxy.mConnected
             /\ r.mImProxy.mRawInput = w.mImProxy.mRawInput
             /\ r.mImProxy.told = w.mImProxy.told
             /\ w.mImProxy.mActive => r.mImProxy.at = w.mCursor
             /\ ~w.mImProxy.mActive => r = w
<1>1. CASE ~w.mImProxy.mActive
  BY <1>1 DEF reportCursor
<1>2. CASE w.mImProxy.mActive
  <2>1. reportCursor(w) = [w EXCEPT !.mImProxy = [w.mImProxy EXCEPT !.at = w.mCursor]]
    BY <1>2 DEF reportCursor
  <2>2. w.mImProxy \in ProxyType /\ w.mCursor \in 0 .. 1
    BY DEF WindowType
  <2> DEFINE q == [w.mImProxy EXCEPT !.at = w.mCursor]
  <2>3. /\ q \in ProxyType /\ q.at = w.mCursor /\ q.mActive = w.mImProxy.mActive
        /\ q.mConnected = w.mImProxy.mConnected
        /\ q.mRawInput = w.mImProxy.mRawInput /\ q.told = w.mImProxy.told
    BY <2>2 DEF ProxyType
  <2> HIDE DEF q
  <2>4. [w EXCEPT !.mImProxy = q] \in WindowType
    BY <2>3 DEF WindowType
  <2>5. /\ [w EXCEPT !.mImProxy = q].mImProxy = q
        /\ [w EXCEPT !.mImProxy = q].modes = w.modes
        /\ [w EXCEPT !.mImProxy = q].mPaletteChanged = w.mPaletteChanged
        /\ [w EXCEPT !.mImProxy = q].mCursor = w.mCursor
    BY DEF WindowType
  <2>6. reportCursor(w) = [w EXCEPT !.mImProxy = q]
    BY <2>1 DEF q
  <2> QED BY <1>2, <2>3, <2>4, <2>5, <2>6
<1> QED
  BY <1>1, <1>2

\* Both reports, as a window sends them that becomes active: an input method
\* that is on knows modes and cursor afterwards, and nothing else changes.
LEMMA GreetingIs ==
  ASSUME NEW w \in WindowType
  PROVE  LET r == reportCursor(reportMode(w))
         IN  /\ r \in WindowType
             /\ r.modes = w.modes /\ r.mPaletteChanged = w.mPaletteChanged
             /\ r.mImProxy.mActive = w.mImProxy.mActive
             /\ r.mImProxy.mConnected = w.mImProxy.mConnected
             /\ r.mImProxy.mRawInput = w.mImProxy.mRawInput
             /\ r.mImProxy.mActive =>
                    r.mImProxy.told = Reported(r) /\ r.mImProxy.at = r.mCursor
<1> DEFINE q == reportMode(w)
           r == reportCursor(q)
<1>1. /\ q \in WindowType
      /\ q.modes = w.modes /\ q.mPaletteChanged = w.mPaletteChanged
      /\ q.mImProxy.mActive = w.mImProxy.mActive
      /\ q.mImProxy.mConnected = w.mImProxy.mConnected
      /\ q.mImProxy.mRawInput = w.mImProxy.mRawInput
      /\ w.mImProxy.mActive => q.mImProxy.told = Reported(w)
  BY ReportModeIs
<1> HIDE DEF q
<1>2. /\ r \in WindowType
      /\ r.modes = q.modes /\ r.mPaletteChanged = q.mPaletteChanged /\ r.mCursor = q.mCursor
      /\ r.mImProxy.mActive = q.mImProxy.mActive
      /\ r.mImProxy.mConnected = q.mImProxy.mConnected
      /\ r.mImProxy.mRawInput = q.mImProxy.mRawInput
      /\ r.mImProxy.told = q.mImProxy.told
      /\ q.mImProxy.mActive => r.mImProxy.at = q.mCursor
  BY <1>1, ReportCursorIs
<1> HIDE DEF r
<1>3. Reported(r) = Reported(w)
  BY <1>1, <1>2 DEF Reported
<1>4. /\ r \in WindowType
      /\ r.modes = w.modes /\ r.mPaletteChanged = w.mPaletteChanged
      /\ r.mImProxy.mActive = w.mImProxy.mActive
      /\ r.mImProxy.mConnected = w.mImProxy.mConnected
      /\ r.mImProxy.mRawInput = w.mImProxy.mRawInput
      /\ r.mImProxy.mActive => r.mImProxy.told = Reported(r) /\ r.mImProxy.at = r.mCursor
  BY <1>1, <1>2, <1>3
<1> QED
  BY <1>4 DEF q, r

-----------------------------------------------------------------------------
(* Handing the console over.                                                 *)

LEMMA GreetedIs ==
  ASSUME NEW fr \in [Shells -> WindowType], Linked(fr), NEW old \in Pointers,
         NEW new \in Shells, old # new
  PROVE  LET g == Greeted(fr, old, new)
         IN  /\ g \in [Shells -> WindowType] /\ Linked(g)
             /\ ToldFor(g, new)
             /\ g[new].modes = fr[new].modes
             /\ g[new].mPaletteChanged = fr[new].mPaletteChanged
             /\ g[new].mImProxy.mActive = fr[new].mImProxy.mActive
             /\ g[new].mImProxy.mRawInput = fr[new].mImProxy.mRawInput
<1> DEFINE r == reportCursor(reportMode(fr[new]))
           g == Greeted(fr, old, new)
<1>1. fr[new] \in WindowType
  OBVIOUS
<1>2. /\ r \in WindowType
      /\ r.modes = fr[new].modes /\ r.mPaletteChanged = fr[new].mPaletteChanged
      /\ r.mImProxy.mActive = fr[new].mImProxy.mActive
      /\ r.mImProxy.mConnected = fr[new].mImProxy.mConnected
      /\ r.mImProxy.mRawInput = fr[new].mImProxy.mRawInput
      /\ r.mImProxy.mActive =>
             r.mImProxy.told = Reported(r) /\ r.mImProxy.at = r.mCursor
  BY <1>1, GreetingIs
<1>3. g = [fr EXCEPT ![new] = r]
  BY NamesAssumption DEF Greeted
<1> HIDE DEF r, g
<1>4. g \in [Shells -> WindowType] /\ g[new] = r /\ \A s \in Shells \ {new} : g[s] = fr[s]
  BY <1>2, <1>3
<1>5. Linked(g)
  BY <1>2, <1>4 DEF Linked
<1>6. ToldFor(g, new)
  BY <1>2, <1>4 DEF ToldFor
<1> QED
  BY <1>2, <1>4, <1>5, <1>6 DEF g

\* setActive: a console that suited the old owner, or nobody, suits the new one
\* afterwards, or nobody (FbShell::switchVt of both).
LEMMA HandoverOK ==
  ASSUME NEW c, NEW fr, Well(c, fr), NEW old \in Pointers, NEW new \in Pointers,
         ConsoleFor(c, fr, old)
  PROVE  /\ Well(Handover(c, fr, old, new), Greeted(fr, old, new))
         /\ ConsoleFor(Handover(c, fr, old, new), Greeted(fr, old, new), new)
<1>0. c \in ConsoleType /\ fr \in [Shells -> WindowType] /\ Linked(fr)
  BY DEF Well
<1>1. CASE old = new
  BY <1>1 DEF Handover, Greeted
<1>2. CASE old # new /\ new = None
  <2>1. old \in Shells /\ fr[old] \in WindowType
    BY <1>0, <1>2 DEF Pointers
  <2> DEFINE l == switchVtLeave(c, fr[old], TRUE)
  <2>2. /\ l \in ConsoleType /\ l.raw = IF fr[old].mImProxy.mActive THEN FALSE ELSE c.raw
        /\ l.keys = [m \in KeyModes |-> m = "AutoRepeatKey"] /\ ~l.timer /\ l.mPalette = None
    BY <1>0, <2>1, LeaveIs
  <2> HIDE DEF l
  <2>3. Handover(c, fr, old, new) = l /\ Greeted(fr, old, new) = fr
    BY <1>2 DEF Handover, Greeted, l
  <2>4. ~l.raw /\ l.raw \in BOOLEAN
    BY <2>2 DEF ConsoleFor, RawFor, ConsoleType
  <2>5. ConsoleFor(l, fr, None)
    BY <2>2, <2>4 DEF ConsoleFor, ModesFor, PaletteFor, RawFor, ToldFor
  <2> QED BY <1>0, <1>2, <2>2, <2>3, <2>5 DEF Well
<1>3. CASE old # new /\ new # None
  <2>1. new \in Shells /\ fr[new] \in WindowType
    BY <1>0, <1>3 DEF Pointers
  <2> DEFINE left == IF old = None THEN c ELSE switchVtLeave(c, fr[old], FALSE)
  <2>2. left \in ConsoleType /\ ~left.raw
    <3>1. CASE old = None
      BY <1>0, <3>1 DEF ConsoleFor, RawFor, ConsoleType
    <3>2. CASE old # None
      <4>1. old \in Shells /\ fr[old] \in WindowType
        BY <1>0, <3>2 DEF Pointers
      <4>2. left = switchVtLeave(c, fr[old], FALSE)
        BY <3>2
      <4>3. left \in ConsoleType /\ left.raw = IF fr[old].mImProxy.mActive THEN FALSE ELSE c.raw
        BY <1>0, <4>1, <4>2, LeaveIs
      <4> QED BY <4>3 DEF ConsoleFor, RawFor, ConsoleType
    <3> QED BY <3>1, <3>2
  <2>3. Handover(c, fr, old, new) = switchVtEnter(left, fr[new], new)
    BY <1>3, NamesAssumption DEF Handover
  <2> HIDE DEF left
  <2> DEFINE e == switchVtEnter(left, fr[new], new)
             g == Greeted(fr, old, new)
  <2>4. /\ e \in ConsoleType
        /\ e.keys = [m \in KeyModes |-> fr[new].modes[m]]
        /\ e.timer = CursorFlashes(fr[new].modes)
        /\ e.mPalette = OwnPalette(fr[new], new)
        /\ e.raw = IF fr[new].mImProxy.mActive THEN fr[new].mImProxy.mRawInput ELSE left.raw
    BY <2>1, <2>2, EnterIs
  <2> HIDE DEF e
  <2>5. /\ g \in [Shells -> WindowType] /\ Linked(g)
        /\ ToldFor(g, new)
        /\ g[new].modes = fr[new].modes
        /\ g[new].mPaletteChanged = fr[new].mPaletteChanged
        /\ g[new].mImProxy.mActive = fr[new].mImProxy.mActive
        /\ g[new].mImProxy.mRawInput = fr[new].mImProxy.mRawInput
    BY <1>0, <1>3, <2>1, GreetedIs
  <2> HIDE DEF g
  <2>6. ModesFor(e, g, new)
    BY <1>3, <2>4, <2>5 DEF ModesFor
  <2>7. PaletteFor(e, g, new)
    BY <1>3, <2>4, <2>5 DEF PaletteFor, OwnPalette
  <2>8. RawFor(e, g, new)
    <3>1. /\ g[new].mImProxy.mActive \in BOOLEAN /\ g[new].mImProxy.mRawInput \in BOOLEAN
          /\ left.raw = FALSE
      BY <2>1, <2>2, <2>5 DEF WindowType, ProxyType, ConsoleType
    <3> QED BY <1>3, <2>4, <2>5, <3>1 DEF RawFor
  <2>9. Well(e, g) /\ ConsoleFor(e, g, new)
    BY <2>4, <2>5, <2>6, <2>7, <2>8 DEF Well, ConsoleFor
  <2> QED BY <2>3, <2>9 DEF e, g
<1> QED
  BY <1>1, <1>2, <1>3

-----------------------------------------------------------------------------
(* Changes of one window.                                                    *)

LEMMA WindowChanges ==
  ASSUME NEW c \in ConsoleType, NEW fr \in [Shells -> WindowType], Linked(fr),
         NEW s \in Shells, NEW w \in WindowType,
         w.mImProxy.mActive => w.mImProxy.mConnected
  PROVE  LET g == [fr EXCEPT ![s] = w]
         IN  /\ Well(c, g) /\ g[s] = w
             /\ \A t \in Pointers \ {s} : ConsoleFor(c, fr, t) => ConsoleFor(c, g, t)
<1> DEFINE g == [fr EXCEPT ![s] = w]
<1>1. g \in [Shells -> WindowType] /\ g[s] = w /\ \A t \in Shells \ {s} : g[t] = fr[t]
  OBVIOUS
<1> HIDE DEF g
<1>2. Linked(g)
  BY <1>1 DEF Linked
<1>3. ASSUME NEW t \in Pointers \ {s}, ConsoleFor(c, fr, t) PROVE ConsoleFor(c, g, t)
  <2>1. CASE t = None
    BY <1>3, <2>1 DEF ConsoleFor, ModesFor, PaletteFor, RawFor, ToldFor
  <2>2. CASE t \in Shells
    <3>1. g[t] = fr[t]
      BY <1>1, <1>3, <2>2
    <3> QED BY <1>3, <3>1 DEF ConsoleFor, ModesFor, PaletteFor, RawFor, ToldFor
  <2> QED BY <2>1, <2>2 DEF Pointers
<1>4. Well(c, g) /\ g[s] = w /\ \A t \in Pointers \ {s} : ConsoleFor(c, fr, t) => ConsoleFor(c, g, t)
  BY <1>1, <1>2, <1>3 DEF Well
<1> QED
  BY <1>4 DEF g

\* ~ImProxy: the keyboard is given back if the window was the active one.
LEMMA DropProxyOK ==
  ASSUME Inv, NEW c, NEW fr, Well(c, fr), ConsoleFor(c, fr, man.mActiveShell),
         NEW s \in Shells
  PROVE  LET d == DropProxy(c, fr, s)
         IN  Well(d.c, d.fr) /\ ConsoleFor(d.c, d.fr, man.mActiveShell)
<1> DEFINE a  == man.mActiveShell
           q  == fr[s].mImProxy.mConnected /\ a = s
           c1 == [c EXCEPT !.raw = IF q THEN FALSE ELSE @]
           w  == [fr[s] EXCEPT !.mImProxy = NoProxy]
           g  == [fr EXCEPT ![s] = w]
<1>1. c \in ConsoleType /\ fr \in [Shells -> WindowType] /\ Linked(fr) /\ fr[s] \in WindowType
  BY DEF Well
<1>2. a \in Pointers
  BY DEF Inv, WF, Base, ManagerState
<1>3. /\ c1 \in ConsoleType /\ c1.raw = (IF q THEN FALSE ELSE c.raw)
      /\ c1.keys = c.keys /\ c1.timer = c.timer /\ c1.mPalette = c.mPalette
  BY <1>1 DEF ConsoleType
<1>4. NoProxy \in ProxyType
  BY DEF NoProxy, ProxyType
<1>5. /\ w \in WindowType /\ w.mImProxy = NoProxy /\ w.modes = fr[s].modes
      /\ w.mPaletteChanged = fr[s].mPaletteChanged
  BY <1>1, <1>4 DEF WindowType
<1>6. ~w.mImProxy.mActive
  BY <1>5 DEF NoProxy
<1>7. DropProxy(c, fr, s).c = c1 /\ DropProxy(c, fr, s).fr = g
  BY DEF DropProxy
<1> HIDE DEF c1, w
<1>8. Well(c1, g) /\ g[s] = w /\ \A t \in Pointers \ {s} : ConsoleFor(c1, fr, t) => ConsoleFor(c1, g, t)
  BY <1>1, <1>3, <1>5, <1>6, WindowChanges
<1> HIDE DEF g
<1>9. CASE a # s
  <2>1. ~q
    BY <1>9
  <2>2. ConsoleFor(c1, fr, a)
    BY <1>3, <2>1 DEF ConsoleFor, ModesFor, PaletteFor, RawFor, a
  <2> QED BY <1>2, <1>7, <1>8, <1>9, <2>2
<1>10. CASE a = s
  <2>1. ~c1.raw /\ c1.raw \in BOOLEAN
    <3>1. CASE fr[s].mImProxy.mConnected
      BY <1>3, <1>10, <3>1
    <3>2. CASE ~fr[s].mImProxy.mConnected
      <4>1. ~fr[s].mImProxy.mActive
        BY <1>1, <3>2 DEF Linked
      <4>2. c.raw = FALSE
        BY <1>10, <4>1 DEF ConsoleFor, RawFor
      <4> QED BY <1>3, <4>2
    <3> QED BY <3>1, <3>2
  <2>2. s # None
    BY NamesAssumption
  <2>3. ModesFor(c1, g, s) /\ PaletteFor(c1, g, s)
    BY <1>3, <1>5, <1>8, <1>10, <2>2 DEF ConsoleFor, ModesFor, PaletteFor, OwnPalette, a
  <2>4. RawFor(c1, g, s) /\ ToldFor(g, s)
    BY <1>6, <1>8, <2>1 DEF RawFor, ToldFor
  <2> QED BY <1>7, <1>8, <1>10, <2>3, <2>4 DEF ConsoleFor, a
<1> QED
  BY <1>9, <1>10

\* A handler of the manager, after which setActive has moved the console.
LEMMA Followed ==
  ASSUME Inv, Inv', requests \in 0 .. MaxRequests, NEW c, NEW fr, Well(c, fr),
         ConsoleFor(c, fr, man.mActiveShell), Follow(c, fr)
  PROVE  FrontInv'
<1>1. man.mActiveShell \in Pointers /\ man'.mActiveShell \in Pointers
  BY DEF Inv, WF, Base, ManagerState
<1>2. /\ con' = Handover(c, fr, man.mActiveShell, man'.mActiveShell)
      /\ front' = Greeted(fr, man.mActiveShell, man'.mActiveShell)
      /\ requests' = requests
  BY DEF Follow
<1>3. Well(con', front') /\ ConsoleFor(con', front', man'.mActiveShell)
  BY <1>1, <1>2, HandoverOK
<1> QED
  BY <1>2, <1>3 DEF FrontInv, Well, ConsoleFor, ModesFor, PaletteFor, RawFor, ToldFor

\* A request that leaves the manager alone changes one window, and the console
\* only if that window is the active one.
LEMMA Requested ==
  ASSUME FrontInv, UNCHANGED man, requests' \in 0 .. MaxRequests,
         NEW s \in Shells, NEW w \in WindowType, w.mImProxy.mActive => w.mImProxy.mConnected,
         front' = [front EXCEPT ![s] = w], con' \in ConsoleType,
         man.mActiveShell # s => con' = con,
         man.mActiveShell = s => /\ con'.keys = [m \in KeyModes |-> w.modes[m]]
                                 /\ con'.timer = CursorFlashes(w.modes)
                                 /\ con'.mPalette = OwnPalette(w, s)
                                 /\ con'.raw = (w.mImProxy.mActive /\ w.mImProxy.mRawInput)
                                 /\ w.mImProxy.mActive => /\ w.mImProxy.told = Reported(w)
                                                          /\ w.mImProxy.at = w.mCursor
  PROVE  FrontInv'
<1> DEFINE a == man.mActiveShell
<1>1. front \in [Shells -> WindowType] /\ Linked(front) /\ ConsoleFor(con, front, a)
  BY DEF FrontInv, Well
<1>2. a \in Pointers
  BY DEF FrontInv, Inv, WF, Base, ManagerState
<1>3. /\ Well(con', front') /\ front'[s] = w
      /\ \A t \in Pointers \ {s} : ConsoleFor(con', front, t) => ConsoleFor(con', front', t)
  BY <1>1, WindowChanges
<1>4. ConsoleFor(con', front', a)
  <2>1. CASE a # s
    BY <1>1, <1>2, <1>3, <2>1
  <2>2. CASE a = s
    <3>1. s # None
      BY NamesAssumption
    <3>2. ModesFor(con', front', s) /\ PaletteFor(con', front', s)
      BY <1>3, <2>2, <3>1 DEF ModesFor, PaletteFor
    <3>3. RawFor(con', front', s) /\ ToldFor(front', s)
      BY <1>3, <2>2, <3>1 DEF RawFor, ToldFor
    <3> QED BY <2>2, <3>2, <3>3 DEF ConsoleFor
  <2> QED BY <2>1, <2>2
<1>5. Inv'
  BY DEF FrontInv, Inv, WF, Base, ActiveOK, CountOK, RunsOnlyWithWindows
<1> QED
  BY <1>3, <1>4, <1>5 DEF FrontInv, Well, ConsoleFor, ModesFor, PaletteFor, RawFor, ToldFor

-----------------------------------------------------------------------------
LEMMA FrontStarts == FrontInit => FrontInv
<1> SUFFICES ASSUME NEW t \in BOOLEAN, NEW s \in Shells,
                    man = FirstWindow(t, s),
                    front = [u \in Shells |-> NewShell],
                    con = Handover([keys |-> [m \in KeyModes |-> m = "AutoRepeatKey"],
                                    timer |-> FALSE, raw |-> FALSE, mPalette |-> "unset",
                                    mFillColors |-> Palette("builtin"),
                                    defaultPalette |-> Palette("builtin")],
                                   [u \in Shells |-> NewShell], None, man.mActiveShell),
                    requests = 0
             PROVE  FrontInv
  BY DEF FrontInit
<1> DEFINE start == [keys |-> [m \in KeyModes |-> m = "AutoRepeatKey"],
                     timer |-> FALSE, raw |-> FALSE, mPalette |-> "unset",
                     mFillColors |-> Palette("builtin"),
                     defaultPalette |-> Palette("builtin")]
           windows == [u \in Shells |-> NewShell]
           a == man.mActiveShell
<1>1. Inv
  BY InitInv DEF Init
<1>2. start \in ConsoleType
  BY PaletteType DEF ConsoleType
<1>3. windows \in [Shells -> WindowType] /\ Linked(windows)
  BY NewShellType DEF Linked, NoProxy
<1>4. ConsoleFor(start, windows, None)
  BY DEF ConsoleFor, ModesFor, PaletteFor, RawFor, ToldFor
<1>5. Well(start, windows)
  BY <1>2, <1>3 DEF Well
<1>6. a \in Pointers /\ None \in Pointers
  BY <1>1 DEF Inv, WF, Base, ManagerState, Pointers
<1>7. con = Handover(start, windows, None, a) /\ front = windows
  OBVIOUS
<1> HIDE DEF start, windows, a
<1>8. /\ Well(Handover(start, windows, None, a), Greeted(windows, None, a))
      /\ ConsoleFor(Handover(start, windows, None, a), Greeted(windows, None, a), a)
  BY <1>4, <1>5, <1>6, HandoverOK
<1>9. Greeted(windows, None, a) \in [Shells -> WindowType]
  BY <1>8 DEF Well
<1>10. \A w \in Shells : ~windows[w].mImProxy.mActive
  BY NewShellType DEF windows, NoProxy
<1>11. Greeted(windows, None, a) = windows
  <2>1. CASE a = None
    BY <2>1 DEF Greeted
  <2>2. CASE a \in Shells
    <3>1. windows[a] \in WindowType /\ ~windows[a].mImProxy.mActive
      BY <1>3, <1>10, <2>2
    <3>2. reportMode(windows[a]) = windows[a] /\ reportCursor(windows[a]) = windows[a]
      BY <3>1 DEF reportMode, reportCursor
    <3>3. [windows EXCEPT ![a] = windows[a]] = windows
      BY <1>3, <2>2
    <3> QED BY <2>2, <3>2, <3>3, NamesAssumption DEF Greeted
  <2> QED BY <1>6, <2>1, <2>2 DEF Pointers
<1>12. requests \in 0 .. MaxRequests
  BY RequestsAssumption
<1> QED
  BY <1>1, <1>7, <1>8, <1>11, <1>12 DEF FrontInv, a

-----------------------------------------------------------------------------
(* The actions.                                                              *)

LEMMA OpenWindowOK ==
  ASSUME FrontInv, OpenWindow
  PROVE  FrontInv'
<1>1. PICK s \in Shells \ LiveShells(man.mShellList) :
         man' = createShell(man, s) /\ Follow(con, [front EXCEPT ![s] = NewShell])
  BY DEF OpenWindow
<1>2. Inv /\ Inv'
  BY <1>1, NextInv DEF FrontInv, CreateShell, Next
<1>3. man.mActiveShell # s /\ man.mActiveShell \in Pointers
  <2>1. man.mActiveShell \in {None} \cup LiveShells(man.mShellList)
    BY <1>2 DEF Inv, WF, Base, ActiveOK, ManagerState, LiveShells
  <2> QED BY <1>2, <2>1, NamesAssumption DEF Inv, WF, Base, ManagerState
<1>4. /\ con \in ConsoleType /\ front \in [Shells -> WindowType] /\ Linked(front)
      /\ requests \in 0 .. MaxRequests /\ ConsoleFor(con, front, man.mActiveShell)
  BY DEF FrontInv, Well
<1>5. NewShell \in WindowType /\ ~NewShell.mImProxy.mActive
  BY NewShellType DEF NoProxy
<1> DEFINE fr == [front EXCEPT ![s] = NewShell]
<1>6. Well(con, fr) /\ ConsoleFor(con, fr, man.mActiveShell)
  BY <1>3, <1>4, <1>5, WindowChanges
<1> HIDE DEF fr
<1>7. Follow(con, fr)
  BY <1>1 DEF fr
<1> QED
  BY <1>2, <1>4, <1>6, <1>7, Followed

LEMMA CloseWindowOK ==
  ASSUME FrontInv, NEW s \in Shells, CloseWindow(s)
  PROVE  FrontInv'
<1> DEFINE d == DropProxy(con, front, s)
<1>1. /\ s \in LiveShells(man.mShellList) /\ man' = shellExited(man, s)
      /\ Follow(d.c, d.fr)
  BY DEF CloseWindow
<1>2. Inv /\ Inv'
  BY <1>1, NextInv DEF FrontInv, DestroyShell, Next
<1>3. Well(con, front) /\ ConsoleFor(con, front, man.mActiveShell) /\ requests \in 0 .. MaxRequests
  BY DEF FrontInv
<1>4. Well(d.c, d.fr) /\ ConsoleFor(d.c, d.fr, man.mActiveShell)
  BY <1>2, <1>3, DropProxyOK
<1> HIDE DEF d
<1> QED
  BY <1>1, <1>2, <1>3, <1>4, Followed

LEMMA ChooseOK ==
  ASSUME FrontInv
  PROVE  /\ \A num \in Slots : ChooseWindow(num) => FrontInv'
         /\ \A enter \in BOOLEAN : ChooseConsole(enter) => FrontInv'
<1>1. Inv /\ Well(con, front) /\ ConsoleFor(con, front, man.mActiveShell)
      /\ requests \in 0 .. MaxRequests
  BY DEF FrontInv
<1>2. ASSUME NEW num \in Slots, ChooseWindow(num) PROVE FrontInv'
  <2>1. Inv'
    BY <1>1, <1>2, NextInv DEF ChooseWindow, SwitchShell, Next
  <2>2. Follow(con, front)
    BY <1>2 DEF ChooseWindow
  <2> QED BY <1>1, <2>1, <2>2, Followed
<1>3. ASSUME NEW enter \in BOOLEAN, ChooseConsole(enter) PROVE FrontInv'
  <2>1. Inv'
    BY <1>1, <1>3, NextInv DEF ChooseConsole, SwitchVc, Next
  <2>2. Follow(con, front)
    BY <1>3 DEF ChooseConsole
  <2> QED BY <1>1, <2>1, <2>2, Followed
<1> QED
  BY <1>2, <1>3

\* What the invariant says of a window and, if it is the active one, of the
\* console.
LEMMA OfWindow ==
  ASSUME FrontInv, NEW s \in Shells
  PROVE  LET w == front[s]
         IN  /\ con \in ConsoleType /\ w \in WindowType
             /\ w.mImProxy.mActive => w.mImProxy.mConnected
             /\ man.mActiveShell = s =>
                   /\ con.keys = [m \in KeyModes |-> w.modes[m]]
                   /\ con.timer = CursorFlashes(w.modes)
                   /\ con.mPalette = OwnPalette(w, s)
                   /\ con.raw = (w.mImProxy.mActive /\ w.mImProxy.mRawInput)
                   /\ w.mImProxy.mActive => /\ w.mImProxy.told = Reported(w)
                                            /\ w.mImProxy.at = w.mCursor
<1>1. con \in ConsoleType /\ front[s] \in WindowType
  BY DEF FrontInv, Well
<1>2. front[s].mImProxy.mActive => front[s].mImProxy.mConnected
  BY DEF FrontInv, Well, Linked
<1>3. ASSUME man.mActiveShell = s
      PROVE  /\ con.keys = [m \in KeyModes |-> front[s].modes[m]]
             /\ con.timer = CursorFlashes(front[s].modes)
             /\ con.mPalette = OwnPalette(front[s], s)
             /\ con.raw = (front[s].mImProxy.mActive /\ front[s].mImProxy.mRawInput)
             /\ front[s].mImProxy.mActive =>
                   /\ front[s].mImProxy.told = Reported(front[s])
                   /\ front[s].mImProxy.at = front[s].mCursor
  <2>1. s # None /\ ConsoleFor(con, front, s)
    BY <1>3, NamesAssumption DEF FrontInv
  <2>2. ModesFor(con, front, s) /\ PaletteFor(con, front, s)
        /\ RawFor(con, front, s) /\ ToldFor(front, s)
    BY <2>1 DEF ConsoleFor
  <2>3. con.keys = [m \in KeyModes |-> front[s].modes[m]] /\ con.timer = CursorFlashes(front[s].modes)
    BY <2>1, <2>2 DEF ModesFor
  <2>4. con.mPalette = OwnPalette(front[s], s)
    BY <2>1, <2>2 DEF PaletteFor
  <2>5. con.raw = (front[s].mImProxy.mActive /\ front[s].mImProxy.mRawInput)
    BY <2>1, <2>2 DEF RawFor
  <2>6. front[s].mImProxy.mActive =>
           /\ front[s].mImProxy.told = Reported(front[s])
           /\ front[s].mImProxy.at = front[s].mCursor
    BY <2>1, <2>2 DEF ToldFor
  <2> QED BY <2>3, <2>4, <2>5, <2>6
<1> QED
  BY <1>1, <1>2, <1>3

\* New modes of a window, reported or none of those an input method is told of.
LEMMA NewModes ==
  ASSUME FrontInv, UNCHANGED man, requests' \in 0 .. MaxRequests, NEW s \in Shells,
         NEW modes \in [ModeNames -> BOOLEAN], NEW reports \in BOOLEAN,
         ~reports => \A r \in ReportedModes : modes[r] = front[s].modes[r],
         front' = [front EXCEPT ![s] =
                      IF man.mActiveShell = s /\ reports
                      THEN reportMode([front[s] EXCEPT !.modes = modes])
                      ELSE [front[s] EXCEPT !.modes = modes]],
         con' = IF man.mActiveShell = s
                THEN modeChanged(con, [front[s] EXCEPT !.modes = modes]) ELSE con
  PROVE  FrontInv'
<1> DEFINE w0 == [front[s] EXCEPT !.modes = modes]
           w  == IF man.mActiveShell = s /\ reports THEN reportMode(w0) ELSE w0
<1>1. /\ con \in ConsoleType /\ front[s] \in WindowType
      /\ front[s].mImProxy.mActive => front[s].mImProxy.mConnected
  BY OfWindow
<1>2. /\ w0 \in WindowType /\ w0.modes = modes /\ w0.mImProxy = front[s].mImProxy
      /\ w0.mPaletteChanged = front[s].mPaletteChanged /\ w0.mCursor = front[s].mCursor
  BY <1>1 DEF WindowType
<1>3. front' = [front EXCEPT ![s] = w]
  OBVIOUS
<1>4. con' = IF man.mActiveShell = s THEN modeChanged(con, w0) ELSE con
  OBVIOUS
<1> HIDE DEF w0
<1>5. /\ w \in WindowType /\ w.modes = modes
      /\ w.mPaletteChanged = w0.mPaletteChanged /\ w.mCursor = w0.mCursor
      /\ w.mImProxy.mActive = w0.mImProxy.mActive
      /\ w.mImProxy.mConnected = w0.mImProxy.mConnected
      /\ w.mImProxy.mRawInput = w0.mImProxy.mRawInput
      /\ w.mImProxy.at = w0.mImProxy.at
      /\ man.mActiveShell = s /\ reports /\ w0.mImProxy.mActive => w.mImProxy.told = Reported(w0)
      /\ ~reports => w = w0
  <2>1. CASE man.mActiveShell = s /\ reports
    BY <1>2, <2>1, ReportModeIs
  <2>2. CASE ~(man.mActiveShell = s /\ reports)
    BY <1>2, <2>2
  <2> QED BY <2>1, <2>2
<1>6. /\ modeChanged(con, w0) \in ConsoleType
      /\ modeChanged(con, w0).keys = [m \in KeyModes |-> modes[m]]
      /\ modeChanged(con, w0).timer = CursorFlashes(modes)
      /\ modeChanged(con, w0).raw = con.raw
      /\ modeChanged(con, w0).mPalette = con.mPalette
  BY <1>1, <1>2, ModeChangedIs
<1> HIDE DEF w
<1>7. con' \in ConsoleType
  BY <1>1, <1>4, <1>6
<1>8. w.mImProxy.mActive => w.mImProxy.mConnected
  BY <1>1, <1>2, <1>5
<1>9. ASSUME man.mActiveShell = s
      PROVE  /\ con'.keys = [m \in KeyModes |-> w.modes[m]]
             /\ con'.timer = CursorFlashes(w.modes)
             /\ con'.mPalette = OwnPalette(w, s)
             /\ con'.raw = (w.mImProxy.mActive /\ w.mImProxy.mRawInput)
             /\ w.mImProxy.mActive => /\ w.mImProxy.told = Reported(w)
                                      /\ w.mImProxy.at = w.mCursor
  <2>1. /\ con.mPalette = OwnPalette(front[s], s)
        /\ con.raw = (front[s].mImProxy.mActive /\ front[s].mImProxy.mRawInput)
        /\ front[s].mImProxy.mActive =>
              /\ front[s].mImProxy.told = Reported(front[s])
              /\ front[s].mImProxy.at = front[s].mCursor
    BY <1>9, OfWindow
  <2>2. con' = modeChanged(con, w0)
    BY <1>4, <1>9
  <2>3. con'.keys = [m \in KeyModes |-> w.modes[m]] /\ con'.timer = CursorFlashes(w.modes)
    BY <1>5, <1>6, <2>2
  <2>4. con'.mPalette = OwnPalette(w, s)
    BY <1>2, <1>5, <1>6, <2>1, <2>2 DEF OwnPalette
  <2>5. con'.raw = (w.mImProxy.mActive /\ w.mImProxy.mRawInput)
    BY <1>2, <1>5, <1>6, <2>1, <2>2
  <2>6. ASSUME w.mImProxy.mActive
        PROVE  w.mImProxy.told = Reported(w) /\ w.mImProxy.at = w.mCursor
    <3>1. w.mImProxy.at = w.mCursor
      BY <1>2, <1>5, <2>1, <2>6
    <3>2. Reported(w) = Reported(w0)
      BY <1>2, <1>5 DEF Reported
    <3>3. CASE reports
      BY <1>5, <1>9, <2>6, <3>1, <3>2, <3>3
    <3>4. CASE ~reports
      <4>1. Reported(w0) = Reported(front[s])
        BY <1>2, <3>4 DEF Reported
      <4> QED BY <1>2, <1>5, <2>1, <2>6, <3>1, <3>2, <3>4, <4>1
    <3> QED BY <3>3, <3>4
  <2> QED BY <2>3, <2>4, <2>5, <2>6
<1>10. man.mActiveShell # s => con' = con
  BY <1>4
<1> QED
  BY <1>3, <1>5, <1>7, <1>8, <1>9, <1>10, Requested

LEMMA AskedOK ==
  ASSUME FrontInv, Asked
  PROVE  requests' \in 0 .. MaxRequests
BY RequestsAssumption DEF FrontInv, Asked

LEMMA ChangeModeOK ==
  ASSUME FrontInv, NEW s \in Shells, NEW m \in ModeNames, ChangeMode(s, m)
  PROVE  FrontInv'
<1> DEFINE modes == [front[s].modes EXCEPT ![m] = ~@]
           reports == m \in ReportedModes
<1>1. front[s] \in WindowType /\ front[s].modes \in [ModeNames -> BOOLEAN]
  BY OfWindow DEF WindowType
<1>2. modes \in [ModeNames -> BOOLEAN] /\ reports \in BOOLEAN
  BY <1>1
<1>3. ~reports => \A r \in ReportedModes : modes[r] = front[s].modes[r]
  BY <1>1 DEF ReportedModes, ModeNames
<1>4. [front[s] EXCEPT !.modes[m] = ~@] = [front[s] EXCEPT !.modes = modes]
  BY <1>1 DEF WindowType
<1>5. /\ UNCHANGED man /\ requests' \in 0 .. MaxRequests
      /\ front' = [front EXCEPT ![s] =
                      IF man.mActiveShell = s /\ reports
                      THEN reportMode([front[s] EXCEPT !.modes = modes])
                      ELSE [front[s] EXCEPT !.modes = modes]]
      /\ con' = IF man.mActiveShell = s
                THEN modeChanged(con, [front[s] EXCEPT !.modes = modes]) ELSE con
  BY <1>4, AskedOK DEF ChangeMode, IsActive
<1> HIDE DEF modes, reports
<1> QED
  BY <1>2, <1>3, <1>5, NewModes

LEMMA ResetTerminalOK ==
  ASSUME FrontInv, NEW s \in Shells, ResetTerminal(s)
  PROVE  FrontInv'
<1>1. /\ UNCHANGED man /\ requests' \in 0 .. MaxRequests
      /\ front' = [front EXCEPT ![s] =
                      IF man.mActiveShell = s /\ TRUE
                      THEN reportMode([front[s] EXCEPT !.modes = ModeFlag])
                      ELSE [front[s] EXCEPT !.modes = ModeFlag]]
      /\ con' = IF man.mActiveShell = s
                THEN modeChanged(con, [front[s] EXCEPT !.modes = ModeFlag]) ELSE con
  BY AskedOK DEF ResetTerminal, IsActive
<1> QED
  BY <1>1, ModeFlagType, NewModes

LEMMA SetColourOK ==
  ASSUME FrontInv, NEW s \in Shells, NEW e \in Entries, NEW colour \in Chosen,
         SetColour(s, e, colour)
  PROVE  FrontInv'
<1> DEFINE palette == [Contents(con, front[s]) EXCEPT ![e] = colour]
           w == [front[s] EXCEPT !.mPaletteChanged = TRUE, !.mPalette = palette]
<1>1. /\ con \in ConsoleType /\ front[s] \in WindowType
      /\ front[s].mImProxy.mActive => front[s].mImProxy.mConnected
  BY OfWindow
<1>2. Contents(con, front[s]) \in [Entries -> Colours]
  BY <1>1 DEF Contents, WindowType, ConsoleType
<1>3. palette \in [Entries -> Colours]
  BY <1>2 DEF Colours
<1>4. /\ UNCHANGED man /\ requests' \in 0 .. MaxRequests
      /\ front' = [front EXCEPT ![s] = w]
      /\ con' = IF man.mActiveShell = s THEN setWindowPalette(con, w, s) ELSE con
  BY AskedOK DEF SetColour, IsActive
<1> HIDE DEF palette
<1>5. /\ w \in WindowType /\ w.modes = front[s].modes /\ w.mImProxy = front[s].mImProxy
      /\ w.mCursor = front[s].mCursor
  BY <1>1, <1>3 DEF WindowType
<1> HIDE DEF w
<1>6. /\ setWindowPalette(con, w, s) \in ConsoleType
      /\ setWindowPalette(con, w, s).mPalette = OwnPalette(w, s)
      /\ setWindowPalette(con, w, s).keys = con.keys
      /\ setWindowPalette(con, w, s).timer = con.timer
      /\ setWindowPalette(con, w, s).raw = con.raw
  BY <1>1, <1>5, WindowPaletteIs
<1>7. Reported(w) = Reported(front[s])
  BY <1>5 DEF Reported
<1>8. con' \in ConsoleType
  BY <1>1, <1>4, <1>6
<1>9. ASSUME man.mActiveShell = s
      PROVE  /\ con'.keys = [m \in KeyModes |-> w.modes[m]]
             /\ con'.timer = CursorFlashes(w.modes)
             /\ con'.mPalette = OwnPalette(w, s)
             /\ con'.raw = (w.mImProxy.mActive /\ w.mImProxy.mRawInput)
             /\ w.mImProxy.mActive => /\ w.mImProxy.told = Reported(w)
                                      /\ w.mImProxy.at = w.mCursor
  <2>1. con' = setWindowPalette(con, w, s)
    BY <1>4, <1>9
  <2> QED BY <1>5, <1>6, <1>7, <1>9, <2>1, OfWindow
<1>10. w.mImProxy.mActive => w.mImProxy.mConnected
  BY <1>1, <1>5
<1>11. man.mActiveShell # s => con' = con
  BY <1>4
<1> QED
  BY <1>4, <1>5, <1>8, <1>9, <1>10, <1>11, Requested

LEMMA ClearColoursOK ==
  ASSUME FrontInv, NEW s \in Shells, ClearColours(s)
  PROVE  FrontInv'
<1> DEFINE w == [front[s] EXCEPT !.mPaletteChanged = FALSE]
<1>1. /\ con \in ConsoleType /\ front[s] \in WindowType
      /\ front[s].mImProxy.mActive => front[s].mImProxy.mConnected
  BY OfWindow
<1>2. /\ w \in WindowType /\ w.modes = front[s].modes /\ w.mImProxy = front[s].mImProxy
      /\ w.mCursor = front[s].mCursor /\ ~w.mPaletteChanged
  BY <1>1 DEF WindowType
<1>3. front' = [front EXCEPT ![s] = w]
  <2>1. front' = [front EXCEPT ![s].mPaletteChanged = FALSE]
    BY DEF ClearColours
  <2> QED BY <2>1
<1>4. /\ UNCHANGED man /\ requests' \in 0 .. MaxRequests
      /\ con' = IF man.mActiveShell = s THEN setDefaultPalette(con) ELSE con
  BY AskedOK DEF ClearColours, IsActive
<1> HIDE DEF w
<1>5. /\ setDefaultPalette(con) \in ConsoleType
      /\ setDefaultPalette(con).mPalette = None
      /\ setDefaultPalette(con).keys = con.keys
      /\ setDefaultPalette(con).timer = con.timer
      /\ setDefaultPalette(con).raw = con.raw
  BY <1>1, DefaultPaletteIs
<1>6. OwnPalette(w, s) = None
  BY <1>2 DEF OwnPalette
<1>7. Reported(w) = Reported(front[s])
  BY <1>2 DEF Reported
<1>8. con' \in ConsoleType
  BY <1>1, <1>4, <1>5
<1>9. ASSUME man.mActiveShell = s
      PROVE  /\ con'.keys = [m \in KeyModes |-> w.modes[m]]
             /\ con'.timer = CursorFlashes(w.modes)
             /\ con'.mPalette = OwnPalette(w, s)
             /\ con'.raw = (w.mImProxy.mActive /\ w.mImProxy.mRawInput)
             /\ w.mImProxy.mActive => /\ w.mImProxy.told = Reported(w)
                                      /\ w.mImProxy.at = w.mCursor
  <2>1. con' = setDefaultPalette(con)
    BY <1>4, <1>9
  <2> QED BY <1>2, <1>5, <1>6, <1>7, <1>9, <2>1, OfWindow
<1>10. w.mImProxy.mActive => w.mImProxy.mConnected
  BY <1>1, <1>2
<1>11. man.mActiveShell # s => con' = con
  BY <1>4
<1> QED
  BY <1>2, <1>3, <1>4, <1>8, <1>9, <1>10, <1>11, Requested

LEMMA MoveCursorOK ==
  ASSUME FrontInv, NEW s \in Shells, MoveCursor(s)
  PROVE  FrontInv'
<1> DEFINE w0 == [front[s] EXCEPT !.mCursor = 1 - @]
           w  == IF man.mActiveShell = s THEN reportCursor(w0) ELSE w0
<1>1. /\ con \in ConsoleType /\ front[s] \in WindowType
      /\ front[s].mImProxy.mActive => front[s].mImProxy.mConnected
  BY OfWindow
<1>2. /\ UNCHANGED man /\ requests' \in 0 .. MaxRequests /\ con' = con
      /\ front' = [front EXCEPT ![s] = w]
  BY AskedOK DEF MoveCursor, IsActive
<1>3. front[s].mCursor \in 0 .. 1
  BY <1>1 DEF WindowType
<1>4. 1 - front[s].mCursor \in 0 .. 1
  BY <1>3
<1>5. /\ w0 \in WindowType /\ w0.modes = front[s].modes /\ w0.mImProxy = front[s].mImProxy
      /\ w0.mPaletteChanged = front[s].mPaletteChanged
  BY <1>1, <1>4 DEF WindowType
<1> HIDE DEF w0
<1>6. /\ w \in WindowType /\ w.modes = w0.modes /\ w.mPaletteChanged = w0.mPaletteChanged
      /\ w.mImProxy.mActive = w0.mImProxy.mActive
      /\ w.mImProxy.mConnected = w0.mImProxy.mConnected
      /\ w.mImProxy.mRawInput = w0.mImProxy.mRawInput
      /\ w.mImProxy.told = w0.mImProxy.told
      /\ man.mActiveShell = s /\ w.mImProxy.mActive => w.mImProxy.at = w.mCursor
  BY <1>5, ReportCursorIs
<1> HIDE DEF w
<1>7. Reported(w) = Reported(front[s]) /\ OwnPalette(w, s) = OwnPalette(front[s], s)
  BY <1>5, <1>6 DEF Reported, OwnPalette
<1>8. ASSUME man.mActiveShell = s
      PROVE  /\ con'.keys = [m \in KeyModes |-> w.modes[m]]
             /\ con'.timer = CursorFlashes(w.modes)
             /\ con'.mPalette = OwnPalette(w, s)
             /\ con'.raw = (w.mImProxy.mActive /\ w.mImProxy.mRawInput)
             /\ w.mImProxy.mActive => /\ w.mImProxy.told = Reported(w)
                                      /\ w.mImProxy.at = w.mCursor
  BY <1>2, <1>5, <1>6, <1>7, <1>8, OfWindow
<1>9. w.mImProxy.mActive => w.mImProxy.mConnected
  BY <1>1, <1>5, <1>6
<1>10. con' \in ConsoleType
  BY <1>1, <1>2
<1> QED
  BY <1>2, <1>6, <1>8, <1>9, <1>10, Requested

LEMMA EndImOK ==
  ASSUME FrontInv, NEW s \in Shells, EndIm(s)
  PROVE  FrontInv'
<1> DEFINE d == DropProxy(con, front, s)
<1>1. /\ UNCHANGED man /\ requests' \in 0 .. MaxRequests /\ con' = d.c /\ front' = d.fr
  BY AskedOK DEF EndIm
<1>2. Inv /\ Well(con, front) /\ ConsoleFor(con, front, man.mActiveShell)
  BY DEF FrontInv
<1>3. Well(d.c, d.fr) /\ ConsoleFor(d.c, d.fr, man.mActiveShell)
  BY <1>2, DropProxyOK
<1> HIDE DEF d
<1>4. Well(con', front') /\ ConsoleFor(con', front', man'.mActiveShell)
  BY <1>1, <1>3
<1>5. Inv'
  BY <1>1, <1>2 DEF Inv, WF, Base, ActiveOK, CountOK, RunsOnlyWithWindows
<1> QED
  BY <1>1, <1>4, <1>5 DEF FrontInv, Well, ConsoleFor, ModesFor, PaletteFor, RawFor, ToldFor

LEMMA ToggleImOK ==
  ASSUME FrontInv, ToggleIm
  PROVE  FrontInv'
<1>1. PICK s \in LiveShells(man.mShellList), connects \in BOOLEAN, raw \in BOOLEAN :
         LET made == connect(front[s].mImProxy, connects, raw)
             toggled == toggleActive(made)
             w == [front[s] EXCEPT !.mImProxy = toggled]
         IN  /\ Asked /\ IsActive(s) /\ UNCHANGED man
             /\ front' = [front EXCEPT ![s] = reportMode(reportCursor(w))]
             /\ con' = IF made.mConnected
                       THEN [con EXCEPT !.raw = toggled.mRawInput /\ toggled.mActive]
                       ELSE con
  BY Zenon DEF ToggleIm
<1> DEFINE p == front[s].mImProxy
           made == connect(p, connects, raw)
           toggled == toggleActive(made)
           w0 == [front[s] EXCEPT !.mImProxy = toggled]
           w1 == reportCursor(w0)
           w == reportMode(w1)
<1>2. s \in Shells /\ man.mActiveShell = s /\ requests' \in 0 .. MaxRequests
  <2>1. man.mShellList \in [Slots -> Pointers]
    BY DEF FrontInv, Inv, WF, Base, ManagerState
  <2> QED BY <1>1, <2>1, AskedOK DEF LiveShells, Pointers, IsActive
<1>3. /\ con \in ConsoleType /\ front[s] \in WindowType /\ p \in ProxyType
      /\ p.mActive => p.mConnected
      /\ con.keys = [m \in KeyModes |-> front[s].modes[m]]
      /\ con.timer = CursorFlashes(front[s].modes)
      /\ con.mPalette = OwnPalette(front[s], s)
      /\ con.raw = (p.mActive /\ p.mRawInput)
  BY <1>2, OfWindow DEF WindowType
<1>4. front' = [front EXCEPT ![s] = w]
  BY <1>1
<1>5. con' = IF made.mConnected
             THEN [con EXCEPT !.raw = toggled.mRawInput /\ toggled.mActive] ELSE con
  BY <1>1
<1>6. made \in ProxyType /\ made.mActive = p.mActive /\ (~made.mConnected => ~p.mConnected)
  <2>1. CASE p.mConnected
    <3>1. made = p
      BY <2>1 DEF connect
    <3> QED BY <1>3, <3>1
  <2>2. CASE ~p.mConnected
    <3>1. made = [p EXCEPT !.mConnected = connects, !.mRawInput = connects /\ raw]
      BY <2>2 DEF connect
    <3> QED BY <1>3, <2>2, <3>1 DEF ProxyType
  <2> QED BY <2>1, <2>2
<1> HIDE DEF made
<1>7. /\ toggled \in ProxyType /\ toggled.mConnected = made.mConnected
      /\ toggled.mActive = (made.mConnected /\ ~made.mActive)
      /\ toggled.mRawInput = made.mRawInput
  BY <1>6 DEF ProxyType, toggleActive
<1> HIDE DEF toggled
<1>8. /\ w0 \in WindowType /\ w0.mImProxy = toggled /\ w0.modes = front[s].modes
      /\ w0.mPaletteChanged = front[s].mPaletteChanged
  BY <1>3, <1>7 DEF WindowType
<1> HIDE DEF w0
<1>9. /\ w1 \in WindowType /\ w1.modes = w0.modes
      /\ w1.mPaletteChanged = w0.mPaletteChanged
      /\ w1.mCursor = w0.mCursor
      /\ w1.mImProxy.mActive = w0.mImProxy.mActive
      /\ w1.mImProxy.mConnected = w0.mImProxy.mConnected
      /\ w1.mImProxy.mRawInput = w0.mImProxy.mRawInput
      /\ w0.mImProxy.mActive => w1.mImProxy.at = w0.mCursor
  BY <1>8, ReportCursorIs
<1> HIDE DEF w1
<1>10. /\ w \in WindowType /\ w.modes = w1.modes
       /\ w.mPaletteChanged = w1.mPaletteChanged
       /\ w.mCursor = w1.mCursor
       /\ w.mImProxy.mActive = w1.mImProxy.mActive
       /\ w.mImProxy.mConnected = w1.mImProxy.mConnected
       /\ w.mImProxy.mRawInput = w1.mImProxy.mRawInput
       /\ w.mImProxy.at = w1.mImProxy.at
       /\ w1.mImProxy.mActive => w.mImProxy.told = Reported(w1)
  BY <1>9, ReportModeIs
<1> HIDE DEF w
<1>11. Reported(w) = Reported(w1) /\ OwnPalette(w, s) = OwnPalette(front[s], s)
  BY <1>8, <1>9, <1>10 DEF Reported, OwnPalette
<1>12. toggled.mRawInput \in BOOLEAN /\ toggled.mActive \in BOOLEAN
  BY <1>7 DEF ProxyType
<1>13. /\ con' \in ConsoleType /\ con'.keys = con.keys /\ con'.timer = con.timer
       /\ con'.mPalette = con.mPalette
       /\ con'.raw = (toggled.mActive /\ toggled.mRawInput)
  <2>1. CASE made.mConnected
    <3>1. con' = [con EXCEPT !.raw = toggled.mRawInput /\ toggled.mActive]
      BY <1>5, <2>1
    <3>2. (toggled.mRawInput /\ toggled.mActive) = (toggled.mActive /\ toggled.mRawInput)
      BY <1>12
    <3> DEFINE x == toggled.mRawInput /\ toggled.mActive
    <3>3. x \in BOOLEAN /\ con' = [con EXCEPT !.raw = x]
      BY <3>1
    <3> HIDE DEF x
    <3>4. /\ con' \in ConsoleType /\ con'.raw = x /\ con'.keys = con.keys
          /\ con'.timer = con.timer /\ con'.mPalette = con.mPalette
      BY <1>3, <3>3 DEF ConsoleType
    <3> QED BY <3>2, <3>4 DEF x
  <2>2. CASE ~made.mConnected
    <3>1. con' = con /\ ~toggled.mActive
      BY <1>5, <1>7, <2>2
    <3>2. ~con.raw /\ con.raw \in BOOLEAN
      BY <1>3, <1>6, <2>2
    <3> QED BY <1>3, <3>1, <3>2
  <2> QED BY <2>1, <2>2
<1>14. /\ con'.keys = [m \in KeyModes |-> w.modes[m]]
       /\ con'.timer = CursorFlashes(w.modes)
       /\ con'.mPalette = OwnPalette(w, s)
       /\ con'.raw = (w.mImProxy.mActive /\ w.mImProxy.mRawInput)
       /\ w.mImProxy.mActive => /\ w.mImProxy.told = Reported(w)
                                /\ w.mImProxy.at = w.mCursor
  BY <1>3, <1>8, <1>9, <1>10, <1>11, <1>13
<1>15. w.mImProxy.mActive => w.mImProxy.mConnected
  BY <1>7, <1>8, <1>9, <1>10
<1>16. UNCHANGED man
  BY <1>1
<1>17. con' \in ConsoleType /\ w \in WindowType /\ (man.mActiveShell # s => con' = con)
  BY <1>2, <1>10, <1>13
<1> HIDE DEF p
<1> QED
  BY <1>2, <1>4, <1>14, <1>15, <1>16, <1>17, Requested

-----------------------------------------------------------------------------
LEMMA FrontKeeps == FrontInv /\ [FrontNext]_frontVars => FrontInv'
<1> SUFFICES ASSUME FrontInv, [FrontNext]_frontVars PROVE FrontInv'
  OBVIOUS
<1>1. CASE OpenWindow
  BY <1>1, OpenWindowOK
<1>2. CASE ToggleIm
  BY <1>2, ToggleImOK
<1>3. ASSUME NEW num \in Slots, ChooseWindow(num) PROVE FrontInv'
  BY <1>3, ChooseOK
<1>4. ASSUME NEW enter \in BOOLEAN, ChooseConsole(enter) PROVE FrontInv'
  BY <1>4, ChooseOK
<1>5. ASSUME NEW s \in Shells,
             CloseWindow(s) \/ ResetTerminal(s) \/ ClearColours(s) \/ MoveCursor(s) \/ EndIm(s)
      PROVE  FrontInv'
  BY <1>5, CloseWindowOK, ResetTerminalOK, ClearColoursOK, MoveCursorOK, EndImOK
<1>6. ASSUME NEW s \in Shells, NEW m \in ModeNames, ChangeMode(s, m) PROVE FrontInv'
  BY <1>6, ChangeModeOK
<1>7. ASSUME NEW s \in Shells, NEW e \in Entries, NEW colour \in Chosen, SetColour(s, e, colour)
      PROVE  FrontInv'
  BY <1>7, SetColourOK
<1>8. CASE UNCHANGED frontVars
  BY <1>8 DEF frontVars, FrontInv, Inv, WF, Base, ActiveOK, CountOK, RunsOnlyWithWindows,
              Well, ConsoleFor, ModesFor, PaletteFor, RawFor, ToldFor
<1> QED
  BY <1>1, <1>2, <1>3, <1>4, <1>5, <1>6, <1>7, <1>8 DEF FrontNext

LEMMA FrontInvAlways == FrontSpec => []FrontInv
<1>1. FrontInit => FrontInv
  BY FrontStarts
<1>2. FrontInv /\ [FrontNext]_frontVars => FrontInv'
  BY FrontKeeps
<1> QED BY <1>1, <1>2, PTL DEF FrontSpec

\* Keyboard modes and cursor timer of the console are the active window's, or
\* the defaults, after every handler: opening, closing and choosing windows,
\* console switches and requests of windows in the background included
\* (FbShell::switchVt, modeChanged).
THEOREM ConsoleFollowsWindow == FrontSpec => []ConsoleHasWindowModes
<1>1. FrontInv => TypeOK /\ FrontTypeOK
  BY DEF FrontInv, Inv, WF, Base, TypeOK, FrontTypeOK, Well, ConsoleType, WindowType, ProxyType
<1>2. FrontInv => ModesFor(con, front, man.mActiveShell)
  BY DEF FrontInv, ConsoleFor
<1>3. FrontInv => ConsoleHasWindowModes
  BY <1>1, <1>2 DEF ModesFor, ConsoleHasWindowModes
<1> QED BY <1>3, FrontInvAlways, PTL

\* The screen draws with the active window's palette, or with the default one
\* (FbShell::switchVt, request, Screen::setPalette).
THEOREM ScreenFollowsPalette == FrontSpec => []ScreenHasWindowPalette
<1>1. FrontInv => PaletteFor(con, front, man.mActiveShell)
  BY DEF FrontInv, ConsoleFor
<1>2. FrontInv => ScreenHasWindowPalette
  BY <1>1 DEF PaletteFor, ScreenHasWindowPalette
<1> QED BY <1>2, FrontInvAlways, PTL

\* The keyboard is raw exactly while the active window's input method is on and
\* wants it, and that input method knows the window's modes and cursor
\* (toggleIm, killIm, ~FbShell, reportMode, reportCursor).
THEOREM InputMethodFollows == FrontSpec => []ImFollowsWindow
<1>1. FrontInv => RawFor(con, front, man.mActiveShell) /\ ToldFor(front, man.mActiveShell)
  BY DEF FrontInv, ConsoleFor
<1>2. FrontInv => ImFollowsWindow
  BY <1>1 DEF RawFor, ToldFor, ImFollowsWindow
<1> QED BY <1>2, FrontInvAlways, PTL

\* The front end leaves the window table as the manager alone would keep it.
THEOREM FrontKeepsManager == FrontSpec => [](ActiveIsCurrent /\ CountMatchesWindows)
<1>1. FrontInv => ActiveIsCurrent /\ CountMatchesWindows
  BY DEF FrontInv, Inv, WF, ActiveOK, CountOK, Distinct, ActiveIsCurrent, CountMatchesWindows
<1> QED BY <1>1, FrontInvAlways, PTL
=============================================================================
