---------------------------- MODULE ShellManager ----------------------------
(***************************************************************************)
(* FbShellManager (src/src/fbshellman.cpp): the table of windows, the      *)
(* current slot, the window that owns screen and keyboard, and the virtual *)
(* console the terminal may or may not have.  A window is the address of   *)
(* its FbShell object, and an address is free again once its object is     *)
(* deleted.  Handlers are operators on the manager's record `man', so that *)
(* a handler that calls another (shellExited -> prevShell -> switchShell   *)
(* -> setActive) is one expression and one action.                         *)
(***************************************************************************)
EXTENDS Integers, FiniteSets

CONSTANTS NR_SHELLS,   \* length of mShellList
          Shells,      \* addresses an FbShell can be allocated at
          None,        \* the null pointer; on the screen: a blank screen
          Foreign      \* on the screen: another virtual console

ASSUME SlotsAssumption == NR_SHELLS \in Nat \ {0}
ASSUME NamesAssumption == None \notin Shells /\ Foreign \notin Shells

VARIABLE man

Slots == 0 .. NR_SHELLS - 1
Pointers == Shells \cup {None}

ManagerState ==
    [mShellList   : [Slots -> Pointers],
     mCurShell    : Slots,
     mActiveShell : Pointers,
     mShellCount  : 0 .. NR_SHELLS,
     mVcCurrent   : BOOLEAN,
     mRun         : BOOLEAN,                        \* FbTerm::mRun
     console      : Pointers,                       \* target of TIOCCONS
     shown        : Shells \cup {None, Foreign}]    \* what the screen shows

Occupied(list) == {i \in Slots : list[i] # None}
LiveShells(list) == {list[i] : i \in Slots} \ {None}

-----------------------------------------------------------------------------
(* getIndex probes the slots cyclically from the current one, in either    *)
(* direction, optionally stepping first, for a slot whose pointer is one   *)
(* of `wanted'; when none is, it returns the last slot it probed.          *)
Probe(cur, forward, stepfirst, k) ==
    LET d == IF stepfirst THEN k + 1 ELSE k
    IN  (cur + NR_SHELLS + (IF forward THEN d ELSE -d)) % NR_SHELLS

getIndex(m, wanted, forward, stepfirst) ==
    LET at(k) == Probe(m.mCurShell, forward, stepfirst, k)
        hits  == {k \in Slots : m.mShellList[at(k)] \in wanted}
    IN  IF hits = {} THEN at(NR_SHELLS - 1)
        ELSE at(CHOOSE k \in hits : \A j \in hits : k <= j)

\* setActive, with what FbShell::switchVt does to the console redirection.
setActive(m, s) ==
    IF m.mActiveShell = s THEN m
    ELSE [m EXCEPT !.mActiveShell = s, !.console = s]

\* redraw: the active window's expose, or a blank screen.
redraw(m) == [m EXCEPT !.shown = m.mActiveShell]

\* mutant: the screen is switched without asking who owns the console
switchShellAnyConsole(m, num) ==
    LET cur == [m EXCEPT !.mCurShell = num]
    IN  IF num >= NR_SHELLS THEN m
        ELSE redraw(setActive(cur, cur.mShellList[num]))

switchShell(m, num) ==
    LET cur == [m EXCEPT !.mCurShell = num]
        target == m.mShellList[num]
    IN  IF num >= NR_SHELLS THEN m
        ELSE IF m.mVcCurrent /\ m.mActiveShell # target
             THEN redraw(setActive(cur, target))
             ELSE cur

prevShell(m) == switchShell(m, getIndex(m, Shells, FALSE, TRUE))

switchVc(m, enter) ==
    LET owner == setActive([m EXCEPT !.mVcCurrent = enter],
                           IF enter THEN m.mShellList[m.mCurShell] ELSE None)
    IN  IF enter THEN redraw(owner) ELSE [owner EXCEPT !.shown = Foreign]

exit(m) == [m EXCEPT !.mRun = FALSE]

\* mutant: the current slot stays where the closed window was
shellExited_NoPrev(m, s) ==
    LET index == getIndex(m, {s}, TRUE, FALSE)
        left  == [m EXCEPT !.mShellList[index] = None, !.mShellCount = @ - 1]
        gone  == IF left.mActiveShell = s THEN redraw(setActive(left, None)) ELSE left
    IN  IF gone.mShellCount = 0 THEN exit(gone) ELSE gone

\* mutant: only the window in the current slot is taken off the count
shellExited_CountsCurrent(m, s) ==
    LET index   == getIndex(m, {s}, TRUE, FALSE)
        vacated == [m EXCEPT !.mShellList[index] = None]
        moved   == IF index = m.mCurShell
                   THEN [prevShell(vacated) EXCEPT !.mShellCount = @ - 1] ELSE vacated
    IN  IF moved.mShellCount = 0 THEN exit(moved) ELSE moved

\* mutant: the program is not stopped with its last window
shellExited_NoExit(m, s) ==
    LET index   == getIndex(m, {s}, TRUE, FALSE)
        vacated == [m EXCEPT !.mShellList[index] = None]
        moved   == IF index = m.mCurShell THEN prevShell(vacated) ELSE vacated
    IN  [moved EXCEPT !.mShellCount = @ - 1]

\* shellExited, called by ~FbShell: vacate the slot, move on when it was the
\* current one, stop with the last window.
shellExited(m, s) ==
    LET index   == getIndex(m, {s}, TRUE, FALSE)
        vacated == [m EXCEPT !.mShellList[index] = None]
        moved   == IF index = m.mCurShell THEN prevShell(vacated) ELSE vacated
        counted == [moved EXCEPT !.mShellCount = @ - 1]
    IN  IF counted.mShellCount = 0 THEN exit(counted) ELSE counted

\* mutant: the new window goes to the slot the current one is in
createShell_InPlace(m, s) ==
    IF m.mShellCount = NR_SHELLS THEN m
    ELSE switchShell([m EXCEPT !.mShellCount = @ + 1,
                               !.mShellList[m.mCurShell] = s], m.mCurShell)

createShell(m, s) ==
    LET index == getIndex(m, {None}, TRUE, FALSE)
    IN  IF m.mShellCount = NR_SHELLS THEN m
        ELSE switchShell([m EXCEPT !.mShellCount = @ + 1,
                                   !.mShellList[index] = s], index)

-----------------------------------------------------------------------------
(* FbTerm::run enters the console when it is the active one, opens the     *)
(* first window and only then sets mRun.                                   *)
Constructed ==
    [mShellList   |-> [i \in Slots |-> None], mCurShell |-> 0,
     mActiveShell |-> None, mShellCount |-> 0, mVcCurrent |-> FALSE,
     mRun |-> FALSE, console |-> None, shown |-> Foreign]

FirstWindow(activeTerm, s) ==
    LET started == IF activeTerm THEN switchVc(Constructed, TRUE) ELSE Constructed
    IN  [createShell(started, s) EXCEPT !.mRun = TRUE]

Init == \E activeTerm \in BOOLEAN, s \in Shells : man = FirstWindow(activeTerm, s)

\* CTRL_ALT_C: `new FbShell' gets any address that is not in use.
CreateShell ==
    \E s \in Shells \ LiveShells(man.mShellList) : man' = createShell(man, s)

\* The destructor of a window, whoever runs it: CTRL_ALT_D (deleteShell), the
\* hang-up of its terminal, the exit of its program, the end of FbTerm.
DestroyShell(s) ==
    /\ s \in LiveShells(man.mShellList)
    /\ man' = shellExited(man, s)

SwitchShell(num) == man' = switchShell(man, num)          \* CTRL_ALT_1 ...
SwitchVc(enter)  == man' = switchVc(man, enter)           \* SIGUSR1, SIGUSR2
Exit             == man' = exit(man)                      \* CTRL_ALT_E, SIGTERM

Next ==
    \/ CreateShell
    \/ \E s \in LiveShells(man.mShellList) : DestroyShell(s)
    \/ \E num \in Slots : SwitchShell(num)
    \/ \E enter \in BOOLEAN : SwitchVc(enter)
    \/ Exit

Spec == Init /\ [][Next]_man

-----------------------------------------------------------------------------
\* The manager's fields keep their ranges; the counter stays in 0..NR_SHELLS.
TypeOK == man \in ManagerState

\* mActiveShell is never a stale pointer: with the console it is the window in
\* the current slot, without it nothing is active (setActive's callers agree).
ActiveIsCurrent ==
    man.mActiveShell = IF man.mVcCurrent THEN man.mShellList[man.mCurShell] ELSE None

\* mShellCount, which createShell's limit and the end of the program rest on,
\* is the number of windows, and no window is in two slots.
CountMatchesWindows ==
    /\ man.mShellCount = Cardinality(Occupied(man.mShellList))
    /\ \A i, j \in Occupied(man.mShellList) :
          man.mShellList[i] = man.mShellList[j] => i = j

\* What is painted belongs to the active window, a blank screen standing for
\* none, and /dev/tty0 is redirected to that window and no other.
ScreenFollowsWindow ==
    /\ man.shown = IF man.mVcCurrent THEN man.mActiveShell ELSE Foreign
    /\ man.console = man.mActiveShell

\* The main loop does not go on without windows: there would be no one left to
\* read the keyboard for.
RunsOnlyWithWindows == man.mRun => Occupied(man.mShellList) # {}

\* A slot is filled only when it was empty: no handler drops the pointer to a
\* window that is still open.
WindowsStay ==
    [][\A i \in Slots : \/ man.mShellList[i] = None
                        \/ man'.mShellList[i] \in {None, man.mShellList[i]}]_man

\* When the window in the current slot goes away and others are left, the
\* current slot moves to one of them and never to an empty slot.
NeighbourTakesOver ==
    [][( /\ man.mShellList[man.mCurShell] # None
         /\ man'.mShellList[man.mCurShell] = None
         /\ Occupied(man'.mShellList) # {} )
       => man'.mShellList[man'.mCurShell] # None]_man
=============================================================================
