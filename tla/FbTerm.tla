-------------------------------- MODULE FbTerm --------------------------------
(***************************************************************************)
(* The main loop of FbTerm: FbIoDispatcher::poll takes a batch of events   *)
(* from epoll and hands them to the pipes registered for their             *)
(* descriptors: the signal descriptor (SignalIo, FbTerm::processSignal),   *)
(* the keyboard (TtyInput::readyRead, FbTerm::processSysKey) and the       *)
(* pseudo terminals of the windows.  The windows themselves are those of   *)
(* ShellManager.  Around the loop are the kernel (signals, zombies, hang-  *)
(* ups, descriptor numbers, virtual consoles), the windows' programs and   *)
(* the user.  The loop is one thread; the iterations of the loops inside a *)
(* handler are steps of their own, so that the rest of the world moves     *)
(* between them.                                                           *)
(***************************************************************************)
EXTENDS ShellManager, Sequences

CONSTANTS MaxKeys,       \* bound: keys typed and not yet read
          TypedKeys,     \* bound: the keys the user presses
          SwitchesFast   \* the user may leave the console again while the
                         \* signal of his return is still pending

ASSUME SwitchesAssumption == SwitchesFast \in BOOLEAN
ASSUME AddressesAssumption == IsFiniteSet(Shells)

VARIABLES proc,      \* a window's program: "none" (no process), "running", "zombie"
          held,      \* some process has the window's terminal open
          otherChild,\* a child that is no window (an input method) is a zombie
          fd,        \* IoPipe::mFd of a window, -1 when it has none
          ioPipeMap, \* descriptor -> the window registered for it
          pending,   \* signals pending at the signal descriptor
          vt,        \* which console the kernel shows: "ours" or "theirs"
          keys,      \* bytes typed and not yet read
          evs,       \* events of the current batch that are still to be handled
          sigs,      \* signals of the current read still to be processed
          tty,       \* the keyboard buffer being processed, and the window
                     \* readyRead found active when it started
          phase      \* "loop", "teardown" (~FbTerm), "stopped"

kernel == <<proc, held, otherChild, pending, vt>>
vars == <<man, proc, held, otherChild, fd, ioPipeMap, pending, vt, keys, evs,
          sigs, tty, phase>>

\* A key is a number: a slot for CTRL_ALT_1 ..., or one of these.
CTRL_ALT_C == NR_SHELLS
CTRL_ALT_D == NR_SHELLS + 1
CTRL_ALT_E == NR_SHELLS + 2
SHIFT_LEFT == NR_SHELLS + 3
Text       == NR_SHELLS + 4      \* ordinary input, sent to a window
Keys == 0 .. Text
ASSUME KeysAssumption == MaxKeys \in Nat /\ TypedKeys \subseteq Keys

Signals == {"SIGUSR1", "SIGUSR2", "SIGTERM", "SIGCHLD"}

\* Descriptors: those of the terminals, then the signals' and the keyboard's.
Fds == 0 .. Cardinality(Shells) - 1
SignalFd == Cardinality(Shells)
TtyFd == Cardinality(Shells) + 1

NotReading == [buf |-> <<>>, shell |-> None]

LoopTypeOK ==
    /\ proc \in [Shells -> {"none", "running", "zombie"}]
    /\ held \in [Shells -> BOOLEAN]
    /\ otherChild \in BOOLEAN
    /\ fd \in [Shells -> Fds \cup {-1}]
    /\ ioPipeMap \in [Fds -> Pointers]
    /\ pending \subseteq Signals
    /\ vt \in {"ours", "theirs"}
    /\ keys \in Seq(Keys) /\ Len(keys) <= MaxKeys
    /\ evs \in Seq(Fds \cup {SignalFd, TtyFd})
    /\ sigs \in Seq(Signals)
    /\ tty \in [buf : Seq(Keys), shell : Pointers]
    /\ phase \in {"loop", "teardown", "stopped"}

-----------------------------------------------------------------------------
(* Objects and descriptors.                                                *)

\* The kernel gives out the lowest free descriptor.
FreeFd == CHOOSE f \in Fds : /\ \A s \in Shells : fd[s] # f
                             /\ \A g \in Fds : g < f => \E s \in Shells : fd[s] = g

Watched(f) == ioPipeMap[f] # None

\* epoll reports a hang-up once nobody has the terminal open.
HungUp(s) == proc[s] # "none" /\ ~held[s]

\* new FbShell: createShellProcess forks the program on a new terminal, and
\* setFd registers it; when forkpty fails the window has neither.
OpenShell(s, forked) ==
    /\ man' = createShell(man, s)
    /\ proc' = [proc EXCEPT ![s] = IF forked THEN "running" ELSE "none"]
    /\ held' = [held EXCEPT ![s] = forked]
    /\ fd' = [fd EXCEPT ![s] = IF forked THEN FreeFd ELSE -1]
    /\ ioPipeMap' = IF forked THEN [ioPipeMap EXCEPT ![FreeFd] = s] ELSE ioPipeMap

\* mutant: the descriptor is closed but stays registered
DestroyShellObject_KeepsPipe(s) ==
    /\ DestroyShell(s)
    /\ proc' = [proc EXCEPT ![s] = "none"]
    /\ held' = [held EXCEPT ![s] = FALSE]
    /\ fd' = [fd EXCEPT ![s] = -1]
    /\ UNCHANGED ioPipeMap

\* mutant: the window leaves the table without its slot being given up
DestroyShellObject_NoPrev(s) ==
    /\ s \in LiveShells(man.mShellList)
    /\ man' = [man EXCEPT !.mShellList =
                  [i \in Slots |-> IF @[i] = s THEN None ELSE @[i]],
                          !.mShellCount = @ - 1]
    /\ proc' = [proc EXCEPT ![s] = "none"]
    /\ held' = [held EXCEPT ![s] = FALSE]
    /\ fd' = [fd EXCEPT ![s] = -1]
    /\ ioPipeMap' = [f \in Fds |-> IF f = fd[s] THEN None ELSE ioPipeMap[f]]

\* delete shell: ~FbShell takes the window out of the table; ~Shell closes the
\* terminal and waits until the program is gone (waitChildProcessExit).
DestroyShellObject(s) ==
    /\ DestroyShell(s)
    /\ proc' = [proc EXCEPT ![s] = "none"]
    /\ held' = [held EXCEPT ![s] = FALSE]
    /\ fd' = [fd EXCEPT ![s] = -1]
    /\ ioPipeMap' = [f \in Fds |-> IF f = fd[s] THEN None ELSE ioPipeMap[f]]

\* A program that is killed and reaped here has its SIGCHLD delivered all the same.
ChildSignal(s) == IF proc[s] = "running" THEN {"SIGCHLD"} ELSE {}

-----------------------------------------------------------------------------
(* The world around the loop.                                              *)

ProcessExits(s) ==
    /\ proc[s] = "running" /\ phase # "stopped"
    /\ proc' = [proc EXCEPT ![s] = "zombie"]
    /\ \E other \in BOOLEAN : held' = [held EXCEPT ![s] = @ /\ other]
    /\ pending' = pending \cup {"SIGCHLD"}
    /\ UNCHANGED <<man, otherChild, fd, ioPipeMap, vt, keys, evs, sigs, tty, phase>>

\* The program, or the last descendant that has it, closes the terminal.
TerminalClosed(s) ==
    /\ held[s] /\ phase # "stopped"
    /\ held' = [held EXCEPT ![s] = FALSE]
    /\ UNCHANGED <<man, proc, otherChild, fd, ioPipeMap, pending, vt, keys, evs,
                   sigs, tty, phase>>

OtherChildExits ==
    /\ ~otherChild /\ phase = "loop"
    /\ otherChild' = TRUE
    /\ pending' = pending \cup {"SIGCHLD"}
    /\ UNCHANGED <<man, proc, held, fd, ioPipeMap, vt, keys, evs, sigs, tty, phase>>

TypeKey(k) ==
    /\ Len(keys) < MaxKeys /\ vt = "ours" /\ phase = "loop"
    /\ keys' = Append(keys, k)
    /\ UNCHANGED <<man, proc, held, otherChild, fd, ioPipeMap, pending, vt, evs,
                   sigs, tty, phase>>

\* The user switches consoles: VT_PROCESS asks with SIGUSR1 and waits for
\* VT_RELDISP; the return is announced with SIGUSR2.
ConsolePending(sig) == sig \in pending \/ \E i \in DOMAIN sigs : sigs[i] = sig

UserLeaves ==
    /\ vt = "ours" /\ phase = "loop" /\ ~ConsolePending("SIGUSR1")
    /\ SwitchesFast \/ ~ConsolePending("SIGUSR2")
    /\ pending' = pending \cup {"SIGUSR1"}
    /\ UNCHANGED <<man, proc, held, otherChild, fd, ioPipeMap, vt, keys, evs,
                   sigs, tty, phase>>

UserReturns ==
    /\ vt = "theirs" /\ phase = "loop" /\ ~ConsolePending("SIGUSR2")
    /\ vt' = "ours"
    /\ pending' = pending \cup {"SIGUSR2"}
    /\ UNCHANGED <<man, proc, held, otherChild, fd, ioPipeMap, keys, evs, sigs,
                   tty, phase>>

Terminate ==
    /\ phase = "loop" /\ man.mRun
    /\ pending' = pending \cup {"SIGTERM"}
    /\ UNCHANGED <<man, proc, held, otherChild, fd, ioPipeMap, vt, keys, evs,
                   sigs, tty, phase>>

World ==
    \/ \E s \in Shells : ProcessExits(s) \/ TerminalClosed(s)
    \/ OtherChildExits \/ UserLeaves \/ UserReturns \/ Terminate
    \/ \E k \in TypedKeys : TypeKey(k)

-----------------------------------------------------------------------------
(* The loop.                                                               *)

Busy == evs # <<>> \/ sigs # <<>> \/ tty.buf # <<>>

\* mutant: hang-ups are not reported (select, the build without epoll)
Ready_Select == (IF pending # {} THEN {SignalFd} ELSE {})
                \cup (IF keys # <<>> THEN {TtyFd} ELSE {})

Ready == (IF pending # {} THEN {SignalFd} ELSE {})
         \cup (IF keys # <<>> THEN {TtyFd} ELSE {})
         \cup {f \in Fds : Watched(f) /\ HungUp(ioPipeMap[f])}

Orders(S) == {q \in [1 .. Cardinality(S) -> S] : \A i, j \in DOMAIN q : q[i] = q[j] => i = j}

\* epoll_wait: everything that is ready, in the order of the kernel's list.
Poll ==
    /\ phase = "loop" /\ man.mRun /\ ~Busy
    /\ Ready # {}
    /\ \E batch \in Orders(Ready) : evs' = batch
    /\ UNCHANGED <<man, proc, held, otherChild, fd, ioPipeMap, pending, vt, keys,
                   sigs, tty, phase>>

NextEvent == sigs = <<>> /\ tty.buf = <<>> /\ evs # <<>> /\ phase = "loop"

\* SignalIo::readyRead: the kernel hands out pending signals lowest number first.
Delivered(sig, set) == IF sig \in set THEN <<sig>> ELSE <<>>
InOrder(set) == Delivered("SIGUSR1", set) \o Delivered("SIGUSR2", set)
                \o Delivered("SIGTERM", set) \o Delivered("SIGCHLD", set)

ReadSignals ==
    /\ NextEvent /\ Head(evs) = SignalFd
    /\ evs' = Tail(evs)
    /\ sigs' = InOrder(pending)
    /\ pending' = {}
    /\ UNCHANGED <<man, proc, held, otherChild, fd, ioPipeMap, vt, keys, tty, phase>>

\* TtyInput::readyRead asks for the active window once, before its loop.
ReadKeys ==
    /\ NextEvent /\ Head(evs) = TtyFd
    /\ evs' = Tail(evs)
    /\ tty' = [buf |-> keys, shell |-> man.mActiveShell]
    /\ keys' = <<>>
    /\ UNCHANGED <<man, proc, held, otherChild, fd, ioPipeMap, pending, vt, sigs, phase>>

\* EPOLLHUP: the window that is registered for the descriptor now is deleted.
HangUp ==
    /\ NextEvent /\ Head(evs) \in Fds
    /\ evs' = Tail(evs)
    /\ \/ /\ ~Watched(Head(evs))
          /\ UNCHANGED <<man, proc, held, fd, ioPipeMap, pending>>
       \/ /\ Watched(Head(evs))
          /\ DestroyShellObject(ioPipeMap[Head(evs)])
          /\ pending' = pending \cup ChildSignal(ioPipeMap[Head(evs)])
    /\ UNCHANGED <<otherChild, vt, keys, sigs, tty, phase>>

\* processSignal(SIGUSR1): everyone leaves the console, then VT_RELDISP.
\* mutant: the console is released although the windows keep drawing
LeaveConsole_NoManager ==
    /\ sigs # <<>> /\ Head(sigs) = "SIGUSR1"
    /\ sigs' = Tail(sigs)
    /\ vt' = "theirs"
    /\ UNCHANGED <<man, proc, held, otherChild, fd, ioPipeMap, pending, keys, evs, tty, phase>>

LeaveConsole ==
    /\ sigs # <<>> /\ Head(sigs) = "SIGUSR1"
    /\ sigs' = Tail(sigs)
    /\ SwitchVc(FALSE)
    /\ vt' = "theirs"
    /\ UNCHANGED <<proc, held, otherChild, fd, ioPipeMap, pending, keys, evs, tty, phase>>

EnterConsole ==
    /\ sigs # <<>> /\ Head(sigs) = "SIGUSR2"
    /\ sigs' = Tail(sigs)
    /\ SwitchVc(TRUE)
    /\ UNCHANGED <<kernel, fd, ioPipeMap, keys, evs, tty, phase>>

TermSignal ==
    /\ sigs # <<>> /\ Head(sigs) = "SIGTERM"
    /\ sigs' = Tail(sigs)
    /\ Exit
    /\ UNCHANGED <<kernel, fd, ioPipeMap, keys, evs, tty, phase>>

Zombies == {s \in Shells : proc[s] = "zombie"}

\* processSignal(SIGCHLD): one waitpid for one SIGCHLD; whichever zombie it
\* returns is reaped, and its window, if it has one, is deleted.
ReapChild ==
    /\ sigs # <<>> /\ Head(sigs) = "SIGCHLD"
    /\ sigs' = Tail(sigs)
    /\ \/ /\ ~man.mRun \/ (Zombies = {} /\ ~otherChild)
          /\ UNCHANGED <<man, proc, held, otherChild, fd, ioPipeMap>>
       \/ /\ man.mRun /\ otherChild
          /\ otherChild' = FALSE
          /\ UNCHANGED <<man, proc, held, fd, ioPipeMap>>
       \/ /\ man.mRun
          /\ \E s \in Zombies : DestroyShellObject(s)
          /\ UNCHANGED otherChild
    /\ UNCHANGED <<pending, vt, keys, evs, tty, phase>>

\* One byte sequence of the buffer: text goes to the window found at the start
\* of the read, a shortcut to processSysKey.
NextKey == tty.buf # <<>>
KeyRead == tty' = IF Len(tty.buf) = 1 THEN NotReading ELSE [tty EXCEPT !.buf = Tail(@)]
KeyWorld == <<otherChild, vt, keys, evs, sigs, phase>>

SendText ==
    /\ NextKey /\ Head(tty.buf) = Text
    /\ KeyRead
    /\ UNCHANGED <<man, kernel, fd, ioPipeMap, keys, evs, sigs, phase>>

\* SHIFT_LEFT: sends \033[1;2D to the active window.
SendShiftLeft ==
    /\ NextKey /\ Head(tty.buf) = SHIFT_LEFT
    /\ KeyRead
    /\ UNCHANGED <<man, kernel, fd, ioPipeMap, keys, evs, sigs, phase>>

KeyNew ==
    /\ NextKey /\ Head(tty.buf) = CTRL_ALT_C
    /\ KeyRead
    /\ \/ /\ man.mShellCount = NR_SHELLS
          /\ UNCHANGED <<man, proc, held, fd, ioPipeMap>>
       \/ /\ man.mShellCount # NR_SHELLS
          /\ \E s \in Shells \ LiveShells(man.mShellList), forked \in BOOLEAN :
                OpenShell(s, forked)
    /\ UNCHANGED pending /\ UNCHANGED KeyWorld

KeyDelete ==
    LET current == man.mShellList[man.mCurShell]
    IN  /\ NextKey /\ Head(tty.buf) = CTRL_ALT_D
        /\ KeyRead
        /\ \/ /\ current = None
              /\ UNCHANGED <<man, proc, held, fd, ioPipeMap, pending>>
           \/ /\ current # None
              /\ DestroyShellObject(current)
              /\ pending' = pending \cup ChildSignal(current)
        /\ UNCHANGED KeyWorld

KeySwitch ==
    /\ NextKey /\ Head(tty.buf) \in Slots
    /\ KeyRead
    /\ SwitchShell(Head(tty.buf))
    /\ UNCHANGED <<proc, held, fd, ioPipeMap, pending>> /\ UNCHANGED KeyWorld

KeyExit ==
    /\ NextKey /\ Head(tty.buf) = CTRL_ALT_E
    /\ KeyRead
    /\ Exit
    /\ UNCHANGED <<proc, held, fd, ioPipeMap, pending>> /\ UNCHANGED KeyWorld

\* run() leaves its loop after the batch in which mRun was cleared, and gives
\* the console back when it has it.
LeaveLoop ==
    /\ phase = "loop" /\ ~man.mRun /\ ~Busy
    /\ IF vt = "ours" THEN SwitchVc(FALSE) ELSE UNCHANGED man
    /\ vt' = IF "SIGUSR1" \in pending THEN "theirs" ELSE vt
    /\ phase' = "teardown"
    /\ UNCHANGED <<proc, held, otherChild, fd, ioPipeMap, pending, keys, evs, sigs, tty>>

\* ~FbIoDispatcher deletes what is registered, highest descriptor first.
Teardown ==
    /\ phase = "teardown"
    /\ \E f \in Fds : /\ Watched(f) /\ \A g \in Fds : g > f => ~Watched(g)
                      /\ DestroyShellObject(ioPipeMap[f])
                      /\ pending' = pending \cup ChildSignal(ioPipeMap[f])
    /\ UNCHANGED <<otherChild, vt, keys, evs, sigs, tty, phase>>

Stop ==
    /\ phase = "teardown" /\ \A f \in Fds : ~Watched(f)
    /\ phase' = "stopped"
    /\ UNCHANGED <<man, kernel, fd, ioPipeMap, keys, evs, sigs, tty>>

Loop == \/ Poll \/ ReadSignals \/ ReadKeys \/ HangUp
        \/ LeaveConsole \/ EnterConsole \/ TermSignal \/ ReapChild
        \/ SendText \/ SendShiftLeft \/ KeyNew \/ KeyDelete \/ KeySwitch \/ KeyExit
        \/ LeaveLoop \/ Teardown \/ Stop

LoopInit ==
    /\ \E activeTerm \in BOOLEAN, s \in Shells, forked \in BOOLEAN :
          /\ man = FirstWindow(activeTerm, s)
          /\ vt = IF activeTerm THEN "ours" ELSE "theirs"
          /\ proc = [w \in Shells |-> IF w = s /\ forked THEN "running" ELSE "none"]
          /\ held = [w \in Shells |-> w = s /\ forked]
          /\ fd = [w \in Shells |-> IF w = s /\ forked THEN 0 ELSE -1]
          /\ ioPipeMap = [f \in Fds |-> IF f = 0 /\ forked THEN s ELSE None]
    /\ otherChild = FALSE
    /\ pending = {}
    /\ keys = <<>> /\ evs = <<>> /\ sigs = <<>> /\ tty = NotReading
    /\ phase = "loop"

\* The process is gone; nothing happens any more.
Gone == phase = "stopped" /\ UNCHANGED vars

LoopNext == World \/ Loop \/ Gone

\* One thread that always goes on while there is something to do.
LoopSpec == LoopInit /\ [][LoopNext]_vars /\ WF_vars(Loop)

-----------------------------------------------------------------------------
\* Whatever order keys, signals, hang-ups and exits arrive in, the loop only
\* does to the windows what FbShellManager promises of its handlers.
ImplementsManager == Spec

\* Every window with a terminal is registered under its own descriptor, every
\* registration is a window of the table, and a program that is alive or not
\* yet reaped belongs to one: nothing that is deleted is dispatched to, and the
\* loop's state keeps its type.
PipesMatchWindows ==
    LET live == LiveShells(man.mShellList)
    IN  /\ LoopTypeOK
        /\ \A f \in Fds, s \in Shells : ioPipeMap[f] = s <=> fd[s] = f
        /\ \A s \in Shells : (fd[s] # -1 <=> proc[s] # "none")
        /\ \A s \in Shells : fd[s] # -1 => s \in live

\* The windows draw only while the console is FbTerm's: the screen memory is
\* given up (SIGUSR1) before the kernel shows another console.
DrawsOnOwnConsole == man.mVcCurrent => vt = "ours"

\* A window whose terminal nobody has open any more is closed in the end,
\* although one waitpid answers one SIGCHLD and several exits may share one,
\* or end in the child of an input method: the hang-up finds it.
ExitedWindowsClose == \A s \in Shells : HungUp(s) ~> (proc[s] = "none")

\* FbTerm ends after its last window, all children reaped that it can see.
EndsWithLastWindow == (man.mShellCount = 0) ~> (phase = "stopped")

\* CTRL_ALT_1: switch to window 1.  What is typed goes to the window that is
\* active when it is processed, the last shortcut included.
KeysReachActiveWindow ==
    tty.buf # <<>> /\ Head(tty.buf) = Text => tty.shell = man.mActiveShell

\* CTRL_ALT_C: create a new window.  A hang-up event closes the window whose
\* terminal was hung up, and not another one.
HangUpIsForWindow ==
    man.mRun /\ NextEvent /\ Head(evs) \in Fds /\ Watched(Head(evs))
        => HungUp(ioPipeMap[Head(evs)])
=============================================================================
