----------------------------- MODULE FbTermProofs -----------------------------
(* The main loop implements the window manager, for every number of windows, *)
(* keys and descriptors: what is proved of ShellManager holds of the program.*)
EXTENDS FbTerm, ShellManagerProofs, SequenceTheorems

LEMMA WorldLeavesManager == World => UNCHANGED man
BY DEF World, ProcessExits, TerminalClosed, OtherChildExits, UserLeaves,
       UserReturns, Terminate, TypeKey

LEMMA DestroyIsManagerStep ==
  ASSUME NEW s, DestroyShellObject(s)
  PROVE  Next
<1>1. s \in LiveShells(man.mShellList) /\ DestroyShell(s)
  BY DEF DestroyShellObject, DestroyShell
<1> QED BY <1>1 DEF Next

LEMMA SwitchVcIsManagerStep ==
  ASSUME NEW enter \in BOOLEAN, SwitchVc(enter)
  PROVE  Next
BY DEF Next

\* Every step of the loop is one handler of the manager or leaves it alone.
LEMMA LoopStep == Loop => [Next]_man
<1> SUFFICES ASSUME Loop PROVE [Next]_man
  OBVIOUS
<1>1. CASE Poll \/ ReadSignals \/ ReadKeys
  BY <1>1 DEF Poll, ReadSignals, ReadKeys
<1>2. CASE HangUp
  BY <1>2, DestroyIsManagerStep DEF HangUp
<1>3. CASE LeaveConsole \/ EnterConsole
  BY <1>3, SwitchVcIsManagerStep DEF LeaveConsole, EnterConsole
<1>4. CASE TermSignal \/ KeyExit
  BY <1>4 DEF TermSignal, KeyExit, Next
<1>5. CASE ReapChild
  BY <1>5, DestroyIsManagerStep DEF ReapChild
<1>6. CASE SendText \/ SendShiftLeft
  BY <1>6 DEF SendText, SendShiftLeft
<1>7. CASE KeyNew
  BY <1>7 DEF KeyNew, OpenShell, Next, CreateShell
<1>8. CASE KeyDelete
  BY <1>8, DestroyIsManagerStep DEF KeyDelete
<1>9. CASE KeySwitch
  BY <1>9 DEF KeySwitch, Next
<1>10. CASE LeaveLoop
  BY <1>10, SwitchVcIsManagerStep DEF LeaveLoop
<1>11. CASE Teardown
  BY <1>11, DestroyIsManagerStep DEF Teardown
<1>12. CASE Stop
  BY <1>12 DEF Stop
<1> QED BY <1>1, <1>2, <1>3, <1>4, <1>5, <1>6, <1>7, <1>8, <1>9, <1>10,
           <1>11, <1>12 DEF Loop

\* Signals, keys, hang-ups and exits reach the windows only through the
\* manager's handlers, whatever order they are dispatched in.
THEOREM LoopImplementsManager == LoopSpec => ImplementsManager
<1>1. LoopInit => Init
  BY DEF LoopInit, Init
<1>2. [LoopNext]_vars => [Next]_man
  BY WorldLeavesManager, LoopStep DEF LoopNext, Gone, vars
<1> QED BY <1>1, <1>2, PTL DEF LoopSpec, ImplementsManager, Spec

\* The windows' invariants hold in the whole program: the active window is the
\* current one, the screen is its, the count is right, and the loop ends with
\* the last window.
THEOREM LoopKeepsWindows ==
  LoopSpec => [](/\ ActiveIsCurrent /\ ScreenFollowsWindow
                 /\ CountMatchesWindows /\ RunsOnlyWithWindows)
BY LoopImplementsManager, ActiveAndScreenAgree, CountIsRight, PTL DEF ImplementsManager
-----------------------------------------------------------------------------
(* Descriptors and registrations.                                          *)

LEMMA FdsFinite ==
  /\ Cardinality(Shells) \in Nat
  /\ IsFiniteSet(Fds) /\ Cardinality(Fds) = Cardinality(Shells)
  /\ Fds \in SUBSET Nat /\ -1 \notin Fds
<1>1. Cardinality(Shells) \in Nat
  BY AddressesAssumption, FS_CardinalityType
<1>2. IsFiniteSet(Fds) /\ Cardinality(Fds) = Cardinality(Shells)
  BY <1>1, FS_Interval DEF Fds
<1>3. Fds \in SUBSET Nat /\ -1 \notin Fds
  BY <1>1 DEF Fds
<1> QED BY <1>1, <1>2, <1>3

\* A window without a descriptor leaves one free for it: there are as many
\* descriptors as addresses.
LEMMA FreeFdFound ==
  ASSUME fd \in [Shells -> Fds \cup {-1}], NEW s \in Shells, fd[s] = -1
  PROVE  FreeFd \in Fds /\ \A w \in Shells : fd[w] # FreeFd
<1> DEFINE others == Shells \ {s}
           free   == {f \in Fds : \A w \in Shells : fd[w] # f}
<1>1. IsFiniteSet(others) /\ Cardinality(others) = Cardinality(Shells) - 1
  BY AddressesAssumption, FS_RemoveElement
<1>2. free # {}
  <2>1. SUFFICES ASSUME free = {} PROVE FALSE
    OBVIOUS
  <2>2. \A f \in Fds : \E w \in others : fd[w] = f
    BY <2>1, FdsFinite
  <2> DEFINE user == [f \in Fds |-> CHOOSE w \in others : fd[w] = f]
  <2>3. user \in [Fds -> others] /\ \A f \in Fds : fd[user[f]] = f
    BY <2>2
  <2> HIDE DEF user, others
  <2>4. IsFiniteSet(Fds) /\ Cardinality(others) < Cardinality(Fds)
    BY <1>1, FdsFinite
  <2>5. \E f, g \in Fds : f # g /\ user[f] = user[g]
    BY <1>1, <2>3, <2>4, FS_PigeonHole
  <2> QED BY <2>3, <2>5
<1>3. PICK f \in free : \A g \in free : f <= g
  <2>1. free \in SUBSET Nat
    BY FdsFinite
  <2> HIDE DEF free
  <2> QED BY <1>2, <2>1, LeastExists
<1>4. \A g \in Fds : g < f => \E w \in Shells : fd[w] = g
  <2> SUFFICES ASSUME NEW g \in Fds, g < f PROVE g \notin free
    OBVIOUS
  <2> HIDE DEF free
  <2>1. f \in Nat /\ g \in Nat
    BY FdsFinite DEF free
  <2>2. g \in free => f <= g
    BY <1>3
  <2> QED BY <2>1, <2>2
<1>5. f \in Fds /\ \A s0 \in Shells : fd[s0] # f
  BY DEF free
<1>6. FreeFd \in Fds /\ \A s0 \in Shells : fd[s0] # FreeFd
  <2> HIDE DEF free
  <2> QED BY <1>4, <1>5, Zenon DEF FreeFd
<1> QED BY <1>6

\* What PipesMatchWindows says besides the types, of the table t, descriptors d,
\* registrations r and processes p.
Matched(t, d, r, p) ==
  /\ \A f \in Fds, s \in Shells : r[f] = s <=> d[s] = f
  /\ \A s \in Shells : d[s] # -1 <=> p[s] # "none"
  /\ \A s \in Shells : d[s] # -1 => s \in LiveShells(t)

PipesTypeOK ==
  /\ proc \in [Shells -> {"none", "running", "zombie"}]
  /\ held \in [Shells -> BOOLEAN]
  /\ fd \in [Shells -> Fds \cup {-1}]
  /\ ioPipeMap \in [Fds -> Pointers]

RestTypeOK ==
  /\ otherChild \in BOOLEAN
  /\ pending \in SUBSET Signals
  /\ vt \in {"ours", "theirs"}
  /\ keys \in Seq(Keys) /\ Len(keys) <= MaxKeys
  /\ evs \in Seq(Fds \cup {SignalFd, TtyFd})
  /\ sigs \in Seq(Signals)
  /\ tty \in [buf : Seq(Keys), shell : Pointers]
  /\ phase \in {"loop", "teardown", "stopped"}

PipesOK == PipesTypeOK /\ Matched(man.mShellList, fd, ioPipeMap, proc)

LEMMA PipesParts == PipesMatchWindows <=> PipesOK /\ RestTypeOK
BY DEF PipesMatchWindows, LoopTypeOK, PipesOK, PipesTypeOK, RestTypeOK, Matched

LEMMA LiveIsShell ==
  ASSUME Inv
  PROVE  /\ LiveShells(man.mShellList) \subseteq Shells
         /\ \A i \in Slots : man.mShellList[i] # None => man.mShellList[i] \in Shells
BY DEF Inv, WF, Base, ManagerState, Pointers, LiveShells

\* A new window takes a free descriptor and is registered under it.
LEMMA OpenKeepsPipes ==
  ASSUME Inv, PipesOK, man.mShellCount # NR_SHELLS,
         NEW s \in Shells \ LiveShells(man.mShellList), NEW forked \in BOOLEAN,
         OpenShell(s, forked)
  PROVE  PipesOK'
<1>1. man' = createShell(man, s)
  BY DEF OpenShell
<1>2. LiveShells(man.mShellList) \cup {s} \subseteq LiveShells(man'.mShellList)
  <2>1. /\ \A i \in Slots : man.mShellList[i] # None
                               => man'.mShellList[i] = man.mShellList[i]
        /\ s \in LiveShells(man'.mShellList)
    BY <1>1, CreateShellWF DEF Inv
  <2> QED BY <2>1 DEF LiveShells
<1>3. fd[s] = -1 /\ proc[s] = "none"
  BY DEF PipesOK, Matched
<1>4. FreeFd \in Fds /\ \A w \in Shells : fd[w] # FreeFd
  BY <1>3, FreeFdFound DEF PipesOK, PipesTypeOK
<1>5. s # None
  BY NamesAssumption
<1> DEFINE f0 == FreeFd
<1> HIDE DEF f0
<1>6. f0 \in Fds /\ f0 # -1 /\ \A w \in Shells : fd[w] # f0 /\ ioPipeMap[f0] # w
  BY <1>4, FdsFinite DEF f0, PipesOK, Matched
<1>7. CASE forked
  <2>1. /\ proc' = [proc EXCEPT ![s] = "running"]
        /\ held' = [held EXCEPT ![s] = TRUE]
        /\ fd' = [fd EXCEPT ![s] = f0]
        /\ ioPipeMap' = [ioPipeMap EXCEPT ![f0] = s]
    BY <1>7 DEF OpenShell, f0
  <2>2. PipesTypeOK'
    BY <2>1, <1>6 DEF PipesOK, PipesTypeOK, Pointers
  <2>3. \A f \in Fds, w \in Shells : ioPipeMap'[f] = w <=> fd'[w] = f
    BY <2>1, <1>6, <1>3, FdsFinite DEF PipesOK, PipesTypeOK, Matched
  <2>4. /\ \A w \in Shells : fd'[w] # -1 <=> proc'[w] # "none"
        /\ \A w \in Shells : fd'[w] # -1 => w \in LiveShells(man'.mShellList)
    BY <2>1, <1>6, <1>2 DEF PipesOK, PipesTypeOK, Matched
  <2> QED BY <2>2, <2>3, <2>4 DEF PipesOK, Matched
<1>8. CASE ~forked
  <2>1. /\ proc' = [proc EXCEPT ![s] = "none"]
        /\ held' = [held EXCEPT ![s] = FALSE]
        /\ fd' = [fd EXCEPT ![s] = -1]
        /\ ioPipeMap' = ioPipeMap
    BY <1>8 DEF OpenShell
  <2>2. proc' = proc /\ fd' = fd
    BY <2>1, <1>3 DEF PipesOK, PipesTypeOK
  <2>3. PipesTypeOK'
    BY <2>1, <2>2 DEF PipesOK, PipesTypeOK
  <2>4. \A w \in Shells : fd[w] # -1 => w \in LiveShells(man'.mShellList)
    BY <1>2 DEF PipesOK, Matched
  <2>5. /\ \A f \in Fds, w \in Shells : ioPipeMap'[f] = w <=> fd'[w] = f
        /\ \A w \in Shells : fd'[w] # -1 <=> proc'[w] # "none"
    BY <2>1, <2>2 DEF PipesOK, Matched
  <2>6. \A w \in Shells : fd'[w] # -1 => w \in LiveShells(man'.mShellList)
    BY <2>2, <2>4
  <2> QED BY <2>3, <2>5, <2>6 DEF PipesOK, Matched
<1> QED BY <1>7, <1>8

\* ~FbShell and ~Shell: what is deleted is neither registered nor a process.
LEMMA DestroyKeepsPipes ==
  ASSUME Inv, PipesOK, NEW s \in Shells, DestroyShellObject(s)
  PROVE  PipesOK'
<1>1. s \in LiveShells(man.mShellList) /\ man' = shellExited(man, s)
  BY DEF DestroyShellObject, DestroyShell
<1>2. LiveShells(man.mShellList) \ {s} \subseteq LiveShells(man'.mShellList)
  <2>1. PICK index \in Slots :
          /\ man.mShellList[index] = s
          /\ man'.mShellList = [man.mShellList EXCEPT ![index] = None]
    BY <1>1, ShellExitedWF DEF Inv
  <2>2. man.mShellList \in [Slots -> Pointers]
    BY DEF Inv, WF, Base, ManagerState
  <2> QED BY <2>1, <2>2 DEF LiveShells
<1>3. /\ proc' = [proc EXCEPT ![s] = "none"]
      /\ held' = [held EXCEPT ![s] = FALSE]
      /\ fd' = [fd EXCEPT ![s] = -1]
      /\ ioPipeMap' = [f \in Fds |-> IF f = fd[s] THEN None ELSE ioPipeMap[f]]
  BY DEF DestroyShellObject
<1>4. PipesTypeOK'
  BY <1>3 DEF PipesOK, PipesTypeOK, Pointers
<1>5. \A f \in Fds, w \in Shells : ioPipeMap'[f] = w <=> fd'[w] = f
  BY <1>3, FdsFinite, NamesAssumption DEF PipesOK, PipesTypeOK, Matched
<1>6. /\ \A w \in Shells : fd'[w] # -1 <=> proc'[w] # "none"
      /\ \A w \in Shells : fd'[w] # -1 => w \in LiveShells(man'.mShellList)
  BY <1>2, <1>3 DEF PipesOK, PipesTypeOK, Matched
<1> QED BY <1>4, <1>5, <1>6 DEF PipesOK, Matched

\* The programs: what is not running is not made a zombie.
LEMMA ExitKeepsPipes ==
  ASSUME PipesOK, NEW s \in Shells, ProcessExits(s)
  PROVE  PipesOK'
<1>1. proc[s] = "running" /\ proc' = [proc EXCEPT ![s] = "zombie"]
      /\ UNCHANGED <<man, fd, ioPipeMap>>
  BY DEF ProcessExits
<1>2. PICK other \in BOOLEAN : held' = [held EXCEPT ![s] = @ /\ other]
  BY DEF ProcessExits
<1>3. held' \in [Shells -> BOOLEAN]
  BY <1>2 DEF PipesOK, PipesTypeOK
<1>4. PipesTypeOK'
  BY <1>1, <1>3 DEF PipesOK, PipesTypeOK
<1>5. \A w \in Shells : proc'[w] # "none" <=> proc[w] # "none"
  BY <1>1 DEF PipesOK, PipesTypeOK
<1> QED BY <1>1, <1>4, <1>5 DEF PipesOK, Matched

\* A handler that changes at most the manager without touching its table.
LEMMA SameTablePipes ==
  ASSUME PipesOK, UNCHANGED <<proc, held, fd, ioPipeMap>>,
         man'.mShellList = man.mShellList
  PROVE  PipesOK'
BY DEF PipesOK, PipesTypeOK, Matched

LEMMA ManagerKeepsTable ==
  ASSUME Inv
  PROVE  /\ \A num \in Slots : SwitchShell(num) => man'.mShellList = man.mShellList
         /\ \A enter \in BOOLEAN : SwitchVc(enter) => man'.mShellList = man.mShellList
         /\ Exit => man'.mShellList = man.mShellList
<1>1. \A num \in Slots : SwitchShell(num) => man'.mShellList = man.mShellList
  BY SwitchShellWF DEF Inv, SwitchShell, SameTable
<1>2. \A enter \in BOOLEAN : SwitchVc(enter) => man'.mShellList = man.mShellList
  BY SwitchVcWF DEF Inv, SwitchVc, SameTable
<1>3. Exit => man'.mShellList = man.mShellList
  BY DEF Exit, exit, Inv, WF, Base, ManagerState
<1> QED BY <1>1, <1>2, <1>3

LEMMA WorldKeepsPipes ==
  ASSUME PipesOK, World
  PROVE  PipesOK'
<1>1. ASSUME NEW s \in Shells, ProcessExits(s) PROVE PipesOK'
  BY <1>1, ExitKeepsPipes
<1>2. ASSUME NEW s \in Shells, TerminalClosed(s) PROVE PipesOK'
  BY <1>2 DEF TerminalClosed, PipesOK, PipesTypeOK, Matched
<1>3. CASE OtherChildExits \/ UserLeaves \/ UserReturns \/ Terminate
  <2>1. UNCHANGED <<man, proc, held, fd, ioPipeMap>>
    BY <1>3 DEF OtherChildExits, UserLeaves, UserReturns, Terminate
  <2> QED BY <2>1, SameTablePipes
<1>4. ASSUME NEW k \in TypedKeys, TypeKey(k) PROVE PipesOK'
  BY <1>4, SameTablePipes DEF TypeKey
<1> QED BY <1>1, <1>2, <1>3, <1>4 DEF World

LEMMA LoopKeepsPipes ==
  ASSUME Inv, PipesOK, Loop
  PROVE  PipesOK'
<1>1. CASE Poll \/ ReadSignals \/ ReadKeys \/ SendText \/ SendShiftLeft \/ Stop
  <2>1. UNCHANGED <<man, proc, held, fd, ioPipeMap>>
    BY <1>1 DEF Poll, ReadSignals, ReadKeys, SendText, SendShiftLeft, Stop, kernel
  <2> QED BY <2>1, SameTablePipes
<1>2. CASE HangUp
  <2>1. ASSUME Watched(Head(evs)), DestroyShellObject(ioPipeMap[Head(evs)]),
               Head(evs) \in Fds
        PROVE  PipesOK'
    <3>1. ioPipeMap[Head(evs)] \in Shells
      BY <2>1 DEF Watched, PipesOK, PipesTypeOK, Pointers
    <3> QED BY <2>1, <3>1, DestroyKeepsPipes
  <2> QED BY <1>2, <2>1, SameTablePipes DEF HangUp
<1>3. CASE LeaveConsole \/ EnterConsole
  BY <1>3, SameTablePipes, ManagerKeepsTable DEF LeaveConsole, EnterConsole, kernel
<1>4. CASE TermSignal \/ KeyExit
  BY <1>4, SameTablePipes, ManagerKeepsTable DEF TermSignal, KeyExit, kernel
<1>5. CASE ReapChild
  BY <1>5, SameTablePipes, DestroyKeepsPipes DEF ReapChild, Zombies
<1>6. CASE KeyNew
  BY <1>6, SameTablePipes, OpenKeepsPipes DEF KeyNew
<1>7. CASE KeyDelete
  <2>1. ASSUME man.mShellList[man.mCurShell] # None
        PROVE  man.mShellList[man.mCurShell] \in Shells
    BY <2>1, LiveIsShell DEF Inv, WF, Base, ManagerState
  <2> QED BY <1>7, <2>1, SameTablePipes, DestroyKeepsPipes DEF KeyDelete
<1>8. CASE KeySwitch
  BY <1>8, SameTablePipes, ManagerKeepsTable DEF KeySwitch
<1>9. CASE LeaveLoop
  <2>1. man'.mShellList = man.mShellList /\ UNCHANGED <<proc, held, fd, ioPipeMap>>
    BY <1>9, ManagerKeepsTable DEF LeaveLoop
  <2> QED BY <2>1, SameTablePipes
<1>10. CASE Teardown
  <2>1. PICK f \in Fds : Watched(f) /\ DestroyShellObject(ioPipeMap[f])
    BY <1>10 DEF Teardown
  <2>2. ioPipeMap[f] \in Shells
    BY <2>1 DEF Watched, PipesOK, PipesTypeOK, Pointers
  <2> QED BY <2>1, <2>2, DestroyKeepsPipes
<1> QED BY <1>1, <1>2, <1>3, <1>4, <1>5, <1>6, <1>7, <1>8, <1>9, <1>10 DEF Loop
-----------------------------------------------------------------------------
(* The sequences the loop works through.                                   *)

\* A batch holds descriptors only.
LEMMA BatchType ==
  ASSUME NEW batch \in Orders(Ready)
  PROVE  batch \in Seq(Fds \cup {SignalFd, TtyFd})
<1> DEFINE all == Fds \cup {SignalFd, TtyFd}
<1>1. Ready \in SUBSET all
  BY DEF Ready
<1>2. IsFiniteSet(all)
  <2>1. IsFiniteSet(Fds \cup {SignalFd})
    BY FdsFinite, FS_AddElement
  <2>2. IsFiniteSet((Fds \cup {SignalFd}) \cup {TtyFd})
    BY <2>1, FS_AddElement
  <2>3. all = (Fds \cup {SignalFd}) \cup {TtyFd}
    OBVIOUS
  <2> QED BY <2>2, <2>3
<1> HIDE DEF all
<1>3. Cardinality(Ready) \in Nat
  BY <1>1, <1>2, FS_Subset, FS_CardinalityType
<1>4. batch \in [1 .. Cardinality(Ready) -> all]
  BY <1>1 DEF Orders
<1>5. batch \in Seq(all)
  BY <1>3, <1>4, SeqDef
<1> QED BY <1>5 DEF all

\* A read of the signal descriptor delivers pending signals only.
LEMMA DeliveredType ==
  ASSUME NEW set \in SUBSET Signals
  PROVE  InOrder(set) \in Seq(set)
<1> DEFINE q1 == Delivered("SIGUSR1", set)
           q2 == Delivered("SIGUSR2", set)
           q3 == Delivered("SIGTERM", set)
           q4 == Delivered("SIGCHLD", set)
<1>1. q1 \in Seq(set) /\ q2 \in Seq(set) /\ q3 \in Seq(set) /\ q4 \in Seq(set)
  BY DEF Delivered
<1> HIDE DEF q1, q2, q3, q4
<1>2. q1 \o q2 \in Seq(set)
  BY <1>1, ConcatProperties
<1>3. q1 \o q2 \o q3 \in Seq(set)
  BY <1>1, <1>2, ConcatProperties
<1>4. q1 \o q2 \o q3 \o q4 \in Seq(set)
  BY <1>1, <1>3, ConcatProperties
<1> QED BY <1>4 DEF InOrder, q1, q2, q3, q4

LEMMA TailType ==
  ASSUME NEW S, NEW q \in Seq(S), q # <<>>
  PROVE  /\ Tail(q) \in Seq(S) /\ Head(q) \in S
         /\ \A i \in DOMAIN Tail(q) : \E j \in DOMAIN q : Tail(q)[i] = q[j]
<1>1. /\ Head(q) \in S /\ Tail(q) \in Seq(S) /\ Len(Tail(q)) = Len(q) - 1
      /\ \A i \in 1 .. Len(Tail(q)) : Tail(q)[i] = q[i + 1]
  BY HeadTailProperties
<1>2. Len(q) \in Nat /\ DOMAIN q = 1 .. Len(q) /\ DOMAIN Tail(q) = 1 .. Len(Tail(q))
  BY <1>1, LenProperties
<1>3. ASSUME NEW i \in DOMAIN Tail(q) PROVE \E j \in DOMAIN q : Tail(q)[i] = q[j]
  <2>1. i \in 1 .. Len(q) - 1
    BY <1>1, <1>2
  <2>2. i + 1 \in DOMAIN q /\ Tail(q)[i] = q[i + 1]
    BY <1>1, <1>2, <2>1
  <2> QED BY <2>2
<1> QED BY <1>1, <1>3

LEMMA KeyReadType ==
  ASSUME RestTypeOK, NextKey, KeyRead
  PROVE  tty' \in [buf : Seq(Keys), shell : Pointers]
<1>1. tty.buf \in Seq(Keys) /\ tty.buf # <<>> /\ tty.shell \in Pointers
  BY DEF RestTypeOK, NextKey
<1>2. Tail(tty.buf) \in Seq(Keys)
  BY <1>1, TailType
<1>3. NotReading \in [buf : Seq(Keys), shell : Pointers]
  BY EmptySeq DEF NotReading, Pointers
<1>4. [tty EXCEPT !.buf = Tail(@)] \in [buf : Seq(Keys), shell : Pointers]
  BY <1>1, <1>2 DEF RestTypeOK
<1> QED BY <1>3, <1>4 DEF KeyRead

LEMMA ChildSignalType ==
  ASSUME NEW s
  PROVE  ChildSignal(s) \in SUBSET Signals
BY DEF ChildSignal, Signals

LEMMA WorldType ==
  ASSUME RestTypeOK, World
  PROVE  RestTypeOK'
<1>1. ASSUME NEW s \in Shells, ProcessExits(s) \/ TerminalClosed(s)
      PROVE  RestTypeOK'
  BY <1>1 DEF RestTypeOK, ProcessExits, TerminalClosed, Signals
<1>2. CASE OtherChildExits \/ UserLeaves \/ UserReturns \/ Terminate
  BY <1>2 DEF RestTypeOK, OtherChildExits, UserLeaves, UserReturns, Terminate, Signals
<1>3. ASSUME NEW k \in TypedKeys, TypeKey(k) PROVE RestTypeOK'
  <2>1. k \in Keys
    BY KeysAssumption
  <2>2. Len(keys) \in Nat /\ Len(keys) < MaxKeys /\ keys' = Append(keys, k)
    BY <1>3, LenProperties DEF RestTypeOK, TypeKey
  <2>3. keys' \in Seq(Keys) /\ Len(keys') = Len(keys) + 1
    BY <2>1, <2>2, AppendProperties DEF RestTypeOK
  <2>4. Len(keys') <= MaxKeys
    BY <2>2, <2>3, KeysAssumption
  <2> QED BY <1>3, <2>3, <2>4 DEF RestTypeOK, TypeKey
<1> QED BY <1>1, <1>2, <1>3 DEF World

LEMMA LoopType ==
  ASSUME Inv, RestTypeOK, Loop
  PROVE  RestTypeOK'
<1>1. CASE Poll
  BY <1>1, BatchType DEF RestTypeOK, Poll
<1>2. CASE ReadSignals
  <2>1. evs' \in Seq(Fds \cup {SignalFd, TtyFd})
    BY <1>2, TailType DEF RestTypeOK, ReadSignals, NextEvent
  <2>2. sigs' \in Seq(pending) /\ pending \in SUBSET Signals
    BY <1>2, DeliveredType DEF RestTypeOK, ReadSignals
  <2>3. sigs' \in Seq(Signals)
    BY <2>2, SeqMonotonic
  <2> QED BY <1>2, <2>1, <2>3 DEF RestTypeOK, ReadSignals
<1>3. CASE ReadKeys
  <2>1. evs' \in Seq(Fds \cup {SignalFd, TtyFd})
    BY <1>3, TailType DEF RestTypeOK, ReadKeys, NextEvent
  <2>2. man.mActiveShell \in Pointers
    BY DEF Inv, WF, Base, ManagerState
  <2>3. tty' \in [buf : Seq(Keys), shell : Pointers]
    BY <1>3, <2>2 DEF RestTypeOK, ReadKeys
  <2>4. keys' \in Seq(Keys) /\ Len(keys') <= MaxKeys
    BY <1>3, EmptySeq, KeysAssumption DEF ReadKeys
  <2> QED BY <1>3, <2>1, <2>3, <2>4 DEF RestTypeOK, ReadKeys
<1>4. CASE HangUp
  <2>1. evs' \in Seq(Fds \cup {SignalFd, TtyFd})
    BY <1>4, TailType DEF RestTypeOK, HangUp, NextEvent
  <2>2. pending' \in SUBSET Signals
    BY <1>4, ChildSignalType DEF RestTypeOK, HangUp
  <2> QED BY <1>4, <2>1, <2>2 DEF RestTypeOK, HangUp
<1>5. CASE LeaveConsole \/ EnterConsole \/ TermSignal \/ ReapChild
  <2>0. sigs # <<>> /\ sigs' = Tail(sigs) /\ sigs \in Seq(Signals)
    BY <1>5 DEF RestTypeOK, LeaveConsole, EnterConsole, TermSignal, ReapChild
  <2>1. sigs' \in Seq(Signals)
    BY <2>0, TailType
  <2>2. otherChild' \in BOOLEAN /\ UNCHANGED <<pending, keys, evs, tty, phase>>
    BY <1>5 DEF RestTypeOK, LeaveConsole, EnterConsole, TermSignal, ReapChild, kernel
  <2>3. vt' \in {"ours", "theirs"}
    BY <1>5 DEF RestTypeOK, LeaveConsole, EnterConsole, TermSignal, ReapChild, kernel
  <2> QED BY <2>1, <2>2, <2>3 DEF RestTypeOK
<1>6. CASE SendText \/ SendShiftLeft \/ KeyNew \/ KeyDelete \/ KeySwitch \/ KeyExit
  <2>1. tty' \in [buf : Seq(Keys), shell : Pointers]
    BY <1>6, KeyReadType
    DEF SendText, SendShiftLeft, KeyNew, KeyDelete, KeySwitch, KeyExit
  <2>2. pending' \in SUBSET Signals
    BY <1>6, ChildSignalType
    DEF RestTypeOK, SendText, SendShiftLeft, KeyNew, KeyDelete, KeySwitch, KeyExit,
        kernel
  <2>3. UNCHANGED KeyWorld
    BY <1>6
    DEF SendText, SendShiftLeft, KeyNew, KeyDelete, KeySwitch, KeyExit, KeyWorld, kernel
  <2> QED BY <2>1, <2>2, <2>3 DEF RestTypeOK, KeyWorld
<1>7. CASE LeaveLoop \/ Stop
  BY <1>7 DEF RestTypeOK, LeaveLoop, Stop, kernel
<1>8. CASE Teardown
  <2>1. pending' \in SUBSET Signals
    BY <1>8, ChildSignalType DEF RestTypeOK, Teardown
  <2> QED BY <1>8, <2>1 DEF RestTypeOK, Teardown
<1> QED BY <1>1, <1>2, <1>3, <1>4, <1>5, <1>6, <1>7, <1>8 DEF Loop

LEMMA InitPipes == LoopInit => PipesOK /\ RestTypeOK
<1> SUFFICES ASSUME LoopInit PROVE PipesOK /\ RestTypeOK
  OBVIOUS
<1>1. PICK t \in BOOLEAN, s \in Shells, forked \in BOOLEAN :
        /\ man = FirstWindow(t, s)
        /\ vt = IF t THEN "ours" ELSE "theirs"
        /\ proc = [w \in Shells |-> IF w = s /\ forked THEN "running" ELSE "none"]
        /\ held = [w \in Shells |-> w = s /\ forked]
        /\ fd = [w \in Shells |-> IF w = s /\ forked THEN 0 ELSE -1]
        /\ ioPipeMap = [f \in Fds |-> IF f = 0 /\ forked THEN s ELSE None]
  BY Zenon DEF LoopInit
<1>2. 0 \in Fds
  <2>1. Cardinality(Shells) # 0
    BY AddressesAssumption, FS_EmptySet
  <2> QED BY <2>1, FdsFinite DEF Fds
<1>3. Inv
  BY InitInv DEF LoopInit, Init
<1>4. s \in LiveShells(man.mShellList)
  BY <1>1, FirstWindowOpen
<1>5. PipesTypeOK
  <2>1. held \in [Shells -> BOOLEAN]
    BY <1>1
  <2>2. fd \in [Shells -> Fds \cup {-1}]
    BY <1>1, <1>2
  <2>3. ioPipeMap \in [Fds -> Pointers]
    BY <1>1 DEF Pointers
  <2> QED BY <1>1, <2>1, <2>2, <2>3 DEF PipesTypeOK
<1>6. Matched(man.mShellList, fd, ioPipeMap, proc)
  <2>1. CASE forked
    <3>1. /\ fd = [w \in Shells |-> IF w = s THEN 0 ELSE -1]
          /\ ioPipeMap = [f \in Fds |-> IF f = 0 THEN s ELSE None]
          /\ proc = [w \in Shells |-> IF w = s THEN "running" ELSE "none"]
      BY <1>1, <2>1
    <3>2. \A f \in Fds, w \in Shells : ioPipeMap[f] = w <=> fd[w] = f
      BY <1>2, <3>1, FdsFinite, NamesAssumption
    <3>3. /\ \A w \in Shells : fd[w] # -1 <=> proc[w] # "none"
          /\ \A w \in Shells : fd[w] # -1 => w \in LiveShells(man.mShellList)
      BY <1>4, <3>1
    <3> QED BY <3>2, <3>3 DEF Matched
  <2>2. CASE ~forked
    <3>1. /\ fd = [w \in Shells |-> -1]
          /\ ioPipeMap = [f \in Fds |-> None]
          /\ proc = [w \in Shells |-> "none"]
      BY <1>1, <2>2
    <3> QED BY <3>1, FdsFinite, NamesAssumption DEF Matched
  <2> QED BY <2>1, <2>2
<1>7. RestTypeOK
  <2>1. /\ otherChild = FALSE /\ pending = {} /\ keys = <<>> /\ evs = <<>>
        /\ sigs = <<>> /\ tty = NotReading /\ phase = "loop"
    BY DEF LoopInit
  <2>2. /\ keys \in Seq(Keys) /\ Len(keys) = 0 /\ sigs \in Seq(Signals)
        /\ evs \in Seq(Fds \cup {SignalFd, TtyFd})
    BY <2>1, EmptySeq, Zenon
  <2>2a. Len(keys) <= MaxKeys
    BY <2>2, KeysAssumption
  <2>3. tty \in [buf : Seq(Keys), shell : Pointers]
    BY <2>1, EmptySeq DEF NotReading, Pointers
  <2>4. vt \in {"ours", "theirs"}
    BY <1>1
  <2> QED BY <2>1, <2>2, <2>2a, <2>3, <2>4 DEF RestTypeOK
<1> QED BY <1>5, <1>6, <1>7 DEF PipesOK

LEMMA LoopInv == LoopSpec => []Inv
BY LoopImplementsManager, InvAlways, PTL DEF ImplementsManager

LEMMA PipesStep ==
  Inv /\ PipesOK /\ RestTypeOK /\ [LoopNext]_vars => (PipesOK /\ RestTypeOK)'
<1> SUFFICES ASSUME Inv, PipesOK, RestTypeOK, [LoopNext]_vars
             PROVE  PipesOK' /\ RestTypeOK'
  OBVIOUS
<1>1. CASE World
  BY <1>1, WorldKeepsPipes, WorldType
<1>2. CASE Loop
  BY <1>2, LoopKeepsPipes, LoopType
<1>3. CASE UNCHANGED vars
  <2>1. PipesOK'
    BY <1>3, SameTablePipes DEF vars
  <2> QED BY <1>3, <2>1 DEF vars, RestTypeOK
<1> QED BY <1>1, <1>2, <1>3 DEF LoopNext, Gone

\* Every window with a terminal is registered under its own descriptor, every
\* registration is a window of the table, and a program that is alive or not
\* yet reaped belongs to one (createShellProcess, ~Shell, FbIoDispatcher's
\* ioPipeMap): nothing deleted is dispatched to.
THEOREM PipesStayMatched == LoopSpec => []PipesMatchWindows
<1>1. LoopInit => PipesOK /\ RestTypeOK
  BY InitPipes
<1>2. Inv /\ PipesOK /\ RestTypeOK /\ [LoopNext]_vars => (PipesOK /\ RestTypeOK)'
  BY PipesStep
<1>3. PipesOK /\ RestTypeOK => PipesMatchWindows
  BY PipesParts
<1> QED BY <1>1, <1>2, <1>3, LoopInv, PTL DEF LoopSpec
-----------------------------------------------------------------------------
(* The console, for a user who waits until his return is noticed: no second  *)
(* order is pending while one is, an order is pending only while the console *)
(* is FbTerm's, and the order to leave is obeyed once.                       *)
ConsoleOrders == {"SIGUSR1", "SIGUSR2"}

LeaveOnce ==
  \A i \in DOMAIN sigs : sigs[i] = "SIGUSR1" =>
    /\ "SIGUSR1" \notin pending
    /\ \A j \in DOMAIN sigs : sigs[j] = "SIGUSR1" => i = j

ConsoleInv ==
  /\ DrawsOnOwnConsole
  /\ ~(ConsolePending("SIGUSR1") /\ ConsolePending("SIGUSR2"))
  /\ ConsolePending("SIGUSR2") => vt = "ours"
  /\ ConsolePending("SIGUSR1") /\ phase = "loop" => vt = "ours"
  /\ LeaveOnce

\* No order becomes pending.
NoNewOrder ==
  /\ \A sig \in ConsoleOrders : ConsolePending(sig)' => ConsolePending(sig)
  /\ LeaveOnce => LeaveOnce'

LEMMA OrdersSame ==
  ASSUME sigs' = sigs, \A sig \in ConsoleOrders : sig \in pending' => sig \in pending
  PROVE  NoNewOrder
BY DEF NoNewOrder, ConsoleOrders, ConsolePending, LeaveOnce

\* SIGUSR1 has the lowest number and is delivered once.
LEMMA LeaveIsFirst ==
  ASSUME NEW set \in SUBSET Signals
  PROVE  LET q == InOrder(set)
         IN  \A i \in DOMAIN q : q[i] = "SIGUSR1" => i = 1
<1> DEFINE other == Signals \ {"SIGUSR1"}
           q1 == Delivered("SIGUSR1", set)
           q2 == Delivered("SIGUSR2", set)
           q3 == Delivered("SIGTERM", set)
           q4 == Delivered("SIGCHLD", set)
           rest == q2 \o q3 \o q4
           q == InOrder(set)
<1>0. "SIGUSR1" \in Signals /\ "SIGUSR2" \in other
      /\ "SIGTERM" \in other /\ "SIGCHLD" \in other
  BY DEF Signals
<1>1. /\ q1 \in Seq(Signals) /\ Len(q1) \in 0 .. 1
      /\ q2 \in Seq(other) /\ q3 \in Seq(other) /\ q4 \in Seq(other)
  <2> HIDE DEF other
  <2>1. q1 \in Seq(Signals)
    BY <1>0 DEF Delivered
  <2>2. Len(q1) \in 0 .. 1
    BY DEF Delivered
  <2>3. q2 \in Seq(other) /\ q3 \in Seq(other) /\ q4 \in Seq(other)
    BY <1>0 DEF Delivered
  <2> QED BY <2>1, <2>2, <2>3
<1>2. q = q1 \o q2 \o q3 \o q4
  BY DEF InOrder
<1> HIDE DEF q1, q2, q3, q4, q
<1>3. q2 \o q3 \in Seq(other)
  BY <1>1, ConcatProperties
<1>4. rest \in Seq(other)
  BY <1>1, <1>3, ConcatProperties
<1>5. /\ q2 \in Seq(Signals) /\ q3 \in Seq(Signals) /\ q4 \in Seq(Signals)
      /\ rest \in Seq(Signals) /\ q2 \o q3 \in Seq(Signals)
  BY <1>1, <1>3, <1>4, SeqMonotonic
<1>6. q = q1 \o rest
  <2>1. (q1 \o q2) \o q3 = q1 \o (q2 \o q3)
    BY <1>1, <1>5, ConcatAssociative
  <2>2. (q1 \o (q2 \o q3)) \o q4 = q1 \o ((q2 \o q3) \o q4)
    <3> DEFINE mid == q2 \o q3
    <3>1. q1 \in Seq(Signals) /\ mid \in Seq(Signals) /\ q4 \in Seq(Signals)
      BY <1>1, <1>5
    <3> HIDE DEF mid
    <3>2. (q1 \o mid) \o q4 = q1 \o (mid \o q4)
      BY <3>1, ConcatAssociative
    <3> QED BY <3>2 DEF mid
  <2> QED BY <1>2, <2>1, <2>2
<1> HIDE DEF rest, other
<1>7. /\ Len(q) = Len(q1) + Len(rest) /\ q \in Seq(Signals)
      /\ \A i \in 1 .. Len(q1) + Len(rest) :
           q[i] = IF i <= Len(q1) THEN q1[i] ELSE rest[i - Len(q1)]
  BY <1>1, <1>5, <1>6, ConcatProperties
<1>8. Len(rest) \in Nat /\ DOMAIN q = 1 .. Len(q)
  BY <1>4, <1>7, LenProperties
<1>9. ASSUME NEW i \in DOMAIN q, i # 1 PROVE q[i] # "SIGUSR1"
  <2>1. i - Len(q1) \in 1 .. Len(rest) /\ ~(i <= Len(q1)) /\ i \in 1 .. Len(q1) + Len(rest)
    BY <1>1, <1>7, <1>8, <1>9
  <2>2. q[i] = rest[i - Len(q1)]
    BY <1>7, <2>1
  <2>3. rest[i - Len(q1)] \in other
    BY <1>4, <2>1, ElementOfSeq
  <2> QED BY <2>2, <2>3 DEF other
<1> QED BY <1>9 DEF q

LEMMA OrdersRead ==
  ASSUME RestTypeOK, ReadSignals
  PROVE  NoNewOrder
<1>1. sigs' = InOrder(pending) /\ sigs' \in Seq(pending) /\ pending' = {}
  BY DeliveredType DEF RestTypeOK, ReadSignals
<1>2. \A i \in DOMAIN sigs' : sigs'[i] \in pending
  BY <1>1, ElementOfSeq, LenProperties
<1>3. \A i \in DOMAIN sigs' : sigs'[i] = "SIGUSR1" => i = 1
  BY <1>1, LeaveIsFirst DEF RestTypeOK
<1> QED BY <1>1, <1>2, <1>3 DEF NoNewOrder, ConsolePending, LeaveOnce

LEMMA OrdersTail ==
  ASSUME RestTypeOK, sigs # <<>>, sigs' = Tail(sigs), pending' = pending
  PROVE  /\ NoNewOrder
         /\ LeaveOnce /\ Head(sigs) = "SIGUSR1" => ~ConsolePending("SIGUSR1")'
<1>1. /\ Len(sigs) \in Nat \ {0} /\ Len(sigs') = Len(sigs) - 1
      /\ \A i \in 1 .. Len(sigs') : sigs'[i] = sigs[i + 1]
      /\ DOMAIN sigs = 1 .. Len(sigs) /\ DOMAIN sigs' = 1 .. Len(sigs')
      /\ Head(sigs) = sigs[1]
  BY HeadTailProperties, EmptySeq, LenProperties DEF RestTypeOK
<1>2. \A i \in DOMAIN sigs' : i + 1 \in DOMAIN sigs /\ sigs'[i] = sigs[i + 1] /\ i + 1 # 1
  BY <1>1
<1>3. \A sig \in ConsoleOrders : ConsolePending(sig)' => ConsolePending(sig)
  BY <1>2 DEF ConsolePending
<1>4. LeaveOnce => LeaveOnce'
  <2> SUFFICES ASSUME LeaveOnce, NEW i \in DOMAIN sigs', sigs'[i] = "SIGUSR1"
               PROVE  /\ "SIGUSR1" \notin pending'
                      /\ \A j \in DOMAIN sigs' : sigs'[j] = "SIGUSR1" => i = j
    BY DEF LeaveOnce
  <2>1. "SIGUSR1" \notin pending'
    BY <1>2 DEF LeaveOnce
  <2>2. ASSUME NEW j \in DOMAIN sigs', sigs'[j] = "SIGUSR1" PROVE i = j
    <3>1. i + 1 = j + 1
      BY <1>2, <2>2 DEF LeaveOnce
    <3> QED BY <1>1, <3>1
  <2> QED BY <2>1, <2>2
<1>5. ASSUME LeaveOnce, Head(sigs) = "SIGUSR1" PROVE ~ConsolePending("SIGUSR1")'
  <2>1. 1 \in DOMAIN sigs /\ sigs[1] = "SIGUSR1"
    BY <1>1, <1>5
  <2> QED BY <1>2, <1>5, <2>1 DEF ConsolePending, LeaveOnce
<1> QED BY <1>3, <1>4, <1>5 DEF NoNewOrder

LEMMA HeadPending ==
  ASSUME RestTypeOK, sigs # <<>>
  PROVE  ConsolePending(Head(sigs))
<1>1. Len(sigs) \in Nat \ {0} /\ DOMAIN sigs = 1 .. Len(sigs) /\ Head(sigs) = sigs[1]
  BY EmptySeq, LenProperties DEF RestTypeOK
<1> QED BY <1>1 DEF ConsolePending

\* Nothing but the two signals and the end of the loop changes who has the
\* console, and no order comes from inside the loop.
LEMMA ConsoleKept ==
  ASSUME ConsoleInv, man'.mVcCurrent = man.mVcCurrent, vt' = vt, NoNewOrder,
         phase' = "loop" => phase = "loop"
  PROVE  ConsoleInv'
BY DEF ConsoleInv, DrawsOnOwnConsole, NoNewOrder, ConsoleOrders

LEMMA ManagerKeepsConsole ==
  ASSUME Inv
  PROVE  /\ \A num \in Slots : SwitchShell(num) => man'.mVcCurrent = man.mVcCurrent
         /\ \A s \in Shells : DestroyShellObject(s) => man'.mVcCurrent = man.mVcCurrent
         /\ \A s \in Shells \ LiveShells(man.mShellList), forked \in BOOLEAN :
               OpenShell(s, forked) => man'.mVcCurrent = man.mVcCurrent
         /\ Exit => man'.mVcCurrent = man.mVcCurrent
         /\ \A enter \in BOOLEAN : SwitchVc(enter) => man'.mVcCurrent = enter
<1>1. \A num \in Slots : SwitchShell(num) => man'.mVcCurrent = man.mVcCurrent
  BY SwitchShellWF DEF Inv, SwitchShell
<1>2. \A s \in Shells : DestroyShellObject(s) => man'.mVcCurrent = man.mVcCurrent
  BY ShellExitedWF DEF Inv, DestroyShellObject, DestroyShell
<1>3. \A s \in Shells \ LiveShells(man.mShellList), forked \in BOOLEAN :
        OpenShell(s, forked) => man'.mVcCurrent = man.mVcCurrent
  BY CreateShellWF DEF Inv, OpenShell
<1>4. Exit => man'.mVcCurrent = man.mVcCurrent
  BY ExitWF DEF Inv, Exit
<1>5. \A enter \in BOOLEAN : SwitchVc(enter) => man'.mVcCurrent = enter
  BY SwitchVcWF DEF Inv, SwitchVc
<1> QED BY <1>1, <1>2, <1>3, <1>4, <1>5

LEMMA ChildSignalIsNoOrder ==
  ASSUME NEW s, NEW sig \in ConsoleOrders
  PROVE  sig \notin ChildSignal(s)
BY DEF ChildSignal, ConsoleOrders

LEMMA WorldKeepsConsole ==
  ASSUME RestTypeOK, ConsoleInv, ~SwitchesFast, World
  PROVE  ConsoleInv'
<1>1. CASE UserLeaves
  <2>1. /\ ~ConsolePending("SIGUSR1") /\ ~ConsolePending("SIGUSR2")
        /\ vt = "ours" /\ UNCHANGED <<man, vt, sigs>>
        /\ pending' = pending \cup {"SIGUSR1"}
    BY <1>1 DEF UserLeaves
  <2>2. ~ConsolePending("SIGUSR2")'
    BY <2>1 DEF ConsolePending
  <2>3. \A i \in DOMAIN sigs' : sigs'[i] # "SIGUSR1"
    BY <2>1 DEF ConsolePending
  <2> QED BY <2>1, <2>2, <2>3 DEF ConsoleInv, DrawsOnOwnConsole, LeaveOnce
<1>2. CASE UserReturns
  <2>1. /\ vt = "theirs" /\ ~ConsolePending("SIGUSR2") /\ phase = "loop"
        /\ vt' = "ours" /\ UNCHANGED <<man, sigs>>
        /\ pending' = pending \cup {"SIGUSR2"}
    BY <1>2 DEF UserReturns
  <2>2. ~ConsolePending("SIGUSR1")
    BY <2>1 DEF ConsoleInv
  <2>3. ~ConsolePending("SIGUSR1")' /\ LeaveOnce'
    BY <2>1, <2>2 DEF ConsolePending, LeaveOnce
  <2> QED BY <2>1, <2>3 DEF ConsoleInv, DrawsOnOwnConsole
<1>3. CASE OtherChildExits \/ Terminate
  <2>1. /\ UNCHANGED <<man, vt, sigs, phase>>
        /\ \A sig \in ConsoleOrders : sig \in pending' => sig \in pending
    BY <1>3 DEF OtherChildExits, Terminate, ConsoleOrders
  <2> QED BY <2>1, OrdersSame, ConsoleKept
<1>4. ASSUME NEW s \in Shells, ProcessExits(s) \/ TerminalClosed(s)
      PROVE  ConsoleInv'
  <2>1. /\ UNCHANGED <<man, vt, sigs, phase>>
        /\ \A sig \in ConsoleOrders : sig \in pending' => sig \in pending
    BY <1>4 DEF ProcessExits, TerminalClosed, ConsoleOrders
  <2> QED BY <2>1, OrdersSame, ConsoleKept
<1>5. ASSUME NEW k \in TypedKeys, TypeKey(k) PROVE ConsoleInv'
  <2>1. UNCHANGED <<man, vt, sigs, pending, phase>>
    BY <1>5 DEF TypeKey
  <2> QED BY <2>1, OrdersSame, ConsoleKept
<1> QED BY <1>1, <1>2, <1>3, <1>4, <1>5 DEF World

LEMMA LoopKeepsConsole ==
  ASSUME Inv, PipesOK, RestTypeOK, ConsoleInv, Loop
  PROVE  ConsoleInv'
<1>1. CASE Poll \/ ReadKeys \/ SendText \/ SendShiftLeft \/ Stop
  <2>1. UNCHANGED <<man, vt, sigs, pending>> /\ (phase' = "loop" => phase = "loop")
    BY <1>1 DEF Poll, ReadKeys, SendText, SendShiftLeft, Stop, kernel
  <2> QED BY <2>1, OrdersSame, ConsoleKept
<1>2. CASE ReadSignals
  <2>1. NoNewOrder /\ UNCHANGED <<man, vt, phase>>
    BY <1>2, OrdersRead DEF ReadSignals
  <2> QED BY <2>1, ConsoleKept
<1>3. CASE HangUp
  <2>1. vt' = vt /\ sigs' = sigs /\ phase' = phase
    BY <1>3 DEF HangUp
  <2>2. NoNewOrder
    BY <1>3, <2>1, ChildSignalIsNoOrder, OrdersSame DEF HangUp
  <2>3. man'.mVcCurrent = man.mVcCurrent
    <3>1. ASSUME Watched(Head(evs)), Head(evs) \in Fds
          PROVE  ioPipeMap[Head(evs)] \in Shells
      BY <3>1 DEF Watched, PipesOK, PipesTypeOK, Pointers
    <3> QED BY <1>3, <3>1, ManagerKeepsConsole DEF HangUp
  <2> QED BY <2>1, <2>2, <2>3, ConsoleKept
<1>4. CASE LeaveConsole
  <2>1. /\ sigs # <<>> /\ Head(sigs) = "SIGUSR1" /\ sigs' = Tail(sigs)
        /\ pending' = pending /\ man'.mVcCurrent = FALSE
    BY <1>4, ManagerKeepsConsole DEF LeaveConsole
  <2>2. ConsolePending("SIGUSR1")
    BY <2>1, HeadPending
  <2>3. NoNewOrder /\ ~ConsolePending("SIGUSR1")'
    BY <2>1, OrdersTail DEF ConsoleInv
  <2>4. ~ConsolePending("SIGUSR2")'
    BY <2>2, <2>3 DEF ConsoleInv, NoNewOrder, ConsoleOrders
  <2> QED BY <2>1, <2>3, <2>4 DEF ConsoleInv, DrawsOnOwnConsole, NoNewOrder
<1>5. CASE EnterConsole
  <2>1. /\ sigs # <<>> /\ Head(sigs) = "SIGUSR2" /\ sigs' = Tail(sigs)
        /\ pending' = pending /\ vt' = vt
    BY <1>5 DEF EnterConsole, kernel
  <2>2. ConsolePending("SIGUSR2")
    BY <2>1, HeadPending
  <2>3. NoNewOrder
    BY <2>1, OrdersTail
  <2>4. vt' = "ours" /\ ~ConsolePending("SIGUSR1")'
    BY <2>1, <2>2, <2>3 DEF ConsoleInv, NoNewOrder, ConsoleOrders
  <2> QED BY <2>3, <2>4 DEF ConsoleInv, DrawsOnOwnConsole, NoNewOrder
<1>6. CASE TermSignal \/ ReapChild
  <2>1. /\ sigs # <<>> /\ sigs' = Tail(sigs) /\ pending' = pending
        /\ vt' = vt /\ phase' = phase
    BY <1>6 DEF TermSignal, ReapChild, kernel
  <2>2. NoNewOrder
    BY <2>1, OrdersTail
  <2>3. man'.mVcCurrent = man.mVcCurrent
    BY <1>6, ManagerKeepsConsole DEF TermSignal, ReapChild, Zombies
  <2> QED BY <2>1, <2>2, <2>3, ConsoleKept
<1>7. CASE KeyNew \/ KeySwitch \/ KeyExit
  <2>1. UNCHANGED <<vt, sigs, pending, phase>>
    BY <1>7 DEF KeyNew, KeySwitch, KeyExit, KeyWorld
  <2>2. man'.mVcCurrent = man.mVcCurrent
    BY <1>7, ManagerKeepsConsole DEF KeyNew, KeySwitch, KeyExit
  <2> QED BY <2>1, <2>2, OrdersSame, ConsoleKept
<1>8. CASE KeyDelete
  <2>1. vt' = vt /\ sigs' = sigs /\ phase' = phase
    BY <1>8 DEF KeyDelete, KeyWorld
  <2>2. NoNewOrder
    BY <1>8, <2>1, ChildSignalIsNoOrder, OrdersSame DEF KeyDelete
  <2>3. man'.mVcCurrent = man.mVcCurrent
    <3>1. ASSUME man.mShellList[man.mCurShell] # None
          PROVE  man.mShellList[man.mCurShell] \in Shells
      BY <3>1, LiveIsShell DEF Inv, WF, Base, ManagerState
    <3> QED BY <1>8, <3>1, ManagerKeepsConsole DEF KeyDelete
  <2> QED BY <2>1, <2>2, <2>3, ConsoleKept
<1>9. CASE LeaveLoop
  <2>1. sigs' = sigs /\ pending' = pending /\ phase' # "loop"
    BY <1>9 DEF LeaveLoop
  <2>2. NoNewOrder
    BY <2>1, OrdersSame
  <2>3. ~man'.mVcCurrent
    <3>1. CASE vt = "ours"
      <4>1. SwitchVc(FALSE)
        BY <1>9, <3>1 DEF LeaveLoop
      <4> QED BY <4>1, ManagerKeepsConsole
    <3>2. CASE vt # "ours"
      BY <1>9, <3>2 DEF LeaveLoop, ConsoleInv, DrawsOnOwnConsole
    <3> QED BY <3>1, <3>2
  <2>4. ConsolePending("SIGUSR2")' => vt' = "ours"
    <3> SUFFICES ASSUME ConsolePending("SIGUSR2")' PROVE vt' = "ours"
      OBVIOUS
    <3>1. vt = "ours" /\ ~ConsolePending("SIGUSR1")
      BY <2>2 DEF ConsoleInv, NoNewOrder, ConsoleOrders
    <3> QED BY <1>9, <3>1 DEF LeaveLoop, ConsolePending
  <2> QED BY <2>1, <2>2, <2>3, <2>4
          DEF ConsoleInv, DrawsOnOwnConsole, NoNewOrder, ConsoleOrders
<1>10. CASE Teardown
  <2>1. PICK f \in Fds : /\ Watched(f) /\ DestroyShellObject(ioPipeMap[f])
                         /\ pending' = pending \cup ChildSignal(ioPipeMap[f])
    BY <1>10 DEF Teardown
  <2>2. vt' = vt /\ sigs' = sigs /\ phase' = phase
    BY <1>10 DEF Teardown
  <2>3. NoNewOrder
    BY <2>1, <2>2, ChildSignalIsNoOrder, OrdersSame
  <2>4. ioPipeMap[f] \in Shells
    BY <2>1 DEF Watched, PipesOK, PipesTypeOK, Pointers
  <2> QED BY <2>1, <2>2, <2>3, <2>4, ManagerKeepsConsole, ConsoleKept
<1> QED BY <1>1, <1>2, <1>3, <1>4, <1>5, <1>6, <1>7, <1>8, <1>9, <1>10 DEF Loop

LEMMA InitConsole == LoopInit => ConsoleInv
<1> SUFFICES ASSUME LoopInit PROVE ConsoleInv
  OBVIOUS
<1>1. PICK t \in BOOLEAN, s \in Shells : /\ man = FirstWindow(t, s)
                                         /\ vt = IF t THEN "ours" ELSE "theirs"
  BY Zenon DEF LoopInit
<1>2. man.mVcCurrent = t
  BY <1>1, FirstWindowOpen
<1>3. pending = {} /\ sigs = <<>>
  BY DEF LoopInit
<1>4. \A sig : ~ConsolePending(sig)
  BY <1>3 DEF ConsolePending
<1>5. LeaveOnce
  BY <1>4 DEF ConsolePending, LeaveOnce
<1> QED BY <1>1, <1>2, <1>4, <1>5 DEF ConsoleInv, DrawsOnOwnConsole

\* The windows draw only while the console is FbTerm's: SIGUSR1 makes everyone
\* leave before VT_RELDISP, and a return is noticed (SIGUSR2) before the next
\* order to leave comes.  A user who is faster breaks it.
THEOREM OwnConsoleOnly ==
  ASSUME ~SwitchesFast
  PROVE  LoopSpec => []DrawsOnOwnConsole
<1>1. LoopInit => PipesOK /\ RestTypeOK /\ ConsoleInv
  BY InitPipes, InitConsole
<1>2. Inv /\ PipesOK /\ RestTypeOK /\ ConsoleInv /\ [LoopNext]_vars
        => (PipesOK /\ RestTypeOK /\ ConsoleInv)'
  <2> SUFFICES ASSUME Inv, PipesOK, RestTypeOK, ConsoleInv, [LoopNext]_vars
               PROVE  PipesOK' /\ RestTypeOK' /\ ConsoleInv'
    OBVIOUS
  <2>1. PipesOK' /\ RestTypeOK'
    BY PipesStep
  <2>2. CASE World
    BY <2>1, <2>2, WorldKeepsConsole
  <2>3. CASE Loop
    BY <2>1, <2>3, LoopKeepsConsole
  <2>4. CASE UNCHANGED vars
    <3>1. UNCHANGED <<man, vt, sigs, pending, phase>>
      BY <2>4 DEF vars
    <3>2. ConsoleInv'
      BY <3>1, OrdersSame, ConsoleKept
    <3> QED BY <2>1, <3>2
  <2> QED BY <2>2, <2>3, <2>4 DEF LoopNext, Gone
<1>3. ConsoleInv => DrawsOnOwnConsole
  BY DEF ConsoleInv
<1> QED BY <1>1, <1>2, <1>3, LoopInv, PTL DEF LoopSpec
==============================================================================
