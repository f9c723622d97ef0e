-------------------------- MODULE ShellManagerProofs --------------------------
(* Proofs about ShellManager for every number of slots and every set of      *)
(* windows.                                                                  *)
EXTENDS ShellManager, FiniteSetTheorems, WellFoundedInduction, TLAPS

LEMMA LeastExists ==
  ASSUME NEW T \in SUBSET Nat, T # {}
  PROVE  \E k \in T : \A j \in T : k <= j
<1> DEFINE R == {ss \in Nat \X Nat : ss[1] < ss[2]}
<1>1. IsWellFoundedOn(R, Nat)
  BY NatLessThanWellFounded DEF OpToRel
<1>2. PICK k \in T : \A y \in T : ~ (<<y, k>> \in R)
  <2> HIDE DEF R
  <2> QED BY <1>1, WFMin
<1>3. \A y \in T : ~ (y < k)
  BY <1>2
<1> QED
  BY <1>3

LEMMA ModRange ==
  ASSUME NEW n \in Nat \ {0}, NEW x \in Int
  PROVE  x % n \in 0 .. n - 1
OBVIOUS

LEMMA ModWrap ==
  ASSUME NEW n \in Nat \ {0}, NEW x \in 0 .. n - 1
  PROVE  /\ x % n = x
         /\ (x + n) % n = x
         /\ (x + n + n) % n = x
OBVIOUS

LEMMA ProbeType ==
  ASSUME NEW cur \in Slots, NEW f \in BOOLEAN, NEW b \in BOOLEAN, NEW k \in Slots
  PROVE  Probe(cur, f, b, k) \in Slots
<1>1. \A x \in Int : x % NR_SHELLS \in 0 .. NR_SHELLS - 1
  BY ModRange, SlotsAssumption
<1> QED
  BY <1>1, SlotsAssumption DEF Probe, Slots

\* The probes of the two searches the manager makes reach every slot: forward
\* from the current slot on, and backwards from the one before it.
LEMMA ProbeCovers ==
  ASSUME NEW cur \in Slots, NEW i \in Slots
  PROVE  /\ \E k \in Slots : Probe(cur, TRUE, FALSE, k) = i
         /\ \E k \in Slots : Probe(cur, FALSE, TRUE, k) = i
<1> DEFINE n == NR_SHELLS
<1>0. n \in Nat \ {0} /\ cur \in 0 .. n - 1 /\ i \in 0 .. n - 1
  BY SlotsAssumption DEF Slots
<1>1. i % n = i /\ (i + n) % n = i /\ (i + n + n) % n = i
  BY <1>0, ModWrap
<1>2. \E k \in Slots : Probe(cur, TRUE, FALSE, k) = i
  <2>1. CASE i >= cur
    <3>1. i - cur \in Slots /\ cur + n + (i - cur) = i + n
      BY <1>0, <2>1 DEF Slots
    <3> QED BY <3>1, <1>1 DEF Probe
  <2>2. CASE i < cur
    <3>1. i - cur + n \in Slots /\ cur + n + (i - cur + n) = i + n + n
      BY <1>0, <2>2 DEF Slots
    <3> QED BY <3>1, <1>1 DEF Probe
  <2>3. i >= cur \/ i < cur
    BY <1>0
  <2> QED BY <2>1, <2>2, <2>3, Zenon
<1>3. \E k \in Slots : Probe(cur, FALSE, TRUE, k) = i
  <2>1. CASE i >= cur
    <3> DEFINE k == cur - i + n - 1
    <3>1. k \in Slots /\ k + 1 \in Int /\ cur + n + (-(k + 1)) = i
      BY <1>0, <2>1 DEF Slots
    <3>2. Probe(cur, FALSE, TRUE, k) = (cur + n + (-(k + 1))) % n
      BY DEF Probe
    <3> QED BY <3>1, <3>2, <1>1
  <2>2. CASE i < cur
    <3> DEFINE k == cur - i - 1
    <3>1. k \in Slots /\ k + 1 \in Int /\ cur + n + (-(k + 1)) = i + n
      BY <1>0, <2>2 DEF Slots
    <3>2. Probe(cur, FALSE, TRUE, k) = (cur + n + (-(k + 1))) % n
      BY DEF Probe
    <3> QED BY <3>1, <3>2, <1>1
  <2>3. i >= cur \/ i < cur
    BY <1>0
  <2> QED BY <2>1, <2>2, <2>3, Zenon
<1> QED BY <1>2, <1>3

\* getIndex returns a slot, and one that holds a wanted pointer when any does.
LEMMA GetIndexFinds ==
  ASSUME NEW m \in ManagerState, NEW wanted,
         NEW f \in BOOLEAN, NEW b \in BOOLEAN, <<f, b>> \in {<<TRUE, FALSE>>, <<FALSE, TRUE>>}
  PROVE  /\ getIndex(m, wanted, f, b) \in Slots
         /\ (\E i \in Slots : m.mShellList[i] \in wanted)
              => m.mShellList[getIndex(m, wanted, f, b)] \in wanted
<1> DEFINE at(k) == Probe(m.mCurShell, f, b, k)
           hits  == {k \in Slots : m.mShellList[at(k)] \in wanted}
           least == CHOOSE k \in hits : \A j \in hits : k <= j
<1>1. m.mCurShell \in Slots
  BY DEF ManagerState
<1>2. \A k \in Slots : at(k) \in Slots
  BY <1>1, ProbeType
<1>3. ASSUME hits # {} PROVE least \in hits
  <2>1. hits \in SUBSET Nat
    BY SlotsAssumption DEF Slots
  <2>2. \E k \in hits : \A j \in hits : k <= j
    <3> HIDE DEF hits
    <3> QED BY <1>3, <2>1, LeastExists
  <2> HIDE DEF hits
  <2> QED BY <2>2
<1>4. getIndex(m, wanted, f, b) = IF hits = {} THEN at(NR_SHELLS - 1) ELSE at(least)
  BY DEF getIndex
<1>5. NR_SHELLS - 1 \in Slots
  BY SlotsAssumption DEF Slots
<1>6. ASSUME NEW i \in Slots, m.mShellList[i] \in wanted
      PROVE  hits # {}
  <2>1. PICK k \in Slots : at(k) = i
    <3>1. CASE f = TRUE /\ b = FALSE
      BY <3>1, <1>1, ProbeCovers, Zenon
    <3>2. CASE f = FALSE /\ b = TRUE
      BY <3>2, <1>1, ProbeCovers, Zenon
    <3> QED BY <3>1, <3>2
  <2> QED BY <2>1, <1>6
<1> HIDE DEF at, least
<1> QED BY <1>2, <1>3, <1>4, <1>5, <1>6

-----------------------------------------------------------------------------
(* The inductive invariant, over the record a handler works on.  Base is what *)
(* holds between any two calls inside a handler; the active window can lag    *)
(* behind the current slot, and the count behind the table, until its end.    *)
Base(m) == /\ m \in ManagerState
           /\ m.shown = IF m.mVcCurrent THEN m.mActiveShell ELSE Foreign
           /\ m.console = m.mActiveShell
           /\ ~m.mVcCurrent => m.mActiveShell = None

ActiveOK(m) ==
    m.mActiveShell = IF m.mVcCurrent THEN m.mShellList[m.mCurShell] ELSE None

Distinct(list) == \A i, j \in Occupied(list) : list[i] = list[j] => i = j

CountOK(m) == /\ m.mShellCount = Cardinality(Occupied(m.mShellList))
              /\ Distinct(m.mShellList)

WF(m) == Base(m) /\ ActiveOK(m) /\ CountOK(m)

Inv == WF(man) /\ RunsOnlyWithWindows

\* What a handler leaves of the manager when it only changes who is active.
SameTable(m, r) == /\ r.mShellList = m.mShellList
                   /\ r.mShellCount = m.mShellCount
                   /\ r.mRun = m.mRun

LEMMA SetActiveBase ==
  ASSUME NEW m, Base(m), m.mVcCurrent, NEW s \in Pointers
  PROVE  LET r == redraw(setActive(m, s))
         IN  /\ Base(r)
             /\ r.mActiveShell = s
             /\ SameTable(m, r)
             /\ r.mVcCurrent = m.mVcCurrent
             /\ r.mCurShell = m.mCurShell
<1> DEFINE a == setActive(m, s)
           r == redraw(a)
<1>1. /\ a \in ManagerState
      /\ a.mActiveShell = s /\ a.console = s
      /\ SameTable(m, a) /\ a.mVcCurrent = m.mVcCurrent /\ a.mCurShell = m.mCurShell
  BY DEF Base, ManagerState, setActive, SameTable
<1>2. r = [a EXCEPT !.shown = a.mActiveShell]
  BY DEF redraw
<1> HIDE DEF a, r
<1>3. a.mActiveShell \in Shells \cup {None, Foreign}
  BY <1>1 DEF ManagerState, Pointers
<1>4. /\ r \in ManagerState /\ r.shown = a.mActiveShell
      /\ r.mActiveShell = a.mActiveShell /\ r.console = a.console
      /\ SameTable(a, r) /\ r.mVcCurrent = a.mVcCurrent /\ r.mCurShell = a.mCurShell
  BY <1>1, <1>2, <1>3 DEF ManagerState, SameTable
<1>5. Base(r) /\ r.mActiveShell = s /\ SameTable(m, r)
  BY <1>1, <1>4 DEF Base, SameTable
<1> QED BY <1>1, <1>4, <1>5 DEF r, a

LEMMA SwitchShellBase ==
  ASSUME NEW m, Base(m), NEW num \in Slots
  PROVE  LET r == switchShell(m, num)
         IN  /\ Base(r) /\ ActiveOK(r) /\ SameTable(m, r)
             /\ r.mCurShell = num /\ r.mVcCurrent = m.mVcCurrent
<1> DEFINE cur == [m EXCEPT !.mCurShell = num]
           target == m.mShellList[num]
           r == switchShell(m, num)
<1>1. /\ Base(cur) /\ SameTable(m, cur)
      /\ cur.mCurShell = num /\ cur.mVcCurrent = m.mVcCurrent
      /\ cur.mActiveShell = m.mActiveShell /\ cur.mShellList = m.mShellList
  BY DEF Base, ManagerState, SameTable
<1>2. target \in Pointers
  BY DEF Base, ManagerState
<1>3. ~(num >= NR_SHELLS)
  BY SlotsAssumption DEF Slots
<1> HIDE DEF cur
<1>4. CASE m.mVcCurrent /\ m.mActiveShell # target
  <2> DEFINE q == redraw(setActive(cur, target))
  <2>1. r = q
    BY <1>3, <1>4 DEF switchShell, cur
  <2>2. /\ Base(q) /\ q.mActiveShell = target /\ SameTable(cur, q)
        /\ q.mVcCurrent = cur.mVcCurrent /\ q.mCurShell = cur.mCurShell
    BY <1>1, <1>2, <1>4, SetActiveBase
  <2> HIDE DEF q, r
  <2>3. /\ ActiveOK(q) /\ SameTable(m, q)
        /\ q.mCurShell = num /\ q.mVcCurrent = m.mVcCurrent
    BY <1>1, <1>4, <2>2 DEF ActiveOK, SameTable
  <2> QED BY <2>1, <2>2, <2>3 DEF r
<1>5. CASE ~(m.mVcCurrent /\ m.mActiveShell # target)
  <2>1. r = cur
    BY <1>3, <1>5 DEF switchShell, cur
  <2>2. ActiveOK(cur)
    BY <1>1, <1>5 DEF ActiveOK, Base
  <2> QED BY <1>1, <2>1, <2>2
<1> QED BY <1>4, <1>5

LEMMA SwitchShellWF ==
  ASSUME NEW m, WF(m), NEW num \in Slots
  PROVE  LET r == switchShell(m, num)
         IN  WF(r) /\ SameTable(m, r) /\ r.mVcCurrent = m.mVcCurrent
<1> DEFINE r == switchShell(m, num)
<1>1. Base(r) /\ ActiveOK(r) /\ SameTable(m, r) /\ r.mVcCurrent = m.mVcCurrent
  BY SwitchShellBase DEF WF
<1> HIDE DEF r
<1>2. CountOK(r)
  BY <1>1 DEF WF, CountOK, SameTable
<1> QED BY <1>1, <1>2 DEF WF, r

\* Entering or leaving the console, from any state in which Base holds: when
\* it is entered the first time there is no window yet.
LEMMA SwitchVcBase ==
  ASSUME NEW m, Base(m), NEW enter \in BOOLEAN
  PROVE  LET r == switchVc(m, enter)
         IN  /\ Base(r) /\ ActiveOK(r) /\ SameTable(m, r)
             /\ r.mVcCurrent = enter
<1> DEFINE c == [m EXCEPT !.mVcCurrent = enter]
           target == IF enter THEN m.mShellList[m.mCurShell] ELSE None
           o == setActive(c, target)
           r == switchVc(m, enter)
<1>1. target \in Pointers
  BY DEF Base, ManagerState, Pointers
<1>2. /\ c \in ManagerState /\ c.mVcCurrent = enter /\ c.mShellList = m.mShellList
      /\ c.mCurShell = m.mCurShell /\ c.mActiveShell = m.mActiveShell
      /\ c.console = m.console /\ SameTable(m, c)
  BY DEF Base, ManagerState, SameTable
<1>3. r = IF enter THEN redraw(o) ELSE [o EXCEPT !.shown = Foreign]
  BY DEF switchVc
<1> HIDE DEF c
<1>4. /\ o \in ManagerState /\ o.mActiveShell = target /\ o.console = target
      /\ o.mVcCurrent = enter /\ o.mCurShell = m.mCurShell /\ SameTable(m, o)
  <2>1. c.console = c.mActiveShell
    BY <1>2 DEF Base
  <2> HIDE DEF target
  <2> QED BY <1>1, <1>2, <2>1 DEF ManagerState, setActive, SameTable
<1> HIDE DEF o, r
<1>5. target = IF enter THEN o.mShellList[o.mCurShell] ELSE None
  BY <1>4 DEF SameTable
<1> HIDE DEF target
<1>6. CASE enter
  <2>1. r = [o EXCEPT !.shown = o.mActiveShell]
    BY <1>3, <1>6 DEF redraw
  <2>2. /\ r \in ManagerState /\ r.shown = o.mActiveShell
        /\ r.mActiveShell = o.mActiveShell /\ r.console = o.console
        /\ r.mVcCurrent = o.mVcCurrent /\ r.mCurShell = o.mCurShell /\ SameTable(o, r)
    BY <1>4, <2>1 DEF ManagerState, Pointers, SameTable
  <2> QED BY <1>4, <1>5, <1>6, <2>2 DEF Base, ActiveOK, SameTable, r
<1>7. CASE ~enter
  <2>1. r = [o EXCEPT !.shown = Foreign]
    BY <1>3, <1>7
  <2>2. /\ r \in ManagerState /\ r.shown = Foreign
        /\ r.mActiveShell = o.mActiveShell /\ r.console = o.console
        /\ r.mVcCurrent = o.mVcCurrent /\ r.mCurShell = o.mCurShell /\ SameTable(o, r)
    BY <1>4, <2>1 DEF ManagerState, SameTable
  <2> QED BY <1>4, <1>5, <1>7, <2>2 DEF Base, ActiveOK, SameTable, r
<1> QED BY <1>6, <1>7

LEMMA SwitchVcWF ==
  ASSUME NEW m, WF(m), NEW enter \in BOOLEAN
  PROVE  LET r == switchVc(m, enter)
         IN  WF(r) /\ SameTable(m, r) /\ r.mVcCurrent = enter
<1> DEFINE r == switchVc(m, enter)
<1>1. Base(r) /\ ActiveOK(r) /\ SameTable(m, r) /\ r.mVcCurrent = enter
  BY SwitchVcBase DEF WF
<1> HIDE DEF r
<1>2. CountOK(r)
  BY <1>1 DEF WF, CountOK, SameTable
<1> QED BY <1>1, <1>2 DEF WF, r

LEMMA ExitWF ==
  ASSUME NEW m, WF(m)
  PROVE  WF(exit(m)) /\ ~exit(m).mRun /\ exit(m).mVcCurrent = m.mVcCurrent
BY DEF WF, Base, ActiveOK, CountOK, ManagerState, exit

LEMMA OccupiedFinite ==
  ASSUME NEW list
  PROVE  IsFiniteSet(Occupied(list)) /\ Cardinality(Occupied(list)) \in 0 .. NR_SHELLS
<1>1. IsFiniteSet(Slots) /\ Cardinality(Slots) = NR_SHELLS
  BY FS_Interval, SlotsAssumption DEF Slots
<1>2. Occupied(list) \in SUBSET Slots
  BY DEF Occupied
<1>3. IsFiniteSet(Occupied(list)) /\ Cardinality(Occupied(list)) <= NR_SHELLS
  BY <1>1, <1>2, FS_Subset
<1>4. Cardinality(Occupied(list)) \in Nat
  BY <1>3, FS_CardinalityType
<1> QED BY <1>3, <1>4, SlotsAssumption


\* Clearing or filling one slot changes the set of occupied slots by that one.
LEMMA OccupiedChange ==
  ASSUME NEW list \in [Slots -> Pointers], NEW i \in Slots, NEW s \in Shells
  PROVE  /\ Occupied([list EXCEPT ![i] = None]) = Occupied(list) \ {i}
         /\ Occupied([list EXCEPT ![i] = s]) = Occupied(list) \cup {i}
BY NamesAssumption DEF Occupied

LEMMA ShellExitedWF ==
  ASSUME NEW m, WF(m), NEW s \in LiveShells(m.mShellList)
  PROVE  LET r == shellExited(m, s)
         IN  /\ WF(r) /\ r.mVcCurrent = m.mVcCurrent
             /\ r.mRun => m.mRun /\ Occupied(r.mShellList) # {}
             /\ \E index \in Slots : /\ m.mShellList[index] = s
                                     /\ r.mShellList = [m.mShellList EXCEPT ![index] = None]
             /\ m.mShellList[m.mCurShell] = s /\ Occupied(r.mShellList) # {}
                  => r.mShellList[r.mCurShell] # None
<1> DEFINE index   == getIndex(m, {s}, TRUE, FALSE)
           vacated == [m EXCEPT !.mShellList[index] = None]
           prev    == getIndex(vacated, Shells, FALSE, TRUE)
           moved   == IF index = m.mCurShell THEN prevShell(vacated) ELSE vacated
           counted == [moved EXCEPT !.mShellCount = @ - 1]
           r       == shellExited(m, s)
<1>1. m \in ManagerState /\ m.mShellList \in [Slots -> Pointers] /\ m.mCurShell \in Slots
  BY DEF WF, Base, ManagerState
<1>2. s # None /\ \E i \in Slots : m.mShellList[i] \in {s}
  BY DEF LiveShells
<1>3. index \in Slots /\ m.mShellList[index] = s
  <2>1. index \in Slots /\ m.mShellList[index] \in {s}
    BY <1>1, <1>2, GetIndexFinds
  <2> QED BY <2>1
<1>4. r = IF counted.mShellCount = 0 THEN exit(counted) ELSE counted
  BY DEF shellExited
<1> HIDE DEF index, r
<1>5. /\ Base(vacated) /\ vacated.mShellList = [m.mShellList EXCEPT ![index] = None]
      /\ vacated.mShellCount = m.mShellCount /\ vacated.mRun = m.mRun
      /\ vacated.mCurShell = m.mCurShell /\ vacated.mVcCurrent = m.mVcCurrent
      /\ vacated.mActiveShell = m.mActiveShell
  <2>1. [m.mShellList EXCEPT ![index] = None] \in [Slots -> Pointers]
    BY <1>1 DEF Pointers
  <2> QED BY <1>1, <1>3, <2>1 DEF WF, Base, ManagerState
<1>6. prev \in Slots
  <2> HIDE DEF vacated
  <2> QED BY <1>5, GetIndexFinds DEF Base
<1> HIDE DEF vacated, prev
<1>7. /\ Base(moved) /\ ActiveOK(moved) /\ SameTable(vacated, moved)
      /\ moved.mVcCurrent = m.mVcCurrent
  <2>1. CASE index = m.mCurShell
    <3>1. moved = switchShell(vacated, prev)
      BY <2>1 DEF prevShell, prev
    <3> QED BY <1>5, <1>6, <3>1, SwitchShellBase
  <2>2. CASE index # m.mCurShell
    <3>1. moved = vacated
      BY <2>2
    <3>2. vacated.mShellList[vacated.mCurShell] = m.mShellList[m.mCurShell]
      BY <1>1, <1>3, <1>5, <2>2
    <3>3. ActiveOK(vacated)
      BY <1>5, <3>2 DEF WF, ActiveOK
    <3> QED BY <1>5, <3>1, <3>3 DEF SameTable
  <2> QED BY <2>1, <2>2
<1> DEFINE before == Occupied(m.mShellList)
           after  == Occupied(moved.mShellList)
<1>8. /\ index \in before /\ after = before \ {index}
      /\ moved.mShellList = [m.mShellList EXCEPT ![index] = None]
  <2>1. moved.mShellList = [m.mShellList EXCEPT ![index] = None]
    BY <1>5, <1>7 DEF SameTable
  <2>2. s \in Shells
    BY <1>1, <1>2, <1>3 DEF Pointers
  <2>3. after = before \ {index}
    BY <1>1, <1>3, <2>1, <2>2, OccupiedChange
  <2> QED BY <1>2, <1>3, <2>1, <2>3 DEF Occupied
<1>8a. ASSUME index = m.mCurShell, after # {}
       PROVE  moved.mShellList[moved.mCurShell] # None
  <2>1. moved = switchShell(vacated, prev)
    BY <1>8a DEF prevShell, prev
  <2>2. moved.mCurShell = prev /\ moved.mShellList = vacated.mShellList
    BY <1>5, <1>6, <2>1, SwitchShellBase DEF SameTable
  <2>3. \E i \in Slots : vacated.mShellList[i] \in Shells
    BY <1>5, <1>8a, <2>2 DEF Occupied, Base, ManagerState, Pointers
  <2>4. vacated.mShellList[prev] \in Shells
    BY <1>5, <2>3, GetIndexFinds DEF Base, prev
  <2> QED BY <2>2, <2>4, NamesAssumption
<1> HIDE DEF moved
<1>8b. m.mShellList[m.mCurShell] = s => index = m.mCurShell
  BY <1>1, <1>2, <1>3 DEF WF, CountOK, Distinct, Occupied
<1>9. IsFiniteSet(before) /\ Cardinality(before) \in 0 .. NR_SHELLS
  BY OccupiedFinite
<1>10. IsFiniteSet(after) /\ Cardinality(after) \in 0 .. NR_SHELLS
  BY OccupiedFinite
<1>11. Cardinality(after) = Cardinality(before) - 1
  <2> HIDE DEF before, after
  <2> QED BY <1>8, <1>9, FS_RemoveElement
<1>12. moved.mShellCount = Cardinality(before) /\ Distinct(m.mShellList)
  BY <1>5, <1>7 DEF WF, CountOK, SameTable
<1>13. Distinct(moved.mShellList)
  BY <1>1, <1>3, <1>8, <1>12 DEF Distinct, Occupied
<1>14. /\ Base(counted) /\ ActiveOK(counted)
       /\ counted.mShellCount = Cardinality(after)
       /\ counted.mShellList = moved.mShellList /\ counted.mRun = moved.mRun
       /\ counted.mCurShell = moved.mCurShell /\ counted.mVcCurrent = m.mVcCurrent
  <2>1. moved.mShellCount - 1 = Cardinality(after)
    BY <1>9, <1>11, <1>12
  <2> HIDE DEF after
  <2> QED BY <1>7, <1>10, <2>1 DEF Base, ActiveOK, ManagerState
<1>15. WF(counted)
  BY <1>13, <1>14 DEF WF, CountOK
<1>16. counted.mRun = m.mRun
  BY <1>5, <1>7, <1>14 DEF SameTable
<1> HIDE DEF counted
<1>17. CASE counted.mShellCount = 0
  <2>1. WF(r) /\ ~r.mRun /\ r.mVcCurrent = m.mVcCurrent
    BY <1>4, <1>14, <1>15, <1>17, ExitWF
  <2>2. r.mShellList = counted.mShellList /\ r.mCurShell = counted.mCurShell
    BY <1>4, <1>15, <1>17 DEF exit, WF, Base, ManagerState
  <2> QED BY <1>3, <1>8, <1>8a, <1>8b, <1>14, <2>1, <2>2 DEF r
<1>18. CASE counted.mShellCount # 0
  <2>1. r = counted
    BY <1>4, <1>18
  <2>2. after # {}
    BY <1>14, <1>18, FS_EmptySet
  <2> QED BY <1>3, <1>8, <1>8a, <1>8b, <1>14, <1>15, <1>16, <2>1, <2>2 DEF r
<1> QED BY <1>17, <1>18


\* The first window is created before mRun is set, so nothing is asked of it.
LEMMA CreateShellWF ==
  ASSUME NEW m, WF(m), NEW s \in Shells \ LiveShells(m.mShellList)
  PROVE  LET r == createShell(m, s)
         IN  /\ WF(r) /\ r.mRun = m.mRun /\ r.mVcCurrent = m.mVcCurrent
             /\ Occupied(r.mShellList) # {}
             /\ \A i \in Slots : m.mShellList[i] # None => r.mShellList[i] = m.mShellList[i]
             /\ m.mShellCount # NR_SHELLS => s \in LiveShells(r.mShellList)
<1> DEFINE index == getIndex(m, {None}, TRUE, FALSE)
           placed == [m EXCEPT !.mShellCount = @ + 1, !.mShellList[index] = s]
           before == Occupied(m.mShellList)
           r == createShell(m, s)
<1>1. m \in ManagerState /\ m.mShellList \in [Slots -> Pointers] /\ m.mShellCount \in Int
  BY DEF WF, Base, ManagerState
<1>2. /\ IsFiniteSet(before) /\ Cardinality(before) \in 0 .. NR_SHELLS
      /\ m.mShellCount = Cardinality(before)
  BY OccupiedFinite DEF WF, CountOK
<1>3. CASE m.mShellCount = NR_SHELLS
  <2>1. r = m
    BY <1>3 DEF createShell
  <2>2. before # {}
    BY <1>2, <1>3, FS_EmptySet, SlotsAssumption
  <2> QED BY <1>3, <2>1, <2>2 DEF r
<1>4. CASE m.mShellCount # NR_SHELLS
  <2>1. \E i \in Slots : m.mShellList[i] \in {None}
    <3>1. SUFFICES ASSUME \A i \in Slots : m.mShellList[i] # None PROVE FALSE
      OBVIOUS
    <3>2. before = Slots
      BY <3>1 DEF Occupied
    <3> QED BY <1>2, <1>4, <3>2, FS_Interval, SlotsAssumption DEF Slots
  <2>2. index \in Slots /\ m.mShellList[index] = None
    <3>1. index \in Slots /\ m.mShellList[index] \in {None}
      BY <1>1, <2>1, GetIndexFinds
    <3> QED BY <3>1
  <2>3. r = switchShell(placed, index)
    BY <1>4 DEF createShell
  <2> HIDE DEF index, r
  <2> DEFINE list == [m.mShellList EXCEPT ![index] = s]
  <2>4. list \in [Slots -> Pointers]
    BY <1>1 DEF Pointers
  <2>5. Occupied(list) = before \cup {index} /\ index \notin before
    BY <1>1, <2>2, OccupiedChange DEF Occupied
  <2>6. Distinct(list)
    <3>1. \A i \in Slots : m.mShellList[i] # s
      BY NamesAssumption DEF LiveShells
    <3>2. Distinct(m.mShellList)
      BY DEF WF, CountOK
    <3>3. ASSUME NEW i \in Occupied(list), NEW j \in Occupied(list), list[i] = list[j]
          PROVE  i = j
      <4>1. i \in Slots /\ j \in Slots
        BY DEF Occupied
      <4>2. CASE i = index \/ j = index
        BY <1>1, <2>2, <3>1, <3>3, <4>1, <4>2
      <4>3. CASE i # index /\ j # index
        BY <1>1, <2>2, <2>5, <3>2, <3>3, <4>1, <4>3 DEF Distinct
      <4> QED BY <4>2, <4>3
    <3> HIDE DEF list
    <3> QED BY <3>3 DEF Distinct
  <2>7. Cardinality(Occupied(list)) = m.mShellCount + 1
    <3> HIDE DEF before, list
    <3> QED BY <1>2, <2>5, FS_AddElement
  <2>8. /\ Base(placed) /\ placed.mShellList = list
        /\ placed.mShellCount = m.mShellCount + 1 /\ placed.mRun = m.mRun
        /\ placed.mVcCurrent = m.mVcCurrent
    <3>1. m.mShellCount + 1 \in 0 .. NR_SHELLS
      BY <1>2, <1>4, SlotsAssumption
    <3> DEFINE p1 == [m EXCEPT !.mShellCount = @ + 1]
    <3>2. Base(p1) /\ p1.mShellList = m.mShellList
          /\ p1.mShellCount = m.mShellCount + 1 /\ p1.mRun = m.mRun
          /\ p1.mVcCurrent = m.mVcCurrent
      BY <3>1 DEF WF, Base, ManagerState
    <3>3. placed = [p1 EXCEPT !.mShellList = list]
      BY <1>1 DEF ManagerState
    <3> HIDE DEF p1, placed, list
    <3> QED BY <2>4, <3>2, <3>3 DEF Base, ManagerState
  <2> HIDE DEF placed
  <2>9. /\ Base(r) /\ ActiveOK(r) /\ SameTable(placed, r)
        /\ r.mVcCurrent = m.mVcCurrent
    BY <2>2, <2>3, <2>8, SwitchShellBase
  <2>10. r.mShellList = list /\ r.mShellCount = m.mShellCount + 1 /\ r.mRun = m.mRun
    BY <2>8, <2>9 DEF SameTable
  <2>11. WF(r)
    <3> HIDE DEF list
    <3> QED BY <2>6, <2>7, <2>9, <2>10 DEF WF, CountOK
  <2>12. \A i \in Slots : m.mShellList[i] # None => r.mShellList[i] = m.mShellList[i]
    BY <1>1, <2>2, <2>10
  <2>13. Occupied(r.mShellList) # {}
    <3> HIDE DEF list
    <3> QED BY <2>5, <2>10
  <2>14. s \in LiveShells(r.mShellList)
    <3>1. list[index] = s
      BY <1>1, <2>2
    <3> HIDE DEF list
    <3> QED BY <2>2, <2>10, <3>1, NamesAssumption DEF LiveShells
  <2> QED BY <2>9, <2>10, <2>11, <2>12, <2>13, <2>14 DEF r
<1> QED BY <1>3, <1>4

-----------------------------------------------------------------------------
LEMMA FirstWindowOpen ==
  ASSUME NEW t \in BOOLEAN, NEW w \in Shells, man = FirstWindow(t, w)
  PROVE  Inv /\ w \in LiveShells(man.mShellList) /\ man.mVcCurrent = t
<1> DEFINE started == IF t THEN switchVc(Constructed, TRUE) ELSE Constructed
           opened  == createShell(started, w)
<1>1. /\ WF(Constructed) /\ LiveShells(Constructed.mShellList) = {}
      /\ Constructed.mShellList = [i \in Slots |-> None]
  <2>1. Base(Constructed) /\ ActiveOK(Constructed)
    BY SlotsAssumption
    DEF Base, ActiveOK, ManagerState, Constructed, Slots, Pointers
  <2>2. Occupied(Constructed.mShellList) = {}
    BY DEF Constructed, Occupied
  <2>3. CountOK(Constructed)
    BY <2>2, FS_EmptySet DEF CountOK, Distinct, Constructed
  <2>4. LiveShells(Constructed.mShellList) = {}
    BY DEF Constructed, LiveShells
  <2>5. Constructed.mShellList = [i \in Slots |-> None]
    BY DEF Constructed
  <2> QED BY <2>1, <2>3, <2>4, <2>5 DEF WF
<1>2. /\ WF(started) /\ started.mShellList = Constructed.mShellList
      /\ started.mShellCount = 0 /\ started.mVcCurrent = t
  BY <1>1, SwitchVcWF DEF SameTable, Constructed
<1> HIDE DEF started
<1>3. /\ WF(opened) /\ Occupied(opened.mShellList) # {}
      /\ w \in LiveShells(opened.mShellList) /\ opened.mVcCurrent = t
  BY <1>1, <1>2, CreateShellWF, SlotsAssumption
<1>4. man = [opened EXCEPT !.mRun = TRUE]
  BY DEF FirstWindow, started
<1> HIDE DEF opened
<1>5. /\ WF(man) /\ man.mShellList = opened.mShellList
      /\ man.mVcCurrent = opened.mVcCurrent
  BY <1>3, <1>4 DEF WF, Base, ActiveOK, CountOK, ManagerState
<1> QED BY <1>3, <1>5 DEF Inv, RunsOnlyWithWindows

LEMMA InitInv == Init => Inv
BY FirstWindowOpen DEF Init

LEMMA NextInv == Inv /\ [Next]_man => Inv'
<1> SUFFICES ASSUME Inv, [Next]_man PROVE Inv'
  OBVIOUS
<1>0. WF(man) /\ (man.mRun => Occupied(man.mShellList) # {})
  BY DEF Inv, RunsOnlyWithWindows
<1> SUFFICES WF(man') /\ (man'.mRun => Occupied(man'.mShellList) # {})
  BY DEF Inv, RunsOnlyWithWindows, WF, Base, ActiveOK, CountOK
<1>1. CASE CreateShell
  <2>1. PICK s \in Shells \ LiveShells(man.mShellList) : man' = createShell(man, s)
    BY <1>1 DEF CreateShell
  <2> QED BY <1>0, <2>1, CreateShellWF
<1>2. ASSUME NEW s \in LiveShells(man.mShellList), DestroyShell(s)
      PROVE  WF(man') /\ (man'.mRun => Occupied(man'.mShellList) # {})
  BY <1>0, <1>2, ShellExitedWF DEF DestroyShell
<1>3. ASSUME NEW num \in Slots, SwitchShell(num)
      PROVE  WF(man') /\ (man'.mRun => Occupied(man'.mShellList) # {})
  BY <1>0, <1>3, SwitchShellWF DEF SwitchShell, SameTable
<1>4. ASSUME NEW enter \in BOOLEAN, SwitchVc(enter)
      PROVE  WF(man') /\ (man'.mRun => Occupied(man'.mShellList) # {})
  BY <1>0, <1>4, SwitchVcWF DEF SwitchVc, SameTable
<1>5. CASE Exit
  BY <1>0, <1>5, ExitWF DEF Exit
<1>6. CASE UNCHANGED man
  BY <1>0, <1>6
<1> QED BY <1>1, <1>2, <1>3, <1>4, <1>5, <1>6 DEF Next

LEMMA InvAlways == Spec => []Inv
<1>1. Init => Inv
  BY InitInv
<1>2. Inv /\ [Next]_man => Inv'
  BY NextInv
<1> QED BY <1>1, <1>2, PTL DEF Spec

\* The manager's fields keep their types whatever the number of slots, the
\* window count included (createShell's limit, shellExited's decrement).
THEOREM ManagerTypeCorrect == Spec => []TypeOK
<1>1. Inv => TypeOK
  BY DEF Inv, WF, Base, TypeOK
<1> QED BY <1>1, InvAlways, PTL

\* Between two handlers the active window is the one in the current slot, and
\* the screen and the console redirection belong to it (setActive, redraw).
THEOREM ActiveAndScreenAgree == Spec => [](ActiveIsCurrent /\ ScreenFollowsWindow)
<1>1. Inv => ActiveIsCurrent /\ ScreenFollowsWindow
  BY DEF Inv, WF, Base, ActiveOK, ActiveIsCurrent, ScreenFollowsWindow
<1> QED BY <1>1, InvAlways, PTL

\* mShellCount counts the windows, so the limit of createShell and the exit
\* with the last window are about the real number, and the main loop never
\* runs without one.
THEOREM CountIsRight == Spec => [](CountMatchesWindows /\ RunsOnlyWithWindows)
<1>1. Inv => CountMatchesWindows /\ RunsOnlyWithWindows
  BY DEF Inv, WF, CountOK, Distinct, CountMatchesWindows
<1> QED BY <1>1, InvAlways, PTL

\* No handler overwrites the slot of an open window (getIndex finds a free
\* one for createShell, and the window's own one for shellExited).
THEOREM WindowsAreKept == Spec => WindowsStay
<1> DEFINE Kept == \A i \in Slots : \/ man.mShellList[i] = None
                                    \/ man'.mShellList[i] \in {None, man.mShellList[i]}
<1>1. ASSUME Inv, Next PROVE Kept
  <2>0. WF(man) /\ man.mShellList \in [Slots -> Pointers]
    BY <1>1 DEF Inv, WF, Base, ManagerState
  <2>1. CASE CreateShell
    BY <2>0, <2>1, CreateShellWF DEF CreateShell
  <2>2. ASSUME NEW s \in LiveShells(man.mShellList), DestroyShell(s) PROVE Kept
    <3>1. PICK index \in Slots :
             man'.mShellList = [man.mShellList EXCEPT ![index] = None]
      BY <2>0, <2>2, ShellExitedWF DEF DestroyShell
    <3> QED BY <2>0, <3>1
  <2>3. ASSUME NEW num \in Slots, SwitchShell(num) PROVE Kept
    BY <2>0, <2>3, SwitchShellWF DEF SwitchShell, SameTable
  <2>4. ASSUME NEW enter \in BOOLEAN, SwitchVc(enter) PROVE Kept
    BY <2>0, <2>4, SwitchVcWF DEF SwitchVc, SameTable
  <2>5. CASE Exit
    BY <2>0, <2>5 DEF Exit, exit, WF, Base, ManagerState
  <2> QED BY <1>1, <2>1, <2>2, <2>3, <2>4, <2>5 DEF Next
<1>2. Inv /\ [Next]_man => [Kept]_man
  BY <1>1
<1> QED BY <1>2, InvAlways, PTL DEF Spec, WindowsStay

\* Closing the current window gives the current slot to another window as
\* long as there is one (prevShell's backward search).
THEOREM NeighbourFound == Spec => NeighbourTakesOver
<1> DEFINE Given == ( /\ man.mShellList[man.mCurShell] # None
                      /\ man'.mShellList[man.mCurShell] = None
                      /\ Occupied(man'.mShellList) # {} )
                    => man'.mShellList[man'.mCurShell] # None
<1>1. ASSUME Inv, Next PROVE Given
  <2>0. WF(man) /\ man.mShellList \in [Slots -> Pointers] /\ man.mCurShell \in Slots
    BY <1>1 DEF Inv, WF, Base, ManagerState
  <2>1. CASE CreateShell
    BY <2>0, <2>1, CreateShellWF DEF CreateShell
  <2>2. ASSUME NEW s \in LiveShells(man.mShellList), DestroyShell(s) PROVE Given
    <3>1. PICK index \in Slots :
             /\ man.mShellList[index] = s
             /\ man'.mShellList = [man.mShellList EXCEPT ![index] = None]
      BY <2>0, <2>2, ShellExitedWF DEF DestroyShell
    <3>2. \/ man'.mShellList[man.mCurShell] = man.mShellList[man.mCurShell]
          \/ man.mShellList[man.mCurShell] = s
      BY <2>0, <3>1
    <3>3. ( /\ man.mShellList[man.mCurShell] = s
            /\ Occupied(man'.mShellList) # {} )
          => man'.mShellList[man'.mCurShell] # None
      BY <2>0, <2>2, ShellExitedWF DEF DestroyShell
    <3> QED BY <3>2, <3>3
  <2>3. ASSUME NEW num \in Slots, SwitchShell(num) PROVE Given
    BY <2>0, <2>3, SwitchShellWF DEF SwitchShell, SameTable
  <2>4. ASSUME NEW enter \in BOOLEAN, SwitchVc(enter) PROVE Given
    BY <2>0, <2>4, SwitchVcWF DEF SwitchVc, SameTable
  <2>5. CASE Exit
    BY <2>0, <2>5 DEF Exit, exit, WF, Base, ManagerState
  <2> QED BY <1>1, <2>1, <2>2, <2>3, <2>4, <2>5 DEF Next
<1>2. Inv /\ [Next]_man => [Given]_man
  BY <1>1
<1> QED BY <1>2, InvAlways, PTL DEF Spec, NeighbourTakesOver

==============================================================================
