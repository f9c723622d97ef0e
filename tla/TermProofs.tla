----------------------------- MODULE TermProofs -----------------------------
(***************************************************************************)
(* What a terminal keeps, for every size of a row, a window, a table of    *)
(* colours, a cell and an image: ImagesAreKept, ColoursAreKept and         *)
(* RowAndCursorShown of MCTerm.                                            *)
(***************************************************************************)
EXTENDS MCTerm, WellFoundedInduction, FiniteSetTheorems, TLAPS

-----------------------------------------------------------------------------
(* Numbers                                                                 *)

\* Every set of natural numbers has a least one: what stands in for induction.
LEMMA NatMin ==
  ASSUME NEW T, T \subseteq Nat, T # {}
  PROVE  \E m \in T : \A k \in T : m <= k
<1>1. PICK x \in T : \A y \in T : ~(<<y, x>> \in OpToRel(<, Nat))
  BY NatLessThanWellFounded, WFMin, Zenon
<1>2. \A y \in T : ~(y < x)
  <2> TAKE y \in T
  <2>1. y \in Nat /\ x \in Nat
    OBVIOUS
  <2>2. y < x => <<y, x>> \in OpToRel(<, Nat)
    BY <2>1 DEF OpToRel
  <2> QED BY <1>1, <2>2
<1> QED BY <1>2

-----------------------------------------------------------------------------
(* The pixmaps of the cells                                                *)

StoreCell == [ptr : Blocks \cup {Null}, has : BOOLEAN]
StoreLine == [StoreColumns -> StoreCell]

\* The inductive invariant: the lines are lines, and the heap holds what they
\* point to, each block from one cell.
HeapKept ==
  /\ row \in StoreLine /\ history \in StoreLine
  /\ Owned

Alone(line) ==
  \A x, y \in StoreColumns : (line[x].ptr = line[y].ptr /\ line[x].ptr # Null) => x = y

LEMMA OwnedLines ==
  Owned <=> /\ heap = Held(row) \cup Held(history)
            /\ Held(row) \cap Held(history) = {}
            /\ Alone(row) /\ Alone(history)
BY Zenon DEF Owned, Lines, Alone

\* Freeing some cells of a line in which no two share a block frees what the
\* others do not hold.
LEMMA FreedIsNotHeld ==
  ASSUME NEW line \in StoreLine, Alone(line), NEW xs \in SUBSET StoreColumns
  PROVE  LET f == free_pixmap(line, xs)
         IN  /\ f.line \in StoreLine
             /\ Alone(f.line)
             /\ Held(f.line) = Held(line) \ f.freed
             /\ f.freed \subseteq Held(line)
             /\ \A x \in StoreColumns : f.line[x] = IF x \in xs THEN NoPixmap ELSE line[x]
<1> DEFINE l2 == [x \in StoreColumns |-> IF x \in xs THEN NoPixmap ELSE line[x]]
           fr == {line[x].ptr : x \in xs} \ {Null}
<1>1. free_pixmap(line, xs).line = l2 /\ free_pixmap(line, xs).freed = fr
  BY DEF free_pixmap
<1>2. l2 \in StoreLine
  BY DEF StoreLine, StoreCell, NoPixmap
<1>3. \A x \in StoreColumns : l2[x].ptr = IF x \in xs THEN Null ELSE line[x].ptr
  BY DEF NoPixmap
<1>4. Alone(l2)
  BY <1>3 DEF Alone
<1>5. Held(l2) = Held(line) \ fr
  <2>1. ASSUME NEW b PROVE b \in Held(l2) <=> b \in Held(line) \ fr
    <3>1. b \in Held(l2) <=> b # Null /\ \E x \in StoreColumns : l2[x].ptr = b
      BY DEF Held
    <3>2. b \in Held(line) <=> b # Null /\ \E x \in StoreColumns : line[x].ptr = b
      BY DEF Held
    <3>3. b \in fr <=> b # Null /\ \E x \in xs : line[x].ptr = b
      OBVIOUS
    <3> QED BY <3>1, <3>2, <3>3, <1>3 DEF Alone
  <2> QED BY <2>1
<1>6. fr \subseteq Held(line)
  BY DEF Held
<1>7. \A x \in StoreColumns : l2[x] = IF x \in xs THEN NoPixmap ELSE line[x]
  OBVIOUS
<1> HIDE DEF l2, fr
<1> QED BY <1>1, <1>2, <1>4, <1>5, <1>6, <1>7

LEMMA EmptyLine ==
  /\ [x \in StoreColumns |-> NoPixmap] \in StoreLine
  /\ Held([x \in StoreColumns |-> NoPixmap]) = {}
  /\ Alone([x \in StoreColumns |-> NoPixmap])
BY DEF StoreLine, StoreCell, NoPixmap, Held, Alone

\* Attributes are no pointers: lines with the same pointers hold the same.
LEMMA SamePointers ==
  ASSUME NEW a \in StoreLine, NEW b \in StoreLine,
         \A x \in StoreColumns : a[x].ptr = b[x].ptr
  PROVE  /\ Held(a) = Held(b)
         /\ Alone(a) <=> Alone(b)
<1>1. {a[x].ptr : x \in StoreColumns} = {b[x].ptr : x \in StoreColumns}
  OBVIOUS
<1>2. Alone(a) <=> Alone(b)
  BY DEF Alone
<1> QED BY <1>1, <1>2 DEF Held

\* One cell gets a block that nothing holds.
LEMMA OneMore ==
  ASSUME NEW line \in StoreLine, Alone(line), NEW x \in StoreColumns, line[x] = NoPixmap,
         NEW b \in Blocks, b \notin Held(line)
  PROVE  LET l == [line EXCEPT ![x] = [ptr |-> b, has |-> TRUE]]
         IN  l \in StoreLine /\ Alone(l) /\ Held(l) = Held(line) \cup {b}
<1> DEFINE l == [line EXCEPT ![x] = [ptr |-> b, has |-> TRUE]]
<1>0. b # Null
  BY StoreAssumption
<1>1. l \in StoreLine
  BY DEF StoreLine, StoreCell
<1>2. \A y \in StoreColumns : l[y].ptr = IF y = x THEN b ELSE line[y].ptr
  BY DEF StoreLine
<1>3. \A y \in StoreColumns : line[y].ptr # b
  BY <1>0 DEF Held
<1>4. Alone(l)
  BY <1>2, <1>3 DEF Alone
<1>5. ASSUME NEW c PROVE c \in Held(l) <=> c \in Held(line) \cup {b}
  <2>1. c \in Held(l) <=> c # Null /\ \E y \in StoreColumns : l[y].ptr = c
    BY DEF Held
  <2>2. c \in Held(line) <=> c # Null /\ \E y \in StoreColumns : line[y].ptr = c
    BY DEF Held
  <2>3. line[x].ptr = Null
    BY DEF NoPixmap
  <2> QED BY <2>1, <2>2, <2>3, <1>2, <1>0
<1>6. Held(l) = Held(line) \cup {b}
  BY <1>5
<1> HIDE DEF l
<1> QED BY <1>1, <1>4, <1>6 DEF l


\* Erasing cells of the row: the heap loses what they held.
LEMMA RowFreed ==
  ASSUME HeapKept, NEW line \in StoreLine, NEW xs \in SUBSET StoreColumns,
         \A x \in StoreColumns : line[x].ptr = row[x].ptr,
         row' = free_pixmap(line, xs).line,
         heap' = heap \ free_pixmap(line, xs).freed,
         history' = history
  PROVE  HeapKept'
<1> DEFINE f == free_pixmap(line, xs)
<1>1. /\ row \in StoreLine /\ history \in StoreLine
      /\ heap = Held(row) \cup Held(history)
      /\ Held(row) \cap Held(history) = {}
      /\ Alone(row) /\ Alone(history)
  BY OwnedLines DEF HeapKept
<1>2. Held(line) = Held(row) /\ Alone(line)
  BY <1>1, SamePointers
<1>3. /\ f.line \in StoreLine /\ Alone(f.line)
      /\ Held(f.line) = Held(line) \ f.freed /\ f.freed \subseteq Held(line)
  BY <1>2, FreedIsNotHeld
<1> HIDE DEF f
<1>4. row' \in StoreLine /\ Alone(row') /\ Held(row') = Held(row) \ f.freed
  BY <1>2, <1>3 DEF f
<1>5. heap' = Held(row') \cup Held(history') /\ Held(row') \cap Held(history') = {}
  BY <1>1, <1>2, <1>3, <1>4 DEF f
<1>6. Owned'
  BY <1>1, <1>4, <1>5, OwnedLines DEF Owned, Lines, Alone
<1> QED BY <1>1, <1>4, <1>6 DEF HeapKept

LEMMA KeptByCopy ==
  ASSUME HeapKept, NEW x \in StoreColumns, copy_cell(x) PROVE HeapKept'
<1> DEFINE f == free_pixmap(row, {x})
           freed == heap \ f.freed
<1>1. /\ row \in StoreLine /\ history \in StoreLine
      /\ heap = Held(row) \cup Held(history)
      /\ Held(row) \cap Held(history) = {}
      /\ Alone(row) /\ Alone(history)
  BY OwnedLines DEF HeapKept
<1>2. history' = history
  BY DEF copy_cell
<1>3. CASE heap' = freed /\ row' = f.line
  BY <1>1, <1>2, <1>3, RowFreed
<1>4. CASE \E b \in Blocks \ freed :
             heap' = freed \cup {b} /\ row' = [f.line EXCEPT ![x] = [ptr |-> b, has |-> TRUE]]
  <2>1. PICK b \in Blocks \ freed :
          heap' = freed \cup {b} /\ row' = [f.line EXCEPT ![x] = [ptr |-> b, has |-> TRUE]]
    BY <1>4
  <2>2. /\ f.line \in StoreLine /\ Alone(f.line)
        /\ Held(f.line) = Held(row) \ f.freed /\ f.freed \subseteq Held(row)
        /\ f.line[x] = NoPixmap
    BY <1>1, FreedIsNotHeld
  <2> HIDE DEF f
  <2>3. freed = Held(f.line) \cup Held(history)
    BY <1>1, <2>2
  <2>4. b \notin Held(f.line) /\ b \notin Held(history)
    BY <2>1, <2>3
  <2>5. row' \in StoreLine /\ Alone(row') /\ Held(row') = Held(f.line) \cup {b}
    BY <2>1, <2>2, <2>4, OneMore
  <2>6. heap' = Held(row') \cup Held(history') /\ Held(row') \cap Held(history') = {}
    BY <1>1, <1>2, <2>1, <2>2, <2>3, <2>4, <2>5
  <2>7. Owned'
    BY <1>1, <1>2, <2>5, <2>6 DEF Owned, Lines, Alone
  <2> QED BY <1>1, <1>2, <2>5, <2>7 DEF HeapKept
<1> QED BY <1>3, <1>4 DEF copy_cell

LEMMA KeptByChar ==
  ASSUME HeapKept, NEW xs \in SUBSET StoreColumns, xs # {}, NEW m \in BOOLEAN,
         put_char(xs, m)
  PROVE  HeapKept'
<1> DEFINE first == CHOOSE x \in xs : \A y \in xs : x <= y
           n == Cardinality(xs)
           moved == IF ~m THEN row
                    ELSE [x \in StoreColumns |->
                            IF x >= first + n THEN [row[x] EXCEPT !.has = row[x - n].has] ELSE row[x]]
<1>1. /\ row' = free_pixmap(moved, xs).line /\ heap' = heap \ free_pixmap(moved, xs).freed
      /\ history' = history
  BY DEF put_char
<1>2. row \in StoreLine
  BY DEF HeapKept
<1>a. first \in StoreColumns /\ first >= 0 /\ first \in Int
  <2>1. xs \subseteq Nat
    BY DEF StoreColumns
  <2>2. \E x \in xs : \A y \in xs : x <= y
    BY <2>1, NatMin
  <2>3. first \in xs
    BY <2>2
  <2> HIDE DEF first
  <2> QED BY <2>3, StoreAssumption DEF StoreColumns
<1>b. n \in Nat
  <2>1. IsFiniteSet(StoreColumns)
    BY FS_Interval, StoreAssumption DEF StoreColumns
  <2>2. IsFiniteSet(xs)
    BY <2>1, FS_Subset
  <2> QED BY <2>2, FS_CardinalityType
<1> HIDE DEF first, n
<1>3. moved \in StoreLine /\ \A x \in StoreColumns : moved[x].ptr = row[x].ptr
  <2> SUFFICES ASSUME NEW x \in StoreColumns
               PROVE  moved[x] \in StoreCell /\ moved[x].ptr = row[x].ptr
    BY <1>2 DEF StoreLine
  <2>1. row[x] \in StoreCell
    BY <1>2 DEF StoreLine
  <2>2. CASE ~m /\ x >= first + n
    BY <2>1, <2>2
  <2>3. CASE m /\ x >= first + n
    <3>1. x - n \in StoreColumns
      BY <1>a, <1>b, <2>3, StoreAssumption DEF StoreColumns
    <3>2. row[x - n] \in StoreCell
      BY <1>2, <3>1 DEF StoreLine
    <3>3. moved[x] = [row[x] EXCEPT !.has = row[x - n].has]
      BY <2>3
    <3> QED BY <2>1, <3>2, <3>3 DEF StoreCell
  <2>4. CASE ~(x >= first + n)
    BY <2>1, <2>4
  <2> QED BY <2>2, <2>3, <2>4
<1> HIDE DEF moved
<1> QED BY <1>1, <1>3, RowFreed

LEMMA KeptByScroll ==
  ASSUME HeapKept, scroll_out PROVE HeapKept'
<1> DEFINE f == free_pixmap(row, StoreColumns)
           g == free_pixmap(history, StoreColumns)
           blank == [x \in StoreColumns |-> NoPixmap]
<1>1. /\ row \in StoreLine /\ history \in StoreLine
      /\ heap = Held(row) \cup Held(history)
      /\ Alone(row) /\ Alone(history)
  BY OwnedLines DEF HeapKept
<1>2. f.line = blank /\ g.line = blank
  BY DEF free_pixmap
<1>3. Held(f.line) = Held(row) \ f.freed /\ Held(g.line) = Held(history) \ g.freed
  BY <1>1, FreedIsNotHeld
<1>4. row' = f.line /\ heap' = heap \ (g.freed \cup f.freed) /\ history' = blank
  BY DEF scroll_out
<1> HIDE DEF f, g
<1>5. heap' = {}
  BY <1>1, <1>2, <1>3, <1>4, EmptyLine
<1>6. row' = blank
  BY <1>2, <1>4
<1> HIDE DEF blank
<1>7. blank \in StoreLine /\ Held(blank) = {} /\ Alone(blank)
  BY EmptyLine DEF blank
<1>8. Owned'
  BY <1>4, <1>5, <1>6, <1>7 DEF Owned, Lines, Alone
<1> QED BY <1>4, <1>6, <1>7, <1>8 DEF HeapKept

LEMMA KeptByAlign ==
  ASSUME HeapKept, align PROVE HeapKept'
<1>1. /\ row \in StoreLine /\ history \in StoreLine
      /\ heap = Held(row) \cup Held(history)
      /\ Held(row) \cap Held(history) = {}
      /\ Alone(row) /\ Alone(history)
  BY OwnedLines DEF HeapKept
<1>2. row' \in StoreLine /\ \A x \in StoreColumns : row'[x].ptr = row[x].ptr
  BY <1>1 DEF align, StoreLine, StoreCell
<1>3. Held(row') = Held(row) /\ Alone(row')
  BY <1>1, <1>2, SamePointers
<1>4. heap' = heap /\ history' = history
  BY DEF align
<1> QED BY <1>1, <1>2, <1>3, <1>4 DEF HeapKept, Owned, Lines, Alone

LEMMA StoreStarts == StoreInit => HeapKept
BY EmptyLine DEF StoreInit, HeapKept, Owned, Lines, Alone

\* Only shift_pixmaps breaks it, and nothing is followed after that.
LEMMA StoreSteps ==
  ASSUME shifted \in BOOLEAN, shifted \/ HeapKept, StoreNext
  PROVE  shifted' \in BOOLEAN /\ (shifted' \/ HeapKept')
<1>1. ~shifted
  BY DEF StoreNext, copy_cell, put_char, erase, align, scroll_out, shift_pixmaps, Intact
<1>2. HeapKept
  BY <1>1
<1>3. ASSUME NEW x \in StoreColumns, copy_cell(x) PROVE shifted' = shifted /\ HeapKept'
  BY <1>2, <1>3, KeptByCopy DEF copy_cell
<1>4. ASSUME NEW xs \in SUBSET StoreColumns, xs # {}, NEW m \in BOOLEAN, put_char(xs, m)
      PROVE shifted' = shifted /\ HeapKept'
  BY <1>2, <1>4, KeptByChar DEF put_char
<1>5. ASSUME NEW xs \in SUBSET StoreColumns, erase(xs) PROVE shifted' = shifted /\ HeapKept'
  BY <1>2, <1>5, RowFreed DEF erase, HeapKept
<1>6. ASSUME NEW n, NEW x, shift_pixmaps(n, x) PROVE shifted'
  BY <1>6 DEF shift_pixmaps
<1>7. align => shifted' = shifted /\ HeapKept'
  BY <1>2, KeptByAlign DEF align
<1>8. scroll_out => shifted' = shifted /\ HeapKept'
  BY <1>2, KeptByScroll DEF scroll_out
<1>9. CASE \E x \in StoreColumns :
             \/ copy_cell(x)
             \/ \E m \in BOOLEAN : put_char({x}, m)
             \/ erase({y \in StoreColumns : y >= x})
             \/ \E n \in {1, -1} : x < StoreW - 1 /\ shift_pixmaps(n, x)
  BY <1>3, <1>4, <1>5, <1>6, <1>9
<1>10. CASE \E x \in StoreColumns \ {StoreW - 1}, m \in BOOLEAN : put_char({x, x + 1}, m)
  <2>1. PICK x \in StoreColumns \ {StoreW - 1}, m \in BOOLEAN : put_char({x, x + 1}, m)
    BY <1>10
  <2>2. {x, x + 1} \in SUBSET StoreColumns
    BY StoreAssumption DEF StoreColumns
  <2> QED BY <1>4, <2>1, <2>2
<1> QED BY <1>7, <1>8, <1>9, <1>10 DEF StoreNext

-----------------------------------------------------------------------------
(* The table of direct colours                                             *)

Table == [table : [Entries -> Rgb], count : 0 .. NR_DIRECT_COLORS, round : Nat,
          found : Entries]

\* A colour given an index in this round of the table has its entry.
Backed(d, colour) ==
  colour.direct =>
    /\ colour.index \in Entries /\ colour.round <= d.round
    /\ colour.round = d.round =>
         colour.index < d.count /\ d.table[colour.index] \in colour.asked

\* The entries of the default colours, in whatever round.
Reserved(d) ==
  \A colour \in {default_char_attr.fg, default_char_attr.bg} :
    colour.direct => colour.index < d.count /\ d.table[colour.index] \in colour.asked

\* From table d to table e no colour loses its entry but by a new round.
Grows(d, e) == \A colour \in Colours : Backed(d, colour) => Backed(e, colour)

LEMMA OneOf ==
  ASSUME NEW S, S # {} PROVE One(S) \in S
BY DEF One

LEMMA AppendedIs ==
  ASSUME NEW d \in Table, d.count < NR_DIRECT_COLORS, NEW rgb \in Rgb
  PROVE  LET e == Appended(d, rgb)
         IN  /\ e \in Table /\ e.round = d.round /\ e.count = d.count + 1
             /\ e.found = d.count /\ e.table[d.count] = rgb
             /\ \A i \in 0 .. d.count - 1 : e.table[i] = d.table[i]
<1> DEFINE t == [d.table EXCEPT ![d.count] = rgb]
           e == Appended(d, rgb)
<1>1. d.count \in Entries /\ d.count \in Nat
  BY AttrAssumption DEF Table, Entries
<1>2. t \in [Entries -> Rgb] /\ t[d.count] = rgb
      /\ \A i \in 0 .. d.count - 1 : t[i] = d.table[i]
  BY <1>1, AttrAssumption DEF Table, Entries
<1> DEFINE a == [d EXCEPT !.table[d.count] = rgb]
           b == [a EXCEPT !.count = @ + 1]
           c == [b EXCEPT !.found = d.count]
<1>a. a = [table |-> t, count |-> d.count, round |-> d.round, found |-> d.found]
  BY DEF Table
<1> HIDE DEF a, t
<1>b. b = [table |-> t, count |-> d.count + 1, round |-> d.round, found |-> d.found]
  BY <1>a
<1> HIDE DEF b
<1>c. c = [table |-> t, count |-> d.count + 1, round |-> d.round, found |-> d.count]
  BY <1>b
<1>d. e = c
  BY DEF Appended, a, b
<1>3. e = [table |-> t, count |-> d.count + 1, round |-> d.round, found |-> d.count]
  BY <1>c, <1>d
<1>4. d.count + 1 \in 0 .. NR_DIRECT_COLORS /\ d.round \in Nat
  BY <1>1, AttrAssumption DEF Table, Entries
<1>5. e \in Table
  BY <1>1, <1>2, <1>3, <1>4 DEF Table
<1> HIDE DEF e
<1> QED BY <1>2, <1>3, <1>5 DEF e

LEMMA StartOverIs ==
  ASSUME NEW d \in Table
  PROVE  LET e == StartOver(d)
         IN  /\ e \in Table /\ e.round = d.round + 1 /\ e.count <= 2
             /\ DefaultFg # {} => e.count > 0 /\ e.table[0] = One(DefaultFg)
             /\ DefaultBg # {} /\ DefaultFg = {} => e.count > 0 /\ e.table[0] = One(DefaultBg)
             /\ DefaultBg # {} /\ DefaultFg # {} => e.count = 2 /\ e.table[1] = One(DefaultBg)
<1> DEFINE empty == [d EXCEPT !.count = 0, !.round = @ + 1]
           withFg == IF DefaultFg = {} THEN empty ELSE Appended(empty, One(DefaultFg))
           e == IF DefaultBg = {} THEN withFg ELSE Appended(withFg, One(DefaultBg))
<1>0. NR_DIRECT_COLORS \in 3 .. 256
  BY AttrAssumption
<1>1. empty \in Table /\ empty.count = 0 /\ empty.round = d.round + 1
  <2> DEFINE a == [d EXCEPT !.count = 0]
  <2>a. a = [table |-> d.table, count |-> 0, round |-> d.round, found |-> d.found]
    BY DEF Table
  <2>b. empty = [a EXCEPT !.round = @ + 1]
    OBVIOUS
  <2> HIDE DEF a, empty
  <2>1. empty = [table |-> d.table, count |-> 0, round |-> d.round + 1, found |-> d.found]
    BY <2>a, <2>b
  <2>2. d.round + 1 \in Nat
    BY DEF Table
  <2> QED BY <2>1, <2>2, <1>0 DEF Table
<1>2. DefaultFg # {} => One(DefaultFg) \in Rgb
  BY OneOf, AttrAssumption
<1>3. DefaultBg # {} => One(DefaultBg) \in Rgb
  BY OneOf, AttrAssumption
<1> HIDE DEF empty
<1>4. /\ withFg \in Table /\ withFg.round = d.round + 1
      /\ DefaultFg = {} => withFg.count = 0
      /\ DefaultFg # {} => withFg.count = 1 /\ withFg.table[0] = One(DefaultFg)
  <2>1. CASE DefaultFg = {}
    BY <1>1, <2>1
  <2>2. CASE DefaultFg # {}
    <3>1. empty.count < NR_DIRECT_COLORS
      BY <1>0, <1>1
    <3>2. /\ Appended(empty, One(DefaultFg)) \in Table
          /\ Appended(empty, One(DefaultFg)).round = empty.round
          /\ Appended(empty, One(DefaultFg)).count = empty.count + 1
          /\ Appended(empty, One(DefaultFg)).table[empty.count] = One(DefaultFg)
      BY <1>1, <1>2, <2>2, <3>1, AppendedIs
    <3> QED BY <1>1, <2>2, <3>2
  <2> QED BY <2>1, <2>2
<1> HIDE DEF withFg
<1>5. /\ e \in Table /\ e.round = d.round + 1
      /\ DefaultBg = {} => e = withFg
      /\ DefaultBg # {} => /\ e.count = withFg.count + 1
                           /\ e.table[withFg.count] = One(DefaultBg)
                           /\ \A i \in 0 .. withFg.count - 1 : e.table[i] = withFg.table[i]
  <2>1. CASE DefaultBg = {}
    BY <1>4, <2>1
  <2>2. CASE DefaultBg # {}
    <3>1. withFg.count < NR_DIRECT_COLORS
      BY <1>0, <1>4
    <3>2. /\ Appended(withFg, One(DefaultBg)) \in Table
          /\ Appended(withFg, One(DefaultBg)).round = withFg.round
          /\ Appended(withFg, One(DefaultBg)).count = withFg.count + 1
          /\ Appended(withFg, One(DefaultBg)).table[withFg.count] = One(DefaultBg)
          /\ \A i \in 0 .. withFg.count - 1 :
               Appended(withFg, One(DefaultBg)).table[i] = withFg.table[i]
      BY <1>3, <1>4, <2>2, <3>1, AppendedIs
    <3> QED BY <1>4, <2>2, <3>2
  <2> QED BY <2>1, <2>2
<1>6. StartOver(d) = e
  BY DEF StartOver, withFg, empty
<1> HIDE DEF e
<1>7. /\ e.count <= 2
      /\ DefaultFg # {} => e.count > 0 /\ e.table[0] = One(DefaultFg)
      /\ DefaultBg # {} /\ DefaultFg = {} => e.count > 0 /\ e.table[0] = One(DefaultBg)
      /\ DefaultBg # {} /\ DefaultFg # {} => e.count = 2 /\ e.table[1] = One(DefaultBg)
  <2>1. CASE DefaultFg = {}
    BY <1>4, <1>5, <2>1
  <2>2. CASE DefaultFg # {}
    <3>1. withFg.count = 1 /\ withFg.table[0] = One(DefaultFg)
      BY <1>4, <2>2
    <3>2. 0 \in 0 .. withFg.count - 1
      BY <3>1
    <3> QED BY <1>5, <2>2, <3>1, <3>2
  <2> QED BY <2>1, <2>2
<1> QED BY <1>5, <1>6, <1>7

\* The constructor's table, and the colours it makes the default ones.
LEMMA DefaultsAre ==
  LET d == init_default_color.direct
      fg == default_char_attr.fg
      bg == default_char_attr.bg
  IN  /\ d \in Table /\ d.round = 0
      /\ fg \in Colours /\ bg \in Colours
      /\ fg.direct => /\ DefaultFg # {} /\ fg.asked = {One(DefaultFg)}
                      /\ fg.index = 0 /\ fg.round = 0
                      /\ 0 < d.count /\ d.table[0] = One(DefaultFg)
      /\ bg.direct => /\ DefaultBg # {} /\ bg.asked = {One(DefaultBg)} /\ bg.round = 0
                      /\ bg.index < d.count /\ d.table[bg.index] = One(DefaultBg)
                      /\ \/ DefaultFg = {} /\ bg.index = 0
                         \/ /\ DefaultFg # {}
                            /\ \/ bg.index = 1
                               \/ bg.index = 0 /\ One(DefaultFg) = One(DefaultBg)
<1> DEFINE d1 == IF DefaultFg = {} THEN NoColours
                 ELSE allocDirectColor(NoColours, One(DefaultFg))
           d2 == IF DefaultBg = {} THEN d1 ELSE allocDirectColor(d1, One(DefaultBg))
           fg == IF DefaultFg = {} THEN Palette(7) ELSE Direct(d1, One(DefaultFg))
           bg == IF DefaultBg = {} THEN Palette(0) ELSE Direct(d2, One(DefaultBg))
<1>1. /\ init_default_color.direct = d2
      /\ default_char_attr.fg = fg /\ default_char_attr.bg = bg
  BY DEF init_default_color, default_char_attr
<1>2. DefaultFg # {} => One(DefaultFg) \in Rgb
  BY OneOf, AttrAssumption
<1>3. DefaultBg # {} => One(DefaultBg) \in Rgb
  BY OneOf, AttrAssumption
<1>0. NR_DIRECT_COLORS \in 3 .. 256
  BY AttrAssumption
<1>4. NoColours \in Table /\ NoColours.count = 0 /\ NoColours.round = 0
  BY AttrAssumption DEF NoColours, Table, Entries
<1>5. /\ d1 \in Table /\ d1.round = 0
      /\ DefaultFg = {} => d1.count = 0
      /\ DefaultFg # {} => d1.count = 1 /\ d1.table[0] = One(DefaultFg) /\ d1.found = 0
  <2>1. CASE DefaultFg = {}
    BY <1>4, <2>1
  <2>2. CASE DefaultFg # {}
    <3> DEFINE e == Appended(NoColours, One(DefaultFg))
    <3>1. allocDirectColor(NoColours, One(DefaultFg)) = e
      BY <1>0, <1>4 DEF allocDirectColor, Holding
    <3>2. NoColours.count < NR_DIRECT_COLORS
      BY <1>0, <1>4
    <3>3. /\ e \in Table /\ e.round = NoColours.round /\ e.count = NoColours.count + 1
          /\ e.found = NoColours.count /\ e.table[NoColours.count] = One(DefaultFg)
      BY <1>2, <1>4, <2>2, <3>2, AppendedIs
    <3> QED BY <1>4, <2>2, <3>1, <3>3
  <2> QED BY <2>1, <2>2
<1> HIDE DEF d1
<1>6. /\ d2 \in Table /\ d2.round = 0
      /\ DefaultBg = {} => d2 = d1
      /\ DefaultBg # {} =>
           /\ d2.count >= d1.count
           /\ \A i \in 0 .. d1.count - 1 : d2.table[i] = d1.table[i]
           /\ d2.found < d2.count /\ d2.table[d2.found] = One(DefaultBg)
           /\ d2.found <= d1.count
  <2>1. CASE DefaultBg = {}
    BY <1>5, <2>1
  <2>2. CASE DefaultBg # {} /\ Holding(d1, One(DefaultBg)) = {}
    <3> DEFINE e == Appended(d1, One(DefaultBg))
    <3>1. d1.count < NR_DIRECT_COLORS
      BY <1>0, <1>5
    <3>2. allocDirectColor(d1, One(DefaultBg)) = e
      BY <2>2, <3>1 DEF allocDirectColor
    <3>3. /\ e \in Table /\ e.round = d1.round /\ e.count = d1.count + 1
          /\ e.found = d1.count /\ e.table[d1.count] = One(DefaultBg)
          /\ \A i \in 0 .. d1.count - 1 : e.table[i] = d1.table[i]
      BY <1>3, <1>5, <2>2, <3>1, AppendedIs
    <3>4. d1.count \in Nat
      BY <1>5
    <3> HIDE DEF e
    <3>5. d2 = e
      BY <2>2, <3>2
    <3> HIDE DEF d2
    <3> QED BY <1>5, <2>2, <3>3, <3>4, <3>5
  <2>3. CASE DefaultBg # {} /\ Holding(d1, One(DefaultBg)) # {}
    <3> DEFINE H == Holding(d1, One(DefaultBg))
               i0 == CHOOSE i \in H : \A j \in H : i <= j
    <3>1. d2 = [d1 EXCEPT !.found = i0]
      BY <2>3 DEF allocDirectColor
    <3>2. i0 \in H
      <4>1. H \subseteq Nat
        BY <1>5 DEF Holding
      <4>2. \E i \in H : \A j \in H : i <= j
        BY <2>3, <4>1, NatMin
      <4> QED BY <4>2
    <3> HIDE DEF i0
    <3>3. i0 \in 0 .. d1.count - 1 /\ d1.table[i0] = One(DefaultBg)
      BY <3>2 DEF Holding
    <3>4. d2 = [table |-> d1.table, count |-> d1.count, round |-> d1.round, found |-> i0]
      BY <1>5, <3>1 DEF Table
    <3>5. d1.count \in Nat /\ d1.count <= 1 /\ i0 \in Entries
      BY <1>0, <1>5, <3>3 DEF Entries
    <3> HIDE DEF d2
    <3> QED BY <1>5, <2>3, <3>3, <3>4, <3>5 DEF Table
  <2> QED BY <2>1, <2>2, <2>3
<1> HIDE DEF d2
<1>7. fg \in Colours /\ (fg.direct => DefaultFg # {})
  <2>1. Palette(7) \in Colours /\ Palette(7).direct = FALSE
    BY DEF Palette, Colours
  <2>2. DefaultFg # {} => Direct(d1, One(DefaultFg)) \in Colours
    BY <1>2, <1>5 DEF Direct, Colours
  <2> QED BY <2>1, <2>2
<1>8. bg \in Colours /\ (bg.direct => DefaultBg # {})
  <2>1. Palette(0) \in Colours /\ Palette(0).direct = FALSE
    BY DEF Palette, Colours
  <2>2. DefaultBg # {} => Direct(d2, One(DefaultBg)) \in Colours
    <3>1. d2.found \in Entries /\ d2.round \in Nat
      BY <1>6 DEF Table
    <3>2. DefaultBg # {} => One(DefaultBg) \in Rgb
      BY <1>3
    <3>3. d2.found \in 0 .. 255
      BY <1>0, <3>1 DEF Entries
    <3> QED BY <3>1, <3>2, <3>3 DEF Direct, Colours
  <2> QED BY <2>1, <2>2
<1>9. DefaultFg # {} => /\ fg.asked = {One(DefaultFg)} /\ fg.index = 0 /\ fg.round = 0
                        /\ 0 < d2.count /\ d2.table[0] = One(DefaultFg)
  <2> SUFFICES ASSUME DefaultFg # {} PROVE /\ fg.asked = {One(DefaultFg)} /\ fg.index = 0 /\ fg.round = 0
                        /\ 0 < d2.count /\ d2.table[0] = One(DefaultFg)
    OBVIOUS
  <2>1. fg.asked = {One(DefaultFg)} /\ fg.index = 0 /\ fg.round = 0
    BY <1>5 DEF Direct
  <2>2. d1.count = 1 /\ 0 \in 0 .. d1.count - 1 /\ d1.table[0] = One(DefaultFg)
    BY <1>5
  <2>3. d2.count \in Nat
    BY <1>6 DEF Table
  <2> HIDE DEF fg
  <2> QED BY <1>6, <2>1, <2>2, <2>3
<1>10. DefaultBg # {} => /\ bg.asked = {One(DefaultBg)} /\ bg.round = 0
                         /\ bg.index = d2.found
                         /\ d2.found < d2.count /\ d2.table[d2.found] = One(DefaultBg)
  BY <1>6 DEF Direct
<1>11. DefaultBg # {} =>
         \/ DefaultFg = {} /\ d2.found = 0
         \/ /\ DefaultFg # {}
            /\ \/ d2.found = 1
               \/ d2.found = 0 /\ One(DefaultFg) = One(DefaultBg)
  <2> SUFFICES ASSUME DefaultBg # {} PROVE 
         \/ DefaultFg = {} /\ d2.found = 0
         \/ /\ DefaultFg # {}
            /\ \/ d2.found = 1
               \/ d2.found = 0 /\ One(DefaultFg) = One(DefaultBg)
    OBVIOUS
  <2>1. d2.found \in Nat /\ d2.found <= d1.count
    BY <1>6 DEF Table, Entries
  <2>2. CASE DefaultFg = {}
    BY <1>5, <2>1, <2>2
  <2>3. CASE DefaultFg # {}
    BY <1>5, <1>6, <1>9, <2>1, <2>3
  <2> QED BY <2>2, <2>3
<1> HIDE DEF fg, bg
<1> QED BY <1>1, <1>6, <1>7, <1>8, <1>9, <1>10, <1>11

LEMMA ColoursAre ==
  ASSUME NEW c \in Colours
  PROVE  /\ c.index \in 0 .. 255 /\ c.direct \in BOOLEAN /\ c.asked \in SUBSET Rgb /\ c.round \in Nat
         /\ c = [index |-> c.index, direct |-> c.direct, asked |-> c.asked, round |-> c.round]
BY DEF Colours

\* allocDirectColor: the new colour gets an entry of its own, and no colour
\* of this round loses its own.
LEMMA Allocated ==
  ASSUME NEW d \in Table, Reserved(d), NEW rgb \in Rgb
  PROVE  LET e == allocDirectColor(d, rgb)
         IN  /\ e \in Table /\ Reserved(e) /\ Grows(d, e)
             /\ Direct(e, rgb) \in Colours /\ Backed(e, Direct(e, rgb))
<1> DEFINE e == allocDirectColor(d, rgb)
           fg == default_char_attr.fg
           bg == default_char_attr.bg
<1>0. NR_DIRECT_COLORS \in 3 .. 256
  BY AttrAssumption
<1>d. /\ fg.direct => /\ DefaultFg # {} /\ fg.asked = {One(DefaultFg)} /\ fg.index = 0
      /\ bg.direct => /\ DefaultBg # {} /\ bg.asked = {One(DefaultBg)}
                      /\ \/ DefaultFg = {} /\ bg.index = 0
                         \/ /\ DefaultFg # {}
                            /\ \/ bg.index = 1
                               \/ bg.index = 0 /\ One(DefaultFg) = One(DefaultBg)
      /\ fg \in Colours /\ bg \in Colours
  BY DefaultsAre
<1>s. \A x : Reserved(x) <=>
             /\ fg.direct => fg.index < x.count /\ x.table[fg.index] \in fg.asked
             /\ bg.direct => bg.index < x.count /\ x.table[bg.index] \in bg.asked
  BY DEF Reserved
<1>t. d.count \in 0 .. NR_DIRECT_COLORS /\ d.round \in Nat /\ d.found \in Entries
  BY DEF Table
<1>c. fg.index \in Nat /\ bg.index \in Nat
  BY <1>d DEF Colours
<1> HIDE DEF fg, bg
<1>1. ASSUME NEW x \in Table, x.found < x.count, x.table[x.found] = rgb
      PROVE  Direct(x, rgb) \in Colours /\ Backed(x, Direct(x, rgb))
  <2>1. x.found \in Entries /\ x.round \in Nat
    BY DEF Table
  <2>2. Direct(x, rgb) = [index |-> x.found, direct |-> TRUE, asked |-> {rgb}, round |-> x.round]
    BY DEF Direct
  <2>3. x.found \in 0 .. 255
    BY <1>0, <2>1 DEF Entries
  <2> QED BY <1>1, <2>1, <2>2, <2>3 DEF Colours, Backed
\* A table that keeps its entries and its round keeps every colour.
<1>2. ASSUME NEW x \in Table, NEW y \in Table, x.round = y.round, x.count <= y.count,
             \A i \in 0 .. x.count - 1 : y.table[i] = x.table[i], Reserved(x)
      PROVE  Grows(x, y) /\ Reserved(y)
  <2>1. x.count \in Nat /\ y.count \in Nat
    BY DEF Table
  <2>2. ASSUME NEW c \in Colours, Backed(x, c) PROVE Backed(y, c)
    <3>1. c.index \in Nat
      BY DEF Colours
    <3> QED BY <1>2, <2>1, <2>2, <3>1 DEF Backed
  <2>3. Reserved(y)
    BY <1>2, <1>s, <1>c, <2>1
  <2> QED BY <2>2, <2>3 DEF Grows
<1>3. CASE Holding(d, rgb) # {}
  <2> DEFINE H == Holding(d, rgb)
             i0 == CHOOSE i \in H : \A j \in H : i <= j
  <2>1. e = [d EXCEPT !.found = i0]
    BY <1>3 DEF allocDirectColor
  <2>2. i0 \in H
    <3>1. H \subseteq Nat
      BY <1>t DEF Holding
    <3>2. \E i \in H : \A j \in H : i <= j
      BY <1>3, <3>1, NatMin
    <3> QED BY <3>2
  <2> HIDE DEF i0
  <2>3. i0 \in 0 .. d.count - 1 /\ d.table[i0] = rgb
    BY <2>2 DEF Holding
  <2>4. e = [table |-> d.table, count |-> d.count, round |-> d.round, found |-> i0]
    BY <2>1 DEF Table
  <2>5. i0 \in Entries /\ i0 < d.count
    BY <1>0, <1>t, <2>3 DEF Entries
  <2> HIDE DEF e
  <2>6. e \in Table /\ e.round = d.round /\ e.count = d.count /\ e.table = d.table /\ e.found = i0
    BY <2>4, <2>5 DEF Table
  <2>7. Grows(d, e) /\ Reserved(e)
    BY <1>2, <1>t, <2>6
  <2>8. Direct(e, rgb) \in Colours /\ Backed(e, Direct(e, rgb))
    BY <1>1, <2>3, <2>5, <2>6
  <2> QED BY <2>6, <2>7, <2>8 DEF e
<1>4. CASE Holding(d, rgb) = {} /\ d.count < NR_DIRECT_COLORS
  <2>1. e = Appended(d, rgb)
    BY <1>4 DEF allocDirectColor
  <2>2. /\ e \in Table /\ e.round = d.round /\ e.count = d.count + 1
        /\ e.found = d.count /\ e.table[d.count] = rgb
        /\ \A i \in 0 .. d.count - 1 : e.table[i] = d.table[i]
    BY <1>4, <2>1, AppendedIs
  <2> HIDE DEF e
  <2>3. Grows(d, e) /\ Reserved(e)
    BY <1>2, <1>t, <2>2
  <2>4. Direct(e, rgb) \in Colours /\ Backed(e, Direct(e, rgb))
    BY <1>1, <1>t, <2>2
  <2> QED BY <2>2, <2>3, <2>4 DEF e
<1>5. CASE Holding(d, rgb) = {} /\ ~(d.count < NR_DIRECT_COLORS)
  <2> DEFINE o == StartOver(d)
  <2>1. e = Appended(o, rgb)
    BY <1>5 DEF allocDirectColor
  <2>2. /\ o \in Table /\ o.round = d.round + 1 /\ o.count <= 2
        /\ DefaultFg # {} => o.count > 0 /\ o.table[0] = One(DefaultFg)
        /\ DefaultBg # {} /\ DefaultFg = {} => o.count > 0 /\ o.table[0] = One(DefaultBg)
        /\ DefaultBg # {} /\ DefaultFg # {} => o.count = 2 /\ o.table[1] = One(DefaultBg)
    BY StartOverIs
  <2> HIDE DEF o
  <2>3. o.count \in Nat /\ o.count < NR_DIRECT_COLORS
    BY <1>0, <2>2 DEF Table
  <2>4. /\ e \in Table /\ e.round = o.round /\ e.count = o.count + 1
        /\ e.found = o.count /\ e.table[o.count] = rgb
        /\ \A i \in 0 .. o.count - 1 : e.table[i] = o.table[i]
    BY <2>1, <2>2, <2>3, AppendedIs
  <2> HIDE DEF e
  <2>5. Reserved(o)
    <3>1. fg.direct => fg.index < o.count /\ o.table[fg.index] \in fg.asked
      BY <1>d, <2>2, <2>3
    <3>2. bg.direct => bg.index < o.count /\ o.table[bg.index] \in bg.asked
      <4>1. CASE DefaultFg = {}
        BY <1>d, <2>2, <2>3, <4>1
      <4>2. CASE DefaultFg # {}
        BY <1>d, <2>2, <2>3, <4>2
      <4> QED BY <4>1, <4>2
    <3> QED BY <3>1, <3>2, <1>s
  <2>6. Reserved(e)
    BY <1>2, <2>2, <2>3, <2>4, <2>5
  <2>7. Grows(d, e)
    <3> SUFFICES ASSUME NEW c \in Colours, Backed(d, c) PROVE Backed(e, c)
      BY DEF Grows
    <3>1. c.direct => c.index \in Entries /\ c.round <= d.round
      BY DEF Backed
    <3>2. e.round = d.round + 1 /\ c.round \in Nat
      BY <2>2, <2>4 DEF Colours
    <3> QED BY <1>t, <3>1, <3>2 DEF Backed
  <2>8. Direct(e, rgb) \in Colours /\ Backed(e, Direct(e, rgb))
    BY <1>1, <2>3, <2>4
  <2> QED BY <2>4, <2>6, <2>7, <2>8 DEF e
<1> QED BY <1>3, <1>4, <1>5

-----------------------------------------------------------------------------
(* The items of a sequence                                                 *)

\* An item has its parameters, and one with a 24 bit colour a known one.
Items ==
  {it \in Seq(Nat) : /\ Len(it) \in {1, 3, 5}
                     /\ Len(it) = 5 => <<u8(it[3]), u8(it[4]), u8(it[5])>> \in Rgb}

\* The recursive function of SgrItems, from index k on.
AreItems(f, p, npar, k) ==
  f = [n \in k .. npar + 5 |->
         IF n > npar THEN << >>
         ELSE << [i \in 1 .. SgrLength(p, npar, n) |-> p[n + i - 1]] >>
                \o f[n + SgrLength(p, npar, n)]]

LEMMA ItemLengths ==
  ASSUME NEW p, NEW npar \in Int, NEW n \in Nat, n <= npar
  PROVE  /\ SgrLength(p, npar, n) \in {1, 3, 5}
         /\ n + SgrLength(p, npar, n) <= npar + 1
         /\ SgrLength(p, npar, n) = 5 => p[n + 1] = 2
BY DEF SgrLength

LEMMA ItemsExist ==
  ASSUME NEW p, NEW npar \in Int, npar >= -1
  PROVE  \E f : AreItems(f, p, npar, 0)
<1> DEFINE Bad == {j \in Nat : j <= npar + 5 /\ ~ \E f : AreItems(f, p, npar, npar + 5 - j)}
           L(n) == SgrLength(p, npar, n)
<1>1. SUFFICES Bad = {}
  <2>1. npar + 5 \in Nat /\ npar + 5 - (npar + 5) = 0
    OBVIOUS
  <2>2. npar + 5 \notin Bad
    BY <1>1
  <2> QED BY <2>1, <2>2
<1> SUFFICES ASSUME Bad # {} PROVE FALSE
  OBVIOUS
<1>2. PICK m \in Bad : \A j \in Bad : m <= j
  BY NatMin
<1>3. m \in Nat /\ m <= npar + 5 /\ ~ \E f : AreItems(f, p, npar, npar + 5 - m)
  OBVIOUS
<1> DEFINE k == npar + 5 - m
<1>4. k \in Nat /\ k <= npar + 5
  BY <1>3
<1>5. CASE m = 0
  <2> DEFINE f == [n \in k .. npar + 5 |-> << >>]
  <2>1. AreItems(f, p, npar, k)
    <3>1. \A n \in k .. npar + 5 : n > npar
      BY <1>5
    <3> QED BY <3>1 DEF AreItems
  <2> QED BY <1>3, <2>1
<1>6. CASE m # 0
  <2>1. m - 1 \in Nat /\ m - 1 <= npar + 5 /\ m - 1 \notin Bad
    BY <1>2, <1>3, <1>6
  <2>2. npar + 5 - (m - 1) = k + 1
    BY <1>3
  <2>3. PICK g : AreItems(g, p, npar, k + 1)
    BY <2>1, <2>2
  <2> DEFINE f == [n \in k .. npar + 5 |->
                     IF n > npar THEN << >>
                     ELSE << [i \in 1 .. L(n) |-> p[n + i - 1]] >> \o g[n + L(n)]]
  <2> HIDE DEF k
  <2> DEFINE it(n) == [i \in 1 .. L(n) |-> p[n + i - 1]]
  <2>a. \A n \in k .. npar + 5 :
          f[n] = IF n > npar THEN << >> ELSE <<it(n)>> \o g[n + L(n)]
    BY Zenon
  <2>b. g = [n \in k + 1 .. npar + 5 |->
               IF n > npar THEN << >> ELSE <<it(n)>> \o g[n + L(n)]]
    BY <2>3, Zenon DEF AreItems
  <2>c. \A n \in k + 1 .. npar + 5 :
          g[n] = IF n > npar THEN << >> ELSE <<it(n)>> \o g[n + L(n)]
    BY <2>b, Zenon
  <2>d. \A n \in k + 1 .. npar + 5 : n \in k .. npar + 5
    BY <1>4
  <2>4. \A n \in k + 1 .. npar + 5 : f[n] = g[n]
    BY <2>a, <2>c, <2>d, Zenon
  <2>5. \A n \in k .. npar + 5 : n <= npar => n + L(n) \in k + 1 .. npar + 5
    <3> SUFFICES ASSUME NEW n \in k .. npar + 5, n <= npar PROVE n + L(n) \in k + 1 .. npar + 5
      OBVIOUS
    <3>1. L(n) \in {1, 3, 5} /\ n + L(n) <= npar + 1
      BY <1>4, ItemLengths
    <3> HIDE DEF L
    <3> QED BY <1>4, <3>1
  <2> HIDE DEF L
  <2>6. f = [n \in k .. npar + 5 |->
               IF n > npar THEN << >>
               ELSE << [i \in 1 .. L(n) |-> p[n + i - 1]] >> \o f[n + L(n)]]
    <3>1. \A n \in k .. npar + 5 : n <= npar => f[n + L(n)] = g[n + L(n)]
      BY <2>4, <2>5
    <3>2. \A n \in k .. npar + 5 : n \in Int
      BY <1>4
    <3>a. \A n \in k .. npar + 5 : n > npar \/ n <= npar
      BY <1>4
    <3>3. \A n \in k .. npar + 5 :
            f[n] = IF n > npar THEN << >> ELSE <<it(n)>> \o f[n + L(n)]
      <4> HIDE DEF f, it
      <4> SUFFICES ASSUME NEW n \in k .. npar + 5
                   PROVE  f[n] = IF n > npar THEN << >> ELSE <<it(n)>> \o f[n + L(n)]
        BY Zenon
      <4>1. CASE n > npar
        BY <2>a, <4>1, Zenon
      <4>2. CASE n <= npar
        <5>1. f[n + L(n)] = g[n + L(n)]
          BY <3>1, <4>2, Zenon
        <5> QED BY <2>a, <5>1, Zenon
      <4> QED BY <3>a, <4>1, <4>2, Zenon
    <3> HIDE DEF f
    <3>4. f = [n \in k .. npar + 5 |-> f[n]]
      BY DEF f
    <3> QED BY <3>3, <3>4, Zenon
  <2>7. AreItems(f, p, npar, k)
    BY <2>6 DEF AreItems, L
  <2> QED BY <1>3, <2>7 DEF k
<1> QED BY <1>5, <1>6

LEMMA ItemsAre ==
  ASSUME NEW s \in SgrSequences
  PROVE  SgrItems([i \in 0 .. Len(s) - 1 |-> s[i + 1]], Len(s) - 1) \in Seq(Items)
<1> DEFINE p == [i \in 0 .. Len(s) - 1 |-> s[i + 1]]
           npar == Len(s) - 1
           L(n) == SgrLength(p, npar, n)
           from == CHOOSE f : f = [n \in 0 .. npar + 5 |->
                     IF n > npar THEN << >>
                     ELSE << [i \in 1 .. SgrLength(p, npar, n) |-> p[n + i - 1]] >>
                            \o f[n + SgrLength(p, npar, n)]]
<1>1. s \in Seq(Nat) /\ Len(s) \in Nat
  BY AttrAssumption
<1>2. npar \in Int /\ npar >= -1
  BY <1>1
<1>3. \A n \in 0 .. npar : p[n] = s[n + 1] /\ p[n] \in Nat
  BY <1>1
<1>4. SgrItems(p, npar) = from[0]
  BY DEF SgrItems
<1>c. \A i \in 1 .. Len(s) - 3 : s[i] = 2 => <<u8(s[i + 1]), u8(s[i + 2]), u8(s[i + 3])>> \in Rgb
  BY AttrAssumption
<1>n. npar + 1 = Len(s)
  BY <1>1
<1> HIDE DEF p, npar
<1>5. AreItems(from, p, npar, 0)
  BY <1>2, ItemsExist DEF AreItems
<1> HIDE DEF from
<1>6. \A n \in 0 .. npar + 5 :
        from[n] = IF n > npar THEN << >>
                  ELSE << [i \in 1 .. L(n) |-> p[n + i - 1]] >> \o from[n + L(n)]
  BY <1>5 DEF AreItems
<1>7. ASSUME NEW n \in Nat, n <= npar
      PROVE  /\ L(n) \in {1, 3, 5} /\ n + L(n) <= npar + 1
             /\ [i \in 1 .. L(n) |-> p[n + i - 1]] \in Items
  <2>1. L(n) \in {1, 3, 5} /\ n + L(n) <= npar + 1 /\ (L(n) = 5 => p[n + 1] = 2)
    BY <1>2, <1>7, ItemLengths
  <2> DEFINE it == [i \in 1 .. L(n) |-> p[n + i - 1]]
  <2> HIDE DEF L
  <2>2. \A i \in 1 .. L(n) : n + i - 1 \in 0 .. npar
    BY <1>2, <2>1
  <2>3. it \in Seq(Nat) /\ Len(it) = L(n)
    <3>1. L(n) \in Nat
      BY <2>1
    <3>2. \A i \in 1 .. L(n) : p[n + i - 1] \in Nat
      BY <1>3, <2>2
    <3>3. it \in [1 .. L(n) -> Nat]
      BY <3>2
    <3> HIDE DEF it
    <3> QED BY <3>1, <3>3
  <2>4. L(n) = 5 => <<u8(it[3]), u8(it[4]), u8(it[5])>> \in Rgb
    <3> SUFFICES ASSUME L(n) = 5 PROVE <<u8(it[3]), u8(it[4]), u8(it[5])>> \in Rgb
      OBVIOUS
    <3>1. /\ n + 1 \in 0 .. npar /\ n + 2 \in 0 .. npar /\ n + 3 \in 0 .. npar
          /\ n + 4 \in 0 .. npar
      BY <1>2, <2>1
    <3>2. it[3] = p[n + 2] /\ it[4] = p[n + 3] /\ it[5] = p[n + 4]
      OBVIOUS
    <3>3. /\ p[n + 1] = s[n + 2] /\ p[n + 2] = s[n + 3] /\ p[n + 3] = s[n + 4]
          /\ p[n + 4] = s[n + 5]
      BY <1>3, <3>1
    <3>4. n + 2 \in 1 .. Len(s) - 3
      BY <1>1, <1>2, <1>n, <3>1
    <3>5. <<u8(s[(n + 2) + 1]), u8(s[(n + 2) + 2]), u8(s[(n + 2) + 3])>> \in Rgb
      BY <1>c, <2>1, <3>3, <3>4
    <3>6. (n + 2) + 1 = n + 3 /\ (n + 2) + 2 = n + 4 /\ (n + 2) + 3 = n + 5
      OBVIOUS
    <3> QED BY <3>2, <3>3, <3>5, <3>6
  <2> HIDE DEF it
  <2>5. it \in Items
    BY <2>1, <2>3, <2>4 DEF Items
  <2> QED BY <2>1, <2>5 DEF it
<1> DEFINE Bad == {j \in Nat : j <= npar + 5 /\ from[npar + 5 - j] \notin Seq(Items)}
<1>8. Bad = {}
  <2> SUFFICES ASSUME Bad # {} PROVE FALSE
    OBVIOUS
  <2>1. PICK m \in Bad : \A j \in Bad : m <= j
    BY NatMin
  <2> DEFINE k == npar + 5 - m
  <2>2. m \in Nat /\ m <= npar + 5 /\ from[k] \notin Seq(Items)
    OBVIOUS
  <2>3. k \in Nat /\ k <= npar + 5 /\ k \in 0 .. npar + 5 /\ m = npar + 5 - k
    BY <1>2, <2>2
  <2> HIDE DEF k
  <2>4. CASE k > npar
    <3>1. from[k] = << >>
      BY <1>6, <2>3, <2>4
    <3> QED BY <2>2, <3>1
  <2>5. CASE ~(k > npar)
    <3> DEFINE it == [i \in 1 .. L(k) |-> p[k + i - 1]]
    <3>1. k <= npar
      BY <1>2, <2>3, <2>5
    <3>2. L(k) \in {1, 3, 5} /\ k + L(k) <= npar + 1 /\ it \in Items
      BY <1>7, <2>3, <3>1
    <3>3. from[k] = <<it>> \o from[k + L(k)]
      BY <1>6, <2>3, <2>5
    <3> HIDE DEF it, L
    <3> DEFINE j == npar + 5 - (k + L(k))
    <3>4. j \in Nat /\ j <= npar + 5 /\ j < m /\ npar + 5 - j = k + L(k)
      BY <1>2, <2>3, <3>2, SMTT(60)
    <3> HIDE DEF j
    <3>5. j \notin Bad
      BY <2>1, <2>2, <3>4
    <3>6. from[k + L(k)] \in Seq(Items)
      BY <3>4, <3>5
    <3>7. <<it>> \in Seq(Items)
      BY <3>2
    <3>8. from[k] \in Seq(Items)
      BY <3>3, <3>6, <3>7
    <3> QED BY <2>2, <3>8
  <2> QED BY <2>4, <2>5
<1>9. npar + 5 \in Nat /\ npar + 5 <= npar + 5 /\ npar + 5 - (npar + 5) = 0
  BY <1>2
<1>10. from[0] \in Seq(Items)
  BY <1>8, <1>9
<1> QED BY <1>4, <1>10 DEF p, npar

-----------------------------------------------------------------------------
(* Attributes                                                              *)

Pens == [attr : CharAttr, saved : CharAttr, cur : [fg : Colours, bg : Colours],
         halfbright : SUBSET (0 .. 7)]

\* An attribute whose direct colours have their entries in table d.
Paints(d, a) == a \in CharAttr /\ Backed(d, a.fg) /\ Backed(d, a.bg)

Pen(d, p) ==
  /\ p \in Pens
  /\ Paints(d, p.attr) /\ Paints(d, p.saved)
  /\ Backed(d, p.cur.fg) /\ Backed(d, p.cur.bg)

\* What requests work on: the table and the pen.
Works(s) ==
  /\ s \in [direct : Table, pen : Pens]
  /\ Reserved(s.direct) /\ Pen(s.direct, s.pen)

LEMMA CharAttrIs ==
  ASSUME NEW a
  PROVE  a \in CharAttr <=>
           /\ a = [fg |-> a.fg, bg |-> a.bg, intensity |-> a.intensity, flags |-> a.flags]
           /\ a.fg \in Colours /\ a.bg \in Colours /\ a.intensity \in 0 .. 2
           /\ a.flags \in SUBSET {"italic", "underline", "blink", "reverse", "strikethrough"}
BY DEF CharAttr

LEMMA GrowsPaints ==
  ASSUME NEW d, NEW e, Grows(d, e), NEW a, Paints(d, a)
  PROVE  Paints(e, a)
BY CharAttrIs DEF Grows, Paints

LEMMA GrowsPen ==
  ASSUME NEW d, NEW e, Grows(d, e), NEW p, Pen(d, p)
  PROVE  Pen(e, p)
<1>1. p.cur.fg \in Colours /\ p.cur.bg \in Colours
  BY DEF Pen, Pens
<1> QED BY <1>1, GrowsPaints DEF Pen, Grows

LEMMA GrowsItself == ASSUME NEW d PROVE Grows(d, d)
BY DEF Grows

LEMMA PaletteIsBacked ==
  ASSUME NEW d, NEW i \in 0 .. 255 PROVE Palette(i) \in Colours /\ Backed(d, Palette(i))
BY DEF Palette, Colours, Backed

LEMMA DefaultsPaint ==
  ASSUME NEW d \in Table, Reserved(d) PROVE Paints(d, default_char_attr)
<1> DEFINE fg == default_char_attr.fg
           bg == default_char_attr.bg
           none == {}
<1>1. fg \in Colours /\ bg \in Colours /\ (fg.direct => fg.round = 0) /\ (bg.direct => bg.round = 0)
  BY DefaultsAre
<1>2. /\ fg.direct => fg.index < d.count /\ d.table[fg.index] \in fg.asked
      /\ bg.direct => bg.index < d.count /\ d.table[bg.index] \in bg.asked
  BY DEF Reserved
<1>3. default_char_attr = [fg |-> fg, bg |-> bg, intensity |-> 1, flags |-> {}]
  BY DEF default_char_attr
<1> HIDE DEF fg, bg
<1>4. default_char_attr \in CharAttr
  BY <1>1, <1>3 DEF CharAttr
<1>5. default_char_attr.fg = fg /\ default_char_attr.bg = bg
  BY DEF fg, bg
<1>6. d.count <= NR_DIRECT_COLORS /\ d.count \in Nat /\ d.round \in Nat
  BY AttrAssumption DEF Table
<1>7. Backed(d, fg) /\ Backed(d, bg)
  <2>1. NR_DIRECT_COLORS \in Int
    BY AttrAssumption
  <2>2. ASSUME NEW c \in Colours, c.direct => c.round = 0,
               c.direct => c.index < d.count /\ d.table[c.index] \in c.asked
        PROVE  Backed(d, c)
    <3>1. c.index \in Nat
      BY DEF Colours
    <3>2. c.direct => c.index \in Entries /\ c.round <= d.round
      BY <1>6, <2>1, <2>2, <3>1 DEF Entries
    <3> QED BY <2>2, <3>2 DEF Backed
  <2> QED BY <1>1, <1>2, <2>2
<1> QED BY <1>4, <1>5, <1>7 DEF Paints

\* The pen takes another attribute.
LEMMA NewAttr ==
  ASSUME NEW s, Works(s), NEW a, Paints(s.direct, a)
  PROVE  LET t == [s EXCEPT !.pen.attr = a] IN Works(t) /\ t.direct = s.direct
<1> DEFINE p == [s.pen EXCEPT !.attr = a]
           t == [s EXCEPT !.pen.attr = a]
<1>1. s.direct \in Table /\ s.pen \in Pens /\ a \in CharAttr
  BY DEF Works, Paints
<1>2. p = [attr |-> a, saved |-> s.pen.saved, cur |-> s.pen.cur, halfbright |-> s.pen.halfbright]
  BY <1>1 DEF Pens
<1>3. p \in Pens
  BY <1>1, <1>2 DEF Pens
<1>4. t = [s EXCEPT !.pen = p]
  BY DEF Works
<1> HIDE DEF p, t
<1>5. t = [direct |-> s.direct, pen |-> p]
  BY <1>4 DEF Works
<1>6. Pen(s.direct, p)
  BY <1>2, <1>3 DEF Pen, Works
<1> QED BY <1>1, <1>3, <1>5, <1>6 DEF Works, t

\* Attributes made of an attribute.
LEMMA NewParts ==
  ASSUME NEW d, NEW a, Paints(d, a)
  PROVE  /\ \A c \in Colours : Backed(d, c) =>
              Paints(d, [a EXCEPT !.fg = c]) /\ Paints(d, [a EXCEPT !.bg = c])
         /\ \A i \in 0 .. 2 : Paints(d, [a EXCEPT !.intensity = i])
         /\ \A f \in SUBSET {"italic", "underline", "blink", "reverse", "strikethrough"} :
              Paints(d, [a EXCEPT !.flags = f])
<1>1. /\ a = [fg |-> a.fg, bg |-> a.bg, intensity |-> a.intensity, flags |-> a.flags]
      /\ a.fg \in Colours /\ a.bg \in Colours /\ a.intensity \in 0 .. 2
      /\ a.flags \in SUBSET {"italic", "underline", "blink", "reverse", "strikethrough"}
  BY CharAttrIs DEF Paints
<1>2. ASSUME NEW c \in Colours, Backed(d, c) PROVE Paints(d, [a EXCEPT !.fg = c])
  <2>1. [a EXCEPT !.fg = c] = [fg |-> c, bg |-> a.bg, intensity |-> a.intensity, flags |-> a.flags]
    BY <1>1
  <2> QED BY <1>1, <1>2, <2>1 DEF Paints, CharAttr
<1>3. ASSUME NEW c \in Colours, Backed(d, c) PROVE Paints(d, [a EXCEPT !.bg = c])
  <2>1. [a EXCEPT !.bg = c] = [fg |-> a.fg, bg |-> c, intensity |-> a.intensity, flags |-> a.flags]
    BY <1>1
  <2> QED BY <1>1, <1>3, <2>1 DEF Paints, CharAttr
<1>4. ASSUME NEW i \in 0 .. 2 PROVE Paints(d, [a EXCEPT !.intensity = i])
  <2>1. [a EXCEPT !.intensity = i] = [fg |-> a.fg, bg |-> a.bg, intensity |-> i, flags |-> a.flags]
    BY <1>1
  <2> QED BY <1>1, <2>1 DEF Paints, CharAttr
<1>5. ASSUME NEW f \in SUBSET {"italic", "underline", "blink", "reverse", "strikethrough"}
      PROVE  Paints(d, [a EXCEPT !.flags = f])
  <2>1. [a EXCEPT !.flags = f] = [fg |-> a.fg, bg |-> a.bg, intensity |-> a.intensity, flags |-> f]
    BY <1>1
  <2> QED BY <1>1, <2>1 DEF Paints, CharAttr
<1> QED BY <1>2, <1>3, <1>4, <1>5

\* set_display_attr, one item.
LEMMA ItemWorks ==
  ASSUME NEW s, Works(s), NEW it \in Items
  PROVE  Works(SgrItem(s, it)) /\ Grows(s.direct, SgrItem(s, it).direct)
<1> DEFINE d == s.direct
           a == s.pen.attr
           n == it[1]
<1>1. /\ it \in Seq(Nat) /\ Len(it) \in {1, 3, 5} /\ n \in Nat
      /\ Len(it) = 5 => <<u8(it[3]), u8(it[4]), u8(it[5])>> \in Rgb
  BY DEF Items
<1>2. /\ d \in Table /\ Reserved(d) /\ s.pen \in Pens /\ Paints(d, a)
      /\ s.pen.cur.fg \in Colours /\ s.pen.cur.bg \in Colours
      /\ Backed(d, s.pen.cur.fg) /\ Backed(d, s.pen.cur.bg)
  BY DEF Works, Pen, Pens
<1>3. Grows(d, d)
  BY GrowsItself
\* An item that only changes the attribute.
<1>4. ASSUME NEW b, Paints(d, b), SgrItem(s, it) = [s EXCEPT !.pen.attr = b]
      PROVE  Works(SgrItem(s, it)) /\ Grows(d, SgrItem(s, it).direct)
  BY <1>3, <1>4, NewAttr
<1>5. \A i \in Nat : u8(i) \in 0 .. 255
  BY DEF u8
<1>t. \A i \in Nat : i % 10 \in 0 .. 255
  OBVIOUS
<1>6. ASSUME NEW g \in {"fg", "bg"}
      PROVE  Works(Extended(s, it, g)) /\ Grows(d, Extended(s, it, g).direct)
  <2>1. CASE Len(it) = 3
    <3> DEFINE c == Palette(u8(it[3]))
    <3>a. it[3] \in Nat
      BY <1>1, <2>1, SMTT(60)
    <3>b. u8(it[3]) \in 0 .. 255
      BY <1>5, <3>a
    <3>1. c \in Colours /\ Backed(d, c)
      BY <3>b, PaletteIsBacked
    <3>2. Extended(s, it, g) = [s EXCEPT !.pen.attr[g] = c]
      BY <2>1 DEF Extended
    <3> HIDE DEF c
    <3>3. CASE g = "fg"
      <4>1. Extended(s, it, g) = [s EXCEPT !.pen.attr = [a EXCEPT !.fg = c]]
        BY <3>2, <3>3
      <4>2. Paints(d, [a EXCEPT !.fg = c])
        BY <1>2, <3>1, NewParts
      <4> QED BY <1>3, <4>1, <4>2, NewAttr
    <3>4. CASE g = "bg"
      <4>1. Extended(s, it, g) = [s EXCEPT !.pen.attr = [a EXCEPT !.bg = c]]
        BY <3>2, <3>4
      <4>2. Paints(d, [a EXCEPT !.bg = c])
        BY <1>2, <3>1, NewParts
      <4> QED BY <1>3, <4>1, <4>2, NewAttr
    <3> QED BY <3>3, <3>4
  <2>2. CASE Len(it) = 5
    <3> DEFINE rgb == <<u8(it[3]), u8(it[4]), u8(it[5])>>
               e == allocDirectColor(d, rgb)
               c == Direct(e, rgb)
               t == [s EXCEPT !.direct = e]
    <3>1. rgb \in Rgb
      BY <1>1, <2>2
    <3> HIDE DEF rgb
    <3>2. e \in Table /\ Reserved(e) /\ Grows(d, e) /\ c \in Colours /\ Backed(e, c)
      BY <1>2, <3>1, Allocated
    <3>3. Extended(s, it, g) = [s EXCEPT !.direct = e, !.pen.attr[g] = c]
      BY <2>2 DEF Extended, rgb
    <3> HIDE DEF e, c
    <3>4. t = [direct |-> e, pen |-> s.pen]
      BY DEF Works
    <3>5. Works(t) /\ t.direct = e /\ t.pen = s.pen
      BY <1>2, <3>2, <3>4, GrowsPen DEF Works
    <3>6. Extended(s, it, g) = [t EXCEPT !.pen.attr[g] = c]
      BY <3>3
    <3> HIDE DEF t
    <3>7. Paints(e, a)
      BY <3>5 DEF Works, Pen
    <3>8. CASE g = "fg"
      <4>1. Extended(s, it, g) = [t EXCEPT !.pen.attr = [a EXCEPT !.fg = c]]
        BY <3>5, <3>6, <3>8
      <4>2. Paints(e, [a EXCEPT !.fg = c])
        BY <3>2, <3>7, NewParts
      <4> QED BY <3>2, <3>5, <4>1, <4>2, NewAttr
    <3>9. CASE g = "bg"
      <4>1. Extended(s, it, g) = [t EXCEPT !.pen.attr = [a EXCEPT !.bg = c]]
        BY <3>5, <3>6, <3>9
      <4>2. Paints(e, [a EXCEPT !.bg = c])
        BY <3>2, <3>7, NewParts
      <4> QED BY <3>2, <3>5, <4>1, <4>2, NewAttr
    <3> QED BY <3>8, <3>9
  <2>3. CASE Len(it) = 1
    <3>1. Extended(s, it, g) = s
      BY <2>3 DEF Extended
    <3> QED BY <1>3, <3>1
  <2> QED BY <1>1, <2>1, <2>2, <2>3
<1>7. CASE n = 0
  <2>1. SgrItem(s, it) = [s EXCEPT !.pen.attr = default_char_attr]
    BY <1>7 DEF SgrItem
  <2> QED BY <1>2, <1>4, <2>1, DefaultsPaint
<1>8. CASE n \in {1, 2, 21, 22}
  <2>1. PICK i \in 0 .. 2 : SgrItem(s, it) = [s EXCEPT !.pen.attr.intensity = i]
    <3>1. CASE n = 1
      BY <3>1 DEF SgrItem
    <3>2. CASE n = 2
      BY <3>2 DEF SgrItem
    <3>3. CASE n \in {21, 22}
      <4>1. SgrItem(s, it) = [s EXCEPT !.pen.attr.intensity = 1]
        BY <3>3 DEF SgrItem
      <4> QED BY <4>1
    <3> QED BY <1>8, <3>1, <3>2, <3>3
  <2>2. Paints(d, [a EXCEPT !.intensity = i])
    BY <1>2, NewParts
  <2>3. SgrItem(s, it) = [s EXCEPT !.pen.attr = [a EXCEPT !.intensity = i]]
    BY <2>1
  <2> QED BY <1>4, <2>2, <2>3
<1>9. CASE n \in {3, 4, 5, 7, 9} \/ n \in {23, 24, 25, 27, 29}
  <2> DEFINE F == {"italic", "underline", "blink", "reverse", "strikethrough"}
  <2>a. a.flags \in SUBSET F
    BY <1>2, CharAttrIs DEF Paints
  <2>1. PICK f \in SUBSET F : SgrItem(s, it) = [s EXCEPT !.pen.attr.flags = f]
    <3>1. CASE n \in {3, 4, 5, 7, 9}
      <4>1. SgrItem(s, it) = [s EXCEPT !.pen.attr.flags = a.flags \cup {Switch(n)}]
        BY <3>1 DEF SgrItem
      <4>2. Switch(n) \in F
        BY <3>1 DEF Switch
      <4> QED BY <2>a, <4>1, <4>2
    <3>2. CASE n \in {23, 24, 25, 27, 29}
      <4>1. SgrItem(s, it) = [s EXCEPT !.pen.attr.flags = a.flags \ {Switch(n - 20)}]
        BY <3>2 DEF SgrItem
      <4> QED BY <2>a, <4>1
    <3> QED BY <1>9, <3>1, <3>2
  <2>2. Paints(d, [a EXCEPT !.flags = f])
    BY <1>2, NewParts
  <2>3. SgrItem(s, it) = [s EXCEPT !.pen.attr = [a EXCEPT !.flags = f]]
    BY <2>1
  <2> QED BY <1>4, <2>2, <2>3
<1>10. CASE n \in 30 .. 37 \/ n = 39
  <2>1. PICK c \in Colours : Backed(d, c) /\ SgrItem(s, it) = [s EXCEPT !.pen.attr.fg = c]
    <3>1. CASE n \in 30 .. 37
      <4>1. SgrItem(s, it) = [s EXCEPT !.pen.attr.fg = Palette(n % 10)]
        BY <3>1 DEF SgrItem
      <4>2. n % 10 \in 0 .. 255
        BY <1>1, <1>t
      <4> QED BY <4>1, <4>2, PaletteIsBacked
    <3>2. CASE n = 39
      <4>1. SgrItem(s, it) = [s EXCEPT !.pen.attr.fg = s.pen.cur.fg]
        BY <3>2 DEF SgrItem
      <4> QED BY <1>2, <4>1
    <3> QED BY <1>10, <3>1, <3>2
  <2>2. Paints(d, [a EXCEPT !.fg = c])
    BY <1>2, <2>1, NewParts
  <2>3. SgrItem(s, it) = [s EXCEPT !.pen.attr = [a EXCEPT !.fg = c]]
    BY <2>1
  <2> QED BY <1>4, <2>2, <2>3
<1>11. CASE n \in 40 .. 47 \/ n = 49
  <2>1. PICK c \in Colours : Backed(d, c) /\ SgrItem(s, it) = [s EXCEPT !.pen.attr.bg = c]
    <3>1. CASE n \in 40 .. 47
      <4>1. SgrItem(s, it) = [s EXCEPT !.pen.attr.bg = Palette(n % 10)]
        BY <3>1 DEF SgrItem
      <4>2. n % 10 \in 0 .. 255
        BY <1>1, <1>t
      <4> QED BY <4>1, <4>2, PaletteIsBacked
    <3>2. CASE n = 49
      <4>1. SgrItem(s, it) = [s EXCEPT !.pen.attr.bg = s.pen.cur.bg]
        BY <3>2 DEF SgrItem
      <4> QED BY <1>2, <4>1
    <3> QED BY <1>11, <3>1, <3>2
  <2>2. Paints(d, [a EXCEPT !.bg = c])
    BY <1>2, <2>1, NewParts
  <2>3. SgrItem(s, it) = [s EXCEPT !.pen.attr = [a EXCEPT !.bg = c]]
    BY <2>1
  <2> QED BY <1>4, <2>2, <2>3
<1>12. CASE n = 38
  <2>1. SgrItem(s, it) = Extended(s, it, "fg")
    BY <1>12 DEF SgrItem
  <2> QED BY <1>6, <2>1
<1>13. CASE n = 48
  <2>1. SgrItem(s, it) = Extended(s, it, "bg")
    BY <1>13 DEF SgrItem
  <2> QED BY <1>6, <2>1
<1>14. CASE n \notin {0, 1, 2, 3, 4, 5, 7, 9, 21, 22, 23, 24, 25, 27, 29, 38, 39, 48, 49}
            /\ n \notin 30 .. 37 /\ n \notin 40 .. 47
  <2>1. SgrItem(s, it) = s
    BY <1>14 DEF SgrItem
  <2> QED BY <1>3, <2>1
<1> QED BY <1>1, <1>7, <1>8, <1>9, <1>10, <1>11, <1>12, <1>13, <1>14

\* The recursive function of set_display_attr.
AreStates(f, s, items, n) ==
  f = [i \in 0 .. n |-> IF i = 0 THEN s ELSE SgrItem(f[i - 1], items[i])]

LEMMA StatesExist ==
  ASSUME NEW s, NEW items, NEW n \in Nat
  PROVE  \E f : AreStates(f, s, items, n)
<1> DEFINE Bad == {k \in Nat : ~ \E f : AreStates(f, s, items, k)}
<1> SUFFICES ASSUME Bad # {} PROVE FALSE
  OBVIOUS
<1>1. PICK m \in Bad : \A k \in Bad : m <= k
  BY NatMin
<1>2. m \in Nat /\ ~ \E f : AreStates(f, s, items, m)
  OBVIOUS
<1>3. CASE m = 0
  <2>1. AreStates([i \in 0 .. 0 |-> s], s, items, 0)
    BY DEF AreStates
  <2> QED BY <1>2, <1>3, <2>1
<1>4. CASE m # 0
  <2>1. m - 1 \in Nat /\ m - 1 \notin Bad
    BY <1>1, <1>4
  <2>2. PICK g : AreStates(g, s, items, m - 1)
    BY <2>1
  <2> DEFINE f == [i \in 0 .. m |-> IF i = 0 THEN s ELSE SgrItem(g[i - 1], items[i])]
  <2>3. \A i \in 0 .. m - 1 : f[i] = g[i]
    BY <2>2, <1>2, <1>4 DEF AreStates
  <2>4. \A i \in 0 .. m : f[i] = IF i = 0 THEN s ELSE SgrItem(f[i - 1], items[i])
    <3> SUFFICES ASSUME NEW i \in 0 .. m, i # 0 PROVE f[i] = SgrItem(f[i - 1], items[i])
      OBVIOUS
    <3>1. i - 1 \in 0 .. m - 1
      BY <1>2
    <3>2. f[i] = SgrItem(g[i - 1], items[i])
      OBVIOUS
    <3> QED BY <2>3, <3>1, <3>2
  <2>5. f = [i \in 0 .. m |-> f[i]]
    OBVIOUS
  <2> HIDE DEF f
  <2>6. AreStates(f, s, items, m)
    BY <2>4, <2>5, Zenon DEF AreStates
  <2> QED BY <2>6, <1>2
<1> QED BY <1>3, <1>4

LEMMA StatesWork ==
  ASSUME NEW s, Works(s), NEW items \in Seq(Items), NEW f,
         AreStates(f, s, items, Len(items))
  PROVE  Works(f[Len(items)]) /\ Grows(s.direct, f[Len(items)].direct)
<1> DEFINE N == Len(items)
           Good(i) == Works(f[i]) /\ Grows(s.direct, f[i].direct)
           Bad == {k \in Nat : k <= N /\ ~ Good(k)}
<1>1. N \in Nat
  OBVIOUS
<1>2. \A i \in 0 .. N : f[i] = IF i = 0 THEN s ELSE SgrItem(f[i - 1], items[i])
  BY DEF AreStates
<1>3. \A i \in 1 .. N : items[i] \in Items
  OBVIOUS
<1> HIDE DEF N
<1>4. Bad = {}
  <2> SUFFICES ASSUME Bad # {} PROVE FALSE
    OBVIOUS
  <2>1. PICK m \in Bad : \A k \in Bad : m <= k
    BY NatMin
  <2>2. m \in Nat /\ m <= N /\ ~ Good(m)
    OBVIOUS
  <2>3. CASE m = 0
    <3>1. f[0] = s
      BY <1>1, <1>2
    <3>2. Good(0)
      BY <3>1, GrowsItself
    <3> QED BY <2>2, <2>3, <3>2
  <2>4. CASE m # 0
    <3>1. m - 1 \in Nat /\ m - 1 <= N /\ m - 1 \notin Bad
      BY <1>1, <2>1, <2>2, <2>4
    <3>2. Good(m - 1)
      BY <3>1
    <3>3. m \in 0 .. N /\ m \in 1 .. N
      BY <1>1, <2>2, <2>4
    <3>4. f[m] = SgrItem(f[m - 1], items[m])
      BY <1>2, <2>4, <3>3
    <3>5. Works(f[m]) /\ Grows(f[m - 1].direct, f[m].direct)
      BY <1>3, <3>2, <3>3, <3>4, ItemWorks
    <3>6. Good(m)
      BY <3>2, <3>5 DEF Grows
    <3> QED BY <2>2, <3>6
  <2> QED BY <2>3, <2>4
<1>5. Good(N)
  BY <1>1, <1>4
<1> QED BY <1>5 DEF N

\* The inductive invariant: the default colours have their entries, and so has
\* every colour of this round that the pen or a cell has.
Coloured ==
  /\ Works(State)
  /\ cells \in [CellNames -> CharAttr]
  /\ \A c \in CellNames : Paints(direct, cells[c])

LEMMA WorksState ==
  ASSUME NEW s, Works(s), Grows(direct, s.direct), Becomes(s), Coloured
  PROVE  Coloured'
<1>1. direct' = s.direct /\ pen' = s.pen /\ cells' = cells
  BY DEF Becomes
<1>2. State' = [direct |-> s.direct, pen |-> s.pen]
  BY <1>1 DEF State
<1>3. s = [direct |-> s.direct, pen |-> s.pen]
  BY DEF Works
<1>4. Works(State')
  BY <1>2, <1>3
<1>5. \A c \in CellNames : Paints(direct', cells'[c])
  BY <1>1, GrowsPaints DEF Coloured
<1>6. cells' \in [CellNames -> CharAttr]
  BY <1>1 DEF Coloured
<1> QED BY <1>4, <1>5, <1>6 DEF Coloured, State

LEMMA ColouredStarts == AttrInit => Coloured
<1> SUFFICES ASSUME AttrInit PROVE Coloured
  OBVIOUS
<1> DEFINE a == default_char_attr
           cur == [fg |-> a.fg, bg |-> a.bg]
<1>1. direct \in Table /\ Reserved(direct)
  <2>1. direct = init_default_color.direct
    BY DEF AttrInit
  <2> QED BY <2>1, DefaultsAre DEF Reserved
<1>2. Paints(direct, a)
  BY <1>1, DefaultsPaint
<1>3. a \in CharAttr /\ a.fg \in Colours /\ a.bg \in Colours
      /\ Backed(direct, a.fg) /\ Backed(direct, a.bg)
  BY <1>2, CharAttrIs DEF Paints
<1>4. pen = [attr |-> a, saved |-> a, cur |-> cur, halfbright |-> {}]
  BY DEF AttrInit, Fresh
<1> HIDE DEF a
<1>5. pen \in Pens
  BY <1>3, <1>4 DEF Pens
<1>6. Pen(direct, pen)
  BY <1>2, <1>3, <1>4, <1>5 DEF Pen
<1>7. Works(State)
  BY <1>1, <1>5, <1>6 DEF Works, State
<1>8. \A c \in CellNames : cells[c] = a
  BY DEF AttrInit, a
<1>9. cells \in [CellNames -> CharAttr]
  BY <1>3 DEF AttrInit, a
<1> QED BY <1>2, <1>7, <1>8, <1>9 DEF Coloured


\* The pen as a whole, with some of its parts new.
LEMMA NewPen ==
  ASSUME Coloured, NEW p, Pen(direct, p), pen' = p, direct' = direct, cells' = cells
  PROVE  Coloured'
<1>1. State' = [direct |-> direct, pen |-> p]
  BY DEF State
<1>2. direct \in Table /\ Reserved(direct)
  BY DEF Coloured, Works, State
<1>3. p \in Pens
  BY DEF Pen
<1>4. Works(State')
  BY <1>1, <1>2, <1>3 DEF Works
<1>5. \A c \in CellNames : Paints(direct', cells'[c])
  BY DEF Coloured
<1>6. cells' \in [CellNames -> CharAttr]
  BY DEF Coloured
<1> QED BY <1>4, <1>5, <1>6 DEF Coloured, State

LEMMA NewCells ==
  ASSUME Coloured, NEW c \in CellNames, NEW a, Paints(direct, a), Store(c, a)
  PROVE  Coloured'
<1>1. cells' = [cells EXCEPT ![c] = a] /\ direct' = direct /\ pen' = pen
  BY DEF Store
<1>0. cells \in [CellNames -> CharAttr] /\ a \in CharAttr
  BY DEF Coloured, Paints
<1>4. cells' \in [CellNames -> CharAttr]
  BY <1>0, <1>1
<1>2. \A e \in CellNames : Paints(direct, cells'[e])
  <2> SUFFICES ASSUME NEW e \in CellNames PROVE Paints(direct, cells'[e])
    OBVIOUS
  <2>1. cells'[e] = cells[e] \/ cells'[e] = a
    BY <1>0, <1>1
  <2> QED BY <2>1 DEF Coloured
<1>3. Works(State')
  BY <1>1 DEF Coloured, State
<1> QED BY <1>1, <1>2, <1>3, <1>4 DEF Coloured, State

LEMMA PenParts ==
  ASSUME Coloured
  PROVE  /\ direct \in Table /\ Reserved(direct) /\ Works(State)
         /\ State.direct = direct /\ State.pen = pen
         /\ Pen(direct, pen)
         /\ pen = [attr |-> pen.attr, saved |-> pen.saved, cur |-> pen.cur,
                   halfbright |-> pen.halfbright]
         /\ pen.attr \in CharAttr /\ pen.saved \in CharAttr
         /\ pen.cur \in [fg : Colours, bg : Colours] /\ pen.halfbright \in SUBSET (0 .. 7)
BY DEF Coloured, Works, State, Pen, Pens

\* A pen of good parts is good.
LEMMA PenOf ==
  ASSUME NEW d, NEW a, NEW b, Paints(d, a), Paints(d, b), NEW fg \in Colours, NEW bg \in Colours,
         Backed(d, fg), Backed(d, bg), NEW h \in SUBSET (0 .. 7)
  PROVE  Pen(d, [attr |-> a, saved |-> b, cur |-> [fg |-> fg, bg |-> bg], halfbright |-> h])
<1>1. a \in CharAttr /\ b \in CharAttr
  BY DEF Paints
<1> QED BY <1>1 DEF Pen, Pens

LEMMA ColouredBySgr ==
  ASSUME Coloured, NEW params \in SgrSequences, set_display_attr(params)
  PROVE  Coloured'
<1> DEFINE p == [i \in 0 .. Len(params) - 1 |-> params[i + 1]]
           items == SgrItems(p, Len(params) - 1)
           after == CHOOSE f : f = [i \in 0 .. Len(items) |->
                                     IF i = 0 THEN State ELSE SgrItem(f[i - 1], items[i])]
<1>1. Becomes(after[Len(items)])
  BY DEF set_display_attr
<1>2. items \in Seq(Items)
  BY ItemsAre
<1> HIDE DEF items
<1>3. Len(items) \in Nat
  BY <1>2
<1>4. AreStates(after, State, items, Len(items))
  BY <1>3, StatesExist DEF AreStates
<1> HIDE DEF after
<1>5. Works(State) /\ State.direct = direct
  BY PenParts
<1>6. Works(after[Len(items)]) /\ Grows(direct, after[Len(items)].direct)
  BY <1>2, <1>4, <1>5, StatesWork
<1> QED BY <1>1, <1>6, WorksState

LEMMA ColouredByWrite ==
  ASSUME Coloured, NEW c \in CellNames, WriteChar(c) \/ EraseCell(c)
  PROVE  Coloured'
<1>1. /\ direct \in Table /\ Paints(direct, pen.attr) /\ pen.halfbright \in SUBSET (0 .. 7)
  BY PenParts DEF Pen
<1>i. 1 \in 0 .. 2
  OBVIOUS
<1>2. Paints(direct, normal_char_attr)
  <2>1. CASE pen.attr.intensity = 0 /\ pen.halfbright # {}
    <3> DEFINE col == Palette(One(pen.halfbright))
               a == [pen.attr EXCEPT !.intensity = 1]
    <3>1. One(pen.halfbright) \in 0 .. 255
      BY <1>1, <2>1, OneOf
    <3>2. col \in Colours /\ Backed(direct, col)
      BY <3>1, PaletteIsBacked
    <3>3. normal_char_attr = [a EXCEPT !.fg = col]
      BY <2>1 DEF normal_char_attr
    <3> HIDE DEF col
    <3>4. Paints(direct, a)
      BY <1>1, <1>i, NewParts, Zenon
    <3> HIDE DEF a
    <3> QED BY <3>2, <3>3, <3>4, NewParts
  <2>2. CASE ~(pen.attr.intensity = 0 /\ pen.halfbright # {})
    BY <1>1, <2>2 DEF normal_char_attr
  <2> QED BY <2>1, <2>2
<1>3. Paints(direct, erase_char_attr)
  <2> DEFINE a == [pen.attr EXCEPT !.intensity = 1]
  <2>1. Paints(direct, a)
    BY <1>1, <1>i, NewParts, Zenon
  <2>2. erase_char_attr = [a EXCEPT !.flags = {}]
    BY DEF erase_char_attr
  <2> HIDE DEF a
  <2> QED BY <2>1, <2>2, NewParts
<1> QED BY <1>2, <1>3, NewCells DEF WriteChar, EraseCell

LEMMA ColouredByPen ==
  ASSUME Coloured,
         \/ save_cursor \/ restore_cursor \/ linux_specific_defaults
         \/ \E n \in {4, 9} : linux_specific_halfbright(n)
         \/ \E ground \in {"fg", "bg"} : fbterm_specific(ground, 260)
  PROVE  Coloured'
<1> DEFINE h == pen.halfbright
<1>1. /\ direct \in Table /\ Pen(direct, pen)
      /\ State = [direct |-> direct, pen |-> pen]
      /\ pen = [attr |-> pen.attr, saved |-> pen.saved, cur |-> pen.cur, halfbright |-> h]
      /\ Paints(direct, pen.attr) /\ Paints(direct, pen.saved)
      /\ pen.cur = [fg |-> pen.cur.fg, bg |-> pen.cur.bg]
      /\ pen.cur.fg \in Colours /\ pen.cur.bg \in Colours
      /\ Backed(direct, pen.cur.fg) /\ Backed(direct, pen.cur.bg)
      /\ pen.attr.fg \in Colours /\ pen.attr.bg \in Colours
      /\ h \in SUBSET (0 .. 7)
  BY PenParts, CharAttrIs DEF Pen, State
<1> HIDE DEF h
<1>2. ASSUME NEW p, Becomes([State EXCEPT !.pen = p])
      PROVE  pen' = p /\ direct' = direct /\ cells' = cells
  BY <1>1, <1>2 DEF Becomes
<1>3. CASE save_cursor
  <2> DEFINE p == [attr |-> pen.attr, saved |-> pen.attr, cur |-> pen.cur, halfbright |-> h]
  <2>1. [State EXCEPT !.pen.saved = pen.attr] = [State EXCEPT !.pen = p]
    BY <1>1
  <2>2. Pen(direct, p)
    BY <1>1, PenOf
  <2> HIDE DEF p
  <2>3. pen' = p /\ direct' = direct /\ cells' = cells
    BY <1>2, <1>3, <2>1 DEF save_cursor
  <2> QED BY <2>2, <2>3, NewPen
<1>4. CASE restore_cursor
  <2> DEFINE p == [attr |-> pen.saved, saved |-> pen.saved, cur |-> pen.cur, halfbright |-> h]
  <2>1. [State EXCEPT !.pen.attr = pen.saved] = [State EXCEPT !.pen = p]
    BY <1>1
  <2>2. Pen(direct, p)
    BY <1>1, PenOf
  <2> HIDE DEF p
  <2>3. pen' = p /\ direct' = direct /\ cells' = cells
    BY <1>2, <1>4, <2>1 DEF restore_cursor
  <2> QED BY <2>2, <2>3, NewPen
<1>5. CASE linux_specific_defaults
  <2> DEFINE cur == [fg |-> pen.attr.fg, bg |-> pen.attr.bg]
             p == [attr |-> pen.attr, saved |-> pen.saved, cur |-> cur, halfbright |-> h]
  <2>1. [State EXCEPT !.pen.cur = cur] = [State EXCEPT !.pen = p]
    BY <1>1
  <2>2. Pen(direct, p)
    BY <1>1, PenOf DEF Paints
  <2> HIDE DEF p
  <2>3. pen' = p /\ direct' = direct /\ cells' = cells
    BY <1>2, <1>5, <2>1 DEF linux_specific_defaults
  <2> QED BY <2>2, <2>3, NewPen
<1>6. ASSUME NEW n \in {4, 9}, linux_specific_halfbright(n) PROVE Coloured'
  <2> DEFINE g == IF n < 8 THEN {n} ELSE h
             p == [attr |-> pen.attr, saved |-> pen.saved, cur |-> pen.cur, halfbright |-> g]
  <2>1. [State EXCEPT !.pen.halfbright = IF n < 8 THEN {n} ELSE @] = [State EXCEPT !.pen = p]
    BY <1>1
  <2>2. g \in SUBSET (0 .. 7)
    BY <1>1
  <2> HIDE DEF g
  <2>3. Pen(direct, p)
    BY <1>1, <2>2, PenOf
  <2> HIDE DEF p
  <2>4. pen' = p /\ direct' = direct /\ cells' = cells
    BY <1>2, <1>6, <2>1 DEF linux_specific_halfbright
  <2> QED BY <2>3, <2>4, NewPen
<1>7. ASSUME NEW ground \in {"fg", "bg"}, fbterm_specific(ground, 260) PROVE Coloured'
  <2> DEFINE col == Palette(u8(260))
  <2>1. col \in Colours /\ Backed(direct, col)
    <3>1. u8(260) \in 0 .. 255
      BY DEF u8
    <3> QED BY <3>1, PaletteIsBacked
  <2>2. PICK a : Paints(direct, a) /\ [State EXCEPT !.pen.attr[ground] = col]
                                        = [State EXCEPT !.pen.attr = a]
    <3> HIDE DEF col
    <3>1. CASE ground = "fg"
      <4>1. Paints(direct, [pen.attr EXCEPT !.fg = col])
        BY <1>1, <2>1, NewParts
      <4>2. [State EXCEPT !.pen.attr[ground] = col]
              = [State EXCEPT !.pen.attr = [pen.attr EXCEPT !.fg = col]]
        BY <1>1, <3>1
      <4> QED BY <4>1, <4>2
    <3>2. CASE ground = "bg"
      <4>1. Paints(direct, [pen.attr EXCEPT !.bg = col])
        BY <1>1, <2>1, NewParts
      <4>2. [State EXCEPT !.pen.attr[ground] = col]
              = [State EXCEPT !.pen.attr = [pen.attr EXCEPT !.bg = col]]
        BY <1>1, <3>2
      <4> QED BY <4>1, <4>2
    <3> QED BY <3>1, <3>2
  <2> DEFINE p == [attr |-> a, saved |-> pen.saved, cur |-> pen.cur, halfbright |-> h]
  <2>3. [State EXCEPT !.pen.attr = a] = [State EXCEPT !.pen = p]
    BY <1>1
  <2>4. Pen(direct, p)
    BY <1>1, <2>2, PenOf
  <2> HIDE DEF p
  <2>5. pen' = p /\ direct' = direct /\ cells' = cells
    BY <1>2, <1>7, <2>2, <2>3 DEF fbterm_specific
  <2> QED BY <2>4, <2>5, NewPen
<1> QED BY <1>3, <1>4, <1>5, <1>6, <1>7

LEMMA ColouredByReset ==
  ASSUME Coloured, reset_attrs PROVE Coloured'
<1> DEFINE a == default_char_attr
           b == [a EXCEPT !.intensity = 1]
<1>1. direct \in Table /\ Reserved(direct)
  BY PenParts
<1>2. Paints(direct, a) /\ a.fg \in Colours /\ a.bg \in Colours
  BY <1>1, DefaultsPaint, DefaultsAre
<1>i. 1 \in 0 .. 2
  OBVIOUS
<1>p. Paints(direct, b)
  BY <1>2, <1>i, NewParts, Zenon
<1>3. Paints(direct, b) /\ b \in CharAttr
  BY <1>p, Zenon DEF Paints
<1>4. pen' = [attr |-> a, saved |-> a, cur |-> [fg |-> a.fg, bg |-> a.bg], halfbright |-> {}]
  BY DEF reset_attrs, Fresh
<1>5. cells' = [c \in CellNames |-> b] /\ direct' = direct
  BY DEF reset_attrs
<1> HIDE DEF a, b
<1>6. Pen(direct, pen')
  BY <1>2, <1>4, PenOf DEF Paints
<1>7. Works(State')
  <2>1. State' = [direct |-> direct, pen |-> pen']
    BY <1>5 DEF State
  <2> QED BY <1>1, <1>6, <2>1 DEF Works, Pen
<1>8. cells' \in [CellNames -> CharAttr] /\ \A c \in CellNames : Paints(direct, cells'[c])
  BY <1>3, <1>5
<1> QED BY <1>5, <1>7, <1>8 DEF Coloured, State

LEMMA AttrSteps == ASSUME Coloured, AttrNext PROVE Coloured'
BY ColouredBySgr, ColouredByWrite, ColouredByPen, ColouredByReset DEF AttrNext, AttrRequest

LEMMA BrightTwice ==
  ASSUME NEW a \in CharAttr, "reverse" \notin a.flags
  PROVE  adjustCharAttr(adjustCharAttr(a)) = adjustCharAttr(a)
<1> DEFINE half(x) == IF x.intensity = 0 /\ ~x.fg.direct THEN Palette(8) ELSE x.fg
           f(x) == Bright(half(x), x.intensity = 2)
           g(x) == Bright(x.bg, "blink" \in x.flags)
           b == [a EXCEPT !.fg = f(a), !.bg = g(a)]
<1>1. \A x : "reverse" \notin x.flags => adjustCharAttr(x) = [x EXCEPT !.fg = f(x), !.bg = g(x)]
  BY DEF adjustCharAttr
<1>2. a = [fg |-> a.fg, bg |-> a.bg, intensity |-> a.intensity, flags |-> a.flags]
      /\ a.fg \in Colours /\ a.bg \in Colours /\ a.intensity \in 0 .. 2
  BY CharAttrIs
<1>3. ASSUME NEW c \in Colours, NEW on \in BOOLEAN
      PROVE  Bright(c, on) \in Colours /\ Bright(Bright(c, on), on) = Bright(c, on)
             /\ Bright(c, on).direct = c.direct
  <2>1. c.index \in 0 .. 255 /\ c.direct \in BOOLEAN
    BY DEF Colours
  <2>2. CASE on /\ ~c.direct /\ c.index < 8
    <3> DEFINE e == [c EXCEPT !.index = @ + 8]
    <3>1. e = [index |-> c.index + 8, direct |-> c.direct, asked |-> c.asked, round |-> c.round]
      BY ColoursAre
    <3>2. Bright(c, on) = e
      BY <2>2 DEF Bright
    <3> HIDE DEF e
    <3>3. e \in Colours /\ ~(e.index < 8) /\ e.direct = c.direct
      BY <2>1, <2>2, <3>1, ColoursAre DEF Colours
    <3>4. Bright(e, on) = e
      BY <3>3 DEF Bright
    <3> QED BY <3>2, <3>3, <3>4
  <2>3. CASE ~(on /\ ~c.direct /\ c.index < 8)
    <3>1. Bright(c, on) = c
      BY <2>3 DEF Bright
    <3> QED BY <3>1
  <2> QED BY <2>2, <2>3
<1>4. half(a) \in Colours
  <2>1. Palette(8) \in Colours
    BY DEF Palette, Colours
  <2> QED BY <1>2, <2>1
<1> HIDE DEF half
<1>5. b = [fg |-> f(a), bg |-> g(a), intensity |-> a.intensity, flags |-> a.flags]
  <2> DEFINE x == f(a)
             y == g(a)
             a1 == [a EXCEPT !.fg = x]
  <2> HIDE DEF x, y
  <2>1. a1 = [fg |-> x, bg |-> a.bg, intensity |-> a.intensity, flags |-> a.flags]
    BY <1>2
  <2> HIDE DEF a1
  <2>2. [a1 EXCEPT !.bg = y] = [fg |-> x, bg |-> y, intensity |-> a.intensity, flags |-> a.flags]
    BY <2>1
  <2> QED BY <2>2, Zenon DEF a1, x, y
<1> HIDE DEF b
<1>6. "reverse" \notin b.flags
  BY <1>5
<1>7. half(b) = f(a)
  <2>1. CASE a.intensity = 0 /\ ~a.fg.direct
    <3>1. half(a) = Palette(8)
      BY <2>1 DEF half
    <3>2. f(a) = Palette(8) /\ ~Palette(8).direct
      BY <2>1, <3>1 DEF Bright, Palette
    <3>3. half(b) = Palette(8)
      BY <1>5, <2>1, <3>2 DEF half
    <3> QED BY <3>2, <3>3
  <2>2. CASE ~(a.intensity = 0 /\ ~a.fg.direct)
    <3>1. half(a) = a.fg
      BY <2>2 DEF half
    <3>2. f(a).direct = a.fg.direct
      BY <1>2, <1>3, <3>1
    <3>3. ~(b.intensity = 0 /\ ~b.fg.direct)
      BY <1>5, <2>2, <3>2
    <3> QED BY <1>5, <3>3 DEF half
  <2> QED BY <2>1, <2>2
<1>8. f(b) = f(a)
  <2>1. b.intensity = a.intensity
    BY <1>5
  <2>2. Bright(f(a), a.intensity = 2) = f(a)
    BY <1>3, <1>4
  <2> QED BY <1>7, <2>1, <2>2
<1>9. g(b) = g(a)
  <2>1. b.bg = g(a) /\ b.flags = a.flags
    BY <1>5
  <2>2. Bright(g(a), "blink" \in a.flags) = g(a)
    <3>1. CASE "blink" \in a.flags
      <4>1. /\ Bright(a.bg, "blink" \in a.flags) = Bright(a.bg, TRUE)
            /\ Bright(g(a), "blink" \in a.flags) = Bright(g(a), TRUE)
        BY <3>1 DEF Bright
      <4> QED BY <1>2, <1>3, <4>1
    <3>2. CASE "blink" \notin a.flags
      <4>1. Bright(g(a), "blink" \in a.flags) = g(a)
        BY <3>2 DEF Bright
      <4> QED BY <4>1
    <3> QED BY <3>1, <3>2
  <2> QED BY <2>1, <2>2
<1> HIDE DEF f, g
<1>10. [b EXCEPT !.fg = f(b), !.bg = g(b)] = b
  <2>1. b.fg = f(b) /\ b.bg = g(b)
    BY <1>5, <1>8, <1>9
  <2> DEFINE c == [b EXCEPT !.fg = f(b)]
  <2>2. c = b
    BY <1>5, <2>1
  <2>3. [c EXCEPT !.bg = g(b)] = b
    BY <1>5, <2>1, <2>2
  <2> QED BY <2>3
<1>11. adjustCharAttr(a) = b
  BY <1>1 DEF b
<1>12. adjustCharAttr(b) = b
  BY <1>1, <1>6, <1>10
<1> QED BY <1>11, <1>12

LEMMA ColouredIsKept ==
  ASSUME Coloured
  PROVE  AttrTypeOK /\ DefaultColoursKept /\ TrueColoursKept /\ CursorGivesCellBack
<1>1. /\ direct \in Table /\ Reserved(direct)
      /\ Paints(direct, pen.attr) /\ Paints(direct, pen.saved)
      /\ \A c \in CellNames : Paints(direct, cells[c])
  BY PenParts DEF Pen, Coloured
<1>2. ASSUME NEW a, Paints(direct, a)
      PROVE  \A colour \in {a.fg, a.bg} :
               colour.index \in IF colour.direct THEN Entries ELSE 0 .. 255
  <2>1. a.fg \in Colours /\ a.bg \in Colours
    BY <1>2, CharAttrIs DEF Paints
  <2> QED BY <1>2, <2>1 DEF Paints, Backed, Colours
<1>3. AttrTypeOK
  <2>1. direct.count \in 0 .. NR_DIRECT_COLORS /\ direct.table \in [Entries -> Rgb]
    BY <1>1 DEF Table
  <2>2. \A a \in {cells[c] : c \in CellNames} \cup {pen.attr, pen.saved} : Paints(direct, a)
    BY <1>1
  <2> QED BY <1>2, <2>1, <2>2 DEF AttrTypeOK
<1>4. DefaultColoursKept
  BY <1>1 DEF DefaultColoursKept, Reserved
<1>5. TrueColoursKept
  BY <1>1 DEF TrueColoursKept, Paints, Backed
<1>6. CursorGivesCellBack
  <2> SUFFICES ASSUME NEW c \in CellNames, "reverse" \notin cells[c].flags
               PROVE  BlockCursor(cells[c], FALSE) = adjustCharAttr(cells[c])
    BY DEF CursorGivesCellBack
  <2>1. cells[c] \in CharAttr
    BY <1>1 DEF Paints
  <2>2. BlockCursor(cells[c], FALSE) = adjustCharAttr(adjustCharAttr(cells[c]))
    BY DEF BlockCursor
  <2> QED BY <2>1, <2>2, BrightTwice
<1> QED BY <1>3, <1>4, <1>5, <1>6

-----------------------------------------------------------------------------
(* The canvas of an image                                                  *)

Values == {Preset(i) : i \in Registers} \cup {<<"defined", i>> : i \in Registers}
Dots == [drawn : BOOLEAN, colour : Values \cup {<<"none">>}]
Canvases ==
  [pixmap : [Pixels -> Dots], width : 1 .. MaxRepeat, height : {PixH},
   point_x : 0 .. MaxRepeat, point_y : Nat, img_width : 1 .. MaxRepeat, img_height : Nat, color_index : Registers,
   color_table : [Registers -> Values]]
Drawings == SUBSET [at : Nat \X Nat, ink : Dots]

\* Pixels that get an ink, others in their place lost.
Over(S, D) == {px \in S : \A d \in D : d.at # px.at} \cup D

\* What can be seen of a drawing.
Within(width, at) == at[1] < width /\ OnCanvas(at)
Seen(S) == {px \in S : OnCanvas(px.at)}

\* A canvas between two commands.
Sound(sc) == sc \in Canvases /\ sc.point_y % 6 = 0

\* The canvas has the pixels E and no others, within the bounds of the image,
\* which reach below the band that is drawn next.
Shows(sc, E) ==
  /\ Sound(sc)
  /\ sc.img_height % 6 = 0 \/ sc.img_height = PixH
  /\ sc.point_y + 6 <= PixH => sc.img_height >= sc.point_y + 6
  /\ \A p \in Pixels : sc.pixmap[p].drawn =>
       p[1] < sc.img_width /\ p[2] < sc.img_height
  /\ \A px : px \in E <=>
       \E p \in Pixels : sc.pixmap[p].drawn /\ px = [at |-> p, ink |-> sc.pixmap[p]]

LEMMA CanvasIs ==
  ASSUME NEW sc \in Canvases
  PROVE  /\ sc = [pixmap |-> sc.pixmap, width |-> sc.width, height |-> sc.height,
                  point_x |-> sc.point_x, point_y |-> sc.point_y, img_width |-> sc.img_width,
                  img_height |-> sc.img_height, color_index |-> sc.color_index,
                  color_table |-> sc.color_table]
         /\ sc.pixmap \in [Pixels -> Dots] /\ sc.width \in 1 .. MaxRepeat /\ sc.height = PixH
         /\ sc.point_x \in 0 .. MaxRepeat /\ sc.point_y \in Nat
         /\ sc.img_width \in 1 .. MaxRepeat
         /\ sc.img_height \in Nat /\ sc.color_index \in Registers
         /\ sc.color_table \in [Registers -> Values]
BY DEF Canvases

LEMMA PixelNumbers ==
  /\ PixW \in Nat /\ PixW >= 1 /\ PixH \in Nat /\ PixH >= 1
  /\ MaxRepeat \in Nat /\ PixW <= MaxRepeat
  /\ Cols \in Nat /\ Rows \in Nat /\ CellW \in Nat /\ CellW >= 1 /\ CellH \in Nat /\ CellH >= 1
<1>1. Cols \in Nat /\ Rows \in Nat /\ CellW \in Nat /\ CellW >= 1 /\ CellH \in Nat /\ CellH >= 1
      /\ Cols >= 1 /\ Rows >= 1
  BY SixelAssumption
<1>2. \A a, b \in Nat : a >= 1 /\ b >= 1 => a * b \in Nat /\ a * b >= 1
  BY Z3
<1>3. MaxRepeat \in Nat /\ PixW <= MaxRepeat
  BY SixelAssumption DEF MaxRepeat
<1> QED BY <1>1, <1>2, <1>3 DEF PixW, PixH

\* What is seen after a command: it matters only what is seen of the new.
LEMMA SeenOver ==
  ASSUME NEW S, NEW D
  PROVE  Seen(Over(S, D)) = Over(Seen(S), Seen(D))
<1>1. ASSUME NEW px PROVE px \in Seen(Over(S, D)) <=> px \in Over(Seen(S), Seen(D))
  BY DEF Seen, Over
<1> QED BY <1>1

LEMMA OverTwice ==
  ASSUME NEW S, NEW A, NEW B, \A a \in A, b \in B : a.at # b.at
  PROVE  Over(Over(S, A), B) = Over(S, A \cup B)
<1>1. ASSUME NEW px PROVE px \in Over(Over(S, A), B) <=> px \in Over(S, A \cup B)
  BY DEF Over
<1> QED BY <1>1

LEMMA OverNothing == ASSUME NEW S PROVE Over(S, {}) = S
BY DEF Over

\* The pixels of one column of a band.
Column(sc, x, bits) ==
  {[at |-> <<x, sc.point_y + b>>, ink |-> Ink(sc.color_table[sc.color_index])] : b \in bits}

\* sixel_bitmap within the bounds: the point moves on, wherever the ink goes.
BandOf(sc, bits) == {Address(<<sc.point_x, sc.point_y + y>>) : y \in bits}
InkOf(sc) == Ink(sc.color_table[sc.color_index])

LEMMA BitmapIs ==
  ASSUME NEW sc, Sound(sc), NEW bits \in SUBSET (0 .. 5), InCanvas(sc)
  PROVE  LET t == sixel_bitmap(sc, bits)
         IN  /\ Sound(t)
             /\ t.point_x = sc.point_x + 1 /\ t.point_y = sc.point_y /\ t.width = sc.width
             /\ t.color_table = sc.color_table /\ t.color_index = sc.color_index
             /\ t.img_height = sc.img_height
             /\ t.img_width >= sc.img_width /\ t.img_width > sc.point_x
             /\ \A p \in Pixels :
                  t.pixmap[p] = IF p \in BandOf(sc, bits) THEN InkOf(sc) ELSE sc.pixmap[p]
             /\ InkOf(sc) \in Dots /\ InkOf(sc).drawn
<1> DEFINE Band == BandOf(sc, bits)
           ink == InkOf(sc)
           pm == [p \in Pixels |-> IF p \in Band THEN ink ELSE sc.pixmap[p]]
           iw == IF sc.point_x + 1 > sc.img_width THEN sc.point_x + 1 ELSE sc.img_width
           t == sixel_bitmap(sc, bits)
<1>1. /\ sc = [pixmap |-> sc.pixmap, width |-> sc.width, height |-> sc.height,
               point_x |-> sc.point_x, point_y |-> sc.point_y, img_width |-> sc.img_width,
               img_height |-> sc.img_height, color_index |-> sc.color_index,
               color_table |-> sc.color_table]
      /\ sc.pixmap \in [Pixels -> Dots] /\ sc.width \in 1 .. MaxRepeat /\ sc.height = PixH
      /\ sc.point_x \in 0 .. MaxRepeat /\ sc.point_y \in Nat /\ sc.img_width \in 1 .. MaxRepeat
      /\ sc.img_height \in Nat /\ sc.color_index \in Registers
      /\ sc.color_table \in [Registers -> Values]
  BY CanvasIs DEF Sound
<1>2. sc.point_x < sc.width /\ MaxRepeat \in Nat
  BY PixelNumbers DEF InCanvas
<1>3. t = [sc EXCEPT !.pixmap = [p \in Pixels |-> IF p \in Band THEN ink ELSE @[p]],
                     !.point_x = @ + 1,
                     !.img_width = IF sc.point_x + 1 > @ THEN sc.point_x + 1 ELSE @]
  BY DEF sixel_bitmap, BandOf, InkOf
<1>5. ink \in Dots /\ ink.drawn
  BY <1>1 DEF Ink, InkOf, Dots
<1> HIDE DEF ink, Band
<1>8. pm \in [Pixels -> Dots] /\ \A p \in Pixels : pm[p] = IF p \in Band THEN ink ELSE sc.pixmap[p]
  BY <1>1, <1>5
<1>9. /\ t = [pixmap |-> pm, width |-> sc.width, height |-> sc.height,
              point_x |-> sc.point_x + 1, point_y |-> sc.point_y, img_width |-> iw,
              img_height |-> sc.img_height, color_index |-> sc.color_index,
              color_table |-> sc.color_table]
  <2> DEFINE a == [sc EXCEPT !.pixmap = pm]
             b == [a EXCEPT !.point_x = @ + 1]
             c == [b EXCEPT !.img_width = iw]
  <2>0. t = c
    BY <1>1, <1>3
  <2> HIDE DEF pm, t, iw
  <2>1. a = [pixmap |-> pm, width |-> sc.width, height |-> sc.height,
             point_x |-> sc.point_x, point_y |-> sc.point_y, img_width |-> sc.img_width,
             img_height |-> sc.img_height, color_index |-> sc.color_index,
             color_table |-> sc.color_table]
    BY <1>1
  <2> HIDE DEF a
  <2>2. b = [pixmap |-> pm, width |-> sc.width, height |-> sc.height,
             point_x |-> sc.point_x + 1, point_y |-> sc.point_y, img_width |-> sc.img_width,
             img_height |-> sc.img_height, color_index |-> sc.color_index,
             color_table |-> sc.color_table]
    BY <2>1
  <2> HIDE DEF b
  <2> QED BY <2>0, <2>2
<1> HIDE DEF pm, t
<1>10. iw \in 1 .. MaxRepeat /\ sc.point_x + 1 \in 0 .. MaxRepeat
       /\ iw >= sc.img_width /\ iw > sc.point_x
  BY <1>1, <1>2
<1> HIDE DEF iw
<1>11. t \in Canvases
  BY <1>1, <1>8, <1>9, <1>10 DEF Canvases
<1>12. t.point_y % 6 = 0
  BY <1>9 DEF Sound
<1>13. Sound(t)
  BY <1>11, <1>12 DEF Sound
<1>14. \A p \in Pixels : t.pixmap[p] = IF p \in Band THEN ink ELSE sc.pixmap[p]
  BY <1>8, <1>9
<1> QED BY <1>5, <1>9, <1>10, <1>13, <1>14 DEF t, ink, Band

\* Within the lines of the memory it is a column of ink.
LEMMA BitmapShows ==
  ASSUME NEW sc, NEW E, Shows(sc, E), NEW bits \in SUBSET (0 .. 5), InCanvas(sc),
         bits # {} => sc.point_x < PixW
  PROVE  Shows(sixel_bitmap(sc, bits), Over(E, Column(sc, sc.point_x, bits)))
<1> DEFINE Band == BandOf(sc, bits)
           ink == InkOf(sc)
           t == sixel_bitmap(sc, bits)
<1>1. /\ sc.point_x \in Nat /\ sc.point_y \in Nat /\ sc.img_width \in Nat
      /\ sc.img_height \in Nat /\ sc.height = PixH
  BY CanvasIs DEF Shows, Sound
<1>2. sc.point_y + 5 < PixH /\ PixH \in Nat /\ PixW \in Nat /\ PixW >= 1
  BY <1>1, PixelNumbers DEF InCanvas
<1>3. /\ Sound(t)
      /\ t.point_x = sc.point_x + 1 /\ t.point_y = sc.point_y
      /\ t.img_height = sc.img_height
      /\ t.img_width >= sc.img_width /\ t.img_width > sc.point_x
      /\ \A p \in Pixels : t.pixmap[p] = IF p \in Band THEN ink ELSE sc.pixmap[p]
      /\ ink \in Dots /\ ink.drawn
  BY BitmapIs DEF Shows
<1> HIDE DEF t
<1>a. ASSUME NEW y \in bits PROVE Address(<<sc.point_x, sc.point_y + y>>) = <<sc.point_x, sc.point_y + y>>
  <2>1. sc.point_x < PixW /\ y \in 0 .. 5
    OBVIOUS
  <2>2. \A x, w \in Nat : x < w => x % w = x /\ x \div w = 0
    BY Z3
  <2>3. sc.point_x % PixW = sc.point_x /\ sc.point_x \div PixW = 0
    BY <1>1, <1>2, <2>1, <2>2
  <2>4. sc.point_y + y + 0 = sc.point_y + y
    BY <1>1, <2>1
  <2> QED BY <2>3, <2>4 DEF Address
<1>b. Band = {<<sc.point_x, sc.point_y + y>> : y \in bits}
  BY <1>a DEF BandOf
<1>4. Band \subseteq Pixels
  BY <1>1, <1>2, <1>b DEF Pixels
<1>6. Column(sc, sc.point_x, bits) = {[at |-> q, ink |-> ink] : q \in Band}
  BY <1>b DEF Column, InkOf
<1>c. \A p \in Band : p[1] = sc.point_x /\ p[2] <= sc.point_y + 5 /\ p[2] \in Nat
  BY <1>1, <1>b
<1> HIDE DEF ink, Band
<1>12. /\ t.img_height % 6 = 0 \/ t.img_height = PixH
       /\ t.point_y + 6 <= PixH => t.img_height >= t.point_y + 6
  BY <1>3 DEF Shows
<1>13. ASSUME NEW p \in Pixels, t.pixmap[p].drawn
       PROVE  p[1] < t.img_width /\ p[2] < t.img_height
  <2>0. p[1] \in Nat /\ p[2] \in Nat
    BY DEF Pixels
  <2>1. t.img_width \in Nat
    BY <1>3, CanvasIs DEF Sound
  <2>2. CASE p \in Band
    <3>1. sc.img_height >= sc.point_y + 6
      BY <1>1, <1>2 DEF Shows
    <3> QED BY <1>1, <1>2, <1>3, <1>c, <2>0, <2>1, <2>2, <3>1
  <2>3. CASE p \notin Band
    <3>1. sc.pixmap[p].drawn
      BY <1>3, <1>13, <2>3
    <3>2. p[1] < sc.img_width /\ p[2] < sc.img_height
      BY <3>1 DEF Shows
    <3> QED BY <1>1, <1>3, <2>0, <2>1, <3>2
  <2> QED BY <2>2, <2>3
<1>14. ASSUME NEW px
       PROVE  px \in Over(E, Column(sc, sc.point_x, bits)) <=>
                \E p \in Pixels : t.pixmap[p].drawn /\ px = [at |-> p, ink |-> t.pixmap[p]]
  <2>1. px \in E <=> \E p \in Pixels : sc.pixmap[p].drawn /\ px = [at |-> p, ink |-> sc.pixmap[p]]
    BY DEF Shows
  <2>2. \A p \in Pixels : t.pixmap[p] = IF p \in Band THEN ink ELSE sc.pixmap[p]
    BY <1>3
  <2>3. ASSUME px \in Over(E, Column(sc, sc.point_x, bits))
        PROVE  \E p \in Pixels : t.pixmap[p].drawn /\ px = [at |-> p, ink |-> t.pixmap[p]]
    <3>1. CASE px \in Column(sc, sc.point_x, bits)
      BY <1>4, <1>3, <1>6, <2>2, <3>1
    <3>2. CASE px \in E /\ \A d \in Column(sc, sc.point_x, bits) : d.at # px.at
      <4>1. PICK p \in Pixels : sc.pixmap[p].drawn /\ px = [at |-> p, ink |-> sc.pixmap[p]]
        BY <2>1, <3>2
      <4>2. p \notin Band
        <5> SUFFICES ASSUME p \in Band PROVE FALSE
          OBVIOUS
        <5>1. [at |-> p, ink |-> ink] \in Column(sc, sc.point_x, bits)
          BY <1>6
        <5> QED BY <3>2, <4>1, <5>1
      <4> QED BY <2>2, <4>1, <4>2
    <3> QED BY <2>3, <3>1, <3>2 DEF Over
  <2>4. ASSUME NEW p \in Pixels, t.pixmap[p].drawn, px = [at |-> p, ink |-> t.pixmap[p]]
        PROVE  px \in Over(E, Column(sc, sc.point_x, bits))
    <3>1. CASE p \in Band
      BY <1>6, <2>2, <2>4, <3>1 DEF Over
    <3>2. CASE p \notin Band
      <4>1. px \in E
        BY <2>1, <2>2, <2>4, <3>2
      <4>2. \A d \in Column(sc, sc.point_x, bits) : d.at # px.at
        BY <1>6, <2>4, <3>2
      <4> QED BY <4>1, <4>2 DEF Over
    <3> QED BY <3>1, <3>2
  <2> QED BY <2>3, <2>4
<1>15. Shows(t, Over(E, Column(sc, sc.point_x, bits)))
  BY <1>3, <1>12, <1>13, <1>14 DEF Shows
<1> QED BY <1>15 DEF t

\* The pixels of n columns of a band, those that can be seen.
Columns6(sc, bits, n) == {d \in UNION {Column(sc, sc.point_x + i, bits) : i \in 0 .. n - 1} :
                            Within(sc.width, d.at)}

LEMMA ColumnIs ==
  ASSUME NEW sc \in Canvases, sc.point_y % 6 = 0, NEW bits \in SUBSET (0 .. 5),
         NEW x \in Nat, NEW d \in Column(sc, x, bits)
  PROVE  /\ d.at[1] = x
         /\ Within(sc.width, d.at) <=> x < sc.width /\ sc.point_y + 5 < PixH
<1>1. PICK b \in bits : d = [at |-> <<x, sc.point_y + b>>,
                             ink |-> Ink(sc.color_table[sc.color_index])]
  BY DEF Column
<1>2. b \in 0 .. 5 /\ sc.point_y \in Nat
  BY CanvasIs
<1>3. d.at[1] = x /\ d.at[2] = sc.point_y + b
  BY <1>1
<1>4. (sc.point_y + b) % 6 = b
  BY <1>2
<1>5. (sc.point_y + b) - ((sc.point_y + b) % 6) + 5 = sc.point_y + 5
  BY <1>2, <1>4
<1> QED BY <1>3, <1>5 DEF Within, OnCanvas

\* None of the pixels lies beyond the lines of the memory.
InLines(D) == \A d \in D : ~(d.at[1] >= PixW)

\* The recursive function of sixel_repeat.
AreCanvases(f, sc, bits, n) ==
  f = [i \in 0 .. n |-> IF i = 0 THEN sc ELSE sixel_bitmap(f[i - 1], bits)]

LEMMA CanvasesExist ==
  ASSUME NEW sc, NEW bits, NEW n \in Nat
  PROVE  \E f : AreCanvases(f, sc, bits, n)
<1> DEFINE Bad == {k \in Nat : ~ \E f : AreCanvases(f, sc, bits, k)}
<1> SUFFICES ASSUME Bad # {} PROVE FALSE
  OBVIOUS
<1>1. PICK m \in Bad : \A k \in Bad : m <= k
  BY NatMin
<1>2. m \in Nat /\ ~ \E f : AreCanvases(f, sc, bits, m)
  OBVIOUS
<1>3. CASE m = 0
  <2>1. AreCanvases([i \in 0 .. 0 |-> sc], sc, bits, 0)
    BY DEF AreCanvases
  <2> QED BY <1>2, <1>3, <2>1
<1>4. CASE m # 0
  <2>1. m - 1 \in Nat /\ m - 1 \notin Bad
    BY <1>1, <1>4
  <2>2. PICK g : AreCanvases(g, sc, bits, m - 1)
    BY <2>1
  <2> DEFINE f == [i \in 0 .. m |-> IF i = 0 THEN sc ELSE sixel_bitmap(g[i - 1], bits)]
  <2>3. \A i \in 0 .. m - 1 : f[i] = g[i]
    BY <2>2, <1>2, <1>4 DEF AreCanvases
  <2>4. \A i \in 0 .. m : f[i] = IF i = 0 THEN sc ELSE sixel_bitmap(f[i - 1], bits)
    <3> SUFFICES ASSUME NEW i \in 0 .. m, i # 0 PROVE f[i] = sixel_bitmap(f[i - 1], bits)
      OBVIOUS
    <3>1. i - 1 \in 0 .. m - 1
      BY <1>2
    <3>2. f[i] = sixel_bitmap(g[i - 1], bits)
      OBVIOUS
    <3> QED BY <2>3, <3>1, <3>2
  <2>5. f = [i \in 0 .. m |-> f[i]]
    OBVIOUS
  <2> HIDE DEF f
  <2>6. AreCanvases(f, sc, bits, m)
    BY <2>4, <2>5, Zenon DEF AreCanvases
  <2> QED BY <2>6, <1>2
<1> QED BY <1>3, <1>4

\* i columns of a repeat have been taken: t is where the canvas stands.
Along(t, sc, E, bits, i) ==
  /\ Sound(t)
  /\ Shows(sc, E) /\ InLines(Columns6(sc, bits, i)) => Shows(t, Over(E, Columns6(sc, bits, i)))
  /\ t.point_y = sc.point_y /\ t.width = sc.width
  /\ t.color_table = sc.color_table /\ t.color_index = sc.color_index
  /\ t.point_x <= sc.point_x + i
  /\ t.point_x = sc.point_x + i \/ ~InCanvas(t)

\* One more column of a repeat: where it lies on the canvas it is drawn, and
\* where it does not it could not be seen.
LEMMA OneColumn ==
  ASSUME NEW sc \in Canvases, sc.point_y % 6 = 0, NEW E, NEW bits \in SUBSET (0 .. 5),
         NEW i \in Nat, NEW t, Along(t, sc, E, bits, i)
  PROVE  Along(sixel_bitmap(t, bits), sc, E, bits, i + 1)
<1> DEFINE u == sixel_bitmap(t, bits)
           x == sc.point_x + i
           new == Column(sc, x, bits)
           A == Columns6(sc, bits, i)
           B == Columns6(sc, bits, i + 1)
<1>1. /\ sc.point_x \in Nat /\ sc.point_y \in Nat /\ sc.width \in Nat /\ sc.height = PixH
      /\ t.point_x \in Nat /\ t.height = PixH /\ PixH \in Nat
  BY CanvasIs, PixelNumbers DEF Sound, Along
<1>a. /\ Sound(t) /\ t.point_y = sc.point_y /\ t.width = sc.width
      /\ t.color_table = sc.color_table /\ t.color_index = sc.color_index
      /\ t.point_x <= x /\ (t.point_x = x \/ ~InCanvas(t))
      /\ (Shows(sc, E) /\ InLines(A) => Shows(t, Over(E, A)))
  BY DEF Along
<1>2. x \in Nat
  BY <1>1
<1>3. \A d \in new : d.at[1] = x /\ (Within(sc.width, d.at) <=> x < sc.width /\ sc.point_y + 5 < PixH)
  BY <1>2, ColumnIs
<1>4. B = A \cup {d \in new : Within(sc.width, d.at)}
  <2> DEFINE C(j) == Column(sc, sc.point_x + j, bits)
             V(d) == Within(sc.width, d.at)
  <2>1. new = C(i)
    OBVIOUS
  <2>2. A = {d \in UNION {C(j) : j \in 0 .. i - 1} : V(d)}
    BY DEF Columns6
  <2>3. B = {d \in UNION {C(j) : j \in 0 .. (i + 1) - 1} : V(d)}
    BY DEF Columns6
  <2> HIDE DEF A, B, new, C, V
  <2>4. ASSUME NEW d PROVE d \in B <=> d \in A \/ (d \in new /\ V(d))
    <3>1. d \in B <=> V(d) /\ \E j \in 0 .. (i + 1) - 1 : d \in C(j)
      BY <2>3
    <3>2. d \in A <=> V(d) /\ \E j \in 0 .. i - 1 : d \in C(j)
      BY <2>2
    <3>3. \A j : j \in 0 .. (i + 1) - 1 <=> j \in 0 .. i - 1 \/ j = i
      OBVIOUS
    <3> QED BY <2>1, <3>1, <3>2, <3>3
  <2>5. B = A \cup {d \in new : V(d)}
    BY <2>4
  <2> QED BY <2>5 DEF V
<1>5. \A d \in A : d.at[1] < x
  <2> SUFFICES ASSUME NEW d \in A PROVE d.at[1] < x
    OBVIOUS
  <2>1. PICK j \in 0 .. i - 1 : d \in Column(sc, sc.point_x + j, bits)
    BY DEF Columns6
  <2>2. sc.point_x + j \in Nat /\ sc.point_x + j < x
    BY <1>1
  <2>3. d.at[1] = sc.point_x + j
    BY <2>1, <2>2, ColumnIs
  <2> QED BY <2>2, <2>3
<1>c. bits # {} => new # {}
  BY DEF Column
<1>b. x = sc.point_x + i
  OBVIOUS
<1> HIDE DEF x
<1>6. CASE InCanvas(t)
  <2>1. t.point_x = x
    BY <1>a, <1>6
  <2>2. Column(t, t.point_x, bits) = new
    BY <1>a, <2>1 DEF Column
  <2>3. x < sc.width /\ sc.point_y + 5 < PixH
    BY <1>1, <1>a, <1>6, <2>1 DEF InCanvas
  <2>4. B = A \cup new
    BY <1>3, <1>4, <2>3
  <2>5. \A d \in A, e \in new : d.at # e.at
    BY <1>2, <1>3, <1>5
  <2> HIDE DEF A, B, new
  <2>6. Over(Over(E, A), new) = Over(E, B)
    BY <2>4, <2>5, OverTwice
  <2>7. /\ Sound(u)
        /\ u.point_x = t.point_x + 1 /\ u.point_y = t.point_y /\ u.width = t.width
        /\ u.color_table = t.color_table /\ u.color_index = t.color_index
    BY <1>6, <1>a, BitmapIs
  <2>9. ASSUME Shows(sc, E), InLines(B) PROVE Shows(u, Over(E, B))
    <3>1. InLines(A)
      BY <2>4, <2>9 DEF InLines
    <3>2. Shows(t, Over(E, A))
      BY <1>a, <2>9, <3>1
    <3>3. bits # {} => t.point_x < PixW
      <4> SUFFICES ASSUME bits # {} PROVE t.point_x < PixW
        OBVIOUS
      <4>1. PICK d \in new : TRUE
        BY <1>c
      <4>2. d.at[1] = x /\ d \in B
        BY <1>3, <2>4
      <4> QED BY <1>2, <2>1, <2>9, <4>2, PixelNumbers DEF InLines
    <3>4. Shows(u, Over(Over(E, A), new))
      BY <1>6, <2>2, <3>2, <3>3, BitmapShows
    <3> QED BY <2>6, <3>4
  <2> HIDE DEF u
  <2>8. u.point_x = sc.point_x + (i + 1)
    BY <1>1, <1>b, <2>1, <2>7
  <2> QED BY <1>1, <1>a, <2>7, <2>8, <2>9 DEF Along, B, u
<1>7. CASE ~InCanvas(t)
  <2>1. u = t
    BY <1>7 DEF sixel_bitmap
  <2>2. ~(x < sc.width /\ sc.point_y + 5 < PixH)
    BY <1>1, <1>2, <1>a, <1>7 DEF InCanvas
  <2>3. B = A
    BY <1>3, <1>4, <2>2
  <2>4. u.point_x <= sc.point_x + (i + 1)
    BY <1>1, <1>a, <1>b, <2>1
  <2> HIDE DEF A, B, u
  <2>5. Shows(sc, E) /\ InLines(B) => Shows(u, Over(E, B))
    BY <1>a, <2>1, <2>3
  <2> QED BY <1>a, <1>7, <2>1, <2>4, <2>5 DEF Along, B, u
<1> QED BY <1>6, <1>7

LEMMA RepeatShows ==
  ASSUME NEW sc, Sound(sc), NEW E, NEW bits \in SUBSET (0 .. 5), NEW n \in Nat,
         NEW f, AreCanvases(f, sc, bits, n)
  PROVE  /\ Sound(f[n]) /\ f[n].width = sc.width
         /\ Shows(sc, E) /\ InLines(Columns6(sc, bits, n))
              => Shows(f[n], Over(E, Columns6(sc, bits, n)))
<1> DEFINE Good(i) == Along(f[i], sc, E, bits, i)
           Bad == {k \in Nat : k <= n /\ ~ Good(k)}
<1>1. \A i \in 0 .. n : f[i] = IF i = 0 THEN sc ELSE sixel_bitmap(f[i - 1], bits)
  BY DEF AreCanvases
<1>2. sc \in Canvases /\ sc.point_y % 6 = 0 /\ sc.point_x \in Nat
  BY CanvasIs DEF Sound
<1>3. Bad = {}
  <2> SUFFICES ASSUME Bad # {} PROVE FALSE
    OBVIOUS
  <2>1. PICK m \in Bad : \A k \in Bad : m <= k
    BY NatMin
  <2>2. m \in Nat /\ m <= n /\ ~ Good(m)
    OBVIOUS
  <2>3. CASE m = 0
    <3>1. f[0] = sc
      BY <1>1
    <3>2. Columns6(sc, bits, 0) = {}
      BY DEF Columns6
    <3>3. Over(E, Columns6(sc, bits, 0)) = E
      BY <3>2, OverNothing
    <3>4. Good(0)
      BY <1>2, <3>1, <3>3 DEF Along
    <3> QED BY <2>2, <2>3, <3>4
  <2>4. CASE m # 0
    <3>1. m - 1 \in Nat /\ m - 1 <= n /\ m - 1 \notin Bad
      BY <2>1, <2>2, <2>4
    <3>2. Good(m - 1)
      BY <3>1
    <3>3. m \in 0 .. n /\ (m - 1) + 1 = m
      BY <2>2
    <3>4. f[m] = sixel_bitmap(f[m - 1], bits)
      BY <1>1, <2>4, <3>3
    <3>5. Along(sixel_bitmap(f[m - 1], bits), sc, E, bits, (m - 1) + 1)
      BY <1>2, <3>1, <3>2, OneColumn
    <3>6. Good(m)
      BY <3>3, <3>4, <3>5
    <3> QED BY <2>2, <3>6
  <2> QED BY <2>3, <2>4
<1>4. Good(n)
  BY <1>3
<1> QED BY <1>4 DEF Along

-----------------------------------------------------------------------------
(* The image in the making                                                 *)

\* The inductive invariant: the canvas shows what can be seen of the drawing,
\* as long as that keeps to the lines of the memory.
ShowsDrawing(sc) ==
  /\ Sound(sc) /\ sc.width = image.width
  /\ image.strayed = "no" => Shows(sc, Seen(image.pixels))

Imaged ==
  /\ commands \in 0 .. MaxCommands
  /\ Drawing => canvas # {}
  /\ image = [width |-> image.width, pixels |-> image.pixels, strayed |-> image.strayed]
  /\ image.strayed \in {"no", "rows", "memory"}
  /\ canvas # {} => \E sc : canvas = {sc} /\ ShowsDrawing(sc)
  /\ CellsShowImage

\* While an image is drawn there is one canvas.
LEMMA TheCanvas ==
  ASSUME Imaged, Drawing
  PROVE  canvas = {Canvas} /\ ShowsDrawing(Canvas)
<1>1. PICK sc : canvas = {sc} /\ ShowsDrawing(sc)
  BY DEF Imaged
<1>2. Canvas = sc
  BY <1>1 DEF Canvas
<1> QED BY <1>1, <1>2

\* A canvas that shows the drawing, in the middle of an image.
LEMMA ImagedWith ==
  ASSUME NEW t, canvas' = {t}, commands' \in 1 .. MaxCommands, Sound(t), t.width = image'.width,
         image' = [width |-> image'.width, pixels |-> image'.pixels, strayed |-> image'.strayed],
         image'.strayed \in {"no", "rows", "memory"},
         image'.strayed = "no" => Shows(t, Seen(image'.pixels))
  PROVE  Imaged'
<1>1. CellsShowImage' /\ commands' \in 0 .. MaxCommands
  BY SixelAssumption DEF CellsShowImage, Drawing
<1>2. ShowsDrawing(t)'
  BY DEF ShowsDrawing
<1>3. \E sc : canvas' = {sc} /\ ShowsDrawing(sc)'
  BY <1>2
<1>4. canvas' # {}
  OBVIOUS
<1> QED BY <1>1, <1>3, <1>4 DEF Imaged

LEMMA CommandKeeps ==
  ASSUME Imaged, NEW t, NEW drawn, Command(t, drawn), Sound(t), t.width = image.width,
         image.strayed = "no" /\ InLines(Seen(drawn))
           => Shows(t, Over(Seen(image.pixels), Seen(drawn)))
  PROVE  Imaged'
<1>1. /\ commands > 0 /\ commands < MaxCommands /\ commands \in Nat /\ MaxCommands \in Nat
      /\ canvas' = {t} /\ commands' = commands + 1
  BY SixelAssumption DEF Command, Drawing, Imaged
<1>2. image' = [width |-> image.width, pixels |-> Over(image.pixels, drawn),
                strayed |-> Farther(image.strayed, Strays(drawn))]
  BY DEF Command, Over, Imaged
<1>3. /\ image'.width = t.width /\ image'.pixels = Over(image.pixels, drawn)
      /\ image'.strayed = Farther(image.strayed, Strays(drawn))
      /\ image' = [width |-> image'.width, pixels |-> image'.pixels, strayed |-> image'.strayed]
  BY <1>2
<1>4. Seen(image'.pixels) = Over(Seen(image.pixels), Seen(drawn))
  BY <1>3, SeenOver
<1>5. commands' \in 0 .. MaxCommands /\ commands' > 0
  BY <1>1
<1>6. CellsShowImage'
  BY <1>5 DEF CellsShowImage, Drawing
<1>7. image'.strayed \in {"no", "rows", "memory"}
  BY <1>3 DEF Farther
<1>8. ASSUME image'.strayed = "no"
      PROVE  image.strayed = "no" /\ InLines(Seen(drawn))
  <2>1. image.strayed \in {"no", "rows", "memory"} /\ Strays(drawn) \in {"no", "rows", "memory"}
    BY DEF Imaged, Strays
  <2>2. image.strayed = "no" /\ Strays(drawn) = "no"
    BY <1>3, <1>8, <2>1 DEF Farther
  <2>3. \A d \in Seen(drawn) : ~(d.at[1] >= PixW)
    BY <2>2, Zenon DEF Strays, Seen
  <2> QED BY <2>2, <2>3 DEF InLines
<1>9. ShowsDrawing(t)'
  BY <1>3, <1>4, <1>8 DEF ShowsDrawing
<1> QED BY <1>1, <1>3, <1>5, <1>6, <1>7, <1>9 DEF Imaged

LEMMA SeenPut ==
  ASSUME Imaged, Drawing, NEW bits \in SUBSET (0 .. 5), NEW n \in Nat
  PROVE  Seen(Put(bits, n)) = Columns6(Canvas, bits, n)
<1> DEFINE sc == Canvas
           ink == Ink(sc.color_table[sc.color_index])
           cols == {j \in 0 .. n - 1 : sc.point_x + j < sc.width}
<1>1. sc.width = image.width
  BY TheCanvas DEF ShowsDrawing
<1>2. Put(bits, n) = {[at |-> <<sc.point_x + i, sc.point_y + b>>, ink |-> ink] :
                        i \in cols, b \in bits}
  BY <1>1 DEF Put
<1>3. ASSUME NEW d
      PROVE  d \in Put(bits, n) <=> /\ d \in UNION {Column(sc, sc.point_x + i, bits) : i \in 0 .. n - 1}
                                    /\ d.at[1] < sc.width
  <2>1. d \in Put(bits, n) <=> \E i \in cols : \E b \in bits :
          d = [at |-> <<sc.point_x + i, sc.point_y + b>>, ink |-> ink]
    BY <1>2
  <2> HIDE DEF sc, ink
  <2>2. d \in UNION {Column(sc, sc.point_x + i, bits) : i \in 0 .. n - 1}
          <=> \E i \in 0 .. n - 1 : d \in Column(sc, sc.point_x + i, bits)
    OBVIOUS
  <2>3. \A i \in 0 .. n - 1 : d \in Column(sc, sc.point_x + i, bits) <=> \E b \in bits :
          d = [at |-> <<sc.point_x + i, sc.point_y + b>>, ink |-> ink]
    BY DEF Column, ink
  <2>4. \A i, b : d = [at |-> <<sc.point_x + i, sc.point_y + b>>, ink |-> ink]
          => d.at[1] = sc.point_x + i
    OBVIOUS
  <2>5. ASSUME d \in Put(bits, n)
        PROVE  d \in UNION {Column(sc, sc.point_x + i, bits) : i \in 0 .. n - 1} /\ d.at[1] < sc.width
    <3>1. PICK i \in cols, b \in bits :
            d = [at |-> <<sc.point_x + i, sc.point_y + b>>, ink |-> ink]
      BY <2>1, <2>5
    <3> QED BY <2>2, <2>3, <2>4, <3>1
  <2>6. ASSUME d \in UNION {Column(sc, sc.point_x + i, bits) : i \in 0 .. n - 1}, d.at[1] < sc.width
        PROVE  d \in Put(bits, n)
    <3>1. PICK i \in 0 .. n - 1 : d \in Column(sc, sc.point_x + i, bits)
      BY <2>2, <2>6
    <3>2. PICK b \in bits : d = [at |-> <<sc.point_x + i, sc.point_y + b>>, ink |-> ink]
      BY <2>3, <3>1
    <3>3. i \in cols
      BY <2>4, <2>6, <3>2
    <3> QED BY <2>1, <3>2, <3>3
  <2> QED BY <2>5, <2>6
<1>4. ASSUME NEW d PROVE d \in Seen(Put(bits, n)) <=> d \in Columns6(sc, bits, n)
  BY <1>3 DEF Seen, Columns6, Within
<1> QED BY <1>4

LEMMA ImagedByBits ==
  ASSUME Imaged, Drawing, NEW bits \in SixelBits, DrawSixel(bits)
  PROVE  Imaged'
<1> DEFINE sc == Canvas
           E == Seen(image.pixels)
           t == sixel_bitmap(sc, bits)
<1>1. bits \in SUBSET (0 .. 5)
  BY SixelAssumption
<1>2. Sound(sc) /\ sc.width = image.width /\ (image.strayed = "no" => Shows(sc, E))
  BY TheCanvas DEF ShowsDrawing
<1> HIDE DEF sc, E
<1>3. PICK f : AreCanvases(f, sc, bits, 1)
  BY CanvasesExist
<1>4. 0 \in 0 .. 1 /\ 1 \in 0 .. 1 /\ 1 # 0 /\ 1 - 1 = 0 /\ 1 \in Nat
  OBVIOUS
<1>5. f[1] = t
  <2>1. f[0] = sc /\ f[1] = sixel_bitmap(f[0], bits)
    BY <1>3, <1>4 DEF AreCanvases
  <2> QED BY <2>1
<1>7. Seen(Put(bits, 1)) = Columns6(sc, bits, 1)
  BY <1>1, <1>4, SeenPut DEF sc
<1>9. Command(t, Put(bits, 1))
  BY DEF DrawSixel, sc
<1> HIDE DEF t
<1>6. /\ Sound(t) /\ t.width = sc.width
      /\ Shows(sc, E) /\ InLines(Columns6(sc, bits, 1)) => Shows(t, Over(E, Columns6(sc, bits, 1)))
  BY <1>1, <1>2, <1>3, <1>4, <1>5, RepeatShows
<1> QED BY <1>2, <1>6, <1>7, <1>9, CommandKeeps DEF E

LEMMA ImagedByRepeat ==
  ASSUME Imaged, Drawing, NEW bits \in SixelBits, NEW count \in Counts, RepeatSixel(count, bits)
  PROVE  Imaged'
<1> DEFINE sc == Canvas
           E == Seen(image.pixels)
           all == IF count = 0 THEN 1 ELSE count
           n == IF count = 0 THEN 1 ELSE IF count > MaxRepeat THEN MaxRepeat ELSE count
           after == CHOOSE f : f = [i \in 0 .. n |->
                                     IF i = 0 THEN sc ELSE sixel_bitmap(f[i - 1], bits)]
           t == after[n]
<1>1. bits \in SUBSET (0 .. 5) /\ count \in Nat
  BY SixelAssumption
<1>a. MaxRepeat \in Nat
  BY DEF MaxRepeat
<1>b. Sound(sc) /\ sc.width = image.width /\ (image.strayed = "no" => Shows(sc, E))
  BY TheCanvas DEF ShowsDrawing
<1>2. sc \in Canvases /\ sc.point_y % 6 = 0 /\ sc.point_x \in Nat /\ sc.width \in 1 .. MaxRepeat
  BY <1>b, CanvasIs DEF Sound
<1>3. n \in Nat /\ all \in Nat /\ n <= all /\ (n = all \/ n = MaxRepeat)
  BY <1>1, <1>a
<1>4. sixel_repeat(sc, count, bits) = t
  BY DEF sixel_repeat
<1>5. Command(sixel_repeat(Canvas, count, bits), Put(bits, all))
  BY DEF RepeatSixel
<1> HIDE DEF t, all
<1>6. Command(t, Put(bits, all))
  BY <1>4, <1>5
<1> USE DEF t, all
<1> HIDE DEF sc, E, n, all
<1>7. AreCanvases(after, sc, bits, n)
  BY <1>3, CanvasesExist, SMTT(60) DEF AreCanvases
<1> HIDE DEF after
<1>8. /\ Sound(t) /\ t.width = sc.width
      /\ Shows(sc, E) /\ InLines(Columns6(sc, bits, n)) => Shows(t, Over(E, Columns6(sc, bits, n)))
  BY <1>1, <1>b, <1>3, <1>7, RepeatShows
<1>9. Columns6(sc, bits, n) = Columns6(sc, bits, all)
  <2>1. ASSUME NEW d, NEW i \in 0 .. all - 1, d \in Column(sc, sc.point_x + i, bits),
               Within(sc.width, d.at)
        PROVE  i \in 0 .. n - 1
    <3>1. sc.point_x + i \in Nat /\ i \in Nat
      BY <1>2, <1>3
    <3>2. sc.point_x + i < sc.width
      BY <1>1, <1>2, <2>1, <3>1, ColumnIs
    <3>3. i < MaxRepeat
      BY <1>1, <1>2, <1>a, <3>1, <3>2
    <3> QED BY <1>3, <3>3
  <2>2. \A i : i \in 0 .. n - 1 => i \in 0 .. all - 1
    BY <1>3
  <2>3. ASSUME NEW d PROVE d \in Columns6(sc, bits, n) <=> d \in Columns6(sc, bits, all)
    BY <2>1, <2>2 DEF Columns6
  <2>4. \A d \in Columns6(sc, bits, n) : d \in Columns6(sc, bits, all)
    BY <2>3
  <2>5. \A d \in Columns6(sc, bits, all) : d \in Columns6(sc, bits, n)
    BY <2>3
  <2> QED BY <2>4, <2>5
<1>10. Seen(Put(bits, all)) = Columns6(sc, bits, n)
  BY <1>1, <1>3, <1>9, SeenPut DEF sc
<1> HIDE DEF t
<1> QED BY <1>b, <1>6, <1>8, <1>10, CommandKeeps DEF E

\* Moving on: the canvas shows what it showed as long as its bounds grow.
LEMMA MoveShows ==
  ASSUME NEW sc, NEW E, Shows(sc, E), NEW t \in Canvases, t.pixmap = sc.pixmap,
         t.img_width = sc.img_width, t.point_y % 6 = 0,
         t.img_height >= sc.img_height \/ t.img_height = PixH,
         t.img_height % 6 = 0 \/ t.img_height = PixH,
         t.point_y + 6 <= PixH => t.img_height >= t.point_y + 6
  PROVE  Shows(t, E)
<1>1. sc.img_height \in Nat /\ t.img_height \in Nat
  BY CanvasIs DEF Shows, Sound
<1>2. ASSUME NEW p \in Pixels, t.pixmap[p].drawn
      PROVE  p[1] < t.img_width /\ p[2] < t.img_height
  <2>1. p[1] < sc.img_width /\ p[2] < sc.img_height
    BY <1>2 DEF Shows
  <2>2. p[2] \in Nat /\ p[2] < PixH
    BY PixelNumbers DEF Pixels
  <2> QED BY <1>1, <2>1, <2>2, PixelNumbers
<1>3. \A px : px \in E <=>
        \E p \in Pixels : t.pixmap[p].drawn /\ px = [at |-> p, ink |-> t.pixmap[p]]
  BY DEF Shows
<1> QED BY <1>2, <1>3 DEF Shows, Sound

\* A command that draws nothing.
LEMMA QuietCommandKeeps ==
  ASSUME Imaged, NEW t, Command(t, {}), Sound(t), t.width = image.width,
         image.strayed = "no" => Shows(t, Seen(image.pixels))
  PROVE  Imaged'
<1>1. Seen({}) = {}
  BY DEF Seen
<1>2. Over(Seen(image.pixels), Seen({})) = Seen(image.pixels)
  BY <1>1, OverNothing
<1> QED BY <1>2, CommandKeeps

LEMMA ImagedByReturn ==
  ASSUME Imaged, Drawing, CarriageReturn
  PROVE  Imaged'
<1> DEFINE sc == Canvas
           t == sixel_cr(sc)
<1>1. /\ Sound(sc) /\ sc \in Canvases /\ sc.width = image.width
      /\ image.strayed = "no" => Shows(sc, Seen(image.pixels))
  BY TheCanvas DEF ShowsDrawing, Sound
<1>2. Command(t, {})
  BY DEF CarriageReturn
<1> HIDE DEF sc
<1>3. t = [pixmap |-> sc.pixmap, width |-> sc.width, height |-> sc.height,
           point_x |-> 0, point_y |-> sc.point_y, img_width |-> sc.img_width,
           img_height |-> sc.img_height, color_index |-> sc.color_index,
           color_table |-> sc.color_table]
  BY <1>1, CanvasIs DEF sixel_cr
<1> HIDE DEF t
<1>4. t \in Canvases
  <2>1. 0 \in 0 .. MaxRepeat
    BY PixelNumbers
  <2> QED BY <1>1, <1>3, <2>1, CanvasIs DEF Canvases
<1>5. sc.img_height \in Nat
  BY <1>1, CanvasIs
<1>7. t.point_y = sc.point_y /\ t.width = sc.width
  BY <1>3
<1>8. Sound(t)
  BY <1>1, <1>4, <1>7 DEF Sound
<1>6. ASSUME image.strayed = "no" PROVE Shows(t, Seen(image.pixels))
  <2>0. Shows(sc, Seen(image.pixels))
    BY <1>1, <1>6
  <2>1. t.pixmap = sc.pixmap /\ t.img_width = sc.img_width
        /\ t.point_y = sc.point_y /\ t.img_height = sc.img_height
    BY <1>3
  <2>2. /\ sc.point_y % 6 = 0
        /\ sc.img_height % 6 = 0 \/ sc.img_height = PixH
        /\ sc.point_y + 6 <= PixH => sc.img_height >= sc.point_y + 6
    BY <2>0 DEF Shows, Sound
  <2>3. t.img_height >= sc.img_height
    BY <1>5, <2>1
  <2> QED BY <1>4, <2>0, <2>1, <2>2, <2>3, MoveShows
<1> QED BY <1>1, <1>2, <1>7, <1>8, <1>6, QuietCommandKeeps

\* The next band: the image grows by a whole band, or to the canvas' end.
LEMMA NextBand ==
  ASSUME NEW y \in Nat, y % 6 = 0, NEW h \in Nat, h % 6 = 0 \/ h = PixH
  PROVE  LET grown == IF y + 6 > PixH THEN PixH ELSE y + 6
             g == IF y + 5 > h /\ grown > 0 THEN grown ELSE h
         IN  /\ g \in Nat /\ (g >= h \/ g = PixH) /\ (g % 6 = 0 \/ g = PixH)
             /\ y + 6 <= PixH => g >= y + 6
<1>1. (y + 6) % 6 = 0
  OBVIOUS
<1>2. h % 6 = 0 /\ h >= y + 5 => h >= y + 6
  OBVIOUS
<1> QED BY <1>1, <1>2, PixelNumbers

LEMMA ImagedByNewLine ==
  ASSUME Imaged, Drawing, NewLine
  PROVE  Imaged'
<1> DEFINE sc == Canvas
           E == Seen(image.pixels)
           y == sc.point_y + 6
           grown == IF y + 6 > PixH THEN PixH ELSE y + 6
           g == IF y + 5 > sc.img_height /\ grown > 0 THEN grown ELSE sc.img_height
           t == sixel_nl(sc)
<1>1. /\ Sound(sc) /\ sc \in Canvases /\ sc.width = image.width
      /\ image.strayed = "no" => Shows(sc, E)
  BY TheCanvas DEF ShowsDrawing, Sound
<1>2. Command(t, {})
  BY DEF NewLine
<1> HIDE DEF sc, E
<1>3. /\ sc = [pixmap |-> sc.pixmap, width |-> sc.width, height |-> sc.height,
               point_x |-> sc.point_x, point_y |-> sc.point_y, img_width |-> sc.img_width,
               img_height |-> sc.img_height, color_index |-> sc.color_index,
               color_table |-> sc.color_table]
      /\ sc.height = PixH /\ sc.point_y \in Nat /\ sc.img_height \in Nat
  BY <1>1, CanvasIs
<1>4. t = [pixmap |-> sc.pixmap, width |-> sc.width, height |-> sc.height,
           point_x |-> 0, point_y |-> y, img_width |-> sc.img_width,
           img_height |-> g, color_index |-> sc.color_index,
           color_table |-> sc.color_table]
  <2> DEFINE a == [sc EXCEPT !.point_x = 0]
             b == [a EXCEPT !.point_y = y]
             c == [b EXCEPT !.img_height = g]
  <2>0. t = c
    BY <1>3 DEF sixel_nl
  <2> HIDE DEF t, y, g
  <2>1. a = [pixmap |-> sc.pixmap, width |-> sc.width, height |-> sc.height,
             point_x |-> 0, point_y |-> sc.point_y, img_width |-> sc.img_width,
             img_height |-> sc.img_height, color_index |-> sc.color_index,
             color_table |-> sc.color_table]
    BY <1>3
  <2> HIDE DEF a
  <2>2. b = [pixmap |-> sc.pixmap, width |-> sc.width, height |-> sc.height,
             point_x |-> 0, point_y |-> y, img_width |-> sc.img_width,
             img_height |-> sc.img_height, color_index |-> sc.color_index,
             color_table |-> sc.color_table]
    BY <2>1
  <2> HIDE DEF b
  <2> QED BY <2>0, <2>2
<1> HIDE DEF t
<1>5. sc.point_y % 6 = 0
  BY <1>1 DEF Sound
<1>6. y \in Nat /\ y % 6 = 0
  BY <1>3, <1>5
<1> HIDE DEF y
<1>7. g \in Nat
  BY <1>3, <1>6, PixelNumbers
<1>8. t \in Canvases
  <2> HIDE DEF g
  <2>1. 0 \in 0 .. MaxRepeat
    BY PixelNumbers
  <2> QED BY <1>1, <1>4, <1>6, <1>7, <2>1, CanvasIs DEF Canvases
<1>10. t.point_y = y /\ t.width = sc.width
  <2> HIDE DEF g
  <2> QED BY <1>4
<1>11. Sound(t)
  BY <1>6, <1>8, <1>10 DEF Sound
<1>9. ASSUME image.strayed = "no" PROVE Shows(t, E)
  <2>0. Shows(sc, E)
    BY <1>1, <1>9
  <2>1. sc.img_height % 6 = 0 \/ sc.img_height = PixH
    BY <2>0 DEF Shows
  <2>2. /\ g \in Nat /\ (g >= sc.img_height \/ g = PixH) /\ (g % 6 = 0 \/ g = PixH)
        /\ y + 6 <= PixH => g >= y + 6
    BY <1>3, <1>6, <2>1, NextBand
  <2> HIDE DEF g
  <2>3. t.pixmap = sc.pixmap /\ t.img_width = sc.img_width /\ t.point_y = y /\ t.img_height = g
    BY <1>4
  <2> QED BY <1>6, <1>8, <2>0, <2>2, <2>3, MoveShows
<1> QED BY <1>1, <1>2, <1>9, <1>10, <1>11, QuietCommandKeeps DEF E

LEMMA ImagedByColour ==
  ASSUME Imaged, Drawing, NEW i \in Registers, SelectColour(i) \/ DefineColour(i)
  PROVE  Imaged'
<1> DEFINE sc == Canvas
           E == Seen(image.pixels)
           ct == [sc.color_table EXCEPT ![i] = <<"defined", i>>]
           t(table) == [pixmap |-> sc.pixmap, width |-> sc.width, height |-> sc.height,
                        point_x |-> sc.point_x, point_y |-> sc.point_y,
                        img_width |-> sc.img_width, img_height |-> sc.img_height,
                        color_index |-> i, color_table |-> table]
<1>1. /\ Sound(sc) /\ sc \in Canvases /\ sc.width = image.width
      /\ image.strayed = "no" => Shows(sc, E)
  BY TheCanvas DEF ShowsDrawing, Sound
<1>2. Command(sixel_color_select(sc, i), {}) \/ Command(sixel_color_define(sc, i, <<"defined", i>>), {})
  BY DEF SelectColour, DefineColour
<1> HIDE DEF sc, E
<1>3. sc = [pixmap |-> sc.pixmap, width |-> sc.width, height |-> sc.height,
            point_x |-> sc.point_x, point_y |-> sc.point_y, img_width |-> sc.img_width,
            img_height |-> sc.img_height, color_index |-> sc.color_index,
            color_table |-> sc.color_table]
      /\ sc.color_table \in [Registers -> Values]
  BY <1>1, CanvasIs
<1>4. <<"defined", i>> \in Values
  BY DEF Values
<1>5. ct \in [Registers -> Values]
  BY <1>3, <1>4
<1>6. sixel_color_select(sc, i) = t(sc.color_table)
  BY <1>3 DEF sixel_color_select
<1>7. sixel_color_define(sc, i, <<"defined", i>>) = t(ct)
  <2> DEFINE a == [sc EXCEPT !.color_index = i]
             b == [a EXCEPT !.color_table = ct]
  <2>1. sixel_color_define(sc, i, <<"defined", i>>) = b
    BY <1>3 DEF sixel_color_define
  <2> HIDE DEF ct
  <2>2. a = t(sc.color_table)
    BY <1>3
  <2> HIDE DEF a
  <2> QED BY <2>1, <2>2
<1> HIDE DEF ct
<1>8. \E table \in [Registers -> Values] : Command(t(table), {})
  BY <1>2, <1>3, <1>5, <1>6, <1>7
<1>9. PICK table \in [Registers -> Values] : Command(t(table), {})
  BY <1>8
<1>10. t(table) \in Canvases
  BY <1>1, CanvasIs DEF Canvases
<1>12. Sound(t(table))
  <2>1. t(table).point_y = sc.point_y
    OBVIOUS
  <2> QED BY <1>1, <1>10, <2>1 DEF Sound
<1>11. ASSUME image.strayed = "no" PROVE Shows(t(table), E)
  <2> DEFINE u == t(table)
  <2>0. Shows(sc, E)
    BY <1>1, <1>11
  <2>1. u.pixmap = sc.pixmap /\ u.img_width = sc.img_width
        /\ u.point_y = sc.point_y /\ u.img_height = sc.img_height /\ u \in Canvases
    BY <1>10
  <2> HIDE DEF u
  <2>2. /\ sc.point_y % 6 = 0
        /\ sc.img_height % 6 = 0 \/ sc.img_height = PixH
        /\ sc.point_y + 6 <= PixH => sc.img_height >= sc.point_y + 6
    BY <2>0 DEF Shows, Sound
  <2>3. u.img_height >= sc.img_height
    BY <1>1, <2>1, CanvasIs
  <2>4. Shows(u, E)
    BY <2>0, <2>1, <2>2, <2>3, MoveShows
  <2> QED BY <2>4 DEF u
<1>13. t(table).width = sc.width
  OBVIOUS
<1> HIDE DEF t
<1> QED BY <1>1, <1>9, <1>11, <1>12, <1>13, QuietCommandKeeps DEF E

\* The raster attribute: what is drawn stays where it is.
LEMMA ImagedByRaster ==
  ASSUME Imaged, Drawing, NEW width \in SixelWidths, RasterAttribute(width)
  PROVE  Imaged'
<1> DEFINE sc == Canvas
           E == Seen(image.pixels)
           t == sixel_attr(sc, width)
<1>1. /\ Sound(sc) /\ sc \in Canvases /\ sc.width = image.width
      /\ image.strayed = "no" => Shows(sc, E)
  BY TheCanvas DEF ShowsDrawing, Sound
<1>2. /\ commands < MaxCommands /\ canvas' = {t} /\ commands' = commands + 1
      /\ image' = [image EXCEPT !.width = width]
  BY DEF RasterAttribute
<1>3. width \in 1 .. MaxRepeat
  BY SixelAssumption
<1> HIDE DEF sc, E
<1>7. t = [pixmap |-> sc.pixmap, width |-> width, height |-> sc.height,
           point_x |-> sc.point_x, point_y |-> sc.point_y, img_width |-> sc.img_width,
           img_height |-> sc.img_height, color_index |-> sc.color_index,
           color_table |-> sc.color_table]
  BY <1>1, CanvasIs DEF sixel_attr
<1> HIDE DEF t
<1>8. t \in Canvases
  BY <1>1, <1>3, <1>7, CanvasIs DEF Canvases
<1>10. /\ t.pixmap = sc.pixmap /\ t.point_y = sc.point_y /\ t.img_height = sc.img_height
       /\ t.img_width = sc.img_width
  BY <1>7
<1>11. Sound(t)
  BY <1>1, <1>8, <1>10 DEF Sound
<1>12. image.strayed = "no" => Shows(t, E)
  BY <1>1, <1>10, <1>11 DEF Shows
<1>13. image' = [width |-> width, pixels |-> image.pixels, strayed |-> image.strayed]
  BY <1>2 DEF Imaged
<1>14. /\ image'.width = width /\ image'.pixels = image.pixels
       /\ image'.strayed = image.strayed
       /\ image' = [width |-> image'.width, pixels |-> image'.pixels, strayed |-> image'.strayed]
  BY <1>13
<1>15. t.width = width
  BY <1>7
<1>16. image'.strayed = "no" => Shows(t, Seen(image'.pixels))
  BY <1>12, <1>14 DEF E
<1>17. commands' \in 1 .. MaxCommands
  BY <1>2, SixelAssumption DEF Drawing, Imaged
<1>18. image'.strayed \in {"no", "rows", "memory"}
  BY <1>14 DEF Imaged
<1> QED BY <1>2, <1>11, <1>14, <1>15, <1>16, <1>17, <1>18, ImagedWith

LEMMA ImagedByBegin ==
  ASSUME Imaged, BeginImage
  PROVE  Imaged'
<1> DEFINE t == reset_sixel(canvas)
<1>1. /\ canvas' = {t} /\ commands' = 1
      /\ image' = [NoImage EXCEPT !.strayed = IF image.strayed = "memory" THEN "memory" ELSE "no"]
  BY DEF BeginImage
<1>a. image'.width = PixW /\ image'.pixels = {} /\ image'.strayed \in {"no", "memory"}
      /\ image' = [width |-> image'.width, pixels |-> image'.pixels, strayed |-> image'.strayed]
  BY <1>1 DEF NoImage
<1>2. t = [pixmap |-> [p \in Pixels |-> Clear], width |-> PixW, height |-> PixH,
           point_x |-> 0, point_y |-> 0, img_width |-> 1, img_height |-> 6,
           color_index |-> 0, color_table |-> [i \in Registers |-> Preset(i)]]
  BY DEF reset_sixel
<1> HIDE DEF t
<1>3. 0 \in Registers /\ PixW \in 1 .. MaxRepeat /\ 1 \in 1 .. MaxRepeat
      /\ 0 \in 0 .. MaxRepeat /\ 0 \in Nat /\ 6 \in Nat
  BY SixelAssumption, PixelNumbers
<1>4. Clear \in Dots /\ ~ Clear.drawn
  BY DEF Clear, Dots
<1>5. [i \in Registers |-> Preset(i)] \in [Registers -> Values]
  BY DEF Values
<1>6. [p \in Pixels |-> Clear] \in [Pixels -> Dots]
  BY <1>4
<1>7. t \in Canvases
  BY <1>2, <1>3, <1>5, <1>6 DEF Canvases
<1>8. \A p \in Pixels : ~ t.pixmap[p].drawn
  BY <1>2, <1>4
<1>9. t.point_y = 0 /\ t.img_height = 6 /\ 0 % 6 = 0 /\ 6 % 6 = 0 /\ 6 >= 0 + 6 /\ t.width = PixW
  BY <1>2
<1>10. Sound(t) /\ Shows(t, {})
  BY <1>7, <1>8, <1>9 DEF Shows, Sound
<1>11. Seen({}) = {}
  BY DEF Seen
<1>12. Shows(t, Seen(image'.pixels)) /\ t.width = image'.width
  BY <1>a, <1>9, <1>10, <1>11
<1>13. commands' \in 1 .. MaxCommands
  BY <1>1, SixelAssumption
<1> QED BY <1>1, <1>a, <1>10, <1>12, <1>13, ImagedWith

\* A pixel's cell and its place in the cell.
LEMMA PartsOf ==
  ASSUME NEW x \in Nat, NEW w \in Nat, w >= 1
  PROVE  x \div w \in Nat /\ x % w \in 0 .. w - 1 /\ x = (x \div w) * w + (x % w)
BY Z3

LEMMA PartBelow ==
  ASSUME NEW x \in Nat, NEW w \in Nat, w >= 1, NEW n \in Nat, x < n * w
  PROVE  x \div w < n
<1>1. \A a, b \in Nat : a >= b => a * w >= b * w
  BY Z3
<1>2. x \div w \in Nat /\ x % w \in 0 .. w - 1 /\ x = (x \div w) * w + (x % w)
  BY PartsOf
<1>3. \A a \in Nat : a * w \in Nat
  BY Z3
<1> QED BY <1>1, <1>2, <1>3

LEMMA PartCovered ==
  ASSUME NEW x \in Nat, NEW w \in Nat, w >= 1, NEW n \in Nat, x < n
  PROVE  x \div w < Covering(n, w)
<1> DEFINE m == n + w - 1
           q == m \div w
<1>1. m \in Nat
  OBVIOUS
<1>2. q \in Nat /\ m % w \in 0 .. w - 1 /\ m = q * w + (m % w)
  BY <1>1, PartsOf
<1>3. Covering(n, w) = q
  BY DEF Covering
<1> HIDE DEF q
<1>4. q * w \in Nat
  BY <1>2, Z3
<1>5. x < q * w
  BY <1>2, <1>4
<1> QED BY <1>2, <1>3, <1>5, PartBelow

LEMMA ImagedByEnd ==
  ASSUME Imaged, EndImage
  PROVE  Imaged'
<1> DEFINE sc == Canvas
           E == Seen(image.pixels)
           Wanted == {px \in image.pixels : px.at[1] < image.width /\ OnCanvas(px.at)}
           Places == (0 .. CellW - 1) \X (0 .. CellH - 1)
           At(c, p) == <<c[1] * CellW + p[1], c[2] * CellH + p[2]>>
           cut == sixel_copy_to_cells(sc)
           Inks(c) == {[at |-> At(c, p), ink |-> cut[c][p]] :
                         p \in {q \in DOMAIN cut[c] : cut[c][q].drawn}}
           Inked == UNION {Inks(c) : c \in DOMAIN cut}
<1>1. Drawing /\ pixmaps' = cut /\ commands' = 0 /\ canvas' = canvas /\ image' = image
  BY DEF EndImage
<1>13. commands' \in 0 .. MaxCommands /\ ~Drawing'
  BY <1>1, SixelAssumption DEF Drawing
<1>14. canvas = {sc} /\ ShowsDrawing(sc)
  BY <1>1, TheCanvas
<1>15. SUFFICES CellsShowImage'
  <2>1. \A t : ShowsDrawing(t)' <=> ShowsDrawing(t)
    BY <1>1 DEF ShowsDrawing
  <2>2. \E t : canvas' = {t} /\ ShowsDrawing(t)'
    BY <1>1, <1>14, <2>1
  <2> QED BY <1>1, <1>13, <1>14, <2>2 DEF Imaged
<1>4. CellsShowImage' <=> (canvas # {} /\ image.strayed = "no" => Inked = Wanted)
  BY <1>1 DEF CellsShowImage, Drawing
<1>17. SUFFICES ASSUME image.strayed = "no" PROVE Inked = Wanted
  <2> HIDE DEF Inked, Wanted
  <2> QED BY <1>4
<1>2. sc \in Canvases /\ Shows(sc, E) /\ sc.width = image.width
  BY <1>14, <1>17 DEF ShowsDrawing, Sound
<1>3. \A px : px \in Wanted <=> px \in E /\ px.at[1] < sc.width
  BY <1>2 DEF Seen
<1> HIDE DEF sc, E, Wanted
<1>5. /\ sc.pixmap \in [Pixels -> Dots] /\ sc.width \in Nat /\ sc.height = PixH
      /\ sc.img_width \in Nat /\ sc.img_height \in Nat
  BY <1>2, CanvasIs
<1>6. cut = [c \in CopiedCells(sc) |-> CellPixmap(sc, c)] /\ DOMAIN cut = CopiedCells(sc)
  BY DEF sixel_copy_to_cells
<1>7. ASSUME NEW c \in CopiedCells(sc)
      PROVE  /\ DOMAIN cut[c] = Places
             /\ \A p \in Places :
                  cut[c][p] = IF At(c, p)[1] < sc.width /\ At(c, p)[2] < sc.height
                              THEN sc.pixmap[At(c, p)] ELSE Clear
  <2>1. cut[c] = CellPixmap(sc, c)
    BY <1>6
  <2> QED BY <2>1 DEF CellPixmap
<1> HIDE DEF cut
<1>8. ASSUME NEW px
      PROVE  px \in Inked <=> \E c \in CopiedCells(sc), p \in Places :
                                cut[c][p].drawn /\ px = [at |-> At(c, p), ink |-> cut[c][p]]
  <2> HIDE DEF At, Places
  <2>1. px \in Inked <=> \E c \in CopiedCells(sc) : px \in Inks(c)
    <3> HIDE DEF Inks
    <3> QED BY <1>6
  <2>2. \A c \in CopiedCells(sc) : px \in Inks(c) <=>
          \E p \in Places : cut[c][p].drawn /\ px = [at |-> At(c, p), ink |-> cut[c][p]]
    BY <1>7
  <2> HIDE DEF Inks, Inked
  <2> QED BY <2>1, <2>2
<1> HIDE DEF Inked, Inks
<1>9. ASSUME NEW c \in CopiedCells(sc), NEW p \in Places, cut[c][p].drawn
      PROVE  At(c, p) \in Pixels /\ At(c, p)[1] < sc.width /\ cut[c][p] = sc.pixmap[At(c, p)]
  <2>1. c \in Cells /\ c[1] \in 0 .. Cols - 1 /\ c[2] \in Nat
        /\ p[1] \in 0 .. CellW - 1 /\ p[2] \in Nat
    BY PixelNumbers DEF CopiedCells, Cells
  <2>2. \A a, b \in Nat : a * b \in Nat
    BY Z3
  <2>3. c[1] * CellW + p[1] \in Nat /\ c[2] * CellH + p[2] \in Nat
    BY <2>1, <2>2, PixelNumbers
  <2>4. ~ Clear.drawn
    BY DEF Clear
  <2>5. At(c, p)[1] < sc.width /\ At(c, p)[2] < sc.height
    BY <1>7, <1>9, <2>4
  <2>9. c[1] * CellW + p[1] < PixW
    <3>1. \A a, n, w \in Nat : a <= n - 1 => a * w + w <= n * w
      BY Z3
    <3>2. c[1] * CellW + CellW <= Cols * CellW
      BY <2>1, <3>1, PixelNumbers
    <3>3. c[1] * CellW \in Nat /\ Cols * CellW \in Nat
      BY <2>1, <2>2, PixelNumbers
    <3> QED BY <2>1, <3>2, <3>3, PixelNumbers DEF PixW
  <2>6. At(c, p)[1] \in 0 .. PixW - 1 /\ At(c, p)[2] \in 0 .. PixH - 1
    BY <1>5, <2>3, <2>5, <2>9, PixelNumbers
  <2>7. At(c, p) \in Pixels
    BY <2>6 DEF Pixels
  <2>8. cut[c][p] = sc.pixmap[At(c, p)]
    BY <1>7, <2>5
  <2> QED BY <2>5, <2>7, <2>8
<1>10. ASSUME NEW d \in Pixels, sc.pixmap[d].drawn, d[1] < sc.width
       PROVE  \E c \in CopiedCells(sc), p \in Places : At(c, p) = d /\ cut[c][p] = sc.pixmap[d]
  <2> DEFINE c == <<d[1] \div CellW, d[2] \div CellH>>
             p == <<d[1] % CellW, d[2] % CellH>>
  <2>1. d = <<d[1], d[2]>> /\ d[1] \in Nat /\ d[2] \in Nat /\ d[1] < PixW /\ d[2] < PixH
    BY PixelNumbers DEF Pixels
  <2>2. /\ c[1] \in Nat /\ p[1] \in 0 .. CellW - 1 /\ d[1] = c[1] * CellW + p[1]
        /\ c[2] \in Nat /\ p[2] \in 0 .. CellH - 1 /\ d[2] = c[2] * CellH + p[2]
    BY <2>1, PartsOf, PixelNumbers
  <2>3. c[1] < Cols /\ c[2] < Rows
    BY <2>1, PartBelow, PixelNumbers DEF PixW, PixH
  <2>4. d[1] < sc.width /\ d[1] < sc.img_width /\ d[2] < sc.img_height
    BY <1>2, <1>10 DEF Shows
  <2>5. sc.img_width \in Nat /\ sc.img_height \in Nat
    BY <1>5
  <2>6. c[1] < Covering(sc.img_width, CellW) /\ c[2] < Covering(sc.img_height, CellH)
    BY <2>1, <2>4, <2>5, PartCovered, PixelNumbers
  <2> HIDE DEF c, p
  <2>7. c \in Cells /\ p \in Places
    <3>1. c[1] \in 0 .. Cols - 1 /\ c[2] \in 0 .. Rows - 1
      BY <2>2, <2>3, PixelNumbers
    <3>2. c = <<c[1], c[2]>> /\ p = <<p[1], p[2]>>
      BY DEF c, p
    <3> QED BY <2>2, <3>1, <3>2 DEF Cells
  <2>8. c \in CopiedCells(sc)
    BY <2>6, <2>7 DEF CopiedCells
  <2>9. At(c, p) = d
    BY <2>1, <2>2
  <2>10. cut[c][p] = sc.pixmap[d]
    BY <1>5, <1>7, <2>1, <2>4, <2>7, <2>8, <2>9
  <2> QED BY <2>7, <2>8, <2>9, <2>10
<1> HIDE DEF At, Places
<1>11. ASSUME NEW px PROVE px \in Inked <=> px \in E /\ px.at[1] < sc.width
  <2>1. px \in E <=> \E d \in Pixels : sc.pixmap[d].drawn /\ px = [at |-> d, ink |-> sc.pixmap[d]]
    BY <1>2 DEF Shows
  <2>2. ASSUME px \in Inked PROVE px \in E /\ px.at[1] < sc.width
    <3>1. PICK c \in CopiedCells(sc), p \in Places :
            cut[c][p].drawn /\ px = [at |-> At(c, p), ink |-> cut[c][p]]
      BY <1>8, <2>2
    <3>2. At(c, p) \in Pixels /\ At(c, p)[1] < sc.width /\ cut[c][p] = sc.pixmap[At(c, p)]
      BY <1>9, <3>1
    <3> QED BY <2>1, <3>1, <3>2
  <2>3. ASSUME px \in E, px.at[1] < sc.width PROVE px \in Inked
    <3>1. PICK d \in Pixels : sc.pixmap[d].drawn /\ px = [at |-> d, ink |-> sc.pixmap[d]]
      BY <2>1, <2>3
    <3>3. d[1] < sc.width
      BY <2>3, <3>1
    <3>2. PICK c \in CopiedCells(sc), p \in Places : At(c, p) = d /\ cut[c][p] = sc.pixmap[d]
      BY <1>10, <3>1, <3>3
    <3> QED BY <1>8, <3>1, <3>2
  <2> QED BY <2>2, <2>3
<1> QED BY <1>3, <1>11

LEMMA ImagedStarts == SixelInit => Imaged
<1> SUFFICES ASSUME SixelInit PROVE Imaged
  OBVIOUS
<1>1. commands = 0 /\ 0 \in 0 .. MaxCommands /\ canvas = {} /\ image.strayed = "no"
      /\ image = [width |-> image.width, pixels |-> image.pixels, strayed |-> image.strayed]
  BY SixelAssumption DEF SixelInit, NoImage
<1>2. CellsShowImage
  BY <1>1 DEF CellsShowImage
<1> QED BY <1>1, <1>2 DEF Imaged, Drawing

LEMMA SixelSteps ==
  ASSUME Imaged, SixelNext
  PROVE  Imaged'
<1>1. CASE BeginImage
  BY <1>1, ImagedByBegin
<1>2. CASE EndImage
  BY <1>2, ImagedByEnd
<1>3. CASE Drawing /\ CarriageReturn
  BY <1>3, ImagedByReturn
<1>4. CASE Drawing /\ NewLine
  BY <1>4, ImagedByNewLine
<1>5. CASE Drawing /\ \E bits \in SixelBits :
             DrawSixel(bits) \/ \E n \in Counts : RepeatSixel(n, bits)
  BY <1>5, ImagedByBits, ImagedByRepeat
<1>6. CASE Drawing /\ \E width \in SixelWidths : RasterAttribute(width)
  BY <1>6, ImagedByRaster
<1>7. CASE Drawing /\ \E i \in Registers : SelectColour(i) \/ DefineColour(i)
  BY <1>7, ImagedByColour
<1> QED BY <1>1, <1>2, <1>3, <1>4, <1>5, <1>6, <1>7 DEF SixelNext

LEMMA ImagedIsShown ==
  ASSUME Imaged
  PROVE  SixelTypeOK /\ CellsShowImage
<1>1. CASE canvas = {}
  BY <1>1 DEF Imaged, SixelTypeOK
<1>2. CASE canvas # {}
  <2>1. PICK sc : canvas = {sc} /\ Sound(sc)
    BY <1>2 DEF Imaged, ShowsDrawing
  <2>2. Canvas = sc
    BY <2>1 DEF Canvas
  <2>3. sc \in Canvases /\ sc.point_y % 6 = 0
    BY <2>1 DEF Sound
  <2>4. sc.img_width \in 1 .. MaxRepeat /\ sc.point_x \in 0 .. MaxRepeat /\ sc.color_index \in Registers
        /\ DOMAIN sc.pixmap = Pixels
    BY <2>3, CanvasIs
  <2> QED BY <2>2, <2>3, <2>4 DEF Imaged, SixelTypeOK
<1> QED BY <1>1, <1>2

-----------------------------------------------------------------------------
(* The cursor                                                              *)

Places == [x : 0 .. TermW, y : 0 .. TermH - 1, top : Nat, bot : 0 .. TermH - 1,
           saved : (0 .. TermW) \X (0 .. TermH - 1), tabs : SUBSET (0 .. TermW),
           relative : BOOLEAN, crlf : BOOLEAN]

\* A row has at most one right half (it is where the last character ended),
\* and the cursor does not stand on it.
OffHalves(p, halves) ==
  /\ \A c, d \in halves : c[2] = d[2] => c = d
  /\ halves \subseteq Int \X Int
  /\ p.x > 0 => <<p.x, p.y>> \notin halves

\* What the last action is said to have done.
ActionsHold ==
  /\ pos.x = TermW => motion.op \in {"text", "lf", "ri", "set", "clear", "save", "mode", "margins"}
  /\ Cursor!TabStops /\ Cursor!MarginsHold /\ Cursor!DirectionKept /\ Cursor!PositionComesBack

Placed == pos \in Places /\ OffHalves(pos, rights)

\* The inductive invariant.
CursorKept == Placed /\ ActionsHold

LEMMA PlaceIs ==
  ASSUME NEW p \in Places
  PROVE  /\ p = [x |-> p.x, y |-> p.y, top |-> p.top, bot |-> p.bot, saved |-> p.saved,
                 tabs |-> p.tabs, relative |-> p.relative, crlf |-> p.crlf]
         /\ p.x \in 0 .. TermW /\ p.y \in 0 .. TermH - 1 /\ p.top \in Nat
         /\ p.bot \in 0 .. TermH - 1 /\ p.saved \in (0 .. TermW) \X (0 .. TermH - 1)
         /\ p.tabs \in SUBSET (0 .. TermW) /\ p.relative \in BOOLEAN /\ p.crlf \in BOOLEAN
BY DEF Places

\* Where move_cursor goes: to the place asked for, taken as two words and cut
\* to the screen, or left of it.
CutX(x) == IF x % Cursor!Words >= TermW THEN TermW - 1 ELSE x % Cursor!Words
CutY(y) == IF y % Cursor!Words >= TermH THEN TermH - 1 ELSE y % Cursor!Words

LEMMA WordIs ==
  /\ Cursor!Words \in Nat /\ Cursor!Words >= 1
  /\ \A x \in Int : /\ x % Cursor!Words \in 0 .. Cursor!Words - 1
                   /\ x \in 0 .. Cursor!Words - 1 => x % Cursor!Words = x
<1>1. Cursor!Words \in Nat /\ Cursor!Words >= 1
  BY DEF Cursor!Words
<1>2. \A x, w \in Int : w >= 1 => x % w \in 0 .. w - 1 /\ (x \in 0 .. w - 1 => x % w = x)
  BY Z3
<1>3. ASSUME NEW x \in Int
      PROVE  /\ x % Cursor!Words \in 0 .. Cursor!Words - 1
             /\ x \in 0 .. Cursor!Words - 1 => x % Cursor!Words = x
  <2> DEFINE w == Cursor!Words
  <2>1. w \in Int /\ w >= 1
    BY <1>1
  <2> HIDE DEF w
  <2>2. x % w \in 0 .. w - 1 /\ (x \in 0 .. w - 1 => x % w = x)
    BY <1>2, <2>1
  <2> QED BY <2>2 DEF w
<1> QED BY <1>1, <1>3

LEMMA CutIs ==
  ASSUME NEW x \in Int
  PROVE  /\ CutX(x) \in 0 .. TermW - 1 /\ CutY(x) \in 0 .. TermH - 1
<1>1. TermW \in 1 .. Cursor!Words - 1 /\ TermH \in 1 .. Cursor!Words - 1
  BY MotionAssumption
<1>2. /\ Cursor!Words \in Nat /\ x % Cursor!Words \in 0 .. Cursor!Words - 1
      /\ x \in 0 .. Cursor!Words - 1 => x % Cursor!Words = x
  BY WordIs
<1> QED BY <1>1, <1>2 DEF CutX, CutY

LEMMA CutKeeps ==
  /\ \A x \in 0 .. TermW : CutX(x) = IF x < TermW THEN x ELSE TermW - 1
  /\ \A y \in 0 .. TermH : CutY(y) = IF y < TermH THEN y ELSE TermH - 1
<1>1. TermW \in 1 .. Cursor!Words - 1 /\ TermH \in 1 .. Cursor!Words - 1 /\ Cursor!Words \in Nat
  BY MotionAssumption, WordIs
<1>2. ASSUME NEW x \in 0 .. TermW PROVE x % Cursor!Words = x
  <2>1. x \in 0 .. Cursor!Words - 1 /\ x \in Int
    BY <1>1
  <2> QED BY <2>1, WordIs
<1>3. ASSUME NEW y \in 0 .. TermH PROVE y % Cursor!Words = y
  <2>1. y \in 0 .. Cursor!Words - 1 /\ y \in Int
    BY <1>1
  <2> QED BY <2>1, WordIs
<1>4. ASSUME NEW x \in 0 .. TermW PROVE CutX(x) = IF x < TermW THEN x ELSE TermW - 1
  BY <1>1, <1>2 DEF CutX
<1>5. ASSUME NEW y \in 0 .. TermH PROVE CutY(y) = IF y < TermH THEN y ELSE TermH - 1
  BY <1>1, <1>3 DEF CutY
<1> QED BY <1>4, <1>5

LEMMA MoveIs ==
  ASSUME NEW p \in Places, NEW x \in Int, NEW y \in Int,
         \A c, d \in rights : c[2] = d[2] => c = d
  PROVE  LET m == Cursor!move_cursor(p, x, y)
             half == CutX(x) > 0 /\ <<CutX(x), CutY(y)>> \in rights
         IN  /\ m \in Places
             /\ m.x = IF half THEN CutX(x) - 1 ELSE CutX(x)
             /\ m.x \in 0 .. TermW - 1 /\ m.y = CutY(y)
             /\ m.top = p.top /\ m.bot = p.bot /\ m.saved = p.saved /\ m.tabs = p.tabs
             /\ m.relative = p.relative /\ m.crlf = p.crlf
             /\ m.x > 0 => <<m.x, m.y>> \notin rights
<1> DEFINE half == CutX(x) > 0 /\ <<CutX(x), CutY(y)>> \in rights
           tx == IF half THEN CutX(x) - 1 ELSE CutX(x)
           m == Cursor!move_cursor(p, x, y)
           a == [p EXCEPT !.x = tx]
           b == [a EXCEPT !.y = CutY(y)]
<1>1. m = b
  BY PlaceIs DEF Cursor!move_cursor, Cursor!U16, CutX, CutY
<1>2. /\ p = [x |-> p.x, y |-> p.y, top |-> p.top, bot |-> p.bot, saved |-> p.saved,
              tabs |-> p.tabs, relative |-> p.relative, crlf |-> p.crlf]
      /\ p.top \in Nat
      /\ p.bot \in 0 .. TermH - 1 /\ p.saved \in (0 .. TermW) \X (0 .. TermH - 1)
      /\ p.tabs \in SUBSET (0 .. TermW) /\ p.relative \in BOOLEAN /\ p.crlf \in BOOLEAN
  BY PlaceIs
<1>3. CutX(x) \in 0 .. TermW - 1 /\ CutY(y) \in 0 .. TermH - 1 /\ TermW \in Nat
  BY CutIs, MotionAssumption
<1>4. tx \in 0 .. TermW - 1 /\ tx \in 0 .. TermW
  BY <1>3
<1>5. tx > 0 => <<tx, CutY(y)>> \notin rights
  <2>1. CASE half
    <3>1. tx # CutX(x) /\ <<tx, CutY(y)>> # <<CutX(x), CutY(y)>>
      BY <1>3, <2>1
    <3> QED BY <2>1, <3>1
  <2>2. CASE ~half
    BY <2>2
  <2> QED BY <2>1, <2>2
<1> HIDE DEF m, tx
<1>6. a = [x |-> tx, y |-> p.y, top |-> p.top, bot |-> p.bot, saved |-> p.saved,
           tabs |-> p.tabs, relative |-> p.relative, crlf |-> p.crlf]
  BY <1>2
<1> HIDE DEF a
<1>7. m = [x |-> tx, y |-> CutY(y), top |-> p.top, bot |-> p.bot, saved |-> p.saved,
           tabs |-> p.tabs, relative |-> p.relative, crlf |-> p.crlf]
  BY <1>1, <1>6
<1>8. m \in Places
  BY <1>2, <1>3, <1>4, <1>7 DEF Places
<1> QED BY <1>4, <1>5, <1>7, <1>8 DEF m, tx

LEMMA DoesIs ==
  ASSUME NEW op, NEW arg, NEW t, Cursor!Does(op, arg, t)
  PROVE  /\ pos' = t /\ motion'.op = op /\ motion'.arg = arg /\ motion'.from = pos
BY DEF Cursor!Does

\* The actions of which nothing is said but where they may end.
LEMMA NothingSaid ==
  ASSUME motion'.op \notin {"tab", "lf", "ri", "down", "up", "right", "left", "position", "restore"},
         pos'.x # TermW \/ motion'.op \in {"text", "set", "clear", "save", "mode", "margins"}
  PROVE  ActionsHold'
BY DEF ActionsHold, Cursor!TabStops, Cursor!MarginsHold, Cursor!DirectionKept,
       Cursor!PositionComesBack

\* What is said of the actions that move.
LEMMA MoveSaid ==
  ASSUME pos'.x # TermW, motion'.op \notin {"tab", "lf", "ri", "position", "restore"},
         motion'.op = "down" /\ motion'.arg + motion'.from.y < Cursor!Words => pos'.y >= motion'.from.y,
         motion'.op = "up" => pos'.y <= motion'.from.y,
         motion'.op = "right" /\ motion'.arg + motion'.from.x < Cursor!Words /\ motion'.from.x < TermW =>
           pos'.x >= motion'.from.x,
         motion'.op = "left" => pos'.x <= motion'.from.x
  PROVE  ActionsHold'
BY DEF ActionsHold, Cursor!TabStops, Cursor!MarginsHold, Cursor!DirectionKept,
       Cursor!PositionComesBack

\* A move while no line scrolls.
LEMMA MovePlaced ==
  ASSUME Placed, NEW p \in Places, NEW x \in Int, NEW y \in Int,
         pos' = Cursor!move_cursor(p, x, y), rights' = rights
  PROVE  /\ Placed'
         /\ pos'.x \in 0 .. TermW - 1 /\ pos'.y = CutY(y)
         /\ pos'.x = IF CutX(x) > 0 /\ <<CutX(x), CutY(y)>> \in rights
                     THEN CutX(x) - 1 ELSE CutX(x)
         /\ pos'.top = p.top /\ pos'.bot = p.bot /\ pos'.tabs = p.tabs
<1> DEFINE m == Cursor!move_cursor(p, x, y)
<1>1. /\ m \in Places
      /\ m.x = IF CutX(x) > 0 /\ <<CutX(x), CutY(y)>> \in rights THEN CutX(x) - 1 ELSE CutX(x)
      /\ m.x \in 0 .. TermW - 1 /\ m.y = CutY(y)
      /\ m.top = p.top /\ m.bot = p.bot /\ m.tabs = p.tabs
      /\ m.x > 0 => <<m.x, m.y>> \notin rights
  BY MoveIs DEF Placed, OffHalves
<1> HIDE DEF m
<1>2. OffHalves(m, rights)
  BY <1>1 DEF Placed, OffHalves
<1>3. pos' = m
  BY DEF m
<1> QED BY <1>1, <1>2, <1>3 DEF Placed

\* The numbers of the cursor.
LEMMA PosIs ==
  ASSUME Placed
  PROVE  /\ pos.x \in 0 .. TermW /\ pos.y \in 0 .. TermH - 1 /\ pos.top \in Nat
         /\ pos.bot \in 0 .. TermH - 1 /\ pos.tabs \in SUBSET (0 .. TermW)
         /\ TermW \in 1 .. Cursor!Words - 1 /\ TermH \in 1 .. Cursor!Words - 1
         /\ pos.saved \in (0 .. TermW) \X (0 .. TermH - 1)
BY PlaceIs, MotionAssumption DEF Placed

LEMMA MovedByReturn ==
  ASSUME CursorKept, Cursor!cr \/ Cursor!bs
  PROVE  CursorKept'
<1>1. /\ pos.x \in 0 .. TermW /\ pos.y \in 0 .. TermH - 1
      /\ TermW \in 1 .. Cursor!Words - 1 /\ TermH \in 1 .. Cursor!Words - 1
  BY PosIs DEF CursorKept
<1>2. CASE Cursor!cr
  <2>1. pos' = Cursor!move_cursor(pos, 0, pos.y) /\ motion'.op = "cr" /\ rights' = rights
        /\ 0 \in Int /\ pos.y \in Int
    BY <1>1,  <1>2, DoesIs DEF Cursor!cr, Cursor!Stays
  <2>2. Placed' /\ pos'.x \in 0 .. TermW - 1
    BY <1>1, <2>1, MovePlaced DEF CursorKept, Placed
  <2>3. ActionsHold'
    BY <1>1, <2>1, <2>2, NothingSaid
  <2> QED BY <2>2, <2>3 DEF CursorKept
<1>3. CASE Cursor!bs
  <2> DEFINE x == pos.x - 1
             to == IF x > 0 /\ <<x, pos.y>> \in rights THEN x - 1 ELSE x
  <2>1. pos' = Cursor!move_cursor(pos, to, pos.y) /\ motion'.op = "bs" /\ rights' = rights
        /\ to \in Int /\ pos.y \in Int
    BY <1>1, <1>3, DoesIs DEF Cursor!bs, Cursor!Stays
  <2> HIDE DEF to
  <2>2. Placed' /\ pos'.x \in 0 .. TermW - 1
    BY <1>1, <2>1, MovePlaced DEF CursorKept, Placed
  <2>3. ActionsHold'
    BY <1>1, <2>1, <2>2, NothingSaid
  <2> QED BY <2>2, <2>3 DEF CursorKept
<1> QED BY <1>2, <1>3


\* Line feeds: only the margins matter.
LEMMA FeedSaid ==
  ASSUME motion'.op \in {"lf", "ri"}, motion'.from = pos,
         pos.y \in pos.top .. pos.bot => pos'.y \in pos'.top .. pos'.bot
  PROVE  ActionsHold'
BY DEF ActionsHold, Cursor!TabStops, Cursor!MarginsHold, Cursor!DirectionKept,
       Cursor!PositionComesBack

\* The halves of the lines between the margins move by a line; the line that
\* comes in at the cursor's side has none.
LEMMA ScrollPlaced ==
  ASSUME Placed, NEW n \in {1, -1}, NEW p \in Places,
         n = 1 => pos.y >= pos.bot, n = -1 => pos.y <= pos.top,
         p.y = pos.y, p.x = pos.x \/ p.x = 0
  PROVE  OffHalves(p, Cursor!Scrolled(n))
<1> DEFINE region == pos.top .. pos.bot
           old == {c \in rights : c[2] \notin region}
           up == {<<d[1], d[2] - n>> : d \in {e \in rights : e[2] \in region}}
           moved == {c \in up : c[2] \in region}
<1>1. /\ pos.x \in 0 .. TermW /\ pos.y \in 0 .. TermH - 1 /\ pos.top \in Nat
      /\ pos.bot \in 0 .. TermH - 1 /\ TermH \in Nat /\ n \in Int
  BY PosIs
<1>2. Cursor!Scrolled(n) = IF pos.bot <= pos.top THEN rights ELSE old \cup moved
  <2>1. ~(pos.bot >= TermH)
    BY <1>1
  <2> QED BY <2>1, Zenon DEF Cursor!Scrolled
<1>3. /\ \A c, d \in rights : c[2] = d[2] => c = d
      /\ rights \subseteq Int \X Int
      /\ pos.x > 0 => <<pos.x, pos.y>> \notin rights
  BY DEF Placed, OffHalves
<1>4. \A c \in moved : \E d \in rights : d[2] \in region /\ c = <<d[1], d[2] - n>>
  OBVIOUS
<1>5. \A c \in moved : c[2] \in region /\ c \in Int \X Int
  <2> SUFFICES ASSUME NEW c \in moved PROVE c \in Int \X Int
    OBVIOUS
  <2>1. PICK d \in rights : c = <<d[1], d[2] - n>>
    BY <1>4
  <2>2. d[1] \in Int /\ d[2] - n \in Int
    BY <1>1, <1>3
  <2> QED BY <2>1, <2>2
<1>6. \A c \in old : c \in rights /\ c[2] \notin region
  OBVIOUS
<1> HIDE DEF old, up, moved
<1>7. ASSUME NEW c \in old \cup moved, NEW d \in old \cup moved, c[2] = d[2]
      PROVE  c = d
  <2>1. CASE c \in old /\ d \in old
    BY <1>3, <1>6, <1>7, <2>1
  <2>2. CASE c \in moved /\ d \in moved
    <3>1. PICK e \in rights : c = <<e[1], e[2] - n>>
      BY <1>4, <2>2
    <3>2. PICK f \in rights : d = <<f[1], f[2] - n>>
      BY <1>4, <2>2
    <3>3. e[2] \in Int /\ f[2] \in Int
      BY <1>3
    <3>4. e[2] = f[2]
      BY <1>1, <1>7, <3>1, <3>2, <3>3
    <3> QED BY <1>3, <3>1, <3>2, <3>4
  <2> QED BY <1>5, <1>6, <1>7, <2>1, <2>2
<1>8. ASSUME p.x > 0, <<p.x, p.y>> \in old \cup moved
      PROVE  FALSE
  <2>1. p.x = pos.x
    BY <1>8
  <2>2. <<p.x, p.y>> \in moved
    BY <1>3, <1>6, <1>8, <2>1
  <2>3. PICK d \in rights : d[2] \in region /\ <<p.x, p.y>> = <<d[1], d[2] - n>>
    BY <1>4, <2>2
  <2>4. pos.y \in region
    BY <1>5, <2>2
  <2>5. d[2] \in Int /\ pos.y = d[2] - n
    BY <1>3, <2>3
  <2> QED BY <1>1, <2>3, <2>4, <2>5
<1>9. old \cup moved \subseteq Int \X Int
  BY <1>3, <1>5, <1>6
<1>10. OffHalves(p, rights)
  BY <1>3 DEF OffHalves
<1>11. OffHalves(p, old \cup moved)
  BY <1>7, <1>8, <1>9 DEF OffHalves
<1> QED BY <1>2, <1>10, <1>11

\* ReturnIf, on a place of the row the cursor is in.
LEMMA ReturnIs ==
  ASSUME Placed, NEW p \in Places, NEW flag \in BOOLEAN,
         p.x > 0 => <<p.x, p.y>> \notin rights
  PROVE  LET m == Cursor!ReturnIf(flag, p)
         IN  /\ m \in Places /\ m.y = p.y /\ m.top = p.top /\ m.bot = p.bot
             /\ m.x = p.x \/ m.x = 0
             /\ m.x > 0 => <<m.x, m.y>> \notin rights
<1>1. CASE ~flag
  BY <1>1 DEF Cursor!ReturnIf
<1>2. CASE flag
  <2> DEFINE m == Cursor!move_cursor(p, 0, p.y)
  <2>1. p.y \in 0 .. TermH - 1 /\ p.y \in Int /\ 0 \in Int /\ TermH \in 1 .. Cursor!Words - 1
        /\ TermW \in 1 .. Cursor!Words - 1 /\ Cursor!Words \in Nat
    BY PlaceIs, MotionAssumption, WordIs
  <2>2. CutX(0) = 0 /\ CutY(p.y) = p.y
    <3>1. 0 \in 0 .. TermW /\ p.y \in 0 .. TermH /\ 0 < TermW /\ p.y < TermH
      BY <2>1
    <3>2. CutX(0) = 0
      BY <3>1, CutKeeps
    <3>3. CutY(p.y) = p.y
      BY <3>1, CutKeeps
    <3> QED BY <3>2, <3>3
  <2>a. \A c, d \in rights : c[2] = d[2] => c = d
    BY DEF Placed, OffHalves
  <2>3. /\ m \in Places /\ m.y = CutY(p.y) /\ m.top = p.top /\ m.bot = p.bot
        /\ m.x = IF CutX(0) > 0 /\ <<CutX(0), CutY(p.y)>> \in rights THEN CutX(0) - 1 ELSE CutX(0)
    BY ZenonT(60), <2>1, <2>a, MoveIs
  <2>4. Cursor!ReturnIf(flag, p) = m
    BY <1>2 DEF Cursor!ReturnIf
  <2> HIDE DEF m
  <2> QED BY <2>2, <2>3, <2>4
<1> QED BY <1>1, <1>2

LEMMA MovedByFeed ==
  ASSUME CursorKept, Cursor!lf \/ Cursor!next_line \/ Cursor!index_up
  PROVE  CursorKept'
<1>1. /\ Placed /\ pos \in Places /\ pos.x \in 0 .. TermW /\ pos.y \in 0 .. TermH - 1
      /\ pos.top \in Nat /\ pos.bot \in 0 .. TermH - 1 /\ TermH \in Nat /\ TermW \in Nat
      /\ pos.crlf \in BOOLEAN /\ TermW >= 1
      /\ pos.x > 0 => <<pos.x, pos.y>> \notin rights
      /\ \A c, d \in rights : c[2] = d[2] => c = d
  BY PosIs, PlaceIs DEF CursorKept, Placed, OffHalves
<1>2. CASE Cursor!lf
  <2>1. CASE pos.y < pos.bot
    <3> DEFINE p == Cursor!move_cursor(pos, pos.x, pos.y + 1)
               m == Cursor!ReturnIf(pos.crlf, p)
    <3>1. pos' = m /\ motion'.op = "lf" /\ motion'.from = pos /\ rights' = rights
      BY <1>2, <2>1, DoesIs DEF Cursor!lf
    <3>2. pos.x \in Int /\ pos.y + 1 \in Int /\ pos.y + 1 \in 0 .. TermH /\ pos.y + 1 < TermH
      BY <1>1, <2>1
    <3>3. /\ p \in Places /\ p.y = CutY(pos.y + 1) /\ p.top = pos.top /\ p.bot = pos.bot
          /\ p.x > 0 => <<p.x, p.y>> \notin rights
      BY ZenonT(60), <1>1, <3>2, MoveIs
    <3>4. p.y = pos.y + 1
      BY <3>2, <3>3, CutKeeps
    <3> HIDE DEF p
    <3>5. /\ m \in Places /\ m.y = p.y /\ m.top = p.top /\ m.bot = p.bot
          /\ m.x > 0 => <<m.x, m.y>> \notin rights
      BY <1>1, <3>3, ReturnIs
    <3> HIDE DEF m
    <3>6. Placed'
      BY <1>1, <3>1, <3>5 DEF Placed, OffHalves
    <3>7. pos.y \in pos.top .. pos.bot => pos'.y \in pos'.top .. pos'.bot
      BY <1>1, <2>1, <3>1, <3>3, <3>4, <3>5
    <3> QED BY <3>1, <3>6, <3>7, FeedSaid DEF CursorKept
  <2>2. CASE ~(pos.y < pos.bot)
    <3> DEFINE m == Cursor!ReturnIf(pos.crlf, pos)
    <3>1. pos' = m /\ motion'.op = "lf" /\ motion'.from = pos /\ rights' = Cursor!Scrolled(1)
      BY <1>2, <2>2, DoesIs DEF Cursor!lf
    <3>2. /\ m \in Places /\ m.y = pos.y /\ m.top = pos.top /\ m.bot = pos.bot
          /\ m.x = pos.x \/ m.x = 0
      BY <1>1, ReturnIs
    <3> HIDE DEF m
    <3>3. OffHalves(m, Cursor!Scrolled(1))
      <4>1. 1 \in {1, -1} /\ pos.y >= pos.bot /\ 1 # -1
        BY <1>1, <2>2
      <4> QED BY <1>1, <3>2, <4>1, ScrollPlaced
    <3>4. Placed'
      BY <3>1, <3>2, <3>3 DEF Placed
    <3>5. pos.y \in pos.top .. pos.bot => pos'.y \in pos'.top .. pos'.bot
      BY <3>1, <3>2
    <3> QED BY <3>1, <3>4, <3>5, FeedSaid DEF CursorKept
  <2> QED BY <2>1, <2>2
<1>3. CASE Cursor!next_line
  <2>1. CASE pos.y < pos.bot
    <3> DEFINE p == Cursor!move_cursor(pos, pos.x, pos.y + 1)
    <3>1. pos' = Cursor!move_cursor(p, 0, pos.y + 1) /\ motion'.op = "lf" /\ motion'.from = pos
          /\ rights' = rights
      BY <1>3, <2>1, DoesIs DEF Cursor!next_line
    <3>2. pos.x \in Int /\ 0 \in Int /\ pos.y + 1 \in Int /\ pos.y + 1 \in 0 .. TermH
          /\ pos.y + 1 < TermH
      BY <1>1, <2>1
    <3>3. p \in Places /\ p.top = pos.top /\ p.bot = pos.bot
      BY ZenonT(60), <1>1, <3>2, MoveIs
    <3> HIDE DEF p
    <3>4. Placed' /\ pos'.y = CutY(pos.y + 1) /\ pos'.top = p.top /\ pos'.bot = p.bot
      BY <1>1, <3>1, <3>2, <3>3, MovePlaced
    <3>5. CutY(pos.y + 1) = pos.y + 1
      BY <3>2, CutKeeps
    <3>6. pos.y \in pos.top .. pos.bot => pos'.y \in pos'.top .. pos'.bot
      BY <1>1, <2>1, <3>3, <3>4, <3>5
    <3> QED BY <3>1, <3>4, <3>6, FeedSaid DEF CursorKept
  <2>2. CASE ~(pos.y < pos.bot)
    <3> DEFINE m == Cursor!move_cursor(pos, 0, pos.y)
    <3>1. pos' = m /\ motion'.op = "lf" /\ motion'.from = pos /\ rights' = Cursor!Scrolled(1)
      BY <1>3, <2>2, DoesIs DEF Cursor!next_line
    <3>2. m = Cursor!ReturnIf(TRUE, pos) /\ TRUE \in BOOLEAN
      BY DEF Cursor!ReturnIf
    <3>3. /\ Cursor!ReturnIf(TRUE, pos) \in Places /\ Cursor!ReturnIf(TRUE, pos).y = pos.y
          /\ Cursor!ReturnIf(TRUE, pos).top = pos.top /\ Cursor!ReturnIf(TRUE, pos).bot = pos.bot
          /\ Cursor!ReturnIf(TRUE, pos).x = pos.x \/ Cursor!ReturnIf(TRUE, pos).x = 0
      BY <1>1, <3>2, ReturnIs
    <3> HIDE DEF m
    <3>4. /\ m \in Places /\ m.y = pos.y /\ m.top = pos.top /\ m.bot = pos.bot
          /\ m.x = pos.x \/ m.x = 0
      BY <3>2, <3>3
    <3>5. OffHalves(m, Cursor!Scrolled(1))
      <4>1. 1 \in {1, -1} /\ pos.y >= pos.bot /\ 1 # -1
        BY <1>1, <2>2
      <4> QED BY <1>1, <3>4, <4>1, ScrollPlaced
    <3>6. Placed'
      BY <3>1, <3>4, <3>5 DEF Placed
    <3>7. pos.y \in pos.top .. pos.bot => pos'.y \in pos'.top .. pos'.bot
      BY <3>1, <3>4
    <3> QED BY <3>1, <3>6, <3>7, FeedSaid DEF CursorKept
  <2> QED BY <2>1, <2>2
<1>4. CASE Cursor!index_up
  <2>1. CASE pos.y > pos.top
    <3>1. pos' = Cursor!move_cursor(pos, pos.x, pos.y - 1) /\ motion'.op = "ri"
          /\ motion'.from = pos /\ rights' = rights
      BY <1>4, <2>1, DoesIs DEF Cursor!index_up
    <3>2. pos.x \in Int /\ pos.y - 1 \in Int /\ pos.y - 1 \in 0 .. TermH /\ pos.y - 1 < TermH
      BY <1>1, <2>1
    <3>3. Placed' /\ pos'.y = CutY(pos.y - 1) /\ pos'.top = pos.top /\ pos'.bot = pos.bot
      BY ZenonT(60), <1>1, <3>1, <3>2, MovePlaced
    <3>4. CutY(pos.y - 1) = pos.y - 1
      BY <3>2, CutKeeps
    <3>5. pos.y \in pos.top .. pos.bot => pos'.y \in pos'.top .. pos'.bot
      BY <1>1, <2>1, <3>3, <3>4
    <3> QED BY <3>1, <3>3, <3>5, FeedSaid DEF CursorKept
  <2>2. CASE ~(pos.y > pos.top)
    <3>1. pos' = pos /\ motion'.op = "ri" /\ motion'.from = pos /\ rights' = Cursor!Scrolled(-1)
      BY <1>4, <2>2, DoesIs DEF Cursor!index_up
    <3>2. OffHalves(pos, Cursor!Scrolled(-1))
      <4>1. -1 \in {1, -1} /\ pos.y <= pos.top /\ -1 # 1
        BY <1>1, <2>2
      <4> QED BY <1>1, <4>1, ScrollPlaced
    <3>3. Placed'
      BY <1>1, <3>1, <3>2 DEF Placed
    <3> QED BY <3>1, <3>3, FeedSaid DEF CursorKept
  <2> QED BY <2>1, <2>2
<1> QED BY <1>2, <1>3, <1>4

\* The next tab stop.
LEMMA StopIs ==
  ASSUME Placed
  PROVE  LET s == Cursor!NextStop(pos.x)
         IN  /\ s \in Nat /\ s > pos.x
             /\ \A i \in pos.tabs : i > pos.x /\ i < TermW => s <= i
             /\ s \in pos.tabs \/ s % 8 = 0
<1> DEFINE ahead == {i \in pos.tabs : i > pos.x /\ i < TermW}
           s == Cursor!NextStop(pos.x)
<1>1. pos.x \in Nat /\ pos.tabs \subseteq Nat
  BY PosIs
<1>2. CASE ahead = {}
  <2>1. s = ((pos.x + 8) \div 8) * 8
    BY <1>2 DEF Cursor!NextStop
  <2> HIDE DEF s
  <2>2. s \in Nat /\ s > pos.x /\ s % 8 = 0
    BY <1>1, <2>1
  <2> QED BY <1>2, <2>2 DEF s
<1>3. CASE ahead # {}
  <2>1. s = Cursor!Min(ahead)
    BY <1>3 DEF Cursor!NextStop
  <2>2. \E m \in ahead : \A k \in ahead : m <= k
    BY <1>1, <1>3, NatMin
  <2>3. Cursor!Min(ahead) \in ahead /\ \A k \in ahead : Cursor!Min(ahead) <= k
    BY <2>2 DEF Cursor!Min
  <2> HIDE DEF s
  <2>4. s \in Nat /\ s > pos.x /\ s \in pos.tabs
    BY <1>1, <2>1, <2>3
  <2>5. \A i \in pos.tabs : i > pos.x /\ i < TermW => s <= i
    BY <2>1, <2>3
  <2> QED BY <2>4, <2>5 DEF s
<1> QED BY <1>2, <1>3

LEMMA MovedByTab ==
  ASSUME CursorKept, Cursor!tab
  PROVE  CursorKept'
<1> DEFINE s == Cursor!NextStop(pos.x)
           to == IF s < TermW THEN s ELSE TermW - 1
<1>1. /\ Placed /\ pos \in Places /\ pos.x \in 0 .. TermW /\ pos.y \in 0 .. TermH - 1
      /\ TermH \in Nat /\ TermW \in Nat /\ TermW >= 1 /\ pos.tabs \subseteq Nat
      /\ pos.x > 0 => <<pos.x, pos.y>> \notin rights
  BY PosIs DEF CursorKept, Placed, OffHalves
<1>2. pos' = Cursor!move_cursor(pos, to, pos.y) /\ rights' = rights
      /\ motion'.op = "tab" /\ motion'.from = pos
  BY DoesIs DEF Cursor!tab, Cursor!Stays
<1>3. /\ s \in Nat /\ s > pos.x
      /\ \A i \in pos.tabs : i > pos.x /\ i < TermW => s <= i
      /\ s \in pos.tabs \/ s % 8 = 0
  BY <1>1, StopIs
<1> HIDE DEF s
<1>4. to \in 0 .. TermW /\ to < TermW /\ to \in Int /\ pos.y \in Int /\ to >= 0
      /\ pos.y \in 0 .. TermH /\ pos.y < TermH
  BY <1>1, <1>3
<1>5. CutX(to) = to /\ CutY(pos.y) = pos.y
  BY <1>4, CutKeeps
<1> HIDE DEF to
<1>6. /\ Placed' /\ pos'.x \in 0 .. TermW - 1 /\ pos'.y = CutY(pos.y) /\ pos'.tabs = pos.tabs
      /\ pos'.x = IF CutX(to) > 0 /\ <<CutX(to), CutY(pos.y)>> \in rights
                  THEN CutX(to) - 1 ELSE CutX(to)
  BY <1>1, <1>2, <1>4, MovePlaced
<1>7. /\ pos'.y = pos.y
      /\ pos'.x = IF to > 0 /\ <<to, pos.y>> \in rights THEN to - 1 ELSE to
  BY <1>5, <1>6
<1>8. to = IF s < TermW THEN s ELSE TermW - 1
  BY DEF to
<1>9. pos.x < TermW => pos'.x >= pos.x
  <2> SUFFICES ASSUME pos.x < TermW PROVE pos'.x >= pos.x
    OBVIOUS
  <2>1. to >= pos.x
    BY <1>1, <1>3, <1>8
  <2>2. CASE to > 0 /\ <<to, pos.y>> \in rights
    <3>1. to # pos.x
      BY <1>1, <2>2
    <3> QED BY <1>1, <1>4, <1>7, <2>1, <2>2, <3>1
  <2>3. CASE ~(to > 0 /\ <<to, pos.y>> \in rights)
    BY <1>7, <2>1, <2>3
  <2> QED BY <2>2, <2>3
<1>10. pos'.x = pos.x => pos.x = TermW - 1 \/ <<pos.x + 1, pos.y>> \in rights
  <2> SUFFICES ASSUME pos'.x = pos.x, pos.x # TermW - 1 PROVE <<pos.x + 1, pos.y>> \in rights
    OBVIOUS
  <2>1. CASE to > 0 /\ <<to, pos.y>> \in rights
    <3>1. to = pos.x + 1
      BY <1>1, <1>4, <1>7, <2>1
    <3> QED BY <2>1, <3>1
  <2>2. CASE ~(to > 0 /\ <<to, pos.y>> \in rights)
    <3>1. to = pos.x
      BY <1>7, <2>2
    <3> QED BY <1>1, <1>3, <1>8, <3>1
  <2> QED BY <2>1, <2>2
<1>11. ASSUME NEW i \in pos.tabs, i > pos.x, i < pos'.x PROVE FALSE
  <2>1. i \in Nat /\ i < TermW
    BY <1>1, <1>6, <1>11
  <2>2. s <= i
    BY <1>3, <1>11, <2>1
  <2>3. pos'.x <= to /\ to <= s
    BY <1>1, <1>3, <1>4, <1>7, <1>8
  <2> QED BY <1>3, <1>4, <1>6, <1>11, <2>1, <2>2, <2>3
<1>12. \/ pos'.x \in pos.tabs \/ pos'.x = TermW - 1
       \/ pos'.x % 8 = 0 \/ <<pos'.x + 1, pos.y>> \in rights
  <2>1. CASE to > 0 /\ <<to, pos.y>> \in rights
    <3>1. pos'.x + 1 = to
      BY <1>4, <1>7, <2>1
    <3> QED BY <2>1, <3>1
  <2>2. CASE ~(to > 0 /\ <<to, pos.y>> \in rights)
    BY <1>3, <1>7, <1>8, <2>2
  <2> QED BY <2>1, <2>2
<1>13. Cursor!TabStops'
  BY <1>2, <1>6, <1>7, <1>9, <1>10, <1>11, <1>12 DEF Cursor!TabStops
<1>14. pos'.x # TermW
  BY <1>1, <1>6
<1>15. ActionsHold'
  BY <1>2, <1>13, <1>14 DEF ActionsHold, Cursor!MarginsHold, Cursor!DirectionKept,
                            Cursor!PositionComesBack
<1> QED BY <1>6, <1>15 DEF CursorKept

LEMMA MovedByArrow ==
  ASSUME CursorKept, NEW p \in Params, Cursor!cursor_left(p) \/ Cursor!cursor_right(p)
  PROVE  CursorKept'
<1> DEFINE n == Cursor!AtLeastOne(p)
<1>1. /\ Placed /\ pos \in Places /\ pos.x \in 0 .. TermW /\ pos.y \in 0 .. TermH - 1
      /\ TermH \in Nat /\ TermW \in Nat /\ TermW >= 1 /\ TermH >= 1
      /\ pos.x > 0 => <<pos.x, pos.y>> \notin rights
      /\ pos.y \in Int /\ pos.y \in 0 .. TermH /\ pos.y < TermH
  BY PosIs DEF CursorKept, Placed, OffHalves
<1>2. p \in Nat /\ p < Cursor!Words /\ Cursor!Words \in Nat /\ TermW < Cursor!Words
  BY MotionAssumption, WordIs
<1>3. n \in Nat /\ n >= 1 /\ n >= p /\ (n = p \/ n = 1)
  BY <1>2 DEF Cursor!AtLeastOne
<1> HIDE DEF n
<1>4. CASE Cursor!cursor_left(p)
  <2> DEFINE x == Cursor!Less(pos.x, n)
             to == IF x > 0 /\ <<x, pos.y>> \in rights THEN x - 1 ELSE x
  <2>1. pos' = Cursor!move_cursor(pos, to, pos.y) /\ rights' = rights
        /\ motion'.op = "left" /\ motion'.from = pos
    BY <1>4, DoesIs DEF Cursor!cursor_left, Cursor!Stays, n
  <2>2. x \in Nat /\ x <= pos.x
    BY <1>1, <1>3 DEF Cursor!Less
  <2> HIDE DEF x
  <2>3. to \in 0 .. TermW /\ to <= pos.x /\ to \in Int
    BY <1>1, <2>2
  <2> HIDE DEF to
  <2>4. /\ Placed' /\ pos'.x \in 0 .. TermW - 1
        /\ pos'.x = IF CutX(to) > 0 /\ <<CutX(to), CutY(pos.y)>> \in rights
                    THEN CutX(to) - 1 ELSE CutX(to)
    BY <1>1, <2>1, <2>3, MovePlaced
  <2>5. CutX(to) = IF to < TermW THEN to ELSE TermW - 1
    BY <2>3, CutKeeps
  <2>6. pos'.x <= pos.x
    BY <1>1, <2>3, <2>4, <2>5
  <2>7. ActionsHold'
    <3>1. pos'.x # TermW
      BY <1>1, <2>4
    <3> QED BY <2>1, <2>6, <3>1, MoveSaid
  <2> QED BY <2>4, <2>7 DEF CursorKept
<1>5. CASE Cursor!cursor_right(p)
  <2> DEFINE x == Cursor!Within(pos.x + n, TermW)
             to == IF x < TermW - 1 /\ <<x, pos.y>> \in rights THEN x + 1 ELSE x
  <2>1. pos' = Cursor!move_cursor(pos, to, pos.y) /\ rights' = rights
        /\ motion'.op = "right" /\ motion'.arg = p /\ motion'.from = pos
    BY <1>5, DoesIs DEF Cursor!cursor_right, Cursor!Stays, n
  <2>2. x \in 0 .. TermW - 1
        /\ (pos.x + n < Cursor!Words => x = IF pos.x + n >= TermW THEN TermW - 1 ELSE pos.x + n)
    <3>1. pos.x + n \in Int /\ pos.x + n >= 0
      BY <1>1, <1>3
    <3>2. (pos.x + n) % Cursor!Words \in 0 .. Cursor!Words - 1
          /\ (pos.x + n \in 0 .. Cursor!Words - 1 => (pos.x + n) % Cursor!Words = pos.x + n)
      BY <3>1, WordIs
    <3>3. x = IF (pos.x + n) % Cursor!Words >= TermW THEN TermW - 1 ELSE (pos.x + n) % Cursor!Words
      BY DEF Cursor!Within, Cursor!U16
    <3> DEFINE w == (pos.x + n) % Cursor!Words
    <3> HIDE DEF x, w
    <3> QED BY <1>1, <1>2, <1>3, <3>1, <3>2, <3>3 DEF w
  <2> HIDE DEF x
  <2>3. to \in 0 .. TermW /\ to < TermW /\ to \in Int /\ to >= x
    BY <1>1, <2>2
  <2>a. <<x, pos.y>> \in rights => x = TermW - 1 \/ to = x + 1
    BY <1>1, <2>2
  <2>b. \A c, d \in rights : c[2] = d[2] => c = d
    BY <1>1 DEF Placed, OffHalves
  <2>c. to = x \/ (to = x + 1 /\ <<x, pos.y>> \in rights)
    BY <2>2
  <2> HIDE DEF to
  <2>4. /\ Placed' /\ pos'.x \in 0 .. TermW - 1
        /\ pos'.x = IF CutX(to) > 0 /\ <<CutX(to), CutY(pos.y)>> \in rights
                    THEN CutX(to) - 1 ELSE CutX(to)
    BY <1>1, <2>1, <2>3, MovePlaced
  <2>5. CutX(to) = to /\ CutY(pos.y) = pos.y
    BY <1>1, <2>3, CutKeeps
  <2>6. motion'.arg + motion'.from.x < Cursor!Words /\ motion'.from.x < TermW => pos'.x >= pos.x
    <3> SUFFICES ASSUME p + pos.x < Cursor!Words, pos.x < TermW PROVE pos'.x >= pos.x
      BY <2>1
    <3>1. pos.x + n < Cursor!Words
      BY <1>1, <1>2, <1>3
    <3>2. x = IF pos.x + n >= TermW THEN TermW - 1 ELSE pos.x + n
      BY <2>2, <3>1
    <3>3. x >= pos.x /\ (x = pos.x => x = TermW - 1)
      BY <1>1, <1>3, <3>2
    <3>4. CASE to > 0 /\ <<to, pos.y>> \in rights
      <4>1. to # pos.x
        BY <1>1, <3>4
      <4>2. to - 1 >= pos.x
        BY <1>1, <2>2, <2>3, <3>3, <4>1
      <4> QED BY <2>4, <2>5, <3>4, <4>2
    <3>5. CASE ~(to > 0 /\ <<to, pos.y>> \in rights)
      BY <1>1, <2>2, <2>3, <2>4, <2>5, <3>3, <3>5
    <3> QED BY <3>4, <3>5
  <2>7. ActionsHold'
    <3>1. pos'.x # TermW
      BY <1>1, <2>4
    <3> QED BY <2>1, <2>6, <3>1, MoveSaid
  <2> QED BY <2>4, <2>7 DEF CursorKept
<1> QED BY <1>4, <1>5

LEMMA MovedByRow ==
  ASSUME CursorKept, NEW p \in Params, NEW x \in {0, pos.x},
         Cursor!cursor_up(p, x) \/ Cursor!cursor_down(p, x)
  PROVE  CursorKept'
<1> DEFINE n == Cursor!AtLeastOne(p)
<1>1. /\ Placed /\ pos \in Places /\ pos.x \in 0 .. TermW /\ pos.y \in 0 .. TermH - 1
      /\ TermH \in Nat /\ TermW \in Nat /\ TermW >= 1 /\ TermH >= 1 /\ x \in Int
  BY PosIs DEF CursorKept, Placed, OffHalves
<1>2. p \in Nat /\ p < Cursor!Words /\ Cursor!Words \in Nat /\ TermH < Cursor!Words
  BY MotionAssumption, WordIs
<1>3. n \in Nat /\ n >= 1 /\ n >= p /\ (n = p \/ n = 1)
  BY <1>2 DEF Cursor!AtLeastOne
<1> HIDE DEF n
<1>4. CASE Cursor!cursor_up(p, x)
  <2> DEFINE y == Cursor!Less(pos.y, n)
  <2>1. pos' = Cursor!move_cursor(pos, x, y) /\ rights' = rights
        /\ motion'.op = "up" /\ motion'.from = pos
    BY <1>4, DoesIs DEF Cursor!cursor_up, Cursor!Stays, n
  <2>2. y \in 0 .. TermH /\ y < TermH /\ y <= pos.y /\ y \in Int
    BY <1>1, <1>3 DEF Cursor!Less
  <2> HIDE DEF y
  <2>3. Placed' /\ pos'.x \in 0 .. TermW - 1 /\ pos'.y = CutY(y)
    BY <1>1, <2>1, <2>2, MovePlaced
  <2>4. CutY(y) = y
    BY <2>2, CutKeeps
  <2>5. pos'.x # TermW /\ pos'.y <= pos.y
    BY <1>1, <2>2, <2>3, <2>4
  <2> QED BY <2>1, <2>3, <2>5, MoveSaid DEF CursorKept
<1>5. CASE Cursor!cursor_down(p, x)
  <2> DEFINE y == Cursor!Within(pos.y + n, TermH)
  <2>1. pos' = Cursor!move_cursor(pos, x, y) /\ rights' = rights
        /\ motion'.op = "down" /\ motion'.arg = p /\ motion'.from = pos
    BY <1>5, DoesIs DEF Cursor!cursor_down, Cursor!Stays, n
  <2>2. y \in 0 .. TermH - 1
        /\ (pos.y + n < Cursor!Words => y = IF pos.y + n >= TermH THEN TermH - 1 ELSE pos.y + n)
    <3>1. pos.y + n \in Int /\ pos.y + n >= 0
      BY <1>1, <1>3
    <3>2. (pos.y + n) % Cursor!Words \in 0 .. Cursor!Words - 1
          /\ (pos.y + n \in 0 .. Cursor!Words - 1 => (pos.y + n) % Cursor!Words = pos.y + n)
      BY <3>1, WordIs
    <3>3. y = IF (pos.y + n) % Cursor!Words >= TermH THEN TermH - 1 ELSE (pos.y + n) % Cursor!Words
      BY DEF Cursor!Within, Cursor!U16
    <3> DEFINE w == (pos.y + n) % Cursor!Words
    <3> HIDE DEF y, w
    <3> QED BY <1>1, <1>2, <1>3, <3>1, <3>2, <3>3 DEF w
  <2> HIDE DEF y
  <2>3. y \in 0 .. TermH /\ y < TermH /\ y \in Int
    BY <1>1, <2>2
  <2>4. Placed' /\ pos'.x \in 0 .. TermW - 1 /\ pos'.y = CutY(y)
    BY <1>1, <2>1, <2>3, MovePlaced
  <2>5. CutY(y) = y
    BY <2>3, CutKeeps
  <2>6. motion'.arg + motion'.from.y < Cursor!Words => pos'.y >= pos.y
    <3> SUFFICES ASSUME p + pos.y < Cursor!Words PROVE pos'.y >= pos.y
      BY <2>1
    <3>1. pos.y + n < Cursor!Words
      BY <1>1, <1>2, <1>3
    <3> QED BY <1>1, <1>3, <2>2, <2>4, <2>5, <3>1
  <2>7. pos'.x # TermW
    BY <1>1, <2>4
  <2> QED BY <2>1, <2>4, <2>6, <2>7, MoveSaid DEF CursorKept
<1> QED BY <1>4, <1>5

\* Where a position or the saved one leads: the place itself, unless it lies
\* behind the last column.
Leads(q) ==
  \/ <<pos'.x, pos'.y>> = q
  \/ q[1] = TermW /\ pos'.y = q[2] /\ pos'.x >= TermW - 2

LEMMA MovedToPosition ==
  ASSUME CursorKept, NEW r \in Nat, NEW c \in Nat, Cursor!cursor_position(r, c)
  PROVE  CursorKept'
<1> DEFINE x == Cursor!AtLeastOne(c) - 1
           y == Cursor!AtLeastOne(r) - 1 + IF pos.relative THEN pos.top ELSE 0
<1>1. /\ Placed /\ pos \in Places /\ pos.x \in 0 .. TermW /\ pos.y \in 0 .. TermH - 1
      /\ TermH \in Nat /\ TermW \in Nat /\ TermW >= 1 /\ TermH >= 1 /\ pos.top \in Nat
      /\ pos.x > 0 => <<pos.x, pos.y>> \notin rights
  BY PosIs DEF CursorKept, Placed, OffHalves
<1>2. pos' = Cursor!move_cursor(pos, x, y) /\ rights' = rights
      /\ motion'.op = "position" /\ motion'.arg = <<r, c>> /\ motion'.from = pos
  BY DoesIs DEF Cursor!cursor_position, Cursor!Stays
<1>3. x \in Int /\ y \in Int
  BY <1>1 DEF Cursor!AtLeastOne
<1>4. c = pos.x + 1 => x = pos.x
  BY <1>1 DEF Cursor!AtLeastOne
<1>5. r = pos.y + 1 /\ ~pos.relative => y = pos.y
  BY <1>1 DEF Cursor!AtLeastOne
<1> HIDE DEF x, y
<1>6. /\ Placed' /\ pos'.x \in 0 .. TermW - 1 /\ pos'.y = CutY(y)
      /\ pos'.x = IF CutX(x) > 0 /\ <<CutX(x), CutY(y)>> \in rights THEN CutX(x) - 1 ELSE CutX(x)
  BY <1>1, <1>2, <1>3, MovePlaced
<1>7. <<r, c>> = <<pos.y + 1, pos.x + 1>> /\ ~pos.relative => Leads(<<pos.x, pos.y>>)
  <2> SUFFICES ASSUME r = pos.y + 1, c = pos.x + 1, ~pos.relative PROVE Leads(<<pos.x, pos.y>>)
    OBVIOUS
  <2>1. x = pos.x /\ y = pos.y /\ pos.x \in 0 .. TermW /\ pos.y \in 0 .. TermH /\ pos.y < TermH
    BY <1>1, <1>4, <1>5
  <2>2. CutX(x) = (IF pos.x < TermW THEN pos.x ELSE TermW - 1) /\ CutY(y) = pos.y
    BY <2>1, CutKeeps
  <2>3. CASE pos.x < TermW
    BY <1>1, <1>6, <2>2, <2>3 DEF Leads
  <2>4. CASE pos.x = TermW
    BY <1>1, <1>6, <2>2, <2>4 DEF Leads
  <2> QED BY <1>1, <2>3, <2>4
<1>8. Cursor!PositionComesBack'
  BY <1>2, <1>7 DEF Cursor!PositionComesBack, Leads
<1>9. pos'.x # TermW
  BY <1>1, <1>6
<1>10. ActionsHold'
  BY <1>2, <1>8, <1>9 DEF ActionsHold, Cursor!TabStops, Cursor!MarginsHold, Cursor!DirectionKept
<1> QED BY <1>6, <1>10 DEF CursorKept

LEMMA MovedByRestore ==
  ASSUME CursorKept, Cursor!restore_cursor
  PROVE  CursorKept'
<1> DEFINE x == pos.saved[1]
           y == pos.saved[2]
<1>1. /\ Placed /\ pos \in Places /\ x \in 0 .. TermW /\ y \in 0 .. TermH - 1
      /\ TermH \in Nat /\ TermW \in Nat /\ TermW >= 1 /\ TermH >= 1
      /\ pos.saved = <<x, y>>
  BY PosIs DEF CursorKept, Placed, OffHalves
<1>2. pos' = Cursor!move_cursor(pos, x, y) /\ rights' = rights
      /\ motion'.op = "restore" /\ motion'.from = pos
  BY DoesIs DEF Cursor!restore_cursor, Cursor!Stays
<1>a. motion'.from.saved = <<x, y>> /\ motion'.from.saved[1] = x /\ motion'.from.saved[2] = y
  BY <1>1, <1>2
<1> HIDE DEF x, y
<1>3. x \in Int /\ y \in Int /\ y \in 0 .. TermH /\ y < TermH
  BY <1>1
<1>6. /\ Placed' /\ pos'.x \in 0 .. TermW - 1 /\ pos'.y = CutY(y)
      /\ pos'.x = IF CutX(x) > 0 /\ <<CutX(x), CutY(y)>> \in rights THEN CutX(x) - 1 ELSE CutX(x)
  BY <1>1, <1>2, <1>3, MovePlaced
<1>7. Leads(<<x, y>>) \/ <<x, y>> \in rights
  <2>2. CutX(x) = (IF x < TermW THEN x ELSE TermW - 1) /\ CutY(y) = y
    BY <1>1, <1>3, CutKeeps
  <2>3. CASE x < TermW
    BY <1>1, <1>6, <2>2, <2>3 DEF Leads
  <2>4. CASE x = TermW
    BY <1>1, <1>6, <2>2, <2>4 DEF Leads
  <2> QED BY <1>1, <2>3, <2>4
<1>8. Cursor!PositionComesBack'
  BY <1>2, <1>7, <1>a DEF Cursor!PositionComesBack, Leads
<1>9. pos'.x # TermW
  BY <1>1, <1>6
<1>10. ActionsHold'
  BY <1>2, <1>8, <1>9 DEF ActionsHold, Cursor!TabStops, Cursor!MarginsHold, Cursor!DirectionKept
<1> QED BY <1>6, <1>10 DEF CursorKept

LEMMA MovedToLine ==
  ASSUME CursorKept, NEW p \in Params, Cursor!cursor_position_col(p) \/ Cursor!cursor_position_row(p)
  PROVE  CursorKept'
<1>1. /\ Placed /\ pos \in Places /\ pos.x \in Int /\ pos.y \in Int /\ TermW \in Nat
  BY PosIs DEF CursorKept, Placed
<1>2. Cursor!AtLeastOne(p) - 1 \in Int
  BY MotionAssumption DEF Cursor!AtLeastOne
<1>3. PICK x \in Int, y \in Int :
        /\ pos' = Cursor!move_cursor(pos, x, y) /\ rights' = rights
        /\ motion'.op \in {"column", "row"}
  <2>1. CASE Cursor!cursor_position_col(p)
    BY <1>1, <1>2, <2>1, DoesIs DEF Cursor!cursor_position_col, Cursor!Stays
  <2>2. CASE Cursor!cursor_position_row(p)
    BY <1>1, <1>2, <2>2, DoesIs DEF Cursor!cursor_position_row, Cursor!Stays
  <2> QED BY <2>1, <2>2
<1>4. Placed' /\ pos'.x \in 0 .. TermW - 1
  BY <1>1, <1>3, MovePlaced
<1>5. pos'.x # TermW
  BY <1>1, <1>4
<1> QED BY <1>3, <1>4, <1>5, NothingSaid DEF CursorKept

LEMMA MovedToReport ==
  ASSUME CursorKept, Cursor!GoToReport
  PROVE  CursorKept'
<1>1. pos.x + 1 \in Int /\ pos.y + 1 \in Int
  BY PosIs DEF CursorKept
<1> DEFINE r == Cursor!status_report[1]
           c == Cursor!status_report[2]
<1>2. r = (pos.y + 1) % Cursor!Words /\ c = (pos.x + 1) % Cursor!Words
  BY DEF Cursor!status_report, Cursor!U16
<1>3. /\ (pos.y + 1) % Cursor!Words \in 0 .. Cursor!Words - 1
      /\ (pos.x + 1) % Cursor!Words \in 0 .. Cursor!Words - 1
  BY <1>1, WordIs
<1>4. Cursor!cursor_position(r, c)
  BY DEF Cursor!GoToReport
<1> HIDE DEF r, c
<1>5. r \in Nat /\ c \in Nat
  BY <1>2, <1>3
<1> QED BY <1>4, <1>5, MovedToPosition

\* The actions that leave the cursor where it is.
LEMMA MovedInPlace ==
  ASSUME CursorKept, Cursor!set_tab \/ (\E n \in {0, 1, 3} : Cursor!clear_tab(n)) \/ Cursor!save_cursor
                \/ Cursor!enable_mode("relative") \/ Cursor!enable_mode("crlf")
  PROVE  CursorKept'
<1>1. /\ pos = [x |-> pos.x, y |-> pos.y, top |-> pos.top, bot |-> pos.bot, saved |-> pos.saved,
                tabs |-> pos.tabs, relative |-> pos.relative, crlf |-> pos.crlf]
      /\ pos.x \in 0 .. TermW /\ pos.y \in 0 .. TermH - 1 /\ pos.top \in Nat
      /\ pos.bot \in 0 .. TermH - 1 /\ pos.saved \in (0 .. TermW) \X (0 .. TermH - 1)
      /\ pos.tabs \in SUBSET (0 .. TermW) /\ pos.relative \in BOOLEAN /\ pos.crlf \in BOOLEAN
  BY PlaceIs DEF CursorKept, Placed
<1>2. /\ pos' \in Places /\ pos'.x = pos.x /\ pos'.y = pos.y /\ rights' = rights
      /\ motion'.op \in {"set", "clear", "save", "mode"}
  <2>1. CASE Cursor!set_tab
    <3>1. pos' = [pos EXCEPT !.tabs = @ \union {pos.x}] /\ rights' = rights /\ motion'.op = "set"
      BY <2>1, DoesIs DEF Cursor!set_tab, Cursor!Stays
    <3>2. pos' = [x |-> pos.x, y |-> pos.y, top |-> pos.top, bot |-> pos.bot, saved |-> pos.saved,
                  tabs |-> pos.tabs \union {pos.x}, relative |-> pos.relative, crlf |-> pos.crlf]
      BY <1>1, <3>1
    <3>3. pos.tabs \union {pos.x} \in SUBSET (0 .. TermW)
      BY <1>1
    <3> QED BY <1>1, <3>1, <3>2, <3>3 DEF Places
  <2>2. ASSUME NEW n \in {0, 1, 3}, Cursor!clear_tab(n)
        PROVE  /\ pos' \in Places /\ pos'.x = pos.x /\ pos'.y = pos.y /\ rights' = rights
               /\ motion'.op \in {"set", "clear", "save", "mode"}
    <3>1. PICK left \in SUBSET pos.tabs : pos' = [pos EXCEPT !.tabs = left]
      BY <1>1, <2>2, DoesIs DEF Cursor!clear_tab, Cursor!Stays
    <3>2. rights' = rights /\ motion'.op = "clear"
      BY <2>2, DoesIs DEF Cursor!clear_tab, Cursor!Stays
    <3>3. pos' = [x |-> pos.x, y |-> pos.y, top |-> pos.top, bot |-> pos.bot, saved |-> pos.saved,
                  tabs |-> left, relative |-> pos.relative, crlf |-> pos.crlf]
      BY <1>1, <3>1
    <3>4. left \in SUBSET (0 .. TermW)
      BY <1>1
    <3> QED BY <1>1, <3>2, <3>3, <3>4 DEF Places
  <2>3. CASE Cursor!save_cursor
    <3>1. pos' = [pos EXCEPT !.saved = <<pos.x, pos.y>>] /\ rights' = rights /\ motion'.op = "save"
      BY <2>3, DoesIs DEF Cursor!save_cursor, Cursor!Stays
    <3>2. pos' = [x |-> pos.x, y |-> pos.y, top |-> pos.top, bot |-> pos.bot,
                  saved |-> <<pos.x, pos.y>>,
                  tabs |-> pos.tabs, relative |-> pos.relative, crlf |-> pos.crlf]
      BY <1>1, <3>1
    <3> QED BY <1>1, <3>1, <3>2 DEF Places
  <2>4. CASE Cursor!enable_mode("relative")
    <3>1. pos' = [pos EXCEPT !["relative"] = ~pos.relative] /\ rights' = rights /\ motion'.op = "mode"
      BY <2>4, DoesIs DEF Cursor!enable_mode, Cursor!Stays
    <3>2. pos' = [x |-> pos.x, y |-> pos.y, top |-> pos.top, bot |-> pos.bot, saved |-> pos.saved,
                  tabs |-> pos.tabs, relative |-> ~pos.relative, crlf |-> pos.crlf]
      BY <1>1, <3>1
    <3> QED BY <1>1, <3>1, <3>2 DEF Places
  <2>5. CASE Cursor!enable_mode("crlf")
    <3>1. pos' = [pos EXCEPT !["crlf"] = ~pos.crlf] /\ rights' = rights /\ motion'.op = "mode"
      BY <2>5, DoesIs DEF Cursor!enable_mode, Cursor!Stays
    <3>2. pos' = [x |-> pos.x, y |-> pos.y, top |-> pos.top, bot |-> pos.bot, saved |-> pos.saved,
                  tabs |-> pos.tabs, relative |-> pos.relative, crlf |-> ~pos.crlf]
      BY <1>1, <3>1
    <3> QED BY <1>1, <3>1, <3>2 DEF Places
  <2> QED BY <2>1, <2>2, <2>3, <2>4, <2>5
<1>3. Placed'
  BY <1>2 DEF CursorKept, Placed, OffHalves
<1> QED BY <1>2, <1>3, NothingSaid DEF CursorKept

LEMMA MovedByMargins ==
  ASSUME CursorKept, NEW p \in Params, NEW q \in Params, Cursor!set_margins(p, q)
  PROVE  CursorKept'
<1> DEFINE top == Cursor!AtLeastOne(p) - 1
           bot == (IF q < 1 \/ q > TermH THEN TermH ELSE q) - 1
           n == [pos EXCEPT !.top = top]
           m == [n EXCEPT !.bot = bot]
           below == IF m.y < top THEN Cursor!move_cursor(m, m.x, top) ELSE m
           to == IF below.y > bot THEN Cursor!move_cursor(below, below.x, bot) ELSE below
<1>1. /\ pos = [x |-> pos.x, y |-> pos.y, top |-> pos.top, bot |-> pos.bot, saved |-> pos.saved,
                tabs |-> pos.tabs, relative |-> pos.relative, crlf |-> pos.crlf]
      /\ pos.x \in 0 .. TermW /\ pos.y \in 0 .. TermH - 1 /\ pos.top \in Nat
      /\ pos.bot \in 0 .. TermH - 1 /\ pos.saved \in (0 .. TermW) \X (0 .. TermH - 1)
      /\ pos.tabs \in SUBSET (0 .. TermW) /\ pos.relative \in BOOLEAN /\ pos.crlf \in BOOLEAN
  BY PlaceIs DEF CursorKept, Placed
<1>2. top \in Nat /\ bot \in 0 .. TermH - 1 /\ TermH \in Nat /\ TermW \in Nat
  BY MotionAssumption, WordIs DEF Cursor!AtLeastOne
<1>3. m = [[pos EXCEPT !.top = top] EXCEPT !.bot = bot]
      /\ pos' = to /\ rights' = rights /\ motion'.op = "margins"
  <2>1. m = [pos EXCEPT !.top = top, !.bot = bot]
    OBVIOUS
  <2>2. Cursor!Does("margins", 0, to) /\ UNCHANGED rights
    BY <2>1 DEF Cursor!set_margins, Cursor!Stays
  <2> HIDE DEF to
  <2> QED BY <2>2, DoesIs
<1> HIDE DEF top, bot
<1>4. n = [x |-> pos.x, y |-> pos.y, top |-> top, bot |-> pos.bot, saved |-> pos.saved,
           tabs |-> pos.tabs, relative |-> pos.relative, crlf |-> pos.crlf]
  BY <1>1
<1> HIDE DEF n
<1>5. m = [x |-> pos.x, y |-> pos.y, top |-> top, bot |-> bot, saved |-> pos.saved,
           tabs |-> pos.tabs, relative |-> pos.relative, crlf |-> pos.crlf]
  BY <1>4
<1> HIDE DEF m
<1>6. /\ \A c, d \in rights : c[2] = d[2] => c = d
      /\ pos.x > 0 => <<pos.x, pos.y>> \notin rights
  BY DEF CursorKept, Placed, OffHalves
<1>7. m \in Places /\ (m.x > 0 => <<m.x, m.y>> \notin rights) /\ m.x \in Int
  BY <1>1, <1>2, <1>5, <1>6 DEF Places
<1>8. below \in Places /\ (below.x > 0 => <<below.x, below.y>> \notin rights)
  <2>1. top \in Int
    BY <1>2
  <2>2. CASE m.y < top
    BY <1>6, <1>7, <2>1, <2>2, MoveIs
  <2>3. CASE ~(m.y < top)
    BY <1>7, <2>3
  <2> QED BY <2>2, <2>3
<1> HIDE DEF below
<1>9. to \in Places /\ (to.x > 0 => <<to.x, to.y>> \notin rights)
  <2>1. bot \in Int /\ below.x \in Int
    BY <1>2, <1>8, PlaceIs
  <2>2. CASE below.y > bot
    BY <1>6, <1>8, <2>1, <2>2, MoveIs
  <2>3. CASE ~(below.y > bot)
    BY <1>8, <2>3
  <2> QED BY <2>2, <2>3
<1> HIDE DEF to
<1>10. Placed'
  BY <1>3, <1>9 DEF CursorKept, Placed, OffHalves
<1> QED BY <1>3, <1>10, NothingSaid DEF CursorKept

LEMMA MovedByText ==
  ASSUME CursorKept, NEW x \in TypedTo, NEW wide \in BOOLEAN, Cursor!Types(x, wide)
  PROVE  CursorKept'
<1> DEFINE t == [pos EXCEPT !.x = x]
           new == IF wide THEN {<<x - 1, pos.y>>} ELSE {}
           old == {c \in rights : c[2] # pos.y}
<1>1. /\ pos = [x |-> pos.x, y |-> pos.y, top |-> pos.top, bot |-> pos.bot, saved |-> pos.saved,
                tabs |-> pos.tabs, relative |-> pos.relative, crlf |-> pos.crlf]
      /\ pos.x \in 0 .. TermW /\ pos.y \in 0 .. TermH - 1 /\ pos.top \in Nat
      /\ pos.bot \in 0 .. TermH - 1 /\ pos.saved \in (0 .. TermW) \X (0 .. TermH - 1)
      /\ pos.tabs \in SUBSET (0 .. TermW) /\ pos.relative \in BOOLEAN /\ pos.crlf \in BOOLEAN
  BY PlaceIs DEF CursorKept, Placed
<1>2. x \in 0 .. TermW /\ x \in Int /\ pos.y \in Int
  BY <1>1, MotionAssumption
<1>3. pos' = t /\ motion'.op = "text" /\ rights' = old \union new
  BY DoesIs DEF Cursor!Types
<1>4. t = [x |-> x, y |-> pos.y, top |-> pos.top, bot |-> pos.bot, saved |-> pos.saved,
           tabs |-> pos.tabs, relative |-> pos.relative, crlf |-> pos.crlf]
  BY <1>1
<1> HIDE DEF t
<1>5. t \in Places /\ t.x = x /\ t.y = pos.y
  BY <1>1, <1>2, <1>4 DEF Places
<1>6. /\ \A c, d \in rights : c[2] = d[2] => c = d
      /\ rights \subseteq Int \X Int
  BY DEF CursorKept, Placed, OffHalves
<1>7. \A c \in new : c = <<x - 1, pos.y>> /\ c[1] = x - 1 /\ c[2] = pos.y /\ c \in Int \X Int
  BY <1>2
<1>8. \A c \in old : c \in rights /\ c[2] # pos.y
  OBVIOUS
<1> HIDE DEF new, old
<1>9. ASSUME NEW c \in old \union new, NEW d \in old \union new, c[2] = d[2] PROVE c = d
  BY <1>6, <1>7, <1>8, <1>9
<1>10. <<x, pos.y>> \notin old \union new
  <2>1. <<x, pos.y>>[1] = x /\ <<x, pos.y>>[2] = pos.y /\ x # x - 1
    BY <1>2
  <2> QED BY <1>7, <1>8, <2>1
<1>11. old \union new \subseteq Int \X Int
  BY <1>6, <1>7, <1>8
<1>12. OffHalves(t, old \union new)
  BY <1>5, <1>9, <1>10, <1>11 DEF OffHalves
<1> QED BY <1>3, <1>5, <1>12, NothingSaid DEF CursorKept, Placed

LEMMA FreshPlaced == Cursor!Fresh \in Places /\ OffHalves(Cursor!Fresh, {}) /\ Cursor!Fresh.x = 0
<1>1. TermW \in Nat /\ TermH \in Nat /\ TermH >= 1
  BY MotionAssumption, WordIs
<1> QED BY <1>1 DEF Cursor!Fresh, Places, OffHalves

LEMMA MovedByReset ==
  ASSUME CursorKept, Cursor!reset
  PROVE  CursorKept'
<1>1. pos' = Cursor!Fresh /\ motion'.op = "reset" /\ rights' = {}
  BY DoesIs DEF Cursor!reset
<1>2. TermW # 0
  BY MotionAssumption
<1> QED BY <1>1, <1>2, FreshPlaced, NothingSaid DEF CursorKept, Placed

LEMMA MovedStarts == Cursor!CursorInit => CursorKept
<1> SUFFICES ASSUME Cursor!CursorInit PROVE CursorKept
  OBVIOUS
<1>1. pos = Cursor!Fresh /\ motion.op = "reset" /\ rights = {}
  BY DEF Cursor!CursorInit
<1>2. TermW # 0
  BY MotionAssumption
<1>3. ActionsHold
  BY <1>1, <1>2, FreshPlaced DEF ActionsHold, Cursor!TabStops, Cursor!MarginsHold,
                                 Cursor!DirectionKept, Cursor!PositionComesBack
<1> QED BY <1>1, <1>3, FreshPlaced DEF CursorKept, Placed

LEMMA CursorSteps == CursorKept /\ Cursor!CursorNext => CursorKept'
<1> SUFFICES ASSUME CursorKept, Cursor!CursorNext PROVE CursorKept'
  OBVIOUS
<1>1. Params \subseteq Nat
  BY MotionAssumption, WordIs
<1>2. CASE Cursor!cr \/ Cursor!bs
  BY <1>2, MovedByReturn
<1>3. CASE Cursor!lf \/ Cursor!next_line \/ Cursor!index_up
  BY <1>3, MovedByFeed
<1>4. CASE Cursor!tab
  BY <1>4, MovedByTab
<1>5. CASE Cursor!set_tab \/ (\E n \in {0, 1, 3} : Cursor!clear_tab(n)) \/ Cursor!save_cursor
           \/ Cursor!enable_mode("relative") \/ Cursor!enable_mode("crlf")
  BY <1>5, MovedInPlace
<1>6. CASE Cursor!restore_cursor
  BY <1>6, MovedByRestore
<1>7. CASE Cursor!GoToReport
  BY <1>7, MovedToReport
<1>8. CASE Cursor!reset
  BY <1>8, MovedByReset
<1>9. ASSUME NEW p \in Params, Cursor!cursor_left(p) \/ Cursor!cursor_right(p) PROVE CursorKept'
  BY <1>9, MovedByArrow
<1>10. ASSUME NEW p \in Params, Cursor!cursor_position_col(p) \/ Cursor!cursor_position_row(p)
       PROVE  CursorKept'
  BY <1>10, MovedToLine
<1>11. ASSUME NEW p \in Params, NEW x \in {0, pos.x}, Cursor!cursor_up(p, x) \/ Cursor!cursor_down(p, x)
       PROVE  CursorKept'
  BY <1>11, MovedByRow
<1>12. ASSUME NEW p \in Params, NEW q \in Params, Cursor!cursor_position(p, q) PROVE CursorKept'
  BY <1>1, <1>12, MovedToPosition
<1>13. ASSUME NEW p \in Params, NEW q \in Params, Cursor!set_margins(p, q) PROVE CursorKept'
  BY <1>13, MovedByMargins
<1>14. ASSUME NEW x \in TypedTo, NEW wide \in BOOLEAN, Cursor!Types(x, wide) PROVE CursorKept'
  BY <1>14, MovedByText
<1> QED BY <1>2, <1>3, <1>4, <1>5, <1>6, <1>7, <1>8, <1>9, <1>10, <1>11, <1>12, <1>13, <1>14
        DEF Cursor!CursorNext

LEMMA MovedIsOnScreen ==
  ASSUME CursorKept
  PROVE  /\ Cursor!CursorOnScreen /\ Cursor!TabStops /\ Cursor!MarginsHold
         /\ Cursor!DirectionKept /\ Cursor!PositionComesBack
BY PosIs DEF CursorKept, ActionsHold, Cursor!CursorOnScreen

LEMMA MovedStays ==
  ASSUME CursorKept, pos' = pos, rights' = rights, motion' = motion
  PROVE  CursorKept'
BY DEF CursorKept, Placed, ActionsHold, Cursor!TabStops, Cursor!MarginsHold, Cursor!DirectionKept,
       Cursor!PositionComesBack

-----------------------------------------------------------------------------
(* The row and the cursor in it                                            *)

Terms == [row : [Columns -> Cell], cursor_x : 0 .. W, startx : 0 .. W, endx : Columns,
          auto_wrap : BOOLEAN, insert_mode : BOOLEAN, cursor_visible : BOOLEAN,
          shape : Shapes]
Screens == [Columns -> [glyph : [char : Narrow \cup Wide, half : Types], cursor : BOOLEAN]]
Cursors == [x : Int, cell : Cell, showed : BOOLEAN]

\* What a column shows when it shows its cell and nothing else.
ShowsCell(column, cell) == column.glyph = Glyph(cell.char, cell.type)
ShowsOnly(column, cell) == ShowsCell(column, cell) /\ ~column.cursor

\* Where FbShell's cursor is painted.
CursorArea(cur, shape) ==
  CASE shape = "underline" -> {cur.x}
    [] shape = "block" -> IF cur.cell.type = "DoubleRight" THEN {cur.x - 1, cur.x}
                          ELSE IF cur.cell.type = "DoubleLeft" THEN {cur.x, cur.x + 1}
                          ELSE {cur.x}
    [] OTHER -> {}

\* The cursor's colours are where FbShell's cursor is, and only while it shows.
Marked(scr, cur, shape) ==
  \A c \in Columns :
    scr[c].cursor => cur.x \in Columns /\ cur.showed /\ c \in CursorArea(cur, shape)

\* Between two calls of VTerm::input.
Settled ==
  /\ Whole(term.row)
  /\ term.startx = W /\ term.endx = 0
  /\ \A c \in Columns : ShowsCell(screen[c], term.row[c])
  /\ Marked(screen, mCursor, term.shape)
  /\ IF term.cursor_visible
     THEN mCursor.x \in Columns =>
            mCursor.x = term.cursor_x /\ mCursor.cell = term.row[term.cursor_x]
     ELSE \A c \in Columns : ~screen[c].cursor

\* Within one: what is not shown yet is in the dirty columns.
Behind(t, scr) ==
  \A c \in Columns : c \in t.startx .. t.endx \/ ShowsOnly(scr[c], t.row[c])

\* The inductive invariant.
RowKept ==
  /\ term \in Terms /\ screen \in Screens /\ mCursor \in Cursors
  /\ stage \in {"idle", "input", "hung"} /\ spoiled \in BOOLEAN
  /\ stage = "idle" /\ ~spoiled => Settled
  /\ stage = "input" /\ ~spoiled => Behind(term, screen)

\* Cells of a whole row: halves stand in pairs.
LEMMA WholeIs ==
  ASSUME NEW line \in [Columns -> Cell], Whole(line), NEW c \in Columns
  PROVE  /\ line[c].type \in Types /\ c \in Int /\ 0 <= c /\ c < W /\ W \in Nat
         /\ line[c].type = "DoubleLeft" =>
              /\ c + 1 \in Columns /\ line[c + 1].type = "DoubleRight"
              /\ line[c + 1].char = line[c].char
         /\ line[c].type = "DoubleRight" =>
              /\ c - 1 \in Columns /\ line[c - 1].type = "DoubleLeft"
              /\ line[c - 1].char = line[c].char
<1>1. W \in Nat /\ c \in Int /\ 0 <= c /\ c < W
  BY RowAssumption DEF Columns
<1>2. \A d \in Columns : /\ line[d] = [char |-> line[d].char, type |-> line[d].type]
                         /\ line[d].type \in Types
  BY DEF Cell
<1>3. ASSUME line[c].type = "DoubleLeft"
      PROVE  /\ c + 1 \in Columns /\ line[c + 1].type = "DoubleRight"
             /\ line[c + 1].char = line[c].char
  <2>1. c + 1 \in Columns /\ line[c + 1] = [line[c] EXCEPT !.type = "DoubleRight"]
    BY <1>3 DEF Whole
  <2> QED BY <1>2, <2>1
<1>4. ASSUME line[c].type = "DoubleRight"
      PROVE  /\ c - 1 \in Columns /\ line[c - 1].type = "DoubleLeft"
             /\ line[c - 1].char = line[c].char
  <2>1. c > 0 /\ line[c - 1] = [line[c] EXCEPT !.type = "DoubleLeft"]
    BY <1>4 DEF Whole
  <2>2. c - 1 \in Columns
    BY <1>1, <2>1 DEF Columns
  <2> QED BY <1>2, <2>1, <2>2
<1> QED BY <1>1, <1>2, <1>3, <1>4

\* What Runs is, as an equation.
RunStep(line, s, e, f, c) ==
  IF c = s - 1
  THEN [attr |-> Attr(CellAt(line, s)), next |-> s, at |-> -1]
  ELSE IF c \notin Drawn(line, s, e) THEN f[c - 1]
  ELSE LET at == IF Attr(CellAt(line, c)) = f[c - 1].attr THEN f[c - 1].next ELSE c
       IN  [attr |-> Attr(CellAt(line, c)), at |-> at, next |-> at + Width(CellAt(line, c))]

LEMMA RunsIs ==
  ASSUME NEW line, NEW s, NEW e
  PROVE  Runs(line, s, e) =
           CHOOSE f : f = [c \in s - 1 .. e |-> RunStep(line, s, e, f, c)]
BY DEF Runs, RunStep

\* A stretch of a whole row that cuts no character is painted in place: each
\* run goes on where its cells are.
Stretch(line, s, e) ==
  /\ line \in [Columns -> Cell] /\ Whole(line)
  /\ s \in Columns /\ e \in Columns /\ s <= e
  /\ line[s].type # "DoubleRight" /\ line[e].type # "DoubleLeft"

\* What the equation's solution is.
Place(line, s, c) == IF c = s - 1 THEN -1 ELSE IF line[c].type = "DoubleRight" THEN c - 1 ELSE c
Ahead(line, s, c) == IF c # s - 1 /\ line[c].type = "DoubleLeft" THEN c + 2 ELSE c + 1
RunAt(line, s, c) ==
  [attr |-> Attr(line[IF c = s - 1 THEN s ELSE Place(line, s, c)]),
   next |-> Ahead(line, s, c), at |-> Place(line, s, c)]

LEMMA DrawnIs ==
  ASSUME NEW line, NEW s, NEW e, Stretch(line, s, e), NEW c \in s .. e
  PROVE  /\ c \in Columns /\ c \in Int /\ CellAt(line, c) = line[c]
         /\ c \in Drawn(line, s, e) <=> line[c].type # "DoubleRight"
         /\ line[c].type \in Types
         /\ line[c].type = "DoubleRight" => c - 1 \in s .. e /\ line[c - 1].type = "DoubleLeft"
                                            /\ line[c - 1].char = line[c].char
         /\ line[c].type = "DoubleLeft" => c + 1 \in s .. e /\ line[c + 1].type = "DoubleRight"
                                           /\ line[c + 1].char = line[c].char
         /\ Width(line[c]) = IF line[c].type = "Single" THEN 1 ELSE 2
<1>1. /\ s \in Int /\ e \in Int /\ W \in Nat /\ 0 <= s /\ e < W
      /\ line[s].type # "DoubleRight" /\ line[e].type # "DoubleLeft"
  BY RowAssumption DEF Stretch, Columns
<1>2. c \in Columns /\ c \in Int
  BY <1>1 DEF Columns
<1>3. /\ line[c].type \in Types
      /\ line[c].type = "DoubleLeft" =>
           line[c + 1].type = "DoubleRight" /\ line[c + 1].char = line[c].char
      /\ line[c].type = "DoubleRight" =>
           line[c - 1].type = "DoubleLeft" /\ line[c - 1].char = line[c].char
  BY <1>2, WholeIs DEF Stretch
<1>4. CellAt(line, c) = line[c]
  BY <1>2 DEF CellAt
<1>5. line[c].type = "DoubleRight" => c # s
  BY <1>1
<1>6. line[c].type = "DoubleLeft" => c # e
  BY <1>1
<1>7. c \in Drawn(line, s, e) <=> line[c].type # "DoubleRight"
  BY <1>4 DEF Drawn
<1> QED BY <1>1, <1>2, <1>3, <1>4, <1>5, <1>6, <1>7 DEF Width

LEMMA RunAtSolves ==
  ASSUME NEW line, NEW s, NEW e, Stretch(line, s, e), NEW f,
         NEW c \in s - 1 .. e, c # s - 1 => f[c - 1] = RunAt(line, s, c - 1)
  PROVE  RunStep(line, s, e, f, c) = RunAt(line, s, c)
<1>1. s \in Int /\ e \in Int /\ s <= e /\ c \in Int /\ s \in s .. e
  BY RowAssumption DEF Stretch, Columns
<1>2. CASE c = s - 1
  <2>1. CellAt(line, s) = line[s]
    BY <1>1, DrawnIs
  <2>2. c + 1 = s
    BY <1>1, <1>2
  <2> QED BY <1>2, <2>1, <2>2 DEF RunStep, RunAt, Place, Ahead
<1>3. CASE c # s - 1
  <2>1. c \in s .. e /\ c - 1 \in s - 1 .. e
    BY <1>1, <1>3
  <2>2. /\ CellAt(line, c) = line[c] /\ line[c].type \in Types
        /\ c \in Drawn(line, s, e) <=> line[c].type # "DoubleRight"
        /\ line[c].type = "DoubleRight" => c - 1 \in s .. e /\ line[c - 1].type = "DoubleLeft"
        /\ Width(line[c]) = IF line[c].type = "Single" THEN 1 ELSE 2
    BY <2>1, DrawnIs
  <2>3. c - 1 # s - 1 => /\ c - 1 \in s .. e
                         /\ line[c - 1].type = "DoubleLeft" => line[c].type = "DoubleRight"
    <3> SUFFICES ASSUME c - 1 # s - 1
                 PROVE  /\ c - 1 \in s .. e
                        /\ line[c - 1].type = "DoubleLeft" => line[c].type = "DoubleRight"
      OBVIOUS
    <3>1. c - 1 \in s .. e
      BY <1>1, <2>1
    <3>2. line[c - 1].type = "DoubleLeft" => line[c - 1 + 1].type = "DoubleRight"
      BY <3>1, DrawnIs
    <3>3. c - 1 + 1 = c
      BY <1>1
    <3> QED BY <3>1, <3>2, <3>3
  <2>4. CASE line[c].type = "DoubleRight"
    <3>1. RunStep(line, s, e, f, c) = RunAt(line, s, c - 1)
      BY <1>3, <2>2, <2>4 DEF RunStep
    <3>2. c - 1 # s - 1 /\ line[c - 1].type = "DoubleLeft"
      BY <1>1, <2>2, <2>4
    <3>3. c - 1 + 2 = c + 1
      BY <1>1
    <3> QED BY <1>3, <2>4, <3>1, <3>2, <3>3 DEF RunAt, Place, Ahead
  <2>5. CASE line[c].type # "DoubleRight"
    <3> DEFINE at == IF Attr(line[c]) = f[c - 1].attr THEN f[c - 1].next ELSE c
    <3>1. RunStep(line, s, e, f, c) =
            [attr |-> Attr(line[c]), at |-> at, next |-> at + Width(line[c])]
      BY <1>3, <2>2, <2>5 DEF RunStep
    <3>2. f[c - 1].next = Ahead(line, s, c - 1)
      BY <1>3 DEF RunAt
    <3>3. Ahead(line, s, c - 1) = c
      BY <1>1, <2>3, <2>5 DEF Ahead
    <3>4. at = c
      BY <3>2, <3>3
    <3> HIDE DEF at
    <3>5. c + Width(line[c]) = Ahead(line, s, c)
      BY <1>1, <1>3, <2>2, <2>5 DEF Ahead, Types
    <3> QED BY <1>3, <2>5, <3>1, <3>4, <3>5 DEF RunAt, Place
  <2> QED BY <2>4, <2>5
<1> QED BY <1>2, <1>3

LEMMA RunsAre ==
  ASSUME NEW line, NEW s, NEW e, Stretch(line, s, e)
  PROVE  \A c \in s - 1 .. e : Runs(line, s, e)[c] = RunAt(line, s, c)
<1> DEFINE f == Runs(line, s, e)
           g == [c \in s - 1 .. e |-> RunAt(line, s, c)]
           Solves(h) == h = [c \in s - 1 .. e |-> RunStep(line, s, e, h, c)]
<1>1. s \in Int /\ e \in Int /\ s <= e
  BY RowAssumption DEF Stretch, Columns
<1>2. Solves(g)
  <2>1. ASSUME NEW c \in s - 1 .. e PROVE RunStep(line, s, e, g, c) = RunAt(line, s, c)
    <3>1. c # s - 1 => c - 1 \in s - 1 .. e
      BY <1>1
    <3>2. c # s - 1 => g[c - 1] = RunAt(line, s, c - 1)
      BY <3>1
    <3> HIDE DEF g
    <3> QED BY <3>2, RunAtSolves
  <2> QED BY <2>1
<1>3. Solves(f)
  <2>1. f = CHOOSE h : Solves(h)
    BY RunsIs
  <2> HIDE DEF Solves, f, g
  <2> QED BY <1>2, <2>1
<1>4. \A c \in s - 1 .. e : f[c] = RunStep(line, s, e, f, c)
  <2> HIDE DEF f
  <2> QED BY <1>3
<1> HIDE DEF f
<1> DEFINE T == {n \in Nat : s - 1 + n \in s - 1 .. e /\ f[s - 1 + n] # RunAt(line, s, s - 1 + n)}
<1>5. T = {}
  <2> SUFFICES ASSUME T # {} PROVE FALSE
    OBVIOUS
  <2>1. PICK n \in T : \A k \in T : n <= k
    <3>1. T \subseteq Nat
      OBVIOUS
    <3> HIDE DEF T
    <3> QED BY <3>1, NatMin
  <2> DEFINE c == s - 1 + n
  <2>2. n \in Nat /\ c \in s - 1 .. e /\ f[c] # RunAt(line, s, c) /\ c \in Int
    BY <1>1
  <2>3. c # s - 1 => f[c - 1] = RunAt(line, s, c - 1)
    <3> SUFFICES ASSUME c # s - 1 PROVE f[c - 1] = RunAt(line, s, c - 1)
      OBVIOUS
    <3>1. n - 1 \in Nat /\ n - 1 < n /\ s - 1 + (n - 1) = c - 1 /\ c - 1 \in s - 1 .. e
      BY <1>1, <2>2
    <3>2. n - 1 \notin T
      BY <2>1, <2>2, <3>1
    <3> QED BY <3>1, <3>2
  <2> HIDE DEF c
  <2>4. RunStep(line, s, e, f, c) = RunAt(line, s, c)
    BY <2>2, <2>3, RunAtSolves
  <2>5. f[c] = RunStep(line, s, e, f, c)
    BY <1>4, <2>2
  <2> QED BY <2>2, <2>4, <2>5
<1>6. ASSUME NEW c \in s - 1 .. e PROVE f[c] = RunAt(line, s, c)
  <2>1. c - (s - 1) \in Nat /\ s - 1 + (c - (s - 1)) = c
    BY <1>1
  <2>2. c - (s - 1) \notin T
    BY <1>5
  <2> QED BY <2>1, <2>2
<1> QED BY <1>6 DEF f

\* What expose leaves on the screen.
LEMMA ExposeShows ==
  ASSUME NEW line \in [Columns -> Cell], Whole(line), NEW scr \in Screens,
         NEW a \in Columns, NEW b \in Columns, a <= b,
         \A c \in Columns : c \in a .. b \/ ShowsOnly(scr[c], line[c])
  PROVE  \A c \in Columns : ShowsOnly(expose(line, scr, a, b)[c], line[c])
<1> DEFINE s == IF line[a].type = "DoubleRight" THEN a - 1 ELSE a
           e == IF line[b].type = "DoubleLeft" THEN b + 1 ELSE b
           run == Runs(line, s, e)
           ColumnsOver(p) == {c \in Drawn(line, s, e) : p \in run[c].at .. run[c].next - 1}
           after == [p \in Columns |->
                       IF ColumnsOver(p) = {} THEN scr[p]
                       ELSE Painted(CellAt(line, Max(ColumnsOver(p))), run[Max(ColumnsOver(p))].at, p)]
<1>1. a \in Int /\ b \in Int /\ 0 <= a /\ b < W /\ W \in Nat
  BY RowAssumption DEF Columns
<1>2. /\ s \in Columns /\ s <= a /\ 0 <= s /\ s \in Int /\ line[s].type # "DoubleRight"
  BY <1>1, WholeIs
<1>3. /\ e \in Columns /\ e >= b /\ e < W /\ e \in Int /\ line[e].type # "DoubleLeft"
  BY <1>1, WholeIs
<1>4. expose(line, scr, a, b) = after
  <2>1. ~(s < 0)
    BY <1>2
  <2> QED BY <2>1 DEF expose
<1> HIDE DEF s, e
<1>5. Stretch(line, s, e)
  BY <1>1, <1>2, <1>3 DEF Stretch
<1>6. \A c \in s .. e : c \in s - 1 .. e /\ c # s - 1
  BY <1>2, <1>3
<1>7. ASSUME NEW c \in Drawn(line, s, e)
      PROVE  /\ c \in s .. e /\ c \in Columns /\ c \in Int /\ line[c].type # "DoubleRight"
             /\ run[c].at = c /\ CellAt(line, c) = line[c]
             /\ run[c].next = IF line[c].type = "DoubleLeft" THEN c + 2 ELSE c + 1
  <2>1. c \in s .. e
    BY DEF Drawn
  <2>2. c \in Columns /\ c \in Int /\ line[c].type # "DoubleRight" /\ CellAt(line, c) = line[c]
    BY <1>5, <2>1, DrawnIs
  <2>3. run[c] = RunAt(line, s, c)
    BY <1>5, <1>6, <2>1, RunsAre
  <2> QED BY <1>6, <2>1, <2>2, <2>3 DEF RunAt, Place, Ahead
<1>8. ASSUME NEW p \in Columns, p \notin s .. e PROVE ColumnsOver(p) = {} /\ p \notin a .. b
  <2>1. ASSUME NEW c \in Drawn(line, s, e) PROVE p \notin run[c].at .. run[c].next - 1
    <3>1. /\ c \in s .. e /\ c \in Int
          /\ run[c].at = c /\ run[c].next = IF line[c].type = "DoubleLeft" THEN c + 2 ELSE c + 1
      BY <1>7
    <3>2. line[c].type = "DoubleLeft" => c + 1 \in s .. e
      BY <1>5, <3>1, DrawnIs
    <3>3. p \in Int
      BY <1>1 DEF Columns
    <3> HIDE DEF run
    <3> QED BY <1>2, <1>3, <1>8, <3>1, <3>2, <3>3
  <2>2. p \in Int
    BY <1>1 DEF Columns
  <2> QED BY <1>1, <1>2, <1>3, <1>8, <2>1, <2>2
<1>9. ASSUME NEW p \in s .. e
      PROVE  LET d == IF line[p].type = "DoubleRight" THEN p - 1 ELSE p
             IN  ColumnsOver(p) = {d} /\ d \in Drawn(line, s, e)
  <2> DEFINE d == IF line[p].type = "DoubleRight" THEN p - 1 ELSE p
  <2>1. /\ p \in Int
        /\ p \in Drawn(line, s, e) <=> line[p].type # "DoubleRight"
        /\ line[p].type = "DoubleRight" => p - 1 \in s .. e /\ line[p - 1].type = "DoubleLeft"
    BY <1>5, DrawnIs
  <2>2. d \in Drawn(line, s, e) /\ d \in Int
    BY <1>5, <2>1, DrawnIs
  <2>3. /\ run[d].at = d
        /\ run[d].next = IF line[d].type = "DoubleLeft" THEN d + 2 ELSE d + 1
    BY <1>7, <2>2
  <2>4. p \in run[d].at .. run[d].next - 1
    <3> HIDE DEF run
    <3>1. CASE line[p].type = "DoubleRight"
      <4>1. d = p - 1 /\ line[d].type = "DoubleLeft"
        BY <2>1, <3>1
      <4> QED BY <2>1, <2>3, <4>1
    <3>2. CASE line[p].type # "DoubleRight"
      <4>1. d = p
        BY <3>2
      <4> HIDE DEF d
      <4> QED BY <2>1, <2>3, <4>1
    <3> QED BY <3>1, <3>2
  <2>5. ASSUME NEW c \in Drawn(line, s, e), p \in run[c].at .. run[c].next - 1 PROVE c = d
    <3>1. /\ c \in s .. e /\ c \in Int /\ line[c].type # "DoubleRight" /\ run[c].at = c
          /\ run[c].next = IF line[c].type = "DoubleLeft" THEN c + 2 ELSE c + 1
      BY <1>7
    <3>2. line[c].type = "DoubleLeft" => line[c + 1].type = "DoubleRight"
      BY <1>5, <3>1, DrawnIs
    <3>3. p = c \/ (line[c].type = "DoubleLeft" /\ p = c + 1)
      <4> HIDE DEF run
      <4> QED BY <2>1, <2>5, <3>1
    <3>4. p = c + 1 => p - 1 = c
      BY <3>1
    <3>5. CASE p = c
      BY <3>1, <3>5
    <3>6. CASE line[c].type = "DoubleLeft" /\ p = c + 1
      BY <3>2, <3>4, <3>6
    <3> QED BY <3>3, <3>5, <3>6
  <2> HIDE DEF run, d
  <2>6. ColumnsOver(p) = {d}
    BY <2>2, <2>4, <2>5
  <2> QED BY <2>2, <2>6 DEF d
<1>10. \A d \in Int : Max({d}) = d
  BY DEF Max
<1>11. ASSUME NEW p \in Columns PROVE ShowsOnly(after[p], line[p])
  <2>1. CASE p \notin s .. e
    <3>1. after[p] = scr[p]
      BY <1>8, <2>1
    <3> QED BY <1>8, <2>1, <3>1
  <2>2. CASE p \in s .. e
    <3> DEFINE d == IF line[p].type = "DoubleRight" THEN p - 1 ELSE p
    <3>1. ColumnsOver(p) = {d} /\ d \in Drawn(line, s, e)
      BY <1>9, <2>2
    <3>2. d \in Int /\ CellAt(line, d) = line[d] /\ run[d].at = d
      BY <1>7, <3>1
    <3>3. Max(ColumnsOver(p)) = d
      BY <1>10, <3>1, <3>2
    <3>4. after[p] = Painted(CellAt(line, d), d, p)
      <4> HIDE DEF d, ColumnsOver, run
      <4>1. after[p] = Painted(CellAt(line, d), run[d].at, p)
        BY <3>1, <3>3
      <4> QED BY <3>2, <4>1
    <3>5. /\ p \in Int /\ line[p].type \in Types
          /\ line[p].type = "DoubleRight" => line[p - 1].type = "DoubleLeft"
                                             /\ line[p - 1].char = line[p].char
      BY <1>5, <2>2, DrawnIs
    <3>6. CASE line[p].type = "DoubleRight"
      <4>1. d = p - 1 /\ d # p
        BY <3>5, <3>6
      <4>2. Painted(line[d], d, p) = [glyph |-> Glyph(line[p].char, "DoubleRight"), cursor |-> FALSE]
        BY <3>5, <3>6, <4>1 DEF Painted
      <4> HIDE DEF d, after, ColumnsOver, run
      <4> QED BY <3>2, <3>4, <3>6, <4>2 DEF ShowsOnly, ShowsCell
    <3>7. CASE line[p].type # "DoubleRight"
      <4>1. d = p
        BY <3>7
      <4>2. Painted(line[p], p, p) = [glyph |-> Glyph(line[p].char, line[p].type), cursor |-> FALSE]
        BY <3>5, <3>7 DEF Painted, Types
      <4> HIDE DEF d, after, ColumnsOver, run
      <4> QED BY <3>2, <3>4, <4>1, <4>2 DEF ShowsOnly, ShowsCell
    <3> QED BY <3>6, <3>7
  <2> QED BY <2>1, <2>2
<1> QED BY <1>4, <1>11

\* The terminal with its row, cursor and dirty columns replaced.
With(u, t, line, x, a, b) ==
  /\ u \in Terms /\ u.row = line /\ u.cursor_x = x /\ u.startx = a /\ u.endx = b
  /\ u.auto_wrap = t.auto_wrap /\ u.insert_mode = t.insert_mode
  /\ u.cursor_visible = t.cursor_visible /\ u.shape = t.shape

LEMMA TermIs ==
  ASSUME NEW t \in Terms
  PROVE  /\ t = [row |-> t.row, cursor_x |-> t.cursor_x, startx |-> t.startx, endx |-> t.endx,
                 auto_wrap |-> t.auto_wrap, insert_mode |-> t.insert_mode,
                 cursor_visible |-> t.cursor_visible, shape |-> t.shape]
         /\ t.row \in [Columns -> Cell] /\ t.cursor_x \in 0 .. W /\ t.startx \in 0 .. W
         /\ t.endx \in Columns /\ t.auto_wrap \in BOOLEAN /\ t.insert_mode \in BOOLEAN
         /\ t.cursor_visible \in BOOLEAN /\ t.shape \in Shapes
         /\ t.cursor_x \in Int /\ t.startx \in Int /\ t.endx \in Int
BY RowAssumption DEF Terms, Columns

LEMMA SetRow ==
  ASSUME NEW t \in Terms, NEW line \in [Columns -> Cell]
  PROVE  With([t EXCEPT !.row = line], t, line, t.cursor_x, t.startx, t.endx)
<1> DEFINE u == [t EXCEPT !.row = line]
<1>1. u = [row |-> line, cursor_x |-> t.cursor_x, startx |-> t.startx, endx |-> t.endx,
           auto_wrap |-> t.auto_wrap, insert_mode |-> t.insert_mode,
           cursor_visible |-> t.cursor_visible, shape |-> t.shape]
  BY TermIs
<1> HIDE DEF u
<1>2. u \in Terms
  BY <1>1, TermIs DEF Terms
<1> QED BY <1>1, <1>2 DEF With, u

LEMMA SetCursor ==
  ASSUME NEW t \in Terms, NEW x \in 0 .. W
  PROVE  With([t EXCEPT !.cursor_x = x], t, t.row, x, t.startx, t.endx)
<1> DEFINE u == [t EXCEPT !.cursor_x = x]
<1>1. u = [row |-> t.row, cursor_x |-> x, startx |-> t.startx, endx |-> t.endx,
           auto_wrap |-> t.auto_wrap, insert_mode |-> t.insert_mode,
           cursor_visible |-> t.cursor_visible, shape |-> t.shape]
  BY TermIs
<1> HIDE DEF u
<1>2. u \in Terms
  BY <1>1, TermIs DEF Terms
<1> QED BY <1>1, <1>2 DEF With, u

LEMMA SetDirty ==
  ASSUME NEW t \in Terms, NEW a \in 0 .. W, NEW b \in Columns
  PROVE  With([t EXCEPT !.startx = a, !.endx = b], t, t.row, t.cursor_x, a, b)
<1> DEFINE v == [t EXCEPT !.startx = a]
           u == [v EXCEPT !.endx = b]
<1>1. v = [row |-> t.row, cursor_x |-> t.cursor_x, startx |-> a, endx |-> t.endx,
           auto_wrap |-> t.auto_wrap, insert_mode |-> t.insert_mode,
           cursor_visible |-> t.cursor_visible, shape |-> t.shape]
  BY TermIs
<1>2. [t EXCEPT !.startx = a, !.endx = b] = u
  OBVIOUS
<1> HIDE DEF v
<1>3. u = [row |-> t.row, cursor_x |-> t.cursor_x, startx |-> a, endx |-> b,
           auto_wrap |-> t.auto_wrap, insert_mode |-> t.insert_mode,
           cursor_visible |-> t.cursor_visible, shape |-> t.shape]
  BY <1>1
<1> HIDE DEF u
<1>4. u \in Terms
  BY <1>3, TermIs DEF Terms
<1> QED BY <1>2, <1>3, <1>4 DEF With

LEMMA SetBoth ==
  ASSUME NEW t \in Terms, NEW line \in [Columns -> Cell], NEW x \in 0 .. W
  PROVE  With([t EXCEPT !.row = line, !.cursor_x = x], t, line, x, t.startx, t.endx)
<1> DEFINE v == [t EXCEPT !.row = line]
           u == [v EXCEPT !.cursor_x = x]
<1>1. v = [row |-> line, cursor_x |-> t.cursor_x, startx |-> t.startx, endx |-> t.endx,
           auto_wrap |-> t.auto_wrap, insert_mode |-> t.insert_mode,
           cursor_visible |-> t.cursor_visible, shape |-> t.shape]
  BY TermIs
<1>2. [t EXCEPT !.row = line, !.cursor_x = x] = u
  OBVIOUS
<1> HIDE DEF v
<1>3. u = [row |-> line, cursor_x |-> x, startx |-> t.startx, endx |-> t.endx,
           auto_wrap |-> t.auto_wrap, insert_mode |-> t.insert_mode,
           cursor_visible |-> t.cursor_visible, shape |-> t.shape]
  BY <1>1
<1> HIDE DEF u
<1>4. u \in Terms
  BY <1>3, TermIs DEF Terms
<1> QED BY <1>2, <1>3, <1>4 DEF With

\* An edit marks the columns it changes, and unmarks none.
Follows(t, u) ==
  /\ u \in Terms /\ u.startx <= t.startx /\ u.endx >= t.endx
  /\ \A c \in Columns : c \in u.startx .. u.endx \/ u.row[c] = t.row[c]

LEMMA BehindFollows ==
  ASSUME NEW t \in Terms, NEW u, Follows(t, u), NEW scr, Behind(t, scr)
  PROVE  Behind(u, scr)
<1>1. /\ t.startx \in Int /\ t.endx \in Int /\ u.startx \in Int /\ u.endx \in Int
      /\ u.startx <= t.startx /\ u.endx >= t.endx
  BY TermIs DEF Follows
<1>2. ASSUME NEW c \in Columns PROVE c \in u.startx .. u.endx \/ ShowsOnly(scr[c], u.row[c])
  <2>1. c \in t.startx .. t.endx => c \in u.startx .. u.endx
    BY <1>1
  <2> QED BY <2>1 DEF Follows, Behind
<1> QED BY <1>2 DEF Behind

LEMMA FollowsOn ==
  ASSUME NEW t \in Terms, NEW u, NEW v, Follows(t, u), Follows(u, v)
  PROVE  Follows(t, v)
<1>1. /\ t.startx \in Int /\ t.endx \in Int /\ u.startx \in Int /\ u.endx \in Int
      /\ v.startx \in Int /\ v.endx \in Int
      /\ u.startx <= t.startx /\ u.endx >= t.endx /\ v.startx <= u.startx /\ v.endx >= u.endx
      /\ v \in Terms
  BY TermIs DEF Follows
<1>2. ASSUME NEW c \in Columns PROVE c \in v.startx .. v.endx \/ v.row[c] = t.row[c]
  <2>1. c \in u.startx .. u.endx => c \in v.startx .. v.endx
    BY <1>1
  <2> QED BY <2>1 DEF Follows
<1> QED BY <1>1, <1>2 DEF Follows

\* changed_line, around columns that need not exist.
LEMMA ChangedLineIs ==
  ASSUME NEW t \in Terms, NEW a \in Nat, NEW b \in Nat
  PROVE  LET u == changed_line(t, a, b)
         IN  /\ With(u, t, t.row, t.cursor_x, u.startx, u.endx)
             /\ u.startx <= t.startx /\ u.endx >= t.endx
             /\ u.startx <= a /\ (b \in Columns => u.endx >= b)
             /\ 1 <= a /\ a <= W => u.startx <= a - 1
             /\ b + 1 \in Columns => u.endx >= b + 1
<1> DEFINE start == AtMost(a, W - 1)
           end == AtMost(b, W - 1)
           lo == AtMost(t.startx, IF start > 0 THEN start - 1 ELSE start)
           hi == AtLeast(t.endx, IF end + 1 < W THEN end + 1 ELSE end)
<1>1. W \in Nat /\ W >= 3 /\ t.startx \in 0 .. W /\ t.endx \in Columns /\ Columns = 0 .. W - 1
  BY RowAssumption, TermIs DEF Columns
<1>2. /\ start \in 0 .. W - 1 /\ start <= a /\ (a <= W => start = a \/ start = a - 1)
      /\ end \in 0 .. W - 1 /\ (b < W => end = b)
  BY <1>1 DEF AtMost
<1> HIDE DEF start, end
<1>3. /\ lo \in 0 .. W /\ lo <= t.startx /\ lo <= start
      /\ start > 0 => lo <= start - 1
  BY <1>1, <1>2 DEF AtMost
<1>4. /\ hi \in Columns /\ hi >= t.endx /\ hi >= end
      /\ end + 1 < W => hi >= end + 1
  BY <1>1, <1>2 DEF AtLeast
<1>5. changed_line(t, a, b) = [t EXCEPT !.startx = lo, !.endx = hi]
  BY DEF changed_line, start, end
<1> HIDE DEF lo, hi
<1>6. With(changed_line(t, a, b), t, t.row, t.cursor_x, lo, hi)
  BY <1>3, <1>4, <1>5, SetDirty
<1>7. 1 <= a /\ a <= W => lo <= a - 1
  BY <1>1, <1>2, <1>3
<1>8. b + 1 \in Columns => hi >= b + 1
  BY <1>1, <1>2, <1>4
<1>9. lo <= a /\ (b \in Columns => hi >= b)
  BY <1>1, <1>2, <1>3, <1>4
<1> QED BY <1>3, <1>4, <1>6, <1>7, <1>8, <1>9 DEF With

LEMMA WithFollows ==
  ASSUME NEW t \in Terms, NEW u, NEW line, NEW x, NEW a, NEW b, With(u, t, line, x, a, b),
         a <= t.startx, b >= t.endx,
         \A c \in Columns : c \in a .. b \/ line[c] = t.row[c]
  PROVE  Follows(t, u)
BY DEF With, Follows

LEMMA MoveFollows ==
  ASSUME NEW t \in Terms, NEW x \in Nat
  PROVE  /\ Follows(t, move_cursor(t, x))
         /\ With(move_cursor(t, x), t, t.row, move_cursor(t, x).cursor_x, t.startx, t.endx)
         /\ x = 0 => move_cursor(t, x).cursor_x = 0
<1> DEFINE to == AtMost(x, W - 1)
           y == IF to > 0 /\ t.row[to].type = "DoubleRight" THEN to - 1 ELSE to
<1>1. W \in Nat /\ W >= 3 /\ t.startx \in Int /\ t.endx \in Int
  BY RowAssumption, TermIs
<1>2. to \in 0 .. W - 1 /\ (x = 0 => to = 0)
  BY <1>1 DEF AtMost
<1>3. move_cursor(t, x) = [t EXCEPT !.cursor_x = y]
  BY DEF move_cursor
<1> HIDE DEF to
<1>4. y \in 0 .. W /\ (x = 0 => y = 0)
  BY <1>1, <1>2
<1> HIDE DEF y
<1>5. With(move_cursor(t, x), t, t.row, y, t.startx, t.endx)
  BY <1>3, <1>4, SetCursor
<1>6. Follows(t, move_cursor(t, x))
  BY <1>1, <1>5, WithFollows
<1> QED BY <1>4, <1>5, <1>6 DEF With

\* A row replaced between two columns, which are then marked.
LEMMA MarkedFollows ==
  ASSUME NEW t \in Terms, NEW line \in [Columns -> Cell], NEW a \in Columns, NEW b \in Columns,
         \A c \in Columns : c \in a .. b \/ line[c] = t.row[c]
  PROVE  LET u == changed_line([t EXCEPT !.row = line], a, b)
         IN  /\ Follows(t, u) /\ With(u, t, line, t.cursor_x, u.startx, u.endx)
             /\ u.startx <= a /\ u.endx >= b
<1> DEFINE v == [t EXCEPT !.row = line]
           u == changed_line(v, a, b)
<1>1. With(v, t, line, t.cursor_x, t.startx, t.endx)
  BY SetRow
<1>2. a \in Nat /\ b \in Nat /\ t.startx \in Int /\ t.endx \in Int
  BY RowAssumption, TermIs DEF Columns
<1> HIDE DEF v
<1>3. /\ With(u, v, v.row, v.cursor_x, u.startx, u.endx)
      /\ u.startx <= v.startx /\ u.endx >= v.endx
      /\ u.startx <= a /\ u.endx >= b
  BY <1>1, <1>2, ChangedLineIs DEF With
<1> HIDE DEF u
<1>4. With(u, t, line, t.cursor_x, u.startx, u.endx) /\ u.startx <= t.startx /\ u.endx >= t.endx
  BY <1>1, <1>3 DEF With
<1>5. u.startx \in Int /\ u.endx \in Int
  BY <1>4, TermIs DEF With
<1>6. \A c \in Columns : c \in u.startx .. u.endx \/ line[c] = t.row[c]
  BY <1>2, <1>3, <1>5 DEF Columns
<1>7. Follows(t, u)
  BY <1>4, <1>6, WithFollows
<1> QED BY <1>3, <1>4, <1>7 DEF u, v

LEMMA FollowsSelf ==
  ASSUME NEW t \in Terms
  PROVE  Follows(t, t)
BY TermIs DEF Follows

LEMMA ErasedIsCell == Erased \in Cell
BY RowAssumption DEF Erased, Cell, Types

LEMMA ClearFollows ==
  ASSUME NEW t \in Terms, NEW a \in Nat, NEW b \in Int
  PROVE  Follows(t, clear_area(t, a, b))
<1> DEFINE to == AtMost(b, W - 1)
           line == [c \in Columns |-> IF c \in a .. to THEN Erased ELSE t.row[c]]
<1>1. W \in Nat /\ W >= 3 /\ to \in Int /\ to <= W - 1 /\ t.row \in [Columns -> Cell]
  BY RowAssumption, TermIs DEF AtMost
<1>2. CASE a >= W \/ a > to
  BY <1>2, FollowsSelf DEF clear_area
<1>3. CASE ~(a >= W \/ a > to)
  <2>1. clear_area(t, a, b) = changed_line([t EXCEPT !.row = line], a, to)
    BY <1>3 DEF clear_area
  <2>2. a \in Columns /\ to \in Columns
    BY <1>1, <1>3 DEF Columns
  <2>3. line \in [Columns -> Cell]
    BY <1>1, ErasedIsCell
  <2>4. \A c \in Columns : c \in a .. to \/ line[c] = t.row[c]
    OBVIOUS
  <2> HIDE DEF line, to
  <2> QED BY <2>1, <2>2, <2>3, <2>4, MarkedFollows
<1> QED BY <1>2, <1>3

LEMMA ShiftFollows ==
  ASSUME NEW t \in Terms, t.cursor_x \in Columns, NEW n \in Int
  PROVE  Follows(t, shift_text(t, n))
<1> DEFINE Source(c) == IF n > 0 /\ c < t.cursor_x + n THEN -1 ELSE c - n
           line == [c \in Columns |->
                      IF c < t.cursor_x THEN t.row[c]
                      ELSE IF Source(c) \in Columns THEN t.row[Source(c)] ELSE Erased]
<1>1. W \in Nat /\ W >= 3 /\ t.row \in [Columns -> Cell] /\ t.cursor_x \in Int
  BY RowAssumption, TermIs
<1>2. shift_text(t, n) = changed_line([t EXCEPT !.row = line], t.cursor_x, W - 1)
  BY DEF shift_text
<1>3. line \in [Columns -> Cell]
  <2> HIDE DEF Source
  <2> QED BY <1>1, ErasedIsCell
<1>4. \A c \in Columns : c \in t.cursor_x .. W - 1 \/ line[c] = t.row[c]
  <2> SUFFICES ASSUME NEW c \in Columns, c \notin t.cursor_x .. W - 1 PROVE line[c] = t.row[c]
    OBVIOUS
  <2>1. c < t.cursor_x
    BY <1>1 DEF Columns
  <2> QED BY <2>1
<1>5. W - 1 \in Columns
  BY <1>1 DEF Columns
<1> HIDE DEF line
<1> QED BY <1>2, <1>3, <1>4, <1>5, MarkedFollows

\* Where a character is written there is room for it.
LEMMA RoomIs ==
  ASSUME NEW t \in Terms, NEW char \in Narrow \cup Wide,
         ~(char \in Wide /\ Overflows(t, char) /\ ~t.auto_wrap)
  PROVE  /\ Room(t, char) \in Terms /\ ~Overflows(Room(t, char), char)
         /\ Blanks(t, char) \/ Follows(t, Room(t, char))
<1>1. W \in Nat /\ W >= 3 /\ t.row \in [Columns -> Cell] /\ t.cursor_x \in 0 .. W
      /\ t.startx \in Int /\ t.endx \in Int /\ W - 1 \in Columns
  BY RowAssumption, TermIs DEF Columns
<1>2. CASE ~Overflows(t, char)
  BY <1>2, FollowsSelf DEF Room
<1>3. CASE Overflows(t, char) /\ t.auto_wrap
  <2> DEFINE line == [t.row EXCEPT ![W - 1] = Erased]
             v == IF Blanks(t, char) THEN [t EXCEPT !.row[W - 1] = Erased] ELSE t
             u == move_cursor(v, 0)
  <2>1. Room(t, char) = u
    BY <1>3 DEF Room, Wrapped
  <2>2. line \in [Columns -> Cell]
    BY <1>1, ErasedIsCell
  <2>3. [t EXCEPT !.row[W - 1] = Erased] = [t EXCEPT !.row = line]
    OBVIOUS
  <2>4. v \in Terms /\ (v = t \/ Blanks(t, char))
    <3> HIDE DEF line
    <3>1. [t EXCEPT !.row = line] \in Terms
      BY <2>2, SetRow DEF With
    <3> QED BY <2>3, <3>1
  <2> HIDE DEF v
  <2>5. Follows(v, u) /\ u \in Terms /\ u.cursor_x = 0
    <3>1. 0 \in Nat
      OBVIOUS
    <3> QED BY <2>4, <3>1, MoveFollows DEF Follows
  <2> HIDE DEF u
  <2>6. ~Overflows(u, char)
    BY <1>1, <2>5 DEF Overflows
  <2> QED BY <2>1, <2>4, <2>5, <2>6
<1>4. CASE Overflows(t, char) /\ ~t.auto_wrap
  <2>1. Room(t, char) = [t EXCEPT !.cursor_x = W - 1] /\ char \notin Wide
    BY <1>4 DEF Room
  <2>2. With(Room(t, char), t, t.row, W - 1, t.startx, t.endx)
    <3>1. W - 1 \in 0 .. W
      BY <1>1
    <3> QED BY <2>1, <3>1, SetCursor
  <2>3. Follows(t, Room(t, char))
    BY <1>1, <2>2, WithFollows
  <2>4. ~Overflows(Room(t, char), char)
    BY <1>1, <2>1, <2>2 DEF Overflows, With
  <2> QED BY <2>2, <2>3, <2>4 DEF With
<1> QED BY <1>2, <1>3, <1>4

LEMMA StepIs ==
  ASSUME NEW t \in Terms, NEW char \in Narrow \cup Wide, ~Overflows(t, char)
  PROVE  /\ Step(char) \in {1, 2} /\ t.cursor_x \in Columns
         /\ t.cursor_x + Step(char) - 1 \in Columns
         /\ t.cursor_x \in Nat /\ t.cursor_x + Step(char) \in 0 .. W
<1>1. W \in Nat /\ W >= 3 /\ t.cursor_x \in 0 .. W
  BY RowAssumption, TermIs
<1> QED BY <1>1 DEF Overflows, Step, Columns

LEMMA OpenedFollows ==
  ASSUME NEW t \in Terms, NEW char \in Narrow \cup Wide, ~Overflows(t, char)
  PROVE  LET u == Opened(t, char)
         IN  /\ Follows(t, u) /\ With(u, t, u.row, t.cursor_x, u.startx, u.endx)
             /\ u.startx <= t.cursor_x /\ u.endx >= t.cursor_x + Step(char) - 1
<1> DEFINE n == Step(char)
           x == t.cursor_x
<1>1. /\ n \in {1, 2} /\ x \in Columns /\ x + n - 1 \in Columns /\ x \in Nat
      /\ W \in Nat /\ W >= 3 /\ t.row \in [Columns -> Cell] /\ W - 1 \in Columns
      /\ t.startx \in Int /\ t.endx \in Int
  BY StepIs, RowAssumption, TermIs DEF Columns
<1>2. CASE t.insert_mode
  <2> DEFINE line == [c \in Columns |-> IF c >= x + n THEN t.row[c - n] ELSE t.row[c]]
             u == changed_line([t EXCEPT !.row = line], x, W - 1)
  <2>1. Opened(t, char) = u
    BY <1>2 DEF Opened
  <2>2. line \in [Columns -> Cell]
    <3>1. ASSUME NEW c \in Columns, c >= x + n PROVE c - n \in Columns
      <4> HIDE DEF n, x
      <4> QED BY <1>1, <3>1 DEF Columns
    <3> QED BY <1>1, <3>1
  <2>3. \A c \in Columns : c \in x .. W - 1 \/ line[c] = t.row[c]
    <3> SUFFICES ASSUME NEW c \in Columns, c \notin x .. W - 1 PROVE line[c] = t.row[c]
      OBVIOUS
    <3>1. c < x + n
      <4> HIDE DEF n, x
      <4> QED BY <1>1 DEF Columns
    <3>2. ~(c >= x + n)
      <4> HIDE DEF n, x
      <4> QED BY <1>1, <3>1 DEF Columns
    <3> QED BY <3>2
  <2> HIDE DEF line
  <2>4. /\ Follows(t, u) /\ With(u, t, line, t.cursor_x, u.startx, u.endx)
        /\ u.startx <= x /\ u.endx >= W - 1
    BY <1>1, <2>2, <2>3, MarkedFollows
  <2>5. x + n - 1 <= W - 1 /\ u.endx \in Int /\ x + n - 1 \in Int
    BY <1>1, <2>4, TermIs DEF Columns, With
  <2>6. u.endx >= x + n - 1
    <3> HIDE DEF u, x, n
    <3> QED BY <1>1, <2>4, <2>5
  <2> QED BY <2>1, <2>4, <2>6 DEF With
<1>3. CASE ~t.insert_mode
  <2> DEFINE u == changed_line(t, x, x + n - 1)
  <2>1. Opened(t, char) = u
    BY <1>3 DEF Opened
  <2>2. x + n - 1 \in Nat
    BY <1>1 DEF Columns
  <2>3. /\ With(u, t, t.row, t.cursor_x, u.startx, u.endx)
        /\ u.startx <= t.startx /\ u.endx >= t.endx
        /\ u.startx <= x /\ u.endx >= x + n - 1
    BY <1>1, <2>2, ChangedLineIs
  <2>4. u.row = t.row /\ Follows(t, u)
    BY <2>3, WithFollows DEF With
  <2> QED BY <2>1, <2>3, <2>4
<1> QED BY <1>2, <1>3, TermIs

LEMMA WrittenFollows ==
  ASSUME NEW t \in Terms, NEW char \in Narrow \cup Wide, ~Overflows(t, char)
  PROVE  Follows(t, Written(Opened(t, char), char))
<1> DEFINE n == Step(char)
           u == Opened(t, char)
           x == u.cursor_x
           type(c) == IF char \in Narrow THEN "Single"
                      ELSE IF c = x THEN "DoubleLeft" ELSE "DoubleRight"
           line == [c \in Columns |-> IF c \in x .. x + n - 1
                                      THEN [char |-> char, type |-> type(c)] ELSE u.row[c]]
           v == Written(u, char)
<1>1. /\ Follows(t, u) /\ u \in Terms /\ x = t.cursor_x
      /\ u.startx <= x /\ u.endx >= x + n - 1
  BY OpenedFollows DEF With
<1>2. /\ n \in {1, 2} /\ x \in Nat /\ x + n \in 0 .. W /\ u.row \in [Columns -> Cell]
      /\ u.startx \in Int /\ u.endx \in Int
  BY <1>1, StepIs, TermIs
<1>3. v = [u EXCEPT !.row = line, !.cursor_x = x + n]
  BY DEF Written
<1>4. line \in [Columns -> Cell]
  <2>1. \A c \in Columns : [char |-> char, type |-> type(c)] \in Cell
    BY DEF Cell, Types
  <2> HIDE DEF type, u, n
  <2> QED BY <1>2, <2>1
<1>5. \A c \in Columns : c \in u.startx .. u.endx \/ line[c] = u.row[c]
  <2> SUFFICES ASSUME NEW c \in Columns, c \notin u.startx .. u.endx PROVE line[c] = u.row[c]
    OBVIOUS
  <2>1. c \notin x .. x + n - 1
    <3>1. c \in Int
      BY RowAssumption DEF Columns
    <3> HIDE DEF u, x, n
    <3> QED BY <1>1, <1>2, <3>1
  <2> QED BY <2>1
<1> HIDE DEF line, u
<1>6. With(v, u, line, x + n, u.startx, u.endx)
  <2> HIDE DEF v, n, x
  <2> QED BY <1>1, <1>2, <1>3, <1>4, SetBoth
<1>7. Follows(u, v)
  <2> HIDE DEF v
  <2> QED BY <1>1, <1>2, <1>5, <1>6, WithFollows
<1> QED BY <1>1, <1>7, FollowsOn DEF u

\* An operation inside a call of VTerm::input keeps the invariant when it
\* marks what it changes, or spoils the row.
LEMMA HandlerKeeps ==
  ASSUME RowKept, NEW t \in Terms, Handler(t), spoiled' \in BOOLEAN,
         spoiled' \/ (~spoiled /\ Follows(term, t))
  PROVE  RowKept'
<1>1. /\ stage = "input" /\ stage' = stage /\ term' = t /\ screen' = screen /\ mCursor' = mCursor
  BY DEF Handler
<1>2. ASSUME ~spoiled' PROVE Behind(t, screen)
  <2>1. Behind(term, screen) /\ term \in Terms /\ Follows(term, t)
    BY <1>1, <1>2 DEF RowKept
  <2> QED BY <2>1, BehindFollows
<1> QED BY <1>1, <1>2 DEF RowKept

LEMMA EditKeeps ==
  ASSUME RowKept, NEW t, Edit(t), Follows(term, t)
  PROVE  RowKept'
<1>1. Handler(t) /\ spoiled' = spoiled
  BY DEF Edit
<1>2. t \in Terms /\ spoiled \in BOOLEAN
  BY DEF Follows, RowKept
<1> QED BY <1>1, <1>2, HandlerKeeps

LEMMA RowKeptByMotion ==
  ASSUME RowKept,
         \/ bs \/ cr
         \/ \E n \in 1 .. 2 : cursor_left(n) \/ cursor_right(n)
         \/ \E x \in 1 .. W : cursor_position_col(x)
  PROVE  RowKept'
<1>1. term \in Terms /\ term.cursor_x \in 0 .. W /\ W \in Nat /\ W >= 3
  BY TermIs, RowAssumption DEF RowKept
<1>2. PICK x \in Nat : Edit(move_cursor(term, x))
  <2>1. CASE bs
    <3> DEFINE x == term.cursor_x - 1
               y == IF term.row[x].type = "DoubleRight" /\ x > 0 THEN x - 1 ELSE x
    <3>1. term.cursor_x > 0 /\ Edit(move_cursor(term, y))
      BY <2>1 DEF bs
    <3>2. y \in Nat
      BY <1>1, <3>1
    <3> QED BY <3>1, <3>2
  <2>2. CASE cr
    BY <2>2 DEF cr
  <2>3. ASSUME NEW n \in 1 .. 2, cursor_left(n) PROVE \E x \in Nat : Edit(move_cursor(term, x))
    <3> DEFINE x == IF term.cursor_x < n THEN 0 ELSE term.cursor_x - n
               y == IF x > 0 /\ CellAt(term.row, x).type = "DoubleRight" THEN x - 1 ELSE x
    <3>1. Edit(move_cursor(term, y))
      BY <2>3 DEF cursor_left
    <3>2. x \in Nat
      BY <1>1
    <3> HIDE DEF x
    <3>3. y \in Nat
      BY <3>2
    <3> QED BY <3>1, <3>3
  <2>4. ASSUME NEW n \in 1 .. 2, cursor_right(n) PROVE \E x \in Nat : Edit(move_cursor(term, x))
    <3> DEFINE x == AtMost(term.cursor_x + n, W - 1)
               y == IF x < W - 1 /\ term.row[x].type = "DoubleRight" THEN x + 1 ELSE x
    <3>1. Edit(move_cursor(term, y))
      BY <2>4 DEF cursor_right
    <3>2. x \in Nat
      BY <1>1 DEF AtMost
    <3> HIDE DEF x
    <3>3. y \in Nat
      BY <3>2
    <3> QED BY <3>1, <3>3
  <2>5. ASSUME NEW x \in 1 .. W, cursor_position_col(x)
        PROVE  \E y \in Nat : Edit(move_cursor(term, y))
    <3>1. x - 1 \in Nat
      BY <1>1
    <3> QED BY <2>5, <3>1 DEF cursor_position_col
  <2> QED BY <2>1, <2>2, <2>3, <2>4, <2>5
<1>3. Follows(term, move_cursor(term, x))
  BY <1>1, MoveFollows
<1> QED BY <1>2, <1>3, EditKeeps

LEMMA RowKeptByErasing ==
  ASSUME RowKept,
         \/ \E n \in 1 .. 2 : insert_char(n) \/ delete_char(n) \/ erase_char(n)
         \/ \E mode \in 0 .. 2 : erase_line(mode)
  PROVE  RowKept'
<1>1. /\ term \in Terms /\ term.cursor_x \in 0 .. W /\ term.cursor_x \in Nat
      /\ W \in Nat /\ W >= 3 /\ W - 1 \in Int /\ 0 \in Nat
  BY TermIs, RowAssumption DEF RowKept
<1>2. PICK t : Edit(t) /\ Follows(term, t)
  <2>1. Follows(term, clear_area(term, term.cursor_x, W - 1))
    BY <1>1, ClearFollows
  <2>2. ASSUME NEW n \in 1 .. 2, ~(n >= W - term.cursor_x), NEW d \in {n, -n}
        PROVE  Follows(term, shift_text(term, d))
    <3>1. term.cursor_x \in Columns /\ d \in Int
      BY <1>1, <2>2 DEF Columns
    <3> QED BY <1>1, <3>1, ShiftFollows
  <2>3. ASSUME NEW n \in 1 .. 2, insert_char(n) PROVE \E t : Edit(t) /\ Follows(term, t)
    <3>1. CASE n >= W - term.cursor_x
      BY <2>1, <2>3, <3>1 DEF insert_char
    <3>2. CASE ~(n >= W - term.cursor_x)
      <4>1. Edit(shift_text(term, n))
        BY <2>3, <3>2 DEF insert_char
      <4> QED BY <2>2, <3>2, <4>1
    <3> QED BY <3>1, <3>2
  <2>4. ASSUME NEW n \in 1 .. 2, delete_char(n) PROVE \E t : Edit(t) /\ Follows(term, t)
    <3>1. CASE n >= W - term.cursor_x
      BY <2>1, <2>4, <3>1 DEF delete_char
    <3>2. CASE ~(n >= W - term.cursor_x)
      <4>1. Edit(shift_text(term, -n))
        BY <2>4, <3>2 DEF delete_char
      <4>2. Follows(term, shift_text(term, -n))
        BY <2>2, <3>2
      <4> QED BY <4>1, <4>2
    <3> QED BY <3>1, <3>2
  <2>5. ASSUME NEW n \in 1 .. 2, erase_char(n) PROVE \E t : Edit(t) /\ Follows(term, t)
    <3> DEFINE b == term.cursor_x + AtMost(n, W - term.cursor_x) - 1
    <3>1. b \in Int
      BY <1>1 DEF AtMost
    <3>2. Edit(clear_area(term, term.cursor_x, b))
      BY <2>5 DEF erase_char
    <3> HIDE DEF b
    <3>3. Follows(term, clear_area(term, term.cursor_x, b))
      BY <1>1, <3>1, ClearFollows
    <3> QED BY <3>2, <3>3
  <2>6. ASSUME NEW mode \in 0 .. 2, erase_line(mode) PROVE \E t : Edit(t) /\ Follows(term, t)
    <3>1. \/ Edit(clear_area(term, term.cursor_x, W - 1))
          \/ Edit(clear_area(term, 0, term.cursor_x))
          \/ Edit(clear_area(term, 0, W - 1))
      BY <2>6 DEF erase_line
    <3>2. /\ Follows(term, clear_area(term, 0, term.cursor_x))
          /\ Follows(term, clear_area(term, 0, W - 1))
      BY <1>1, ClearFollows
    <3> QED BY <2>1, <3>1, <3>2
  <2> QED BY <2>3, <2>4, <2>5, <2>6
<1> QED BY <1>2, EditKeeps

LEMMA RowKeptByMode ==
  ASSUME RowKept,
         \/ \E enable \in BOOLEAN : \/ enable_mode("insert_mode", enable)
                                    \/ enable_mode("auto_wrap", enable)
                                    \/ show_cursor(enable)
         \/ \E shape \in Shapes : set_cursor_type(shape)
  PROVE  RowKept'
<1> DEFINE t1(e) == [term EXCEPT !["insert_mode"] = e]
           t2(e) == [term EXCEPT !["auto_wrap"] = e]
           t3(e) == [term EXCEPT !.cursor_visible = e]
           t4(s) == [term EXCEPT !.shape = s]
<1>1. term \in Terms /\ term.startx \in Int /\ term.endx \in Int /\ spoiled \in BOOLEAN
  BY TermIs DEF RowKept
<1>2. ASSUME NEW e \in BOOLEAN PROVE Follows(term, t1(e)) /\ Follows(term, t2(e)) /\ Follows(term, t3(e))
  <2>1. t1(e) = [row |-> term.row, cursor_x |-> term.cursor_x, startx |-> term.startx,
                 endx |-> term.endx, auto_wrap |-> term.auto_wrap, insert_mode |-> e,
                 cursor_visible |-> term.cursor_visible, shape |-> term.shape]
    BY <1>1, TermIs
  <2>2. t2(e) = [row |-> term.row, cursor_x |-> term.cursor_x, startx |-> term.startx,
                 endx |-> term.endx, auto_wrap |-> e, insert_mode |-> term.insert_mode,
                 cursor_visible |-> term.cursor_visible, shape |-> term.shape]
    BY <1>1, TermIs
  <2>3. t3(e) = [row |-> term.row, cursor_x |-> term.cursor_x, startx |-> term.startx,
                 endx |-> term.endx, auto_wrap |-> term.auto_wrap, insert_mode |-> term.insert_mode,
                 cursor_visible |-> e, shape |-> term.shape]
    BY <1>1, TermIs
  <2> HIDE DEF t1, t2, t3
  <2>4. t1(e) \in Terms /\ t2(e) \in Terms /\ t3(e) \in Terms
    BY <1>1, <2>1, <2>2, <2>3, TermIs DEF Terms
  <2>5. Follows(term, t1(e))
    BY <1>1, <2>1, <2>4 DEF Follows
  <2>6. Follows(term, t2(e))
    BY <1>1, <2>2, <2>4 DEF Follows
  <2>7. Follows(term, t3(e))
    BY <1>1, <2>3, <2>4 DEF Follows
  <2> QED BY <2>5, <2>6, <2>7
<1>3. ASSUME NEW s \in Shapes PROVE Follows(term, t4(s))
  <2>1. t4(s) = [row |-> term.row, cursor_x |-> term.cursor_x, startx |-> term.startx,
                 endx |-> term.endx, auto_wrap |-> term.auto_wrap, insert_mode |-> term.insert_mode,
                 cursor_visible |-> term.cursor_visible, shape |-> s]
    BY <1>1, TermIs
  <2> HIDE DEF t4
  <2>2. t4(s) \in Terms
    BY <1>1, <2>1, TermIs DEF Terms
  <2> QED BY <1>1, <2>1, <2>2 DEF Follows
<1>4. PICK t : Handler(t) /\ spoiled' = spoiled /\ Follows(term, t)
  <2>1. ASSUME NEW e \in BOOLEAN, enable_mode("insert_mode", e)
        PROVE  Handler(t1(e)) /\ spoiled' = spoiled
    BY <2>1 DEF enable_mode, Edit
  <2>2. ASSUME NEW e \in BOOLEAN, enable_mode("auto_wrap", e)
        PROVE  Handler(t2(e)) /\ spoiled' = spoiled
    BY <2>2 DEF enable_mode, Edit
  <2>3. ASSUME NEW e \in BOOLEAN, show_cursor(e)
        PROVE  Handler(t3(e)) /\ spoiled' = spoiled
    BY <2>3 DEF show_cursor
  <2>4. ASSUME NEW s \in Shapes, set_cursor_type(s)
        PROVE  Handler(t4(s)) /\ spoiled' = spoiled
    BY <2>4 DEF set_cursor_type
  <2> HIDE DEF t1, t2, t3, t4
  <2> QED BY <1>2, <1>3, <2>1, <2>2, <2>3, <2>4
<1>5. t \in Terms
  BY <1>4 DEF Follows
<1> QED BY <1>1, <1>4, <1>5, HandlerKeeps

LEMMA RowKeptByChar ==
  ASSUME RowKept, NEW char \in Narrow \cup Wide,
         do_normal_char(char) \/ insert_at_column_0(char)
  PROVE  RowKept'
<1>1. CASE do_normal_char(char)
  <2> DEFINE t == Room(term, char)
             u == Written(Opened(t, char), char)
  <2>1. /\ ~(char \in Wide /\ Overflows(term, char) /\ ~term.auto_wrap)
        /\ Handler(u) /\ spoiled' = (spoiled \/ Blanks(term, char))
    BY <1>1 DEF do_normal_char
  <2>2. term \in Terms /\ spoiled \in BOOLEAN
    BY DEF RowKept
  <2>3. t \in Terms /\ ~Overflows(t, char) /\ (Blanks(term, char) \/ Follows(term, t))
    BY <2>1, <2>2, RoomIs
  <2> HIDE DEF t
  <2>4. Follows(t, u)
    BY <2>3, WrittenFollows
  <2> HIDE DEF u
  <2>5. Blanks(term, char) \/ Follows(term, u)
    BY <2>2, <2>3, <2>4, FollowsOn
  <2>6. u \in Terms /\ spoiled' \in BOOLEAN
    BY <2>1, <2>2, <2>4 DEF Follows, Blanks
  <2> QED BY <2>1, <2>2, <2>5, <2>6, HandlerKeeps
<1>2. CASE insert_at_column_0(char)
  BY <1>2 DEF insert_at_column_0, RowKept
<1> QED BY <1>1, <1>2

LEMMA RowKeptByAlarm ==
  ASSUME RowKept, Expire
  PROVE  RowKept'
<1>1. /\ term' = term /\ screen' = screen /\ mCursor' = mCursor /\ stage' = stage
      /\ spoiled' = spoiled
  BY DEF Expire
<1> QED BY <1>1 DEF RowKept, Settled

LEMMA RowStarts == RowInit => RowKept
<1> SUFFICES ASSUME RowInit PROVE RowKept
  OBVIOUS
<1>1. PICK shape \in Shapes :
        term = [row |-> [c \in Columns |-> Erased], cursor_x |-> 0,
                startx |-> W, endx |-> 0, auto_wrap |-> TRUE,
                insert_mode |-> FALSE, cursor_visible |-> TRUE,
                shape |-> shape]
  BY DEF RowInit
<1>2. /\ screen = [c \in Columns |-> Plain(Space)]
      /\ mCursor = [x |-> -1, cell |-> Erased, showed |-> FALSE]
      /\ stage = "idle" /\ spoiled = FALSE
  BY DEF RowInit
<1>3. W \in Nat /\ W >= 3 /\ 0 \in Columns /\ Erased \in Cell /\ Space \in Narrow
  BY RowAssumption, ErasedIsCell DEF Columns
<1>4. term \in Terms
  BY <1>1, <1>3 DEF Terms
<1>5. Plain(Space) = [glyph |-> [char |-> Space, half |-> "Single"], cursor |-> FALSE]
  BY DEF Plain, Glyph
<1>6. screen \in Screens /\ mCursor \in Cursors
  BY <1>2, <1>3, <1>5 DEF Screens, Cursors, Types
<1>7. Whole(term.row)
  BY <1>1 DEF Whole, Erased
<1>8. /\ \A c \in Columns : ShowsCell(screen[c], term.row[c])
      /\ \A c \in Columns : ~screen[c].cursor
  BY <1>1, <1>2, <1>5 DEF ShowsCell, Glyph, Erased
<1>9. mCursor.x \notin Columns
  BY <1>2, <1>3 DEF Columns
<1>10. Settled
  BY <1>1, <1>7, <1>8, <1>9 DEF Settled, Marked
<1> QED BY <1>2, <1>4, <1>6, <1>10 DEF RowKept

ScreenColumn == [glyph : [char : Narrow \cup Wide, half : Types], cursor : BOOLEAN]

LEMMA PaintedIs ==
  ASSUME NEW cell \in Cell, NEW p, NEW i
  PROVE  Painted(cell, p, i) \in ScreenColumn
<1>1. cell.char \in Narrow \cup Wide
  BY DEF Cell
<1> QED BY <1>1 DEF Painted, ScreenColumn, Glyph, Types

LEMMA ExposeIsScreen ==
  ASSUME NEW line \in [Columns -> Cell], NEW scr \in Screens, NEW a, NEW b
  PROVE  expose(line, scr, a, b) \in Screens
<1>1. \A x : CellAt(line, x) \in Cell
  BY ErasedIsCell DEF CellAt
<1>2. \A x, p, i : Painted(CellAt(line, x), p, i) \in ScreenColumn
  BY <1>1, PaintedIs
<1>3. \A p \in Columns : scr[p] \in ScreenColumn
  BY DEF Screens, ScreenColumn
<1>4. Screens = [Columns -> ScreenColumn]
  BY DEF Screens, ScreenColumn
<1> DEFINE s == IF line[a].type = "DoubleRight" THEN a - 1 ELSE a
           e == IF line[b].type = "DoubleLeft" THEN b + 1 ELSE b
           run == Runs(line, s, e)
           ColumnsOver(p) == {c \in Drawn(line, s, e) : p \in run[c].at .. run[c].next - 1}
           after == [p \in Columns |->
                       IF ColumnsOver(p) = {} THEN scr[p]
                       ELSE Painted(CellAt(line, Max(ColumnsOver(p))), run[Max(ColumnsOver(p))].at, p)]
<1>5. expose(line, scr, a, b) = IF s < 0 THEN scr ELSE after
  BY DEF expose
<1>6. after \in [Columns -> ScreenColumn]
  <2> HIDE DEF ColumnsOver, run
  <2> QED BY <1>2, <1>3
<1> HIDE DEF after
<1> QED BY <1>4, <1>5, <1>6

\* updateCursor changes the colours of the cursor's columns, not what they show.
LEMMA ToggledIsScreen ==
  ASSUME NEW scr \in Screens, NEW cur \in Cursors, cur.x \in Columns, NEW shape \in Shapes
  PROVE  Toggled(cur, scr, shape) \in Screens
<1>1. Screens = [Columns -> ScreenColumn] /\ cur.cell \in Cell /\ cur.showed \in BOOLEAN
  BY DEF Screens, ScreenColumn, Cursors
<1>2. \A r \in ScreenColumn, b \in BOOLEAN : [r EXCEPT !.cursor = b] \in ScreenColumn
  BY DEF ScreenColumn
<1> DEFINE x == IF cur.cell.type = "DoubleRight" THEN cur.x - 1 ELSE cur.x
           showed == ~cur.showed
<1>3. showed \in BOOLEAN
  BY <1>1
<1>4. CASE shape = "none"
  BY <1>4 DEF Toggled
<1>5. CASE shape = "underline"
  <2>1. Toggled(cur, scr, shape) = [scr EXCEPT ![cur.x].cursor = showed]
    BY <1>5 DEF Toggled
  <2>2. [scr EXCEPT ![cur.x].cursor = showed] = [scr EXCEPT ![cur.x] = [scr[cur.x] EXCEPT !.cursor = showed]]
    BY <1>1
  <2> HIDE DEF showed
  <2>3. [scr[cur.x] EXCEPT !.cursor = showed] \in ScreenColumn
    BY <1>1, <1>2, <1>3
  <2> QED BY <1>1, <2>1, <2>2, <2>3
<1>6. CASE shape = "block"
  <2> DEFINE area == IF cur.cell.type = "Single" THEN {x} ELSE {x, x + 1}
             new == [p \in Columns |->
                       IF p \in area THEN [Painted(cur.cell, x, p) EXCEPT !.cursor = showed]
                       ELSE scr[p]]
  <2>1. Toggled(cur, scr, shape) = new
    BY <1>6 DEF Toggled
  <2>2. \A p : Painted(cur.cell, x, p) \in ScreenColumn
    BY <1>1, PaintedIs
  <2> HIDE DEF area, x, showed
  <2>3. \A p : [Painted(cur.cell, x, p) EXCEPT !.cursor = showed] \in ScreenColumn
    BY <1>2, <1>3, <2>2
  <2>4. new \in [Columns -> ScreenColumn]
    BY <1>1, <2>3
  <2> QED BY <1>1, <2>1, <2>4
<1> QED BY <1>4, <1>5, <1>6, RowAssumption

LEMMA ToggledShows ==
  ASSUME NEW line \in [Columns -> Cell], Whole(line), NEW scr \in Screens,
         NEW cur \in Cursors, cur.x \in Columns, cur.cell = line[cur.x], NEW shape \in Shapes,
         \A c \in Columns : ShowsCell(scr[c], line[c]),
         Marked(scr, cur, shape)
  PROVE  LET new == Toggled(cur, scr, shape)
         IN  \A c \in Columns :
               /\ ShowsCell(new[c], line[c])
               /\ new[c].cursor => ~cur.showed /\ c \in CursorArea(cur, shape)
<1>1. /\ Screens = [Columns -> ScreenColumn] /\ cur.cell \in Cell /\ cur.showed \in BOOLEAN
      /\ cur.cell.type \in Types /\ cur.x \in Int
  BY DEF Screens, ScreenColumn, Cursors, Cell
<1>2. \A r \in ScreenColumn, b \in BOOLEAN : [r EXCEPT !.cursor = b].cursor = b
                                       /\ [r EXCEPT !.cursor = b].glyph = r.glyph
  BY DEF ScreenColumn
<1> DEFINE x == IF cur.cell.type = "DoubleRight" THEN cur.x - 1 ELSE cur.x
           showed == ~cur.showed
           new == Toggled(cur, scr, shape)
<1>3. showed \in BOOLEAN
  BY <1>1
<1>4. \A c \in Columns : scr[c] \in ScreenColumn /\ ShowsCell(scr[c], line[c])
                         /\ (scr[c].cursor => cur.showed /\ c \in CursorArea(cur, shape))
  BY <1>1 DEF Marked
<1>5. CASE shape = "none"
  <2>1. new = scr /\ CursorArea(cur, shape) = {}
    BY <1>5 DEF Toggled, CursorArea
  <2> QED BY <1>4, <2>1
<1>6. CASE shape = "underline"
  <2>1. CursorArea(cur, shape) = {cur.x}
    BY <1>6 DEF CursorArea
  <2>2. new = [scr EXCEPT ![cur.x].cursor = showed]
    BY <1>6 DEF Toggled
  <2> HIDE DEF new, showed
  <2>3. /\ \A c \in Columns : c # cur.x => new[c] = scr[c]
        /\ new[cur.x] = [scr[cur.x] EXCEPT !.cursor = showed]
    BY <1>1, <2>2
  <2>4. new[cur.x].cursor = showed /\ new[cur.x].glyph = scr[cur.x].glyph
    BY <1>2, <1>3, <1>4, <2>3
  <2>5. ASSUME NEW c \in Columns
        PROVE  /\ ShowsCell(new[c], line[c])
               /\ new[c].cursor => ~cur.showed /\ c \in CursorArea(cur, shape)
    <3>1. CASE c = cur.x
      <4>1. ShowsCell(new[c], line[c])
        BY <1>4, <2>4, <3>1 DEF ShowsCell
      <4>2. new[c].cursor => showed /\ c \in CursorArea(cur, shape)
        BY <2>1, <2>4, <3>1
      <4> QED BY <4>1, <4>2 DEF showed
    <3>2. CASE c # cur.x
      BY <1>4, <2>1, <2>3, <3>2
    <3> QED BY <3>1, <3>2
  <2> QED BY <2>5 DEF new
<1>7. CASE shape = "block"
  <2> DEFINE area == IF cur.cell.type = "Single" THEN {x} ELSE {x, x + 1}
  <2>1. new = [p \in Columns |->
                 IF p \in area THEN [Painted(cur.cell, x, p) EXCEPT !.cursor = showed]
                 ELSE scr[p]]
    BY <1>7 DEF Toggled
  <2>2. CursorArea(cur, shape) = area
    <3>1. cur.x - 1 + 1 = cur.x
      BY <1>1
    <3> QED BY <1>1, <1>7, <3>1 DEF CursorArea, Types
  <2>3. \A p : Painted(cur.cell, x, p) \in ScreenColumn
    BY <1>1, PaintedIs
  <2>4. ASSUME NEW c \in Columns, c \in area
        PROVE  Painted(cur.cell, x, c).glyph = Glyph(line[c].char, line[c].type)
    <3>1. /\ cur.cell.type = "DoubleLeft" =>
               line[cur.x + 1].type = "DoubleRight" /\ line[cur.x + 1].char = cur.cell.char
          /\ cur.cell.type = "DoubleRight" =>
               line[cur.x - 1].type = "DoubleLeft" /\ line[cur.x - 1].char = cur.cell.char
      BY WholeIs
    <3>2. CASE cur.cell.type = "Single"
      BY <2>4, <3>2 DEF Painted
    <3>3. CASE cur.cell.type = "DoubleLeft"
      <4>1. c = cur.x \/ (c = cur.x + 1 /\ c # cur.x)
        BY <1>1, <2>4, <3>3
      <4> QED BY <3>1, <3>3, <4>1 DEF Painted
    <3>4. CASE cur.cell.type = "DoubleRight"
      <4>1. c = x \/ (c = cur.x /\ c # x)
        BY <1>1, <2>4, <3>4
      <4>2. x = cur.x - 1
        BY <3>4
      <4> QED BY <3>1, <3>4, <4>1, <4>2 DEF Painted
    <3> QED BY <1>1, <3>2, <3>3, <3>4 DEF Types
  <2> HIDE DEF area, x, new
  <2>5. ASSUME NEW c \in Columns
        PROVE  /\ ShowsCell(new[c], line[c])
               /\ new[c].cursor => ~cur.showed /\ c \in CursorArea(cur, shape)
    <3>1. CASE c \in area
      <4> DEFINE r == Painted(cur.cell, x, c)
      <4>1. new[c] = [r EXCEPT !.cursor = showed] /\ r \in ScreenColumn
        BY <2>1, <2>3, <3>1
      <4> HIDE DEF r, showed
      <4>2. new[c].cursor = showed /\ new[c].glyph = r.glyph
        BY <1>2, <1>3, <4>1
      <4>3. r.glyph = Glyph(line[c].char, line[c].type)
        BY <2>4, <3>1 DEF r
      <4>4. ShowsCell(new[c], line[c])
        BY <4>2, <4>3 DEF ShowsCell
      <4>5. new[c].cursor => showed /\ c \in CursorArea(cur, shape)
        BY <2>2, <3>1, <4>2
      <4> QED BY <4>4, <4>5 DEF showed
    <3>2. CASE c \notin area
      <4>1. new[c] = scr[c]
        BY <2>1, <3>2
      <4> QED BY <1>4, <2>2, <3>2, <4>1
    <3> QED BY <3>1, <3>2
  <2> QED BY <2>5 DEF new
<1> QED BY <1>5, <1>6, <1>7, RowAssumption

LEMMA RowKeptByReadAlarm ==
  ASSUME RowKept, ReadAlarm
  PROVE  RowKept'
<1>1. /\ stage = "idle" /\ stage' = stage /\ term' = term /\ updateCursor
      /\ spoiled' = (spoiled \/ ~term.cursor_visible)
  BY DEF ReadAlarm
<1>2. /\ term \in Terms /\ screen \in Screens /\ mCursor \in Cursors /\ spoiled \in BOOLEAN
      /\ term.row \in [Columns -> Cell] /\ term.shape \in Shapes /\ term.cursor_visible \in BOOLEAN
  BY TermIs DEF RowKept
<1>3. ~spoiled' => ~spoiled /\ term.cursor_visible /\ Settled
  BY <1>1, <1>2 DEF RowKept
<1>4. CASE mCursor.x \notin Columns
  <2>1. mCursor' = mCursor /\ screen' = screen
    BY <1>1, <1>4 DEF updateCursor
  <2> QED BY <1>1, <1>2, <1>3, <2>1 DEF RowKept, Settled
<1>5. CASE mCursor.x \in Columns
  <2>1. mCursor' = [mCursor EXCEPT !.showed = ~@]
        /\ screen' = Toggled(mCursor, screen, term.shape)
    BY <1>1, <1>5 DEF updateCursor
  <2>2. /\ mCursor' \in Cursors /\ mCursor'.x = mCursor.x /\ mCursor'.cell = mCursor.cell
        /\ mCursor'.showed = ~mCursor.showed
    BY <1>2, <2>1 DEF Cursors
  <2>3. screen' \in Screens
    BY <1>2, <1>5, <2>1, ToggledIsScreen
  <2>4. ASSUME ~spoiled' PROVE Settled'
    <3>1. /\ Whole(term.row) /\ mCursor.x = term.cursor_x /\ mCursor.cell = term.row[mCursor.x]
          /\ \A c \in Columns : ShowsCell(screen[c], term.row[c])
          /\ Marked(screen, mCursor, term.shape)
          /\ term.startx = W /\ term.endx = 0 /\ term.cursor_visible
      BY <1>3, <1>5, <2>4 DEF Settled
    <3>2. \A c \in Columns :
            /\ ShowsCell(screen'[c], term.row[c])
            /\ screen'[c].cursor => ~mCursor.showed /\ c \in CursorArea(mCursor, term.shape)
      BY <1>2, <1>5, <2>1, <3>1, ToggledShows
    <3>3. CursorArea(mCursor', term.shape) = CursorArea(mCursor, term.shape)
      BY <2>2 DEF CursorArea
    <3>4. Marked(screen', mCursor', term.shape)
      BY <1>5, <2>2, <3>2, <3>3 DEF Marked
    <3> QED BY <1>1, <2>2, <3>1, <3>2, <3>4 DEF Settled
  <2> QED BY <1>1, <1>2, <2>2, <2>3, <2>4 DEF RowKept
<1> QED BY <1>4, <1>5

\* A call begins by marking the cursor's columns.
LEMMA RowKeptByBeginInput ==
  ASSUME RowKept, BeginInput
  PROVE  RowKept'
<1>1. /\ stage = "idle" /\ ~spoiled /\ stage' = "input"
      /\ term' = IF term.cursor_visible THEN changed_line(term, term.cursor_x, term.cursor_x)
                 ELSE term
      /\ screen' = screen /\ mCursor' = mCursor /\ spoiled' = spoiled
  BY DEF BeginInput
<1>2. /\ term \in Terms /\ screen \in Screens /\ mCursor \in Cursors /\ Settled
      /\ term.cursor_x \in 0 .. W /\ term.cursor_x \in Nat /\ W \in Nat /\ term.shape \in Shapes
  BY <1>1, TermIs, RowAssumption DEF RowKept
<1>3. CASE ~term.cursor_visible
  <2>1. Behind(term, screen)
    BY <1>2, <1>3 DEF Settled, Behind, ShowsOnly
  <2> QED BY <1>1, <1>2, <1>3, <2>1 DEF RowKept
<1>4. CASE term.cursor_visible
  <2> DEFINE x == term.cursor_x
             u == changed_line(term, x, x)
  <2>1. /\ With(u, term, term.row, term.cursor_x, u.startx, u.endx)
        /\ u.startx <= x /\ (x \in Columns => u.endx >= x)
        /\ 1 <= x /\ x <= W => u.startx <= x - 1
        /\ x + 1 \in Columns => u.endx >= x + 1
    BY <1>2, ChangedLineIs
  <2>2. term' = u
    BY <1>1, <1>4
  <2> HIDE DEF u
  <2>3. u \in Terms /\ u.row = term.row /\ u.startx \in Int /\ u.endx \in Int
    BY <2>1, TermIs DEF With
  <2>4. ASSUME NEW c \in Columns PROVE c \in u.startx .. u.endx \/ ShowsOnly(screen[c], term.row[c])
    <3>1. CASE ~screen[c].cursor
      BY <1>2, <3>1 DEF Settled, ShowsOnly
    <3>2. CASE screen[c].cursor
      <4>1. x \in Columns /\ mCursor.x = x /\ c \in CursorArea(mCursor, term.shape)
        BY <1>2, <1>4, <3>2 DEF Settled, Marked
      <4>2. c \in {x - 1, x, x + 1}
        BY <4>1 DEF CursorArea
      <4>3. c \in Int /\ 0 <= c /\ c < W /\ Columns = 0 .. W - 1 /\ x \in Nat
        BY <1>2 DEF Columns
      <4>4. c \in u.startx .. u.endx
        <5> HIDE DEF x
        <5> QED BY <1>2, <2>1, <2>3, <4>1, <4>2, <4>3
      <4> QED BY <4>4
    <3> QED BY <3>1, <3>2
  <2>5. Behind(u, screen)
    BY <2>3, <2>4 DEF Behind
  <2> QED BY <1>1, <1>2, <2>2, <2>3, <2>5 DEF RowKept
<1> QED BY <1>3, <1>4

\* update paints the dirty columns, draw_cursor the cursor.
LEMMA RowKeptByEndInput ==
  ASSUME RowKept, EndInput
  PROVE  RowKept'
<1> DEFINE dirty == term.endx >= term.startx
           scr == IF dirty THEN expose(term.row, screen, term.startx, term.endx) ELSE screen
           cur == [x |-> term.cursor_x, cell |-> CellAt(term.row, term.cursor_x), showed |-> FALSE]
<1>1. /\ stage = "input" /\ stage' = "idle" /\ spoiled' = (spoiled \/ ~Whole(term.row))
      /\ IF ~term.cursor_visible THEN mCursor' = mCursor /\ screen' = scr
         ELSE IF cur.x \notin Columns THEN mCursor' = cur /\ screen' = scr
         ELSE /\ mCursor' = [cur EXCEPT !.showed = TRUE]
              /\ screen' = Toggled(cur, scr, term.shape)
      /\ term' = [term EXCEPT !.startx = W, !.endx = 0]
  BY DEF EndInput
<1>2. /\ term \in Terms /\ screen \in Screens /\ mCursor \in Cursors /\ spoiled \in BOOLEAN
      /\ term.row \in [Columns -> Cell] /\ term.shape \in Shapes /\ term.cursor_visible \in BOOLEAN
      /\ term.startx \in 0 .. W /\ term.endx \in Columns /\ term.cursor_x \in Int
      /\ W \in Nat /\ W >= 3 /\ 0 \in Columns /\ Columns = 0 .. W - 1
  BY TermIs, RowAssumption DEF RowKept, Columns
<1>3. scr \in Screens
  <2>1. expose(term.row, screen, term.startx, term.endx) \in Screens
    BY <1>2, ExposeIsScreen
  <2> QED BY <1>2, <2>1
<1>4. ASSUME ~spoiled'
      PROVE  Whole(term.row) /\ \A c \in Columns : ShowsOnly(scr[c], term.row[c])
  <2>1. Whole(term.row) /\ ~spoiled /\ Behind(term, screen)
    BY <1>1, <1>2, <1>4 DEF RowKept
  <2>2. \A c \in Columns : c \in term.startx .. term.endx \/ ShowsOnly(screen[c], term.row[c])
    BY <2>1 DEF Behind
  <2>3. CASE dirty
    <3>1. term.startx \in Columns /\ term.startx <= term.endx
      BY <1>2, <2>3
    <3>2. \A c \in Columns :
            ShowsOnly(expose(term.row, screen, term.startx, term.endx)[c], term.row[c])
      BY <1>2, <2>1, <2>2, <3>1, ExposeShows
    <3> QED BY <2>1, <2>3, <3>2
  <2>4. CASE ~dirty
    <3>1. \A c \in Columns : c \notin term.startx .. term.endx
      BY <1>2, <2>4
    <3>2. scr = screen
      BY <2>4
    <3> QED BY <2>1, <2>2, <3>1, <3>2
  <2> QED BY <2>3, <2>4
<1> HIDE DEF scr
<1>5. With(term', term, term.row, term.cursor_x, W, 0)
  <2>1. W \in 0 .. W
    BY <1>2
  <2> QED BY <1>1, <1>2, <2>1, SetDirty
<1>6. cur \in Cursors /\ cur.x = term.cursor_x /\ cur.cell = CellAt(term.row, term.cursor_x)
      /\ cur.showed = FALSE
  BY <1>2, ErasedIsCell DEF Cursors, CellAt
<1> HIDE DEF cur
<1>7. CASE ~term.cursor_visible
  <2>1. mCursor' = mCursor /\ screen' = scr
    BY <1>1, <1>7
  <2>2. ASSUME ~spoiled' PROVE Settled'
    BY <1>4, <1>5, <1>7, <2>1, <2>2 DEF Settled, With, ShowsOnly, Marked
  <2> QED BY <1>1, <1>2, <1>3, <1>5, <2>1, <2>2 DEF RowKept, With
<1>8. CASE term.cursor_visible /\ cur.x \notin Columns
  <2>1. mCursor' = cur /\ screen' = scr
    BY <1>1, <1>8
  <2>2. ASSUME ~spoiled' PROVE Settled'
    BY <1>4, <1>5, <1>8, <2>1, <2>2 DEF Settled, With, ShowsOnly, Marked
  <2> QED BY <1>1, <1>2, <1>3, <1>5, <1>6, <2>1, <2>2 DEF RowKept, With
<1>9. CASE term.cursor_visible /\ cur.x \in Columns
  <2>1. mCursor' = [cur EXCEPT !.showed = TRUE] /\ screen' = Toggled(cur, scr, term.shape)
    BY <1>1, <1>9
  <2>2. /\ mCursor' \in Cursors /\ mCursor'.x = cur.x /\ mCursor'.cell = cur.cell
        /\ mCursor'.showed = TRUE
    BY <1>6, <2>1 DEF Cursors
  <2>3. screen' \in Screens
    BY <1>2, <1>3, <1>6, <1>9, <2>1, ToggledIsScreen
  <2>4. ASSUME ~spoiled' PROVE Settled'
    <3>1. cur.cell = term.row[cur.x]
      BY <1>6, <1>9 DEF CellAt
    <3>2. /\ Whole(term.row) /\ \A c \in Columns : ShowsCell(scr[c], term.row[c])
          /\ Marked(scr, cur, term.shape)
      BY <1>4, <2>4 DEF ShowsOnly, Marked
    <3>3. \A c \in Columns :
            /\ ShowsCell(screen'[c], term.row[c])
            /\ screen'[c].cursor => ~cur.showed /\ c \in CursorArea(cur, term.shape)
      BY <1>2, <1>3, <1>6, <1>9, <2>1, <3>1, <3>2, ToggledShows
    <3>4. CursorArea(mCursor', term.shape) = CursorArea(cur, term.shape)
      BY <2>2 DEF CursorArea
    <3>5. Marked(screen', mCursor', term.shape)
      BY <1>9, <2>2, <3>3, <3>4 DEF Marked
    <3> QED BY <1>5, <1>6, <1>9, <2>2, <3>1, <3>2, <3>3, <3>5 DEF Settled, With
  <2> QED BY <1>1, <1>2, <1>5, <2>2, <2>3, <2>4 DEF RowKept, With
<1> QED BY <1>2, <1>7, <1>8, <1>9

LEMMA RowSteps == RowKept /\ RowNext => RowKept'
<1> SUFFICES ASSUME RowKept, RowNext PROVE RowKept'
  OBVIOUS
<1>1. CASE BeginInput
  BY <1>1, RowKeptByBeginInput
<1>2. CASE EndInput
  BY <1>2, RowKeptByEndInput
<1>3. CASE Expire \/ ReadAlarm
  BY <1>3, RowKeptByAlarm, RowKeptByReadAlarm
<1>4. CASE \E char \in Narrow \cup Wide : do_normal_char(char) \/ insert_at_column_0(char)
  BY <1>4, RowKeptByChar
<1>5. CASE \/ bs \/ cr
           \/ \E n \in 1 .. 2 : cursor_left(n) \/ cursor_right(n)
           \/ \E x \in 1 .. W : cursor_position_col(x)
  BY <1>5, RowKeptByMotion
<1>6. CASE \/ \E n \in 1 .. 2 : insert_char(n) \/ delete_char(n) \/ erase_char(n)
           \/ \E mode \in 0 .. 2 : erase_line(mode)
  BY <1>6, RowKeptByErasing
<1>7. CASE \/ \E enable \in BOOLEAN : \/ enable_mode("insert_mode", enable)
                                      \/ enable_mode("auto_wrap", enable)
                                      \/ show_cursor(enable)
           \/ \E shape \in Shapes : set_cursor_type(shape)
  BY <1>7, RowKeptByMode
<1> QED BY <1>1, <1>2, <1>3, <1>4, <1>5, <1>6, <1>7 DEF RowNext

LEMMA RowIsKept ==
  ASSUME RowKept
  PROVE  RowTypeOK /\ RowIsShown /\ CursorShownOnce
<1>1. RowTypeOK
  BY TermIs DEF RowKept, RowTypeOK
<1>2. RowIsShown
  BY DEF RowKept, Settled, ShowsCell, RowIsShown
<1>3. CursorShownOnce
  <2> SUFFICES ASSUME stage = "idle", ~spoiled, NEW c \in Columns, screen[c].cursor
               PROVE  /\ mCursor.showed
                      /\ LET type == CellAt(term.row, term.cursor_x).type IN
                         \/ c = term.cursor_x
                         \/ c = term.cursor_x + 1 /\ type = "DoubleLeft"
                         \/ c = term.cursor_x - 1 /\ type = "DoubleRight"
    BY DEF CursorShownOnce
  <2>1. Settled
    BY DEF RowKept
  <2>2. term.cursor_visible
    BY <2>1 DEF Settled
  <2>3. /\ mCursor.showed /\ c \in CursorArea(mCursor, term.shape)
        /\ mCursor.x \in Columns /\ mCursor.x = term.cursor_x
        /\ mCursor.cell = term.row[term.cursor_x]
    BY <2>1, <2>2 DEF Settled, Marked
  <2>4. mCursor.cell = CellAt(term.row, term.cursor_x)
    BY <2>3 DEF CellAt
  <2> QED BY <2>3, <2>4 DEF CursorArea
<1> QED BY <1>1, <1>2, <1>3

LEMMA RowKeptStays ==
  ASSUME RowKept, UNCHANGED rowVars
  PROVE  RowKept'
<1>1. /\ term' = term /\ screen' = screen /\ mCursor' = mCursor /\ stage' = stage
      /\ spoiled' = spoiled
  BY DEF rowVars
<1> QED BY <1>1 DEF RowKept, Settled

-----------------------------------------------------------------------------
(* The parts together                                                      *)

PartsKept ==
  /\ part = "attrs" => Coloured
  /\ part = "sixel" => Imaged
  /\ part = "store" => shifted \in BOOLEAN /\ (shifted \/ HeapKept)
  /\ part = "row" => RowKept
  /\ part = "cursor" => CursorKept

LEMMA PartNames ==
  /\ "attrs" \notin DOMAIN Alphabets /\ "sixel" \notin DOMAIN Alphabets
  /\ "store" \notin DOMAIN Alphabets /\ "row" \notin DOMAIN Alphabets
  /\ "cursor" \notin DOMAIN Alphabets
BY DEF Alphabets

LEMMA PartsStart == Init => PartsKept
<1> SUFFICES ASSUME Init PROVE PartsKept
  OBVIOUS
<1>1. part = "attrs" => AttrInit
  BY PartNames DEF Init
<1>2. part = "sixel" => SixelInit
  BY PartNames DEF Init
<1>3. part = "store" => StoreInit
  BY PartNames DEF Init
<1>4. StoreInit => shifted \in BOOLEAN
  BY DEF StoreInit
<1>5. part = "row" => RowInit
  BY PartNames DEF Init
<1>6. part = "cursor" => Cursor!CursorInit
  BY PartNames DEF Init
<1> QED BY <1>1, <1>2, <1>3, <1>4, <1>5, <1>6, ColouredStarts, ImagedStarts, StoreStarts,
           RowStarts, MovedStarts DEF PartsKept

\* The invariant of a part depends on its variables only.
LEMMA ColouredStays ==
  ASSUME Coloured, UNCHANGED attrVars PROVE Coloured'
<1>1. /\ direct' = direct /\ pen' = pen /\ cells' = cells /\ requests' = requests
  BY DEF attrVars
<1> QED BY <1>1 DEF Coloured, State

LEMMA ImagedStays ==
  ASSUME Imaged, UNCHANGED sixelVars PROVE Imaged'
<1>1. canvas' = canvas /\ commands' = commands /\ pixmaps' = pixmaps /\ image' = image
  BY DEF sixelVars
<1>2. \A t : ShowsDrawing(t)' <=> ShowsDrawing(t)
  BY <1>1 DEF ShowsDrawing
<1>3. (canvas # {} => \E t : canvas = {t} /\ ShowsDrawing(t))
        => (canvas' # {} => \E t : canvas' = {t} /\ ShowsDrawing(t)')
  BY <1>1, <1>2
<1>4. CellsShowImage' <=> CellsShowImage
  BY <1>1 DEF CellsShowImage, Drawing
<1> QED BY <1>1, <1>3, <1>4 DEF Imaged, Drawing

LEMMA HeapKeptStays ==
  ASSUME HeapKept, UNCHANGED storeVars PROVE HeapKept'
<1>1. heap' = heap /\ row' = row /\ history' = history /\ shifted' = shifted
  BY DEF storeVars
<1> QED BY <1>1 DEF HeapKept, Owned, Lines

\* A step of the composition is one of the part that was chosen.
LEMMA PartStep ==
  ASSUME [Next]_vars
  PROVE  /\ part' = part
         /\ part = "attrs" => AttrNext \/ UNCHANGED attrVars
         /\ part = "sixel" => SixelNext \/ UNCHANGED sixelVars
         /\ part = "store" => StoreNext \/ UNCHANGED storeVars
         /\ part = "row" => RowNext \/ UNCHANGED rowVars
         /\ part = "cursor" => Cursor!CursorNext \/ (pos' = pos /\ rights' = rights /\ motion' = motion)
<1>1. CASE UNCHANGED vars
  BY <1>1 DEF vars
<1>2. CASE Next
  <2>1. part' = part
    BY <1>2 DEF Next
  <2>2. part = "attrs" => AttrNext
    BY <1>2, PartNames DEF Next
  <2>3. part = "sixel" => SixelNext
    BY <1>2, PartNames DEF Next
  <2>4. part = "store" => StoreNext
    BY <1>2, PartNames DEF Next
  <2>5. part = "row" => RowNext
    BY <1>2, PartNames DEF Next
  <2>6. part = "cursor" => Cursor!CursorNext
    BY <1>2, PartNames DEF Next
  <2> QED BY <2>1, <2>2, <2>3, <2>4, <2>5, <2>6
<1> QED BY <1>1, <1>2

LEMMA PartsStep == PartsKept /\ [Next]_vars => PartsKept'
<1> SUFFICES ASSUME PartsKept, [Next]_vars PROVE PartsKept'
  OBVIOUS
<1>1. part' = part
  BY PartStep
<1>2. CASE part = "attrs"
  <2>1. Coloured /\ (AttrNext \/ UNCHANGED attrVars)
    BY <1>2, PartStep DEF PartsKept
  <2>2. Coloured'
    BY <2>1, AttrSteps, ColouredStays
  <2> QED BY <1>1, <1>2, <2>2 DEF PartsKept
<1>3. CASE part = "sixel"
  <2>1. Imaged /\ (SixelNext \/ UNCHANGED sixelVars)
    BY <1>3, PartStep DEF PartsKept
  <2>2. Imaged'
    BY <2>1, SixelSteps, ImagedStays
  <2> QED BY <1>1, <1>3, <2>2 DEF PartsKept
<1>4. CASE part = "store"
  <2>1. shifted \in BOOLEAN /\ (shifted \/ HeapKept) /\ (StoreNext \/ UNCHANGED storeVars)
    BY <1>4, PartStep DEF PartsKept
  <2>2. CASE StoreNext
    BY <1>1, <1>4, <2>1, <2>2, StoreSteps DEF PartsKept
  <2>3. CASE UNCHANGED storeVars
    <3>1. shifted' = shifted
      BY <2>3 DEF storeVars
    <3>2. HeapKept => HeapKept'
      BY <2>3, HeapKeptStays
    <3> QED BY <1>1, <1>4, <2>1, <3>1, <3>2 DEF PartsKept
  <2> QED BY <2>1, <2>2, <2>3
<1>5. CASE part = "row"
  <2>1. RowKept /\ (RowNext \/ UNCHANGED rowVars)
    BY <1>5, PartStep DEF PartsKept
  <2>2. RowKept'
    BY <2>1, RowSteps, RowKeptStays
  <2> QED BY <1>1, <1>5, <2>2 DEF PartsKept
<1>6. CASE part = "cursor"
  <2>1. CursorKept /\ (Cursor!CursorNext \/ (pos' = pos /\ rights' = rights /\ motion' = motion))
    BY <1>6, PartStep DEF PartsKept
  <2>2. CursorKept'
    BY <2>1, CursorSteps, MovedStays
  <2> QED BY <1>1, <1>6, <2>2 DEF PartsKept
<1>7. CASE part \notin {"attrs", "sixel", "store", "row", "cursor"}
  BY <1>1, <1>7 DEF PartsKept
<1> QED BY <1>2, <1>3, <1>4, <1>5, <1>6, <1>7

LEMMA PartsAlwaysKept == Spec => []PartsKept
BY PartsStart, PartsStep, PTL DEF Spec

\* Whatever sequences a program sends, the pen and the cells refer to the
\* direct colours that were asked for until the table starts over, its first
\* entries stay the default colours, and the flashing cursor gives a cell its
\* colours back; for every set of colours, sequences and cells
\* (allocDirectColor, set_display_attr, adjustCharAttr).
THEOREM ColoursKept == Spec => []ColoursAreKept
<1>1. PartsKept => ColoursAreKept
  BY ColouredIsKept DEF PartsKept, ColoursAreKept
<1> QED BY <1>1, PartsAlwaysKept, PTL

\* Every pixel of a sixel image is in the cell it falls on, in its colour, and
\* no other is, and every pixmap has one owner; for every size of the terminal
\* and of its cells, and every width the images declare, but for the images
\* that CellsShowImage excuses (vterm_sixel.cpp, free_pixmap).
THEOREM ImagesKept == Spec => []ImagesAreKept
<1>1. PartsKept => ImagesAreKept
  BY ImagedIsShown DEF PartsKept, ImagesAreKept, HeapKept, PixmapsOwned
<1> QED BY <1>1, PartsAlwaysKept, PTL

\* Whatever a program prints, erases, inserts and deletes in a row, and however
\* late the alarm of the flashing cursor is read: between two calls of
\* VTerm::input every column shows its character, and the cursor is shown once;
\* and the cursor goes where tab stops, margins, the saved position and its own
\* report send it, on the screen and off the right halves; for every width of
\* the row, size of the window, alphabet and parameters (do_normal_char, expose,
\* FbShell::updateCursor, VTerm::move_cursor, tab, set_margins, restore_cursor).
THEOREM RowAndCursorKept == Spec => []RowAndCursorShown
<1>1. PartsKept => RowAndCursorShown
  BY RowIsKept, MovedIsOnScreen DEF PartsKept, RowAndCursorShown
<1> QED BY <1>1, PartsAlwaysKept, PTL

=============================================================================
