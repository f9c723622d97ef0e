---------------------------- MODULE PixmapStore ----------------------------
(***************************************************************************)
(* Who owns the pixmap of a cell (src/src/lib/vterm.cpp, vterm_sixel.cpp): *)
(* the pointers beside the cells of one row and of the history line it is  *)
(* saved to, the has_pixmap bits of their attributes, and the heap.        *)
(***************************************************************************)
EXTENDS Integers, FiniteSets

CONSTANTS
  StoreW,    \* columns of the row
  Blocks,    \* addresses malloc may return
  Null       \* the null pointer

ASSUME StoreAssumption == StoreW \in Nat \ {0, 1} /\ Null \notin Blocks

VARIABLES
  heap,      \* blocks that are allocated
  row,       \* the row on the screen: per column a pointer and has_pixmap
  history,   \* the line of the scroll-back it goes to next
  shifted    \* shift_pixmaps has moved pointers

storeVars == <<heap, row, history, shifted>>

StoreColumns == 0 .. StoreW - 1
NoPixmap == [ptr |-> Null, has |-> FALSE]
Held(line) == {line[x].ptr : x \in StoreColumns} \ {Null}

\* free_pixmap for the columns in xs.
free_pixmap(line, xs) ==
  [line |-> [x \in StoreColumns |-> IF x \in xs THEN NoPixmap ELSE line[x]],
   freed |-> {line[x].ptr : x \in xs} \ {Null}]

-----------------------------------------------------------------------------
StoreInit ==
  /\ heap = {} /\ shifted = FALSE
  /\ row = [x \in StoreColumns |-> NoPixmap]
  /\ history = [x \in StoreColumns |-> NoPixmap]

Intact == ~shifted    \* bound: what follows a shift is not modelled

\* sixel_copy_to_cells, one cell: a new pixmap takes the place of an old one,
\* if memory can be had.
copy_cell(x) ==
  /\ Intact
  /\ LET freed == heap \ free_pixmap(row, {x}).freed
         bare  == free_pixmap(row, {x}).line
     IN  \/ \E b \in Blocks \ freed :
              /\ heap' = freed \cup {b}
              /\ row' = [bare EXCEPT ![x] = [ptr |-> b, has |-> TRUE]]
         \/ heap' = freed /\ row' = bare
  /\ UNCHANGED <<history, shifted>>

\* do_normal_char over columns xs, in insert mode after the attributes, and
\* not the pointers, have moved to the right.
put_char(xs, insert_mode) ==
  /\ Intact
  /\ LET first == CHOOSE x \in xs : \A y \in xs : x <= y
         n == Cardinality(xs)
         moved == IF ~insert_mode THEN row
                  ELSE [x \in StoreColumns |->
                          IF x >= first + n
                          THEN [row[x] EXCEPT !.has = row[x - n].has] ELSE row[x]]
     IN  /\ row' = free_pixmap(moved, xs).line
         /\ heap' = heap \ free_pixmap(moved, xs).freed
  /\ UNCHANGED <<history, shifted>>

\* clear_area, reset.
erase(xs) ==
  /\ Intact
  /\ row' = free_pixmap(row, xs).line
  /\ heap' = heap \ free_pixmap(row, xs).freed
  /\ UNCHANGED <<history, shifted>>

\* screen_align writes attributes and leaves the pointers.
align ==
  /\ Intact
  /\ row' = [x \in StoreColumns |-> [row[x] EXCEPT !.has = FALSE]]
  /\ UNCHANGED <<heap, history, shifted>>

scroll_out ==
  /\ Intact
  /\ row' = free_pixmap(row, StoreColumns).line
  /\ heap' = heap \ (free_pixmap(history, StoreColumns).freed
                     \cup free_pixmap(row, StoreColumns).freed)
  /\ history' = [x \in StoreColumns |-> NoPixmap]
  /\ UNCHANGED shifted

\* shift_pixmaps moves the pointers of the row with its cells and then frees
\* those of the cells it vacates, which still hold what was moved.
Moved(n, x0) ==
  [x \in StoreColumns |->
     IF x < x0 THEN row[x]
     ELSE IF n > 0 THEN (IF x >= x0 + n THEN row[x - n] ELSE row[x])
     ELSE IF x - n \in StoreColumns THEN row[x - n] ELSE row[x]]

shift_pixmaps(n, x0) ==
  LET vacated == {x \in StoreColumns :
                    IF n > 0 THEN x \in x0 .. x0 + n - 1 ELSE x - n >= StoreW}
  IN  /\ Intact
      /\ heap' = heap \ free_pixmap(Moved(n, x0), vacated).freed
      /\ row' = free_pixmap(Moved(n, x0), vacated).line
      /\ shifted' = TRUE
      /\ UNCHANGED history

StoreNext ==
  \/ \E x \in StoreColumns :
       \/ copy_cell(x)
       \/ \E insert_mode \in BOOLEAN : put_char({x}, insert_mode)
       \/ erase({y \in StoreColumns : y >= x})
       \/ \E n \in {1, -1} : x < StoreW - 1 /\ shift_pixmaps(n, x)
  \/ \E x \in StoreColumns \ {StoreW - 1}, insert_mode \in BOOLEAN :
       put_char({x, x + 1}, insert_mode)
  \/ align \/ scroll_out

StoreSpec == StoreInit /\ [][StoreNext]_storeVars

-----------------------------------------------------------------------------
Lines == {row, history}
Owned ==
  /\ heap = Held(row) \cup Held(history)
  /\ Held(row) \cap Held(history) = {}
  /\ \A line \in Lines : \A x, y \in StoreColumns :
       (line[x].ptr = line[y].ptr /\ line[x].ptr # Null) => x = y

\* Every pixmap belongs to one cell and is freed with it, whatever is written,
\* erased, aligned or scrolled into the history over an image.
PixmapsOwned == shifted \/ Owned
=============================================================================
