----------------------------- MODULE TermParams -----------------------------
(***************************************************************************)
(* What the handlers of src/src/lib/vterm_action.cpp read out of the       *)
(* numeric parameters of a control sequence.  A parameter list is a        *)
(* function p on 0 .. NPAR-1 and the index npar of its last entry.         *)
(***************************************************************************)
EXTENDS Naturals, Sequences

\* Extended colours: 38 and 48 take "5;index" or "2;red;green;blue" along.
SgrLength(p, npar, n) ==
  IF p[n] \notin {38, 48} THEN 1
  ELSE IF n + 2 <= npar /\ p[n + 1] = 5 THEN 3
  ELSE IF n + 4 <= npar /\ p[n + 1] = 2 THEN 5
  ELSE 1

\* The items of a "CSI ... m" sequence in the order in which
\* set_display_attr applies them, each with the parameters it takes along.
SgrItems(p, npar) ==
  LET from[n \in 0 .. npar + 5] ==
        IF n > npar THEN << >>
        ELSE << [i \in 1 .. SgrLength(p, npar, n) |-> p[n + i - 1]] >>
               \o from[n + SgrLength(p, npar, n)]
  IN  from[0]
=============================================================================
