---------------------------- MODULE DeviceProofs ----------------------------
(* Proofs about the parts of MCDevice, for every value of their constants:   *)
(* an inductive invariant for each part and, at the end, the properties the  *)
(* runs check as theorems of the composition.                                *)
EXTENDS MCDevice, WellFoundedInduction, FiniteSetTheorems, SequenceTheorems, TLAPS

-----------------------------------------------------------------------------
(* Numbers.                                                                *)

LEMMA NatMin ==
  ASSUME NEW T, T \subseteq Nat, T # {}
  PROVE  \E m \in T : \A k \in T : m <= k
<1>1. PICK x \in T : \A y \in T : ~(<<y, x>> \in OpToRel(<, Nat))
  BY NatLessThanWellFounded, WFMin, Zenon
<1>2. \A y \in T : ~(y < x)
  <2> TAKE y \in T
  <2>1. y \in Nat /\ x \in Nat
    OBVIOUS
  <2>2. y < x => <<y, x>> \in OpToRel(<, Nat)
    BY <2>1 DEF OpToRel
  <2> QED BY <1>1, <2>2
<1> QED BY <1>2

-----------------------------------------------------------------------------
(* The modes of the display (VideoDevice), for every list of modes a bios may give.*)

ProbeOK ==
    /\ mode_list \in Seq(Modes)
    /\ next \in 1 .. Len(mode_list) + 1
    /\ mode_tmp \in Modes \cup {NoMode}

\* What has not been saved has not been changed, and only the console's own
\* mode and palette are ever saved: the saving may come at the first arrival or
\* at a later change of the palette, but never after the change it is for.
SavedOK ==
    /\ onConsole \in BOOLEAN
    /\ saved_mode \in {"unsaved", "text"}
    /\ saved_palette \in {"unsaved", "own"}
    /\ saved_mode = "unsaved" => hwMode = "text"
    /\ saved_palette = "unsaved" => hwPalette = "own"

-----------------------------------------------------------------------------
LEMMA ProbeOKInit == VideoInit => ProbeOK
<1> SUFFICES ASSUME VideoInit PROVE ProbeOK
  OBVIOUS
<1>1. mode_list \in Seq(Modes) /\ next = 1 /\ mode_tmp = NoMode
  BY ModesAssumption DEF VideoInit
<1>2. Len(mode_list) \in Nat
  BY <1>1
<1> QED BY <1>1, <1>2 DEF ProbeOK

\* What a turn of the scan chooses.
LEMMA ProbeModeIs ==
  ASSUME ProbeOK, ProbeMode
  PROVE  LET m == mode_list[next]
         IN  /\ next \in 1 .. Len(mode_list) /\ m \in Modes
             /\ next' = next + 1 /\ mode_list' = mode_list /\ asked' = asked
             /\ ~m.usable => mode_tmp' = mode_tmp
             /\ m.usable /\ asked # NoMode =>
                   mode_tmp' = IF m = asked THEN m ELSE mode_tmp
             /\ m.usable /\ asked = NoMode =>
                   mode_tmp' = IF mode_tmp = NoMode \/ Better(m, mode_tmp) THEN m ELSE mode_tmp
<1>1. next \in 1 .. Len(mode_list)
  BY DEF ProbeMode, ProbeOK
<1>2. mode_list[next] \in Modes
  BY <1>1 DEF ProbeOK
<1>3. next' = next + 1 /\ mode_list' = mode_list /\ asked' = asked
  BY DEF ProbeMode, probeVars
<1>4. mode_tmp' = IF ~mode_list[next].usable THEN mode_tmp
                  ELSE IF asked # NoMode
                  THEN IF mode_list[next] = asked THEN mode_list[next] ELSE mode_tmp
                  ELSE IF mode_tmp = NoMode THEN mode_list[next]
                  ELSE IF Better(mode_list[next], mode_tmp) THEN mode_list[next] ELSE mode_tmp
  BY DEF ProbeMode
<1> QED BY <1>1, <1>2, <1>3, <1>4

LEMMA OthersKeepProbe ==
  ASSUME VideoNext, ~ProbeMode
  PROVE  /\ mode_list' = mode_list /\ next' = next /\ mode_tmp' = mode_tmp /\ asked' = asked
<1>1. CASE OpenFrameBuffer \/ ProbeEnd
  BY <1>1 DEF OpenFrameBuffer, ProbeEnd, probeVars
<1>2. CASE LeaveConsole
  BY <1>2 DEF LeaveConsole, probeVars
<1>3. ASSUME NEW p \in Palettes, EnterConsole(p) \/ setupPalette(p)
      PROVE  mode_list' = mode_list /\ next' = next /\ mode_tmp' = mode_tmp /\ asked' = asked
  BY <1>3 DEF EnterConsole, setupPalette, probeVars
<1> QED BY <1>1, <1>2, <1>3 DEF VideoNext

\* One mode against the modes passed so far.
NoneBetter(m, i) ==
    mode_list[i].usable =>
        /\ mode_list[i].x <= m.x \/ mode_list[i].y <= m.y
        /\ (mode_list[i].x = m.x /\ mode_list[i].y = m.y) => mode_list[i].bpp <= m.bpp

\* A mode that did not beat the old choice does not beat a better one. Better is
\* a partial order only, so this is all that survives a change of the choice.
LEMMA StillNoneBetter ==
  ASSUME NEW m \in Modes, NEW n \in Modes, NEW k \in Modes, Better(m, n),
         k.x <= n.x \/ k.y <= n.y,
         (k.x = n.x /\ k.y = n.y) => k.bpp <= n.bpp
  PROVE  /\ k.x <= m.x \/ k.y <= m.y
         /\ (k.x = m.x /\ k.y = m.y) => k.bpp <= m.bpp
<1>1. \A z \in {m, n, k} : z.x \in Nat /\ z.y \in Nat /\ z.bpp \in Nat
  BY ModesAssumption
<1> QED BY <1>1 DEF Better

LEMMA NotBetter ==
  ASSUME NEW m \in Modes, NEW n \in Modes, ~Better(m, n)
  PROVE  /\ m.x <= n.x \/ m.y <= n.y
         /\ (m.x = n.x /\ m.y = n.y) => m.bpp <= n.bpp
<1>1. \A z \in {m, n} : z.x \in Nat /\ z.y \in Nat /\ z.bpp \in Nat
  BY ModesAssumption
<1> QED BY <1>1 DEF Better

LEMMA ProbeStep ==
  ASSUME ProbeOK, BestSoFar, VideoNext
  PROVE  ProbeOK' /\ BestSoFar'
<1>1. CASE ~ProbeMode
  BY <1>1, OthersKeepProbe DEF ProbeOK, BestSoFar
<1>2. CASE ProbeMode
  <2> DEFINE m == mode_list[next]
  <2>1. /\ next \in 1 .. Len(mode_list) /\ m \in Modes
        /\ next' = next + 1 /\ mode_list' = mode_list /\ asked' = asked
        /\ ~m.usable => mode_tmp' = mode_tmp
        /\ m.usable /\ asked # NoMode => mode_tmp' = IF m = asked THEN m ELSE mode_tmp
        /\ m.usable /\ asked = NoMode =>
              mode_tmp' = IF mode_tmp = NoMode \/ Better(m, mode_tmp) THEN m ELSE mode_tmp
    BY <1>2, ProbeModeIs
  <2>2. mode_tmp' = mode_tmp \/ (mode_tmp' = m /\ m.usable)
    BY <2>1
  <2>3. Len(mode_list) \in Nat /\ mode_list \in Seq(Modes) /\ mode_tmp \in Modes \cup {NoMode}
    BY DEF ProbeOK
  <2>4. ProbeOK'
    BY <2>1, <2>2, <2>3 DEF ProbeOK
  <2>5. \A i \in 1 .. next - 1 : mode_list[i] \in Modes
    BY <2>1, <2>3
  <2>6. \A i \in 1 .. next' - 1 : i = next \/ i \in 1 .. next - 1
    BY <2>1
  <2>7. next \in 1 .. next' - 1 /\ 1 .. next - 1 \subseteq 1 .. next' - 1
    BY <2>1
  <2>8. ASSUME mode_tmp' # NoMode
        PROVE  \E i \in 1 .. next' - 1 : mode_list[i] = mode_tmp' /\ mode_tmp'.usable
    <3>1. CASE mode_tmp' = m /\ m.usable
      BY <2>7, <3>1
    <3>2. CASE mode_tmp' = mode_tmp
      <4>1. \E i \in 1 .. next - 1 : mode_list[i] = mode_tmp /\ mode_tmp.usable
        BY <2>8, <3>2 DEF BestSoFar
      <4> QED BY <2>7, <3>2, <4>1
    <3> QED BY <2>2, <3>1, <3>2
  <2>9. ASSUME asked = NoMode, mode_tmp' # NoMode, NEW i \in 1 .. next' - 1
        PROVE  NoneBetter(mode_tmp', i)
    <3> SUFFICES ASSUME mode_list[i].usable
                 PROVE  /\ mode_list[i].x <= mode_tmp'.x \/ mode_list[i].y <= mode_tmp'.y
                        /\ (mode_list[i].x = mode_tmp'.x /\ mode_list[i].y = mode_tmp'.y)
                              => mode_list[i].bpp <= mode_tmp'.bpp
      BY DEF NoneBetter
    <3>1. mode_tmp' \in Modes
      BY <2>1, <2>2, <2>3, <2>9
    <3>2. mode_list[i] \in Modes
      BY <2>1, <2>5, <2>6, <2>9
    <3>3. CASE i = next
      <4>1. mode_tmp' = IF mode_tmp = NoMode \/ Better(m, mode_tmp) THEN m ELSE mode_tmp
        BY <2>1, <2>9, <3>3
      <4>2. CASE mode_tmp' = m
        BY <3>1, <3>3, <4>2, ModesAssumption
      <4>3. CASE mode_tmp' = mode_tmp /\ ~Better(m, mode_tmp) /\ mode_tmp # NoMode
        BY <2>1, <3>1, <3>3, <4>3, NotBetter
      <4> QED BY <4>1, <4>2, <4>3
    <3>4. CASE i \in 1 .. next - 1
      <4>1. mode_tmp # NoMode
        BY <2>9, <3>4 DEF BestSoFar
      <4>2. /\ mode_list[i].x <= mode_tmp.x \/ mode_list[i].y <= mode_tmp.y
            /\ (mode_list[i].x = mode_tmp.x /\ mode_list[i].y = mode_tmp.y)
                  => mode_list[i].bpp <= mode_tmp.bpp
        BY <2>9, <3>4, <4>1 DEF BestSoFar
      <4>3. CASE mode_tmp' = mode_tmp
        BY <4>2, <4>3
      <4>4. CASE mode_tmp' # mode_tmp
        <5>1. mode_tmp' = m /\ Better(m, mode_tmp)
          BY <2>1, <2>2, <2>9, <4>1, <4>4
        <5> QED BY <2>1, <2>3, <3>2, <4>1, <4>2, <5>1, StillNoneBetter
      <4> QED BY <4>3, <4>4
    <3> QED BY <2>6, <2>9, <3>3, <3>4
  <2>10. ASSUME asked = NoMode, mode_tmp' = NoMode, NEW i \in 1 .. next' - 1
         PROVE  ~mode_list[i].usable
    <3>1. CASE i = next
      <4>1. m # NoMode
        BY <2>1, ModesAssumption
      <4> QED BY <2>1, <2>10, <3>1, <4>1
    <3>2. CASE i \in 1 .. next - 1
      <4>1. mode_tmp = NoMode
        BY <2>1, <2>2, <2>10, ModesAssumption
      <4> QED BY <2>10, <3>2, <4>1 DEF BestSoFar
    <3> QED BY <2>6, <2>10, <3>1, <3>2
  <2>11. BestSoFar'
    BY <2>1, <2>8, <2>9, <2>10 DEF BestSoFar, NoneBetter
  <2> QED BY <2>4, <2>11
<1> QED BY <1>1, <1>2

-----------------------------------------------------------------------------
LEMMA SavedStep ==
  ASSUME SavedOK, ConsoleGivenBack, VideoNext
  PROVE  SavedOK' /\ ConsoleGivenBack'
<1>1. CASE OpenFrameBuffer \/ ProbeMode \/ ProbeEnd
  BY <1>1 DEF OpenFrameBuffer, ProbeMode, ProbeEnd, SavedOK, ConsoleGivenBack
<1>2. ASSUME NEW p \in Palettes, EnterConsole(p)
      PROVE  SavedOK' /\ ConsoleGivenBack'
  <2>1. onConsole' = TRUE /\ hwMode = "text" /\ hwPalette = "own"
    BY <1>2 DEF EnterConsole, ConsoleGivenBack
  <2>2. /\ saved_mode' \in {"unsaved", "text"}
        /\ saved_mode' = "unsaved" => hwMode' = "text"
    <3>1. CASE device = "vesa"
      BY <1>2, <2>1, <3>1 DEF EnterConsole, Saves, SavedOK
    <3>2. CASE device # "vesa"
      BY <1>2, <2>1, <3>2 DEF EnterConsole, SavedOK
    <3> QED BY <3>1, <3>2
  <2>3. /\ saved_palette' \in {"unsaved", "own"}
        /\ saved_palette' = "unsaved" => hwPalette' = "own"
    <3>1. CASE device = "vesa" \/ HasPalette
      BY <1>2, <2>1, <3>1 DEF EnterConsole, Saves, SavedOK
    <3>2. CASE ~(device = "vesa" \/ HasPalette)
      BY <1>2, <2>1, <3>2 DEF EnterConsole, SavedOK
    <3> QED BY <3>1, <3>2
  <2> QED BY <2>1, <2>2, <2>3 DEF SavedOK, ConsoleGivenBack
<1>3. ASSUME NEW p \in Palettes, setupPalette(p)
      PROVE  SavedOK' /\ ConsoleGivenBack'
  <2>1. onConsole' = onConsole /\ onConsole /\ hwMode' = hwMode /\ saved_mode' = saved_mode
    BY <1>3 DEF setupPalette
  <2>2. saved_palette' = "own"
    BY <1>3 DEF setupPalette, Saves, SavedOK
  <2> QED BY <2>1, <2>2 DEF SavedOK, ConsoleGivenBack
<1>4. CASE LeaveConsole
  BY <1>4 DEF LeaveConsole, SavedOK, ConsoleGivenBack
<1> QED BY <1>1, <1>2, <1>3, <1>4 DEF VideoNext

-----------------------------------------------------------------------------
\* The scan of get_mode, at every place in any list of modes: what it holds is
\* a usable mode of the list that no mode passed is better than.
THEOREM ModeIsBestSoFar == VideoSpec => []BestSoFar
<1>1. VideoInit => ProbeOK /\ BestSoFar
  <2>1. VideoInit => next = 1 /\ mode_tmp = NoMode
    BY DEF VideoInit
  <2>2. 1 .. 1 - 1 = {}
    OBVIOUS
  <2> QED BY <2>1, <2>2, ProbeOKInit DEF BestSoFar
<1>2. ProbeOK /\ BestSoFar /\ [VideoNext]_videoVars => ProbeOK' /\ BestSoFar'
  <2>1. CASE UNCHANGED videoVars
    BY <2>1 DEF videoVars, ProbeOK, BestSoFar
  <2> QED BY <2>1, ProbeStep
<1> QED BY <1>1, <1>2, PTL DEF VideoSpec

\* Whoever has the console while FbTerm is away finds mode and palette as they
\* were, however often it comes and goes and whatever palettes its windows set.
THEOREM DisplayIsGivenBack == VideoSpec => []ConsoleGivenBack
<1>1. VideoInit => SavedOK /\ ConsoleGivenBack
  BY DEF VideoInit, SavedOK, ConsoleGivenBack
<1>2. SavedOK /\ ConsoleGivenBack /\ [VideoNext]_videoVars => SavedOK' /\ ConsoleGivenBack'
  <2>1. CASE UNCHANGED videoVars
    BY <2>1 DEF videoVars, SavedOK, ConsoleGivenBack
  <2> QED BY <2>1, SavedStep
<1> QED BY <1>1, <1>2, PTL DEF VideoSpec

-----------------------------------------------------------------------------
(* Fonts (FontCache).                                                      *)

(* Fonts and glyph caches                                                  *)

FontsOK ==
  /\ \A l \in Styles : DOMAIN fonts[l] \subseteq Nat \ {0}
  /\ \A l \in {"bold", "italic"} : \A i \in DOMAIN fonts[l] : fonts[l][i].opens

\* A face that is marked bad is one of a font that does not open.
FacesOK(fc) ==
  /\ fc = [l \in Styles |-> [i \in DOMAIN fonts[l] |-> fc[l][i]]]
  /\ \A l \in Styles : \A i \in DOMAIN fonts[l] :
        /\ fc[l][i] \in {"none", "open", "bad"}
        /\ fonts[l][i].opens => fc[l][i] # "bad"

\* A glyph for a character asked for in a style.
HasStyle(g, c, bold, italic) ==
  g # NoGlyph =>
      /\ c \in fonts[g.list][g.font].has
      /\ g.heavier = (bold /\ g.list # "bold")
      /\ g.sheared = (italic /\ g.list # "italic" /\ fonts[g.list][g.font].scalable)

\* Each cache has the glyphs of its style.
CachesOK ==
  /\ cache = [l \in Styles |-> [c \in Chars |-> cache[l][c]]]
  /\ \A l \in Styles, c \in Chars : HasStyle(cache[l][c], c, l = "bold", l = "italic")

FontKept ==
  /\ FontsOK /\ FacesOK(faces) /\ CachesOK
  /\ StyleIsKept /\ BasicCharsShown

LEMMA FontNumbers ==
  ASSUME NEW found PROVE DOMAIN createFontList(found) \subseteq Nat \ {0}
<1> SUFFICES ASSUME NEW i \in DOMAIN createFontList(found) PROVE i \in Nat \ {0}
  OBVIOUS
<1> QED BY DEF createFontList

LEMMA FontStarts == FontInit => FontKept
<1> SUFFICES ASSUME FontInit PROVE FontKept
  OBVIOUS
<1>1. PICK found \in Fontsets :
        /\ fonts = [l \in Styles |-> createFontList(found[l])]
        /\ faces = [l \in Styles |-> [i \in DOMAIN fonts[l] |->
                      IF l # "plain" \/ i # 1 THEN "none"
                      ELSE IF fonts[l][i].opens THEN "open" ELSE "bad"]]
  BY DEF FontInit
<1>2. /\ cache = [l \in Styles |-> [c \in Chars |-> NoGlyph]]
      /\ drawn = Request("cell", CHOOSE c \in Chars : TRUE, FALSE, FALSE, NoGlyph)
  BY DEF FontInit
<1>3. FontsOK
  <2>1. ASSUME NEW l \in Styles PROVE DOMAIN fonts[l] \subseteq Nat \ {0}
    <3>1. fonts[l] = createFontList(found[l])
      BY <1>1
    <3> QED BY <3>1, FontNumbers
  <2>2. \A l \in {"bold", "italic"} : \A i \in DOMAIN fonts[l] : fonts[l][i].opens
    BY <1>1, FontsetsAssumption DEF Styles
  <2> QED BY <2>1, <2>2 DEF FontsOK
<1>4. FacesOK(faces)
  BY <1>1 DEF FacesOK
<1>5. CachesOK
  BY <1>2 DEF CachesOK, HasStyle
<1>6. StyleIsKept
  BY <1>2 DEF StyleIsKept, Request
<1>7. BasicCharsShown
  <2> SUFFICES ASSUME cache["plain"][drawn.char] # NoGlyph, drawn.char \in Basic PROVE FALSE
    BY DEF BasicCharsShown
  <2> QED BY <1>2 DEF Styles, Chars, Request
<1> QED BY <1>3, <1>4, <1>5, <1>6, <1>7 DEF FontKept

\* The first of several fonts is one of them.
LEMMA FirstIsLeast ==
  ASSUME NEW fit \in SUBSET (Nat \ {0}), FirstOf(fit) # 0
  PROVE  FirstOf(fit) \in fit
<1>1. fit # {}
  BY DEF FirstOf
<1>2. \E i \in fit : \A j \in fit : i <= j
  BY <1>1, NatMin
<1> QED BY <1>1, <1>2, Zenon DEF FirstOf

\* fontIndex settles on a font of the list, if there is one to settle on.
LEMMA SettledFont ==
  ASSUME FontsOK, NEW list \in Styles, NEW fc, NEW c
  PROVE  /\ fontIndex(fc, list, c) # 0 =>
              /\ fontIndex(fc, list, c) \in DOMAIN fonts[list]
              /\ Settles(fc, list, fontIndex(fc, list, c), c)
         /\ (\E i \in DOMAIN fonts[list] : Settles(fc, list, i, c)) =>
              fontIndex(fc, list, c) # 0
<1> DEFINE fit == {i \in DOMAIN fonts[list] : Settles(fc, list, i, c)}
           first == FirstOf(fit)
<1>1. fontIndex(fc, list, c) = first
  BY DEF fontIndex
<1>2. fit \in SUBSET (Nat \ {0})
  BY DEF FontsOK
<1>3. first # 0 => first \in fit
  BY <1>2, FirstIsLeast
<1>4. fit # {} => first # 0
  <2> SUFFICES ASSUME fit # {} PROVE first # 0
    OBVIOUS
  <2>1. \E i \in fit : \A j \in fit : i <= j
    BY <1>2, NatMin
  <2>2. first \in fit
    BY <2>1, Zenon DEF FirstOf
  <2> QED BY <1>2, <2>2
<1> HIDE DEF first
<1> QED BY <1>1, <1>3, <1>4

LEMMA LookedFaces ==
  ASSUME FontsOK, NEW fc, FacesOK(fc), NEW list \in Styles, NEW c
  PROVE  /\ FacesOK(LookUp(fc, list, c).faces)
         /\ LookUp(fc, list, c).font = fontIndex(fc, list, c)
<1> DEFINE looked == Asked(fc, list, fontIndex(fc, list, c), c)
           after == FacesAfter(fc, list, looked)
<1>1. LookUp(fc, list, c) = [font |-> fontIndex(fc, list, c), faces |-> after]
  BY DEF LookUp, Looked
<1>2. looked \subseteq DOMAIN fonts[list]
  BY DEF Asked
<1> HIDE DEF looked
<1>3. \A l \in Styles : DOMAIN fc[l] = DOMAIN fonts[l]
  BY DEF FacesOK
<1>4. after = [l \in Styles |-> [i \in DOMAIN fonts[l] |-> after[l][i]]]
  BY <1>3 DEF FacesAfter
<1>5. ASSUME NEW l \in Styles, NEW i \in DOMAIN fonts[l]
      PROVE  /\ after[l][i] \in {"none", "open", "bad"}
             /\ fonts[l][i].opens => after[l][i] # "bad"
  <2>1. after[l][i] = IF i \in looked /\ l = list /\ fonts[list][i].opens THEN "open"
                      ELSE IF i \in looked /\ l = "plain" /\ ~ fonts[list][i].opens THEN "bad"
                      ELSE fc[l][i]
    BY <1>3 DEF FacesAfter
  <2>2. fc[l][i] \in {"none", "open", "bad"} /\ (fonts[l][i].opens => fc[l][i] # "bad")
    BY DEF FacesOK
  <2>3. i \in looked /\ ~ fonts[list][i].opens => list = "plain"
    BY <1>2 DEF FontsOK, Styles
  <2> QED BY <2>1, <2>2, <2>3
<1> HIDE DEF after
<1>6. FacesOK(after)
  BY <1>4, <1>5, Zenon DEF FacesOK
<1> QED BY <1>1, <1>6

\* A plan names a list and what that list's font lacks of the style.
IsPlan(p, bold, italic) ==
  /\ p = [list |-> p.list, heavier |-> p.heavier, sheared |-> p.sheared,
          faces |-> p.faces, font |-> p.font]
  /\ p.list \in Styles
  /\ p.heavier = (bold /\ p.list # "bold")
  /\ p.sheared = (italic /\ p.list # "italic")
  /\ FacesOK(p.faces)

LEMMA PlannedIsPlan ==
  ASSUME NEW list \in Styles, NEW fc, FacesOK(fc), NEW bold \in BOOLEAN, NEW italic \in BOOLEAN,
         NEW heavier, NEW sheared,
         heavier = (bold /\ list # "bold"), sheared = (italic /\ list # "italic")
  PROVE  IsPlan(Planned(list, heavier, sheared, fc), bold, italic)
BY DEF IsPlan, Planned

LEMMA PlanIsPlan ==
  ASSUME FontsOK, FacesOK(faces), NEW c, NEW bold \in BOOLEAN, NEW italic \in BOOLEAN
  PROVE  IsPlan(Plan(c, bold, italic), bold, italic)
<1> DEFINE il == LookUp(faces, "italic", c)
           bl == LookUp(il.faces, "bold", c)
           pl == LookUp(bl.faces, "plain", c)
<1>0. "plain" \in Styles /\ "bold" \in Styles /\ "italic" \in Styles
  BY DEF Styles
<1>1. FacesOK(il.faces)
  BY <1>0, LookedFaces
<1>2. FacesOK(bl.faces)
  BY <1>0, <1>1, LookedFaces
<1>3. FacesOK(pl.faces)
  BY <1>0, <1>2, LookedFaces
<1> HIDE DEF il, bl, pl
<1>4. CASE bold /\ italic
  <2>1. Plan(c, bold, italic) = IF il.font # 0 THEN Planned("italic", TRUE, FALSE, il.faces)
                                ELSE IF bl.font # 0 THEN Planned("bold", FALSE, TRUE, bl.faces)
                                ELSE Planned("plain", TRUE, TRUE, pl.faces)
    BY <1>4 DEF Plan, ItalicEmboldened, BoldSheared, il, bl, pl
  <2>2. IsPlan(Planned("italic", TRUE, FALSE, il.faces), bold, italic)
    BY <1>0, <1>1, <1>4, PlannedIsPlan
  <2>3. IsPlan(Planned("bold", FALSE, TRUE, bl.faces), bold, italic)
    BY <1>0, <1>2, <1>4, PlannedIsPlan
  <2>4. IsPlan(Planned("plain", TRUE, TRUE, pl.faces), bold, italic)
    BY <1>0, <1>3, <1>4, PlannedIsPlan
  <2> QED BY <2>1, <2>2, <2>3, <2>4, Zenon
<1>5. CASE bold /\ ~ italic
  <2>1. Plan(c, bold, italic) = IF fonts["bold"] # << >> THEN Planned("bold", FALSE, FALSE, faces)
                                ELSE Planned("plain", TRUE, FALSE, faces)
    BY <1>5 DEF Plan
  <2>2. IsPlan(Planned("bold", FALSE, FALSE, faces), bold, italic)
    BY <1>0, <1>5, PlannedIsPlan
  <2>3. IsPlan(Planned("plain", TRUE, FALSE, faces), bold, italic)
    BY <1>0, <1>5, PlannedIsPlan
  <2> QED BY <2>1, <2>2, <2>3, Zenon
<1>6. CASE ~ bold /\ italic
  <2>1. Plan(c, bold, italic) = IF fonts["italic"] # << >> THEN Planned("italic", FALSE, FALSE, faces)
                                ELSE Planned("plain", FALSE, TRUE, faces)
    BY <1>6 DEF Plan
  <2>2. IsPlan(Planned("italic", FALSE, FALSE, faces), bold, italic)
    BY <1>0, <1>6, PlannedIsPlan
  <2>3. IsPlan(Planned("plain", FALSE, TRUE, faces), bold, italic)
    BY <1>0, <1>6, PlannedIsPlan
  <2> QED BY <2>1, <2>2, <2>3, Zenon
<1>7. CASE ~ bold /\ ~ italic
  <2>1. Plan(c, bold, italic) = Planned("plain", FALSE, FALSE, faces)
    BY <1>7 DEF Plan
  <2>2. IsPlan(Planned("plain", FALSE, FALSE, faces), bold, italic)
    BY <1>0, <1>7, PlannedIsPlan
  <2> QED BY <2>1, <2>2, Zenon
<1> QED BY <1>4, <1>5, <1>6, <1>7

\* The search ends with a font of the list it names, or without one; a
\* character of the basic plane that a regular font has finds one.
LEMMA SearchedIsPlan ==
  ASSUME FontsOK, NEW p, NEW c, NEW bold \in BOOLEAN, NEW italic \in BOOLEAN, IsPlan(p, bold, italic)
  PROVE  LET q == Searched(p, LookUp(p.faces, p.list, c), c, bold, italic)
         IN  /\ IsPlan(q, bold, italic)
             /\ q.font # 0 => q.font \in DOMAIN fonts[q.list]
             /\ c \in Basic =>
                  /\ q.font # 0 => c \in fonts[q.list][q.font].has
                  /\ (\E i \in DOMAIN fonts["plain"] : c \in fonts["plain"][i].has) => q.font # 0
<1> DEFINE styled == LookUp(p.faces, p.list, c)
           plain == LookUp(styled.faces, "plain", c)
           q == Searched(p, styled, c, bold, italic)
<1>0. p.list \in Styles /\ "plain" \in Styles
  BY DEF Styles, IsPlan
<1>1. FacesOK(styled.faces) /\ styled.font = fontIndex(p.faces, p.list, c)
  BY <1>0, LookedFaces DEF IsPlan
<1>2. FacesOK(plain.faces) /\ plain.font = fontIndex(styled.faces, "plain", c)
  BY <1>0, <1>1, LookedFaces
<1> HIDE DEF styled, plain
<1>3. CASE styled.font # 0
  <2>1. q = [list |-> p.list, heavier |-> p.heavier, sheared |-> p.sheared,
             faces |-> styled.faces, font |-> styled.font]
    BY <1>3 DEF Searched, Found, IsPlan
  <2>2. styled.font \in DOMAIN fonts[p.list] /\ Settles(p.faces, p.list, styled.font, c)
    BY <1>0, <1>1, <1>3, SettledFont
  <2>3. c \in Basic => c \in fonts[p.list][styled.font].has
    BY <2>2 DEF Settles
  <2>4. IsPlan(q, bold, italic)
    BY <2>1, <1>1 DEF IsPlan
  <2> QED BY <1>3, <2>1, <2>2, <2>3, <2>4 DEF styled
<1>4. CASE styled.font = 0
  <2>1. q = [list |-> "plain", heavier |-> bold \/ p.heavier, sheared |-> italic \/ p.sheared,
             faces |-> plain.faces, font |-> plain.font]
    BY <1>4 DEF Searched, Found, FallBack, IsPlan, plain
  <2>2. IsPlan(q, bold, italic)
    BY <2>1, <1>0, <1>2 DEF IsPlan
  <2>3. plain.font # 0 => /\ plain.font \in DOMAIN fonts["plain"]
                          /\ c \in Basic => c \in fonts["plain"][plain.font].has
    BY <1>0, <1>2, SettledFont DEF Settles
  <2>4. ASSUME c \in Basic, NEW i \in DOMAIN fonts["plain"], c \in fonts["plain"][i].has
        PROVE  plain.font # 0
    <3>1. c \in unicodeMap
      BY <2>4 DEF unicodeMap
    <3>2. Settles(styled.faces, "plain", i, c)
      BY <2>4, <3>1 DEF Settles
    <3> QED BY <1>0, <1>2, <3>2, SettledFont
  <2> HIDE DEF q
  <2>5. /\ q.font # 0 => q.font \in DOMAIN fonts[q.list]
        /\ c \in Basic => (q.font # 0 => c \in fonts[q.list][q.font].has)
    BY <2>1, <2>3
  <2>6. c \in Basic /\ (\E i \in DOMAIN fonts["plain"] : c \in fonts["plain"][i].has) => q.font # 0
    BY <2>1, <2>4
  <2> QED BY <2>2, <2>5, <2>6 DEF q, styled
<1> QED BY <1>3, <1>4

\* A face is marked: open, or bad if the font does not open.
LEMMA MarkedFaces ==
  ASSUME NEW fc, FacesOK(fc), NEW l \in Styles, NEW i \in DOMAIN fonts[l], NEW mark \in {"open", "bad"},
         fonts[l][i].opens => mark = "open"
  PROVE  /\ FacesOK([fc EXCEPT ![l][i] = mark])
         /\ [fc EXCEPT ![l][i] = mark][l][i] = mark
<1> DEFINE to == [fc EXCEPT ![l][i] = mark]
<1>1. /\ fc = [m \in Styles |-> [j \in DOMAIN fonts[m] |-> fc[m][j]]]
      /\ \A m \in Styles : \A j \in DOMAIN fonts[m] :
            /\ fc[m][j] \in {"none", "open", "bad"}
            /\ fonts[m][j].opens => fc[m][j] # "bad"
  BY DEF FacesOK
<1>2. DOMAIN fc = Styles /\ \A m \in Styles : DOMAIN fc[m] = DOMAIN fonts[m]
  BY <1>1
<1>3. to = [m \in Styles |-> IF m = l THEN [fc[l] EXCEPT ![i] = mark] ELSE fc[m]]
  BY <1>2
<1>4. \A m \in Styles : \A j \in DOMAIN fonts[m] :
         to[m][j] = IF m = l /\ j = i THEN mark ELSE fc[m][j]
  BY <1>2, <1>3
<1>5. to = [m \in Styles |-> [j \in DOMAIN fonts[m] |-> to[m][j]]]
  <2>1. \A m \in Styles : to[m] = [j \in DOMAIN fonts[m] |-> to[m][j]]
    BY <1>1, <1>2, <1>3
  <2>2. to = [m \in Styles |-> to[m]]
    BY <1>3
  <2> HIDE DEF to
  <2> QED BY <2>1, <2>2
<1> HIDE DEF to
<1>6. \A m \in Styles : \A j \in DOMAIN fonts[m] :
        /\ to[m][j] \in {"none", "open", "bad"}
        /\ fonts[m][j].opens => to[m][j] # "bad"
  <2> TAKE m \in Styles
  <2> TAKE j \in DOMAIN fonts[m]
  <2>1. CASE m = l /\ j = i
    BY <1>4, <2>1
  <2>2. CASE ~ (m = l /\ j = i)
    <3>1. to[m][j] = fc[m][j]
      BY <1>4, <2>2
    <3>2. fc[m][j] \in {"none", "open", "bad"} /\ (fonts[m][j].opens => fc[m][j] # "bad")
      BY <1>1
    <3> QED BY <3>1, <3>2
  <2> QED BY <2>1, <2>2
<1>7. FacesOK(to)
  BY <1>5, <1>6, Zenon DEF FacesOK
<1> QED BY <1>4, <1>7 DEF to

LEMMA OpenedFace ==
  ASSUME FontsOK, NEW q, NEW bold \in BOOLEAN, NEW italic \in BOOLEAN, IsPlan(q, bold, italic),
         q.font # 0 => q.font \in DOMAIN fonts[q.list]
  PROVE  LET f == WithFace(q)
         IN  /\ IsPlan(f, bold, italic)
             /\ f.list = q.list /\ f.font = q.font
             /\ q.font # 0 /\ fonts[q.list][q.font].opens => f.faces[f.list][f.font] = "open"
<1>1. CASE q.font = 0
  BY <1>1 DEF WithFace
<1>2. CASE q.font # 0
  <2> DEFINE opened == WantedOpen(q.faces, q.list, q.font)
  <2>1. WithFace(q) = [list |-> q.list, heavier |-> q.heavier, sheared |-> q.sheared,
                       faces |-> opened, font |-> q.font]
    BY <1>2 DEF WithFace, IsPlan
  <2>2. q.list \in Styles /\ q.font \in DOMAIN fonts[q.list] /\ FacesOK(q.faces)
    BY <1>2 DEF IsPlan
  <2>3. FacesOK(opened) /\ (fonts[q.list][q.font].opens => opened[q.list][q.font] = "open")
    <3>1. CASE q.faces[q.list][q.font] # "none"
      <4>1. opened = q.faces
        BY <3>1 DEF WantedOpen
      <4>2. fonts[q.list][q.font].opens => q.faces[q.list][q.font] = "open"
        BY <2>2, <3>1 DEF FacesOK
      <4> QED BY <2>2, <4>1, <4>2
    <3>2. CASE q.faces[q.list][q.font] = "none" /\ fonts[q.list][q.font].opens
      <4> DEFINE qf == q.faces
                 l == q.list
                 at == q.font
      <4>1. opened = [qf EXCEPT ![l][at] = "open"]
        BY <3>2 DEF WantedOpen, Opened
      <4>2. FacesOK(qf) /\ l \in Styles /\ at \in DOMAIN fonts[l]
        BY <2>2
      <4> HIDE DEF qf, l, at, opened
      <4>3. FacesOK(opened) /\ opened[l][at] = "open"
        BY <4>1, <4>2, MarkedFaces
      <4> QED BY <4>3 DEF l, at
    <3>3. CASE q.faces[q.list][q.font] = "none" /\ ~ fonts[q.list][q.font].opens
      <4>1. opened = [q.faces EXCEPT !["plain"][q.font] = "bad"]
        BY <3>3 DEF WantedOpen, Opened
      <4>2. q.list = "plain"
        BY <2>2, <3>3 DEF FontsOK, Styles
      <4> DEFINE qf == q.faces
                 at == q.font
      <4>3. FacesOK(qf) /\ at \in DOMAIN fonts["plain"] /\ ~ fonts["plain"][at].opens
        BY <2>2, <3>3, <4>2
      <4>4. opened = [qf EXCEPT !["plain"][at] = "bad"]
        BY <4>1
      <4> HIDE DEF qf, at, opened
      <4>5. FacesOK(opened)
        BY <4>3, <4>4, MarkedFaces DEF Styles
      <4> QED BY <3>3, <4>5
    <3> QED BY <3>1, <3>2, <3>3
  <2> HIDE DEF opened
  <2>4. IsPlan(WithFace(q), bold, italic)
    BY <2>1, <2>2, <2>3 DEF IsPlan
  <2> QED BY <2>1, <2>3, <2>4
<1> QED BY <1>1, <1>2

LEMMA RenderedHasStyle ==
  ASSUME NEW f, NEW c, NEW bold \in BOOLEAN, NEW italic \in BOOLEAN, IsPlan(f, bold, italic)
  PROVE  /\ HasStyle(Rendered(f, c), c, bold, italic)
         /\ (/\ f.font # 0 /\ f.faces[f.list][f.font] = "open"
             /\ c \in fonts[f.list][f.font].has) => Rendered(f, c) # NoGlyph
<1> DEFINE g == [list |-> f.list, font |-> f.font, heavier |-> f.heavier,
                 sheared |-> f.sheared /\ fonts[f.list][f.font].scalable]
<1>1. g # NoGlyph
  BY DEF NoGlyph, IsPlan, Styles
<1>2. Rendered(f, c) = IF f.font = 0 \/ f.faces[f.list][f.font] # "open"
                          \/ c \notin fonts[f.list][f.font].has
                       THEN NoGlyph ELSE g
  BY DEF Rendered
<1>3. c \in fonts[f.list][f.font].has => HasStyle(g, c, bold, italic)
  BY DEF HasStyle, IsPlan
<1>4. HasStyle(NoGlyph, c, bold, italic)
  BY DEF HasStyle
<1> HIDE DEF g
<1> QED BY <1>1, <1>2, <1>3, <1>4

\* What a plan becomes is drawn, and put into the cache of its style.
LEMMA GlyphSteps ==
  ASSUME FontKept, NEW c \in Chars, NEW bold \in BOOLEAN, NEW italic \in BOOLEAN,
         getGlyph(c, bold, italic)
  PROVE  FontKept'
<1> DEFINE p == Plan(c, bold, italic)
           styled == LookUp(p.faces, p.list, c)
           searched == Searched(p, styled, c, bold, italic)
           face == WithFace(searched)
           glyph == Rendered(face, c)
           shelf == CacheOf(bold, italic)
<1>1. FontsOK /\ FacesOK(faces) /\ CachesOK
  BY DEF FontKept
<1>2. IsPlan(p, bold, italic)
  BY <1>1, PlanIsPlan
<1> HIDE DEF p
<1>3. /\ IsPlan(searched, bold, italic)
      /\ searched.font # 0 => searched.font \in DOMAIN fonts[searched.list]
      /\ c \in Basic =>
            /\ searched.font # 0 => c \in fonts[searched.list][searched.font].has
            /\ (\E i \in DOMAIN fonts["plain"] : c \in fonts["plain"][i].has) => searched.font # 0
  BY <1>1, <1>2, SearchedIsPlan
<1> HIDE DEF searched
<1>4. /\ IsPlan(face, bold, italic)
      /\ face.list = searched.list /\ face.font = searched.font
      /\ searched.font # 0 /\ fonts[searched.list][searched.font].opens =>
            face.faces[face.list][face.font] = "open"
  BY <1>1, <1>3, OpenedFace
<1> HIDE DEF face
<1>5. HasStyle(glyph, c, bold, italic)
  BY <1>4, RenderedHasStyle
<1>6. ASSUME c \in Basic, \A i \in DOMAIN fonts["plain"] : fonts["plain"][i].opens,
             \E i \in DOMAIN fonts["plain"] : c \in fonts["plain"][i].has
      PROVE  glyph # NoGlyph
  <2>1. searched.font # 0 /\ searched.font \in DOMAIN fonts[searched.list]
        /\ c \in fonts[searched.list][searched.font].has
    BY <1>3, <1>6
  <2>2. fonts[searched.list][searched.font].opens
    <3>1. searched.list \in Styles
      BY <1>3 DEF IsPlan
    <3> QED BY <1>1, <1>6, <2>1, <3>1 DEF FontsOK, Styles
  <2> QED BY <1>4, <2>1, <2>2, RenderedHasStyle
<1> HIDE DEF glyph
<1>7. shelf \in Styles /\ (bold # italic \/ ~ bold => bold = (shelf = "bold") /\ italic = (shelf = "italic"))
  BY DEF CacheOf, Styles
<1>8. fonts' = fonts
  BY DEF getGlyph, FromCache, Render
<1>9. CASE ~ NoCache(c, bold, italic) /\ cache[shelf][c] # NoGlyph
  <2>1. /\ drawn' = Request("cell", c, bold, italic, cache[shelf][c])
        /\ faces' = p.faces /\ cache' = cache
    BY <1>9 DEF getGlyph, FromCache, p
  <2>2. HasStyle(cache[shelf][c], c, bold, italic)
    BY <1>1, <1>7, <1>9, Zenon DEF CachesOK, NoCache
  <2>3. FacesOK(p.faces)
    BY <1>2 DEF IsPlan
  <2>4. CachesOK'
    BY <1>1, <1>8, <2>1 DEF CachesOK, HasStyle
  <2>5. StyleIsKept'
    BY <1>8, <2>1, <2>2 DEF StyleIsKept, HasStyle, Request
  <2>6. BasicCharsShown'
    BY <1>9, <2>1 DEF BasicCharsShown, Request
  <2>7. FacesOK(faces)'
    BY <1>8, <2>1, <2>3 DEF FacesOK
  <2>8. FontsOK'
    BY <1>1, <1>8 DEF FontsOK
  <2> QED BY <2>4, <2>5, <2>6, <2>7, <2>8 DEF FontKept
<1>10. CASE ~ (~ NoCache(c, bold, italic) /\ cache[shelf][c] # NoGlyph)
  <2>1. /\ drawn' = Request("cell", c, bold, italic, glyph)
        /\ faces' = face.faces
        /\ cache' = IF NoCache(c, bold, italic) \/ glyph = NoGlyph THEN cache
                    ELSE [cache EXCEPT ![shelf][c] = glyph]
    BY <1>10 DEF getGlyph, Render, p, searched, face, glyph
  <2>2. FacesOK(face.faces)
    BY <1>4 DEF IsPlan
  <2>3. CachesOK'
    <3>1. CASE NoCache(c, bold, italic) \/ glyph = NoGlyph
      BY <1>1, <1>8, <2>1, <3>1 DEF CachesOK, HasStyle
    <3>2. CASE ~ NoCache(c, bold, italic)
      <4>1. HasStyle(glyph, c, shelf = "bold", shelf = "italic")
        BY <1>5, <1>7, <3>2, Zenon DEF NoCache
      <4>2. ASSUME NEW l \in Styles, NEW d \in Chars
            PROVE  [cache EXCEPT ![shelf][c] = glyph][l][d] =
                      IF l = shelf /\ d = c THEN glyph ELSE cache[l][d]
        BY <1>1, <1>7 DEF CachesOK
      <4>3. [cache EXCEPT ![shelf][c] = glyph] =
              [l \in Styles |-> [d \in Chars |-> [cache EXCEPT ![shelf][c] = glyph][l][d]]]
        BY <1>1, <1>7 DEF CachesOK
      <4> DEFINE to == [cache EXCEPT ![shelf][c] = glyph]
      <4> HIDE DEF to
      <4>4. ASSUME NEW l \in Styles, NEW d \in Chars
            PROVE  HasStyle(to[l][d], d, l = "bold", l = "italic")
        <5>1. HasStyle(cache[l][d], d, l = "bold", l = "italic")
          BY <1>1 DEF CachesOK
        <5>2. to[l][d] = IF l = shelf /\ d = c THEN glyph ELSE cache[l][d]
          BY <4>2 DEF to
        <5>3. CASE l = shelf /\ d = c
          <6>1. to[l][d] = glyph
            BY <5>2, <5>3
          <6> QED BY <4>1, <5>3, <6>1, Zenon
        <5>4. CASE ~ (l = shelf /\ d = c)
          <6>1. to[l][d] = cache[l][d]
            BY <5>2, <5>4
          <6> QED BY <5>1, <6>1, Zenon
        <5> QED BY <5>3, <5>4
      <4>5. to = [l \in Styles |-> [d \in Chars |-> to[l][d]]]
        BY <4>3 DEF to
      <4>6. CASE glyph = NoGlyph
        BY <3>1, <4>6
      <4>7. CASE glyph # NoGlyph
        <5>1. cache' = to
          BY <2>1, <3>2, <4>7 DEF to
        <5>2. fonts' = fonts
          BY <1>8
        <5>3. ASSUME NEW l \in Styles, NEW d \in Chars
              PROVE  HasStyle(cache[l][d], d, l = "bold", l = "italic")'
          BY <4>4, <5>1, <5>2 DEF HasStyle
        <5>4. cache' = [l \in Styles |-> [d \in Chars |-> cache'[l][d]]]
          BY <4>5, <5>1
        <5> QED BY <5>3, <5>4 DEF CachesOK
      <4> QED BY <4>6, <4>7
    <3> QED BY <3>1, <3>2
  <2>4. StyleIsKept'
    BY <1>5, <1>8, <2>1 DEF StyleIsKept, HasStyle, Request
  <2>5. BasicCharsShown'
    BY <1>6, <1>8, <2>1 DEF BasicCharsShown, Request
  <2>7. FacesOK(faces)'
    BY <1>8, <2>1, <2>2 DEF FacesOK
  <2>8. FontsOK'
    BY <1>1, <1>8 DEF FontsOK
  <2> QED BY <2>3, <2>4, <2>5, <2>7, <2>8 DEF FontKept
<1> QED BY <1>9, <1>10

LEMMA NarrowGlyphSteps ==
  ASSUME FontKept, NEW c \in Chars, NEW bold \in BOOLEAN, NEW italic \in BOOLEAN,
         getNarrowGlyph(c, bold, italic)
  PROVE  FontKept'
<1> DEFINE first == fontIndex(faces, "plain", c)
           fc == LookUp(faces, "plain", c).faces
           later == {i \in DOMAIN fonts["plain"] : i > first}
           fits == {i \in later : fonts["plain"][i].opens /\ c \in fonts["plain"][i].has
                                   /\ c \in fonts["plain"][i].narrow}
           tried == IF fits = {} THEN later
                    ELSE {i \in later : \A j \in fits : i <= j}
           opened == [i \in DOMAIN fc["plain"] |->
                        IF i \notin tried \/ fc["plain"][i] # "none" THEN fc["plain"][i]
                        ELSE IF fonts["plain"][i].opens THEN "open" ELSE "bad"]
<1>1. FontsOK /\ FacesOK(faces)
  BY DEF FontKept
<1>2. FacesOK(fc)
  BY <1>1, LookedFaces DEF Styles
<1>3. /\ faces' = [fc EXCEPT !["plain"] = opened]
      /\ fonts' = fonts /\ cache' = cache
      /\ drawn' = Request("narrow", c, bold, italic, Narrowed(FirstOf(fits), bold, italic))
  BY DEF getNarrowGlyph
<1> HIDE DEF fc, tried
<1>4. DOMAIN fc = Styles /\ DOMAIN fc["plain"] = DOMAIN fonts["plain"] /\ "plain" \in Styles
  BY <1>2 DEF FacesOK, Styles
<1>5. FacesOK([fc EXCEPT !["plain"] = opened])
  <2> DEFINE to == [fc EXCEPT !["plain"] = opened]
  <2>1. \A i \in DOMAIN fonts["plain"] :
           /\ opened[i] \in {"none", "open", "bad"}
           /\ fonts["plain"][i].opens => opened[i] # "bad"
    BY <1>2, <1>4 DEF FacesOK
  <2>2. opened = [i \in DOMAIN fonts["plain"] |-> opened[i]]
    BY <1>4
  <2> HIDE DEF opened
  <2>3. to = [l \in Styles |-> IF l = "plain" THEN opened ELSE fc[l]]
    BY <1>4
  <2>4. \A l \in Styles : \A i \in DOMAIN fonts[l] :
           /\ to[l][i] \in {"none", "open", "bad"}
           /\ fonts[l][i].opens => to[l][i] # "bad"
    BY <1>2, <2>1, <2>3 DEF FacesOK
  <2>5. ASSUME NEW l \in Styles PROVE to[l] = [i \in DOMAIN fonts[l] |-> to[l][i]]
    <3>1. fc[l] = [i \in DOMAIN fonts[l] |-> fc[l][i]]
      BY <1>2 DEF FacesOK
    <3>2. CASE l = "plain"
      <4>1. to[l] = opened
        BY <1>4, <2>3, <3>2
      <4> HIDE DEF to
      <4> QED BY <2>2, <3>2, <4>1
    <3>3. CASE l # "plain"
      <4>1. to[l] = fc[l]
        BY <1>4, <2>3, <3>3
      <4> HIDE DEF to
      <4> QED BY <3>1, <4>1
    <3> QED BY <3>2, <3>3
  <2>6. to = [l \in Styles |-> to[l]]
    BY <2>3
  <2> HIDE DEF to
  <2>7. FacesOK(to)
    BY <2>4, <2>5, <2>6 DEF FacesOK
  <2> QED BY <2>7 DEF to
<1> HIDE DEF opened
<1>6. FacesOK(faces)'
  BY <1>3, <1>5 DEF FacesOK
<1>7. /\ CachesOK' /\ BasicCharsShown' /\ FontsOK'
  BY <1>3 DEF FontKept, FontsOK, CachesOK, HasStyle, BasicCharsShown, Request
<1>8. StyleIsKept'
  <2> DEFINE i == FirstOf(fits)
             g == Narrowed(i, bold, italic)
  <2>1. ASSUME g # NoGlyph
        PROVE  /\ g.font \in fits /\ g.list = "plain"
               /\ g.heavier => bold
               /\ g.sheared => italic
    <3>1. i # 0
      BY <2>1 DEF Narrowed
    <3>2. fits \in SUBSET (Nat \ {0})
      BY <1>1 DEF FontsOK, Styles
    <3> HIDE DEF fits
    <3>3. i \in fits
      BY <3>1, <3>2, FirstIsLeast
    <3> HIDE DEF i
    <3> QED BY <3>1, <3>3 DEF Narrowed
  <2> HIDE DEF g
  <2>2. \A j \in fits : c \in fonts["plain"][j].has \cap fonts["plain"][j].narrow
    OBVIOUS
  <2> HIDE DEF fits
  <2>3. /\ drawn'.by = "narrow" /\ drawn'.char = c /\ drawn'.bold = bold
        /\ drawn'.italic = italic /\ drawn'.glyph = g
    BY <1>3 DEF g, Request
  <2> QED BY <1>3, <2>1, <2>2, <2>3 DEF StyleIsKept
<1> QED BY <1>6, <1>7, <1>8 DEF FontKept

LEMMA FontSteps == FontKept /\ FontNext => FontKept'
<1> SUFFICES ASSUME FontKept, FontNext PROVE FontKept'
  OBVIOUS
<1>1. ASSUME NEW c \in Chars, NEW bold \in BOOLEAN, NEW italic \in BOOLEAN, getGlyph(c, bold, italic)
      PROVE  FontKept'
  BY <1>1, GlyphSteps
<1>2. ASSUME NEW c \in Chars, NEW bold \in BOOLEAN, NEW italic \in BOOLEAN,
             getNarrowGlyph(c, bold, italic)
      PROVE  FontKept'
  BY <1>2, NarrowGlyphSteps
<1> QED BY <1>1, <1>2 DEF FontNext

LEMMA FontStays ==
  ASSUME FontKept, UNCHANGED fontVars PROVE FontKept'
<1>1. fonts' = fonts /\ faces' = faces /\ cache' = cache /\ drawn' = drawn
  BY DEF fontVars
<1>2. FontsOK /\ FacesOK(faces)
  BY DEF FontKept
<1>5. FontsOK'
  BY <1>1, <1>2 DEF FontsOK
<1>6. FacesOK(faces)'
  BY <1>1, <1>2 DEF FacesOK
<1>3. CachesOK'
  BY <1>1 DEF FontKept, CachesOK, HasStyle
<1>4. StyleIsKept' /\ BasicCharsShown'
  BY <1>1 DEF FontKept, StyleIsKept, BasicCharsShown
<1> QED BY <1>3, <1>4, <1>5, <1>6 DEF FontKept

-----------------------------------------------------------------------------
(* Start and end of a session (Session).                                   *)

(* A life of the program                                                   *)

Objects == {"tty", "dispatcher", "fb", "signal", "mouse"} \cup Windows \cup Ims

\* Every descriptor is one object's and fits the dispatcher's table.
FdsOK(f) ==
  /\ f = [o \in DOMAIN f |-> f[o]]
  /\ DOMAIN f \subseteq Objects
  /\ \A o \in DOMAIN f : f[o] \in 3 .. NR_FDS - 1
  /\ \A o, p \in DOMAIN f : f[o] = f[p] => o = p

LEMMA ObjectsFit ==
  IsFiniteSet(Objects) /\ Cardinality(Objects) + 3 <= NR_FDS /\ Cardinality(Objects) \in Nat
<1> DEFINE S1 == {"tty"} S2 == S1 \cup {"dispatcher"} S3 == S2 \cup {"fb"}
           S4 == S3 \cup {"signal"} S5 == S4 \cup {"mouse"}
           W == Windows \cup Ims
<1>1. IsFiniteSet(Ims)
  <2> DEFINE f == [s \in Windows |-> ImOf[s]]
  <2>1. f \in Surjection(Windows, Ims)
    BY DEF Surjection, Ims
  <2> QED BY <2>1, FS_Surjection, WindowsAssumption
<1>2. IsFiniteSet(W) /\ Cardinality(W) \in Nat
  BY <1>1, FS_Union, FS_CardinalityType, WindowsAssumption
<1>3. IsFiniteSet(S1) /\ Cardinality(S1) <= 1 /\ Cardinality(S1) \in Nat
  <2>1. S1 = {} \cup {"tty"}
    OBVIOUS
  <2> QED BY <2>1, FS_AddElement, FS_EmptySet
<1>4. IsFiniteSet(S2) /\ Cardinality(S2) <= 2 /\ Cardinality(S2) \in Nat
  <2> HIDE DEF S1
  <2>1. Cardinality(S1 \cup {"dispatcher"}) =
           IF "dispatcher" \in S1 THEN Cardinality(S1) ELSE Cardinality(S1) + 1
    BY <1>3, FS_AddElement
  <2>2. IsFiniteSet(S1 \cup {"dispatcher"})
    BY <1>3, FS_AddElement
  <2>3. S2 = S1 \cup {"dispatcher"}
    OBVIOUS
  <2> HIDE DEF S2
  <2> QED BY <1>3, <2>1, <2>2, <2>3
<1>5. IsFiniteSet(S3) /\ Cardinality(S3) <= 3 /\ Cardinality(S3) \in Nat
  <2> HIDE DEF S2
  <2> QED BY <1>4, FS_AddElement
<1>6. IsFiniteSet(S4) /\ Cardinality(S4) <= 4 /\ Cardinality(S4) \in Nat
  <2> HIDE DEF S3
  <2> QED BY <1>5, FS_AddElement
<1>7. IsFiniteSet(S5) /\ Cardinality(S5) <= 5 /\ Cardinality(S5) \in Nat
  <2> HIDE DEF S4
  <2> QED BY <1>6, FS_AddElement
<1>8. Objects = S5 \cup W
  BY DEF Objects
<1> HIDE DEF S5, W
<1>9. /\ IsFiniteSet(S5 \cup W)
      /\ Cardinality(S5 \cup W) = Cardinality(S5) + Cardinality(W) - Cardinality(S5 \cap W)
      /\ Cardinality(S5 \cap W) \in Nat /\ Cardinality(S5 \cup W) \in Nat
  <2>1. S5 \cap W \in SUBSET S5
    OBVIOUS
  <2> QED BY <2>1, <1>2, <1>7, FS_Union, FS_Subset, FS_CardinalityType
<1>10. NR_FDS \in Nat /\ Cardinality(W) + 8 <= NR_FDS
  BY WindowsAssumption DEF W
<1> QED BY <1>2, <1>7, <1>8, <1>9, <1>10

\* The kernel gives the lowest free descriptor, and there is one in the table.
LEMMA LowestIs ==
  ASSUME NEW f, FdsOK(f), NEW o \in Objects, o \notin DOMAIN f
  PROVE  /\ Lowest(f) \in 3 .. NR_FDS - 1
         /\ \A p \in DOMAIN f : f[p] # Lowest(f)
<1> DEFINE C == Cardinality(DOMAIN f)
           free == {n \in 3 .. C + 3 : \A p \in DOMAIN f : f[p] # n}
<1>0. NR_FDS \in Nat
  BY WindowsAssumption
<1>1. IsFiniteSet(DOMAIN f) /\ C \in Nat /\ C + 4 <= NR_FDS
  <2>1. DOMAIN f \in SUBSET Objects /\ DOMAIN f # Objects
    BY DEF FdsOK
  <2>2. IsFiniteSet(DOMAIN f) /\ C <= Cardinality(Objects) /\ C # Cardinality(Objects)
    BY <2>1, ObjectsFit, FS_Subset
  <2>3. C \in Nat
    BY <2>2, FS_CardinalityType
  <2> HIDE DEF C
  <2> QED BY <1>0, <2>2, <2>3, ObjectsFit
<1>2. free # {}
  <2> SUFFICES ASSUME free = {} PROVE FALSE
    OBVIOUS
  <2> DEFINE R == {f[p] : p \in DOMAIN f}
  <2>1. f \in Surjection(DOMAIN f, R)
    <3>1. f \in [DOMAIN f -> R]
      BY DEF FdsOK
    <3> QED BY <3>1 DEF Surjection
  <2>2. IsFiniteSet(R) /\ Cardinality(R) <= C
    BY <1>1, <2>1, FS_Surjection
  <2>3. 3 .. C + 3 \in SUBSET R
    OBVIOUS
  <2> HIDE DEF R
  <2>4. Cardinality(3 .. C + 3) <= Cardinality(R)
    BY <2>2, <2>3, FS_Subset
  <2> HIDE DEF C
  <2>5. Cardinality(3 .. C + 3) = C + 1
    BY <1>1, FS_Interval
  <2>6. Cardinality(R) \in Nat
    BY <2>2, FS_CardinalityType
  <2> QED BY <1>1, <2>2, <2>4, <2>5, <2>6
<1>3. PICK n \in free : \A k \in free : n <= k
  <2>1. free \subseteq Nat
    BY <1>1
  <2> QED BY <1>2, <2>1, NatMin
<1>4. \A k \in 3 .. n - 1 : \E p \in DOMAIN f : f[p] = k
  <2> SUFFICES ASSUME NEW k \in 3 .. n - 1, \A p \in DOMAIN f : f[p] # k PROVE FALSE
    OBVIOUS
  <2> HIDE DEF C
  <2>1. k \in free
    BY <1>1
  <2> QED BY <1>1, <1>3, <2>1
<1>5. \E m \in 3 .. Cardinality(DOMAIN f) + 3 :
         /\ \A p \in DOMAIN f : f[p] # m
         /\ \A k \in 3 .. m - 1 : \E p \in DOMAIN f : f[p] = k
  BY <1>3, <1>4
<1>6. /\ Lowest(f) \in 3 .. Cardinality(DOMAIN f) + 3
      /\ \A p \in DOMAIN f : f[p] # Lowest(f)
  BY <1>5, Zenon DEF Lowest
<1> HIDE DEF C
<1>7. Lowest(f) \in 3 .. C + 3
  BY <1>6 DEF C
<1> QED BY <1>0, <1>1, <1>6, <1>7

LEMMA OpenedFds ==
  ASSUME NEW f, FdsOK(f), NEW o \in Objects, o \notin DOMAIN f
  PROVE  /\ FdsOK(WithFd(f, o))
         /\ DOMAIN WithFd(f, o) = DOMAIN f \cup {o}
         /\ WithFd(f, o)[o] = Lowest(f)
         /\ \A p \in DOMAIN f : WithFd(f, o)[p] = f[p]
<1> DEFINE g == WithFd(f, o)
           n == Lowest(f)
<1>1. n \in 3 .. NR_FDS - 1 /\ \A p \in DOMAIN f : f[p] # n
  BY LowestIs
<1> HIDE DEF n
<1>2. g = [p \in DOMAIN f \cup {o} |-> IF p = o THEN n ELSE f[p]]
  BY DEF WithFd, n
<1>3. DOMAIN g = DOMAIN f \cup {o} /\ g[o] = n /\ \A p \in DOMAIN f : g[p] = f[p]
  BY <1>2
<1>4. g = [p \in DOMAIN g |-> g[p]]
  BY <1>2
<1> HIDE DEF g
<1>5. \A p \in DOMAIN g : g[p] \in 3 .. NR_FDS - 1
  BY <1>1, <1>3 DEF FdsOK
<1>6. \A p, q \in DOMAIN g : g[p] = g[q] => p = q
  BY <1>1, <1>3 DEF FdsOK
<1>7. DOMAIN g \subseteq Objects
  BY <1>3 DEF FdsOK
<1> QED BY <1>3, <1>4, <1>5, <1>6, <1>7, Zenon DEF FdsOK, g, n

\* The dispatcher watches every open descriptor but its own and the frame
\* buffer's, under its number; what is open is there, and the terminal is the
\* lowest, while there are input methods or windows to watch.
Wiring(f, w, a) ==
  /\ FdsOK(f)
  /\ w = [n \in DOMAIN w |-> w[n]]
  /\ \A n \in DOMAIN w : w[n] \in DOMAIN f \ {"dispatcher", "fb"} /\ f[w[n]] = n
  /\ \A o \in DOMAIN f \ {"dispatcher", "fb"} : f[o] \in DOMAIN w /\ w[f[o]] = o
  /\ DOMAIN f \ {"fb"} \subseteq a
  /\ "tty" \in a => "tty" \in DOMAIN f /\ f["tty"] = 3
  /\ \A o \in DOMAIN f \cap (Windows \cup Ims) : "tty" \in a

LEMMA OpenedWiring ==
  ASSUME NEW f, NEW w, NEW a, NEW b, Wiring(f, w, a), NEW o \in Objects,
         o \notin DOMAIN f \cup {"tty", "dispatcher", "fb"},
         a \subseteq b, o \in b, "tty" \in b => "tty" \in a, o \in Windows \cup Ims => "tty" \in a
  PROVE  Wiring(WithFd(f, o), Watching(w, WithFd(f, o), o), b)
<1> DEFINE g == WithFd(f, o)
           v == Watching(w, g, o)
<1>1. /\ FdsOK(g) /\ DOMAIN g = DOMAIN f \cup {o}
      /\ \A p \in DOMAIN f : g[p] = f[p]
  BY OpenedFds DEF Wiring
<1> HIDE DEF g
<1>2. g[o] \in 3 .. NR_FDS - 1 /\ \A p \in DOMAIN f : g[p] # g[o]
  BY <1>1 DEF FdsOK
<1>3. v = [n \in DOMAIN w \cup {g[o]} |-> IF n = g[o] THEN o ELSE w[n]]
  BY <1>2, WindowsAssumption DEF Watching
<1>4. /\ DOMAIN v = DOMAIN w \cup {g[o]} /\ v[g[o]] = o
      /\ \A n \in DOMAIN w : n # g[o] => v[n] = w[n]
      /\ v = [n \in DOMAIN v |-> v[n]]
  BY <1>3
<1> HIDE DEF v
<1>5. \A n \in DOMAIN w : w[n] \in DOMAIN f \ {"dispatcher", "fb"} /\ f[w[n]] = n
  BY DEF Wiring
<1>6. \A n \in DOMAIN w : n # g[o]
  BY <1>1, <1>2, <1>5
<1>7. ASSUME NEW n \in DOMAIN v PROVE v[n] \in DOMAIN g \ {"dispatcher", "fb"} /\ g[v[n]] = n
  BY <1>1, <1>4, <1>5, <1>6
<1>8. ASSUME NEW p \in DOMAIN g \ {"dispatcher", "fb"} PROVE g[p] \in DOMAIN v /\ v[g[p]] = p
  <2>1. CASE p = o
    BY <1>4, <2>1
  <2>2. CASE p \in DOMAIN f
    <3>1. f[p] \in DOMAIN w /\ w[f[p]] = p
      BY <2>2 DEF Wiring
    <3> QED BY <1>1, <1>4, <1>6, <2>2, <3>1
  <2> QED BY <1>1, <2>1, <2>2
<1>9. DOMAIN g \ {"fb"} \subseteq b
  BY <1>1 DEF Wiring
<1>10. "tty" \in b => "tty" \in DOMAIN g /\ g["tty"] = 3
  BY <1>1 DEF Wiring
<1>11. \A p \in DOMAIN g \cap (Windows \cup Ims) : "tty" \in b
  BY <1>1 DEF Wiring
<1>12. Wiring(g, v, b)
  BY <1>1, <1>4, <1>7, <1>8, <1>9, <1>10, <1>11, Zenon DEF Wiring
<1> QED BY <1>12 DEF g, v

LEMMA OpenedUnwatched ==
  ASSUME NEW f, NEW w, NEW a, Wiring(f, w, a), "fb" \notin DOMAIN f
  PROVE  Wiring(WithFd(f, "fb"), w, a)
<1> DEFINE g == WithFd(f, "fb")
<1>0. "fb" \in Objects /\ "fb" \notin Windows \cup Ims
  BY WindowsAssumption DEF Objects, Instances
<1>1. /\ FdsOK(g) /\ DOMAIN g = DOMAIN f \cup {"fb"}
      /\ \A p \in DOMAIN f : g[p] = f[p]
  BY <1>0, OpenedFds DEF Wiring
<1> HIDE DEF g
<1>2. \A n \in DOMAIN w : w[n] \in DOMAIN g \ {"dispatcher", "fb"} /\ g[w[n]] = n
  BY <1>1 DEF Wiring
<1>3. \A p \in DOMAIN g \ {"dispatcher", "fb"} : g[p] \in DOMAIN w /\ w[g[p]] = p
  BY <1>1 DEF Wiring
<1>4. "tty" \in a => "tty" \in DOMAIN g /\ g["tty"] = 3
  BY <1>1 DEF Wiring
<1>5. \A p \in DOMAIN g \cap (Windows \cup Ims) : "tty" \in a
  BY <1>0, <1>1 DEF Wiring
<1>6. w = [n \in DOMAIN w |-> w[n]] /\ DOMAIN g \ {"fb"} \subseteq a
  BY <1>1 DEF Wiring
<1>7. Wiring(g, w, a)
  BY <1>1, <1>2, <1>3, <1>4, <1>5, <1>6, Zenon DEF Wiring
<1> QED BY <1>7 DEF g

\* Objects without a descriptor may come.
LEMMA SameWiring ==
  ASSUME NEW f, NEW w, NEW a, NEW b, Wiring(f, w, a), a \subseteq b, "tty" \in b => "tty" \in a
  PROVE  Wiring(f, w, b)
BY DEF Wiring

LEMMA ClosedWiring ==
  ASSUME NEW f, NEW w, NEW a, NEW S, Wiring(f, w, a),
         S \cap {"dispatcher", "fb"} = {},
         "tty" \in S => DOMAIN f \cap (Windows \cup Ims) = {}
  PROVE  Wiring(Closed(f, S), Unwatched(w, S), a \ S)
<1> DEFINE g == Closed(f, S)
           v == Unwatched(w, S)
<1>1. /\ DOMAIN g = DOMAIN f \ S /\ \A p \in DOMAIN g : g[p] = f[p]
      /\ g = [p \in DOMAIN g |-> g[p]]
  BY DEF Closed
<1>2. /\ DOMAIN v = {n \in DOMAIN w : w[n] \notin S} /\ \A n \in DOMAIN v : v[n] = w[n]
      /\ v = [n \in DOMAIN v |-> v[n]]
  BY DEF Unwatched
<1> HIDE DEF g, v
<1>3. FdsOK(g)
  <2>1. FdsOK(f)
    BY DEF Wiring
  <2>2. DOMAIN g \subseteq Objects
    BY <1>1, <2>1 DEF FdsOK
  <2>3. \A p \in DOMAIN g : g[p] \in 3 .. NR_FDS - 1
    BY <1>1, <2>1 DEF FdsOK
  <2>4. \A p, q \in DOMAIN g : g[p] = g[q] => p = q
    BY <1>1, <2>1 DEF FdsOK
  <2> QED BY <1>1, <2>2, <2>3, <2>4, Zenon DEF FdsOK
<1>4. ASSUME NEW n \in DOMAIN v PROVE v[n] \in DOMAIN g \ {"dispatcher", "fb"} /\ g[v[n]] = n
  <2>1. n \in DOMAIN w /\ v[n] = w[n] /\ w[n] \notin S
    BY <1>2
  <2>2. w[n] \in DOMAIN f \ {"dispatcher", "fb"} /\ f[w[n]] = n
    BY <2>1 DEF Wiring
  <2> QED BY <1>1, <2>1, <2>2
<1>5. ASSUME NEW p \in DOMAIN g \ {"dispatcher", "fb"} PROVE g[p] \in DOMAIN v /\ v[g[p]] = p
  <2>1. p \in DOMAIN f \ {"dispatcher", "fb"} /\ p \notin S /\ g[p] = f[p]
    BY <1>1
  <2>2. f[p] \in DOMAIN w /\ w[f[p]] = p
    BY <2>1 DEF Wiring
  <2> QED BY <1>2, <2>1, <2>2
<1>6. DOMAIN g \ {"fb"} \subseteq a \ S
  BY <1>1 DEF Wiring
<1>7. "tty" \in a \ S => "tty" \in DOMAIN g /\ g["tty"] = 3
  BY <1>1 DEF Wiring
<1>8. \A p \in DOMAIN g \cap (Windows \cup Ims) : "tty" \in a \ S
  BY <1>1 DEF Wiring
<1>9. Wiring(g, v, a \ S)
  BY <1>2, <1>3, <1>4, <1>5, <1>6, <1>7, <1>8, Zenon DEF Wiring
<1> QED BY <1>9 DEF g, v

\* Starting the program, the terminal gets the first descriptor.
LEMMA FirstWiring ==
  LET f == WithFd(WithFd(<< >>, "tty"), "dispatcher")
  IN  /\ Wiring(f, Watching(<< >>, f, "tty"), {"tty", "dispatcher"})
      /\ DOMAIN f = {"tty", "dispatcher"}
<1> DEFINE e == WithFd(<< >>, "tty")
           f == WithFd(e, "dispatcher")
           w == Watching(<< >>, f, "tty")
<1>0. /\ "tty" \in Objects /\ "dispatcher" \in Objects
      /\ {"tty", "dispatcher"} \cap (Windows \cup Ims) = {} /\ NR_FDS \in Nat
  BY WindowsAssumption DEF Objects, Instances
<1>1. FdsOK(<< >>)
  BY DEF FdsOK
<1>2. FdsOK(e) /\ DOMAIN e = {"tty"} /\ e["tty"] = Lowest(<< >>)
  <2>1. DOMAIN << >> = {} /\ "tty" \notin DOMAIN << >>
    OBVIOUS
  <2>2. FdsOK(e) /\ DOMAIN e = DOMAIN << >> \cup {"tty"} /\ e["tty"] = Lowest(<< >>)
    BY <1>0, <1>1, <2>1, OpenedFds, Zenon
  <2> HIDE DEF e
  <2> QED BY <2>1, <2>2
<1>3. Lowest(<< >>) = 3
  <2>1. DOMAIN << >> = {} /\ Cardinality(DOMAIN << >>) = 0
    BY FS_EmptySet
  <2>2. Lowest(<< >>) \in 3 .. 0 + 3
    <3>1. \E m \in 3 .. 0 + 3 :
             /\ \A p \in DOMAIN << >> : << >>[p] # m
             /\ \A k \in 3 .. m - 1 : \E p \in DOMAIN << >> : << >>[p] = k
      BY <2>1
    <3>2. Lowest(<< >>) = CHOOSE m \in 3 .. 0 + 3 :
             /\ \A p \in DOMAIN << >> : << >>[p] # m
             /\ \A k \in 3 .. m - 1 : \E p \in DOMAIN << >> : << >>[p] = k
      BY <2>1 DEF Lowest
    <3> QED BY <3>1, <3>2, Zenon
  <2> QED BY <2>2
<1> HIDE DEF e
<1>4. /\ FdsOK(f) /\ DOMAIN f = {"tty", "dispatcher"} /\ f["tty"] = 3
  <2>1. "dispatcher" \notin DOMAIN e
    BY <1>2
  <2>2. FdsOK(f) /\ DOMAIN f = DOMAIN e \cup {"dispatcher"} /\ \A p \in DOMAIN e : f[p] = e[p]
    BY <1>0, <1>2, <2>1, OpenedFds, Zenon
  <2> HIDE DEF f
  <2> QED BY <1>2, <1>3, <2>2
<1> HIDE DEF f
<1>5. 3 < NR_FDS
  BY <1>0, <1>4 DEF FdsOK
<1>6. w = [n \in {3} |-> "tty"]
  BY <1>0, <1>4, <1>5 DEF Watching
<1>7. DOMAIN w = {3} /\ w[3] = "tty" /\ w = [n \in DOMAIN w |-> w[n]]
  BY <1>6
<1> HIDE DEF w
<1>8. /\ \A n \in DOMAIN w : w[n] \in DOMAIN f \ {"dispatcher", "fb"} /\ f[w[n]] = n
      /\ \A o \in DOMAIN f \ {"dispatcher", "fb"} : f[o] \in DOMAIN w /\ w[f[o]] = o
  BY <1>4, <1>7
<1>9. DOMAIN f \cap (Windows \cup Ims) = {}
  BY <1>0, <1>4
<1>10. Wiring(f, w, {"tty", "dispatcher"})
  BY <1>4, <1>7, <1>8, <1>9 DEF Wiring
<1> QED BY <1>4, <1>10 DEF e, f, w

\* An input method is there with its window only, and both with what their
\* destructors call.
OwnersKept(a) ==
  /\ \A s \in Windows : ImOf[s] \in a => s \in a
  /\ a \cap (Windows \cup Ims) # {} => {"dispatcher", "manager", "screen"} \subseteq a

\* What init has created by now.
StartKept ==
  CASE step = "tty" -> fds = << >> /\ watched = << >> /\ alive = {}
    [] step = "font" -> alive = {"tty", "dispatcher"} /\ DOMAIN fds = {"tty", "dispatcher"}
    [] step = "screen" -> alive = {"tty", "dispatcher", "font"} /\ DOMAIN fds = {"tty", "dispatcher"}
    [] step = "signal" -> /\ alive = {"tty", "dispatcher", "font", "screen"}
                          /\ DOMAIN fds \subseteq {"tty", "dispatcher", "fb"}
    [] step = "mouse" -> /\ alive = {"tty", "dispatcher", "font", "screen", "signal"}
                         /\ DOMAIN fds \subseteq {"tty", "dispatcher", "fb", "signal"}
    [] OTHER -> FALSE

\* The terminal is as it was found but for what a visit changed, as long as it
\* lasts, and for what is deleted later.
TermKept ==
  /\ term = [tm |-> term.tm, kbMode |-> term.kbMode, keymap |-> term.keymap,
             kd |-> term.kd, cursor |-> term.cursor, blank |-> term.blank]
  /\ ~ inited \/ "tty" \notin alive =>
        term.tm = "own" /\ term.kbMode = "own" /\ term.keymap = "own"
  /\ "screen" \notin alive => term.cursor = TRUE /\ term.blank = TRUE
  /\ ~ atConsole => term.keymap = "own" /\ term.kd = "text"
  /\ machine.gpm => term.kd = "text"
  /\ inited \in BOOLEAN /\ atConsole \in BOOLEAN
  /\ atConsole => inited

SessionKept ==
  /\ stage \in {"init", "run", "loop", "ending", "delete", "gone"}
  /\ stage # "gone" => Wiring(fds, watched, alive) /\ OwnersKept(alive) /\ TermKept
  /\ stage = "init" => StartKept /\ ~ inited
  /\ stage \in {"run", "loop", "ending"} => {"tty", "dispatcher", "screen"} \subseteq alive
  /\ stage \in {"init", "delete", "gone"} => ~ atConsole
  /\ stage = "gone" => term = Own /\ DOMAIN fds \cap (Windows \cup Ims) = {}
  /\ misused = FALSE

LEMMA WindowNames ==
  /\ \A i \in Instances : i \notin Windows /\ i \notin Ims
  /\ \A s \in Windows : s \in Objects /\ ImOf[s] \in Objects /\ ImOf[s] \in Ims /\ s \notin Ims
                        /\ ImOf[s] \notin Windows
  /\ Ims \subseteq Objects
BY WindowsAssumption DEF Ims, Objects

\* The state of the terminal, field by field.
ATerm(tm, kbMode, km, kd, cursor, blank) ==
  [tm |-> tm, kbMode |-> kbMode, keymap |-> km, kd |-> kd, cursor |-> cursor, blank |-> blank]

LEMMA SessionStarts == SessionInit => SessionKept
<1> SUFFICES ASSUME SessionInit PROVE SessionKept
  OBVIOUS
<1>1. /\ stage = "init" /\ step = "tty" /\ fds = << >> /\ watched = << >> /\ alive = {}
      /\ misused = FALSE /\ term = Own /\ inited = FALSE /\ atConsole = FALSE
  BY DEF SessionInit
<1>2. Wiring(<< >>, << >>, {})
  BY DEF Wiring, FdsOK
<1>3. OwnersKept({})
  BY DEF OwnersKept
<1>4. TermKept
  BY <1>1 DEF TermKept, Own
<1>5. StartKept
  BY <1>1 DEF StartKept
<1> QED BY <1>1, <1>2, <1>3, <1>4, <1>5 DEF SessionKept

LEMMA TermStays ==
  ASSUME TermKept, term' = term, machine' = machine, inited' = inited, atConsole' = atConsole,
         "tty" \in alive' \/ "tty" \notin alive, "screen" \in alive' \/ "screen" \notin alive
  PROVE  TermKept'
BY DEF TermKept

\* The start.
LEMMA InitSteps ==
  ASSUME SessionKept,
         CreateTtyInput \/ CreateFont \/ CreateScreen \/ CreateSignalIo \/ CreateMouse
  PROVE  SessionKept'
<1>0. /\ stage = "init" /\ Wiring(fds, watched, alive) /\ OwnersKept(alive) /\ TermKept
      /\ StartKept /\ ~ inited /\ ~ atConsole /\ misused = FALSE
  BY DEF SessionKept, CreateTtyInput, CreateFont, CreateScreen, CreateSignalIo, CreateMouse
<1>1. inited' = inited /\ atConsole' = atConsole /\ misused' = misused /\ machine' = machine
  BY DEF CreateTtyInput, CreateFont, CreateScreen, CreateSignalIo, CreateMouse,
         Created, GivesUp, visitVars
<1>2. ASSUME GivesUp PROVE SessionKept'
  <2>1. /\ stage' = "delete" /\ fds' = fds /\ watched' = watched /\ alive' = alive /\ term' = term
    BY <1>2 DEF GivesUp
  <2>2. TermKept'
    BY <1>0, <1>1, <2>1, TermStays
  <2> QED BY <1>0, <1>1, <2>1, <2>2 DEF SessionKept
<1>3. CASE CreateTtyInput
  <2> SUFFICES ASSUME machine.tty PROVE SessionKept'
    BY <1>2, <1>3 DEF CreateTtyInput
  <2> DEFINE open == WithFd(WithFd(fds, "tty"), "dispatcher")
  <2>1. fds = << >> /\ watched = << >> /\ alive = {}
    BY <1>0, <1>3 DEF StartKept, CreateTtyInput
  <2>2. /\ alive' = {"tty", "dispatcher"} /\ fds' = open
        /\ watched' = Watching(watched, open, "tty")
        /\ step' = "font" /\ stage' = stage /\ term' = term
    BY <1>3, <2>1 DEF CreateTtyInput, Created
  <2>3. Wiring(fds', watched', alive') /\ DOMAIN fds' = {"tty", "dispatcher"}
    BY <2>1, <2>2, FirstWiring, Zenon
  <2>4. TermKept'
    BY <1>0, <1>1, <2>1, <2>2 DEF TermKept
  <2>5. OwnersKept(alive')
    BY <2>2, WindowNames DEF OwnersKept, Instances
  <2>6. StartKept'
    BY <2>2, <2>3 DEF StartKept
  <2> QED BY <1>0, <1>1, <2>2, <2>3, <2>4, <2>5, <2>6 DEF SessionKept
<1>4. CASE CreateFont
  <2> SUFFICES ASSUME machine.font PROVE SessionKept'
    BY <1>2, <1>4 DEF CreateFont
  <2>1. alive = {"tty", "dispatcher"} /\ DOMAIN fds = {"tty", "dispatcher"}
    BY <1>0, <1>4 DEF StartKept, CreateFont
  <2>2. /\ alive' = alive \cup {"font"} /\ fds' = fds /\ watched' = watched
        /\ step' = "screen" /\ stage' = stage /\ term' = term
    BY <1>4 DEF CreateFont, Created
  <2>3. Wiring(fds', watched', alive')
    BY <1>0, <2>2, SameWiring
  <2>4. TermKept'
    BY <1>0, <1>1, <2>2, TermStays
  <2>5. OwnersKept(alive')
    BY <2>1, <2>2, WindowNames DEF OwnersKept, Instances
  <2>6. StartKept'
    BY <2>1, <2>2 DEF StartKept
  <2> QED BY <1>0, <1>1, <2>2, <2>3, <2>4, <2>5, <2>6 DEF SessionKept
<1>5. CASE CreateScreen
  <2>1. alive = {"tty", "dispatcher", "font"} /\ DOMAIN fds = {"tty", "dispatcher"}
    BY <1>0, <1>5 DEF StartKept, CreateScreen
  <2>2. Wiring(FrameBuffer, watched, alive) /\ DOMAIN FrameBuffer \subseteq {"tty", "dispatcher", "fb"}
    <3>1. Wiring(WithFd(fds, "fb"), watched, alive)
      BY <1>0, <2>1, OpenedUnwatched
    <3>2. DOMAIN WithFd(fds, "fb") = {"tty", "dispatcher", "fb"}
      BY <2>1 DEF WithFd
    <3> QED BY <1>0, <2>1, <3>1, <3>2 DEF FrameBuffer
  <2>3. watched' = watched
    BY <1>5 DEF CreateScreen, Created
  <2>4. CASE alive' = alive \/ alive' = alive \ {"font"}
    <3>1. stage' = "delete" /\ term' = term /\ fds' \in {fds, FrameBuffer}
      BY <1>5, <2>1, <2>4 DEF CreateScreen, Created
    <3>2. Wiring(fds', watched', alive)
      BY <1>0, <2>2, <2>3, <3>1
    <3>3. DOMAIN fds' \subseteq {"tty", "dispatcher", "fb"}
      BY <2>1, <2>2, <3>1
    <3>4. Wiring(fds', watched', alive')
      BY <2>1, <2>4, <3>2, <3>3 DEF Wiring
    <3>5. TermKept'
      BY <1>0, <1>1, <2>4, <3>1, TermStays
    <3>6. OwnersKept(alive')
      BY <2>1, <2>4, WindowNames DEF OwnersKept, Instances
    <3> QED BY <1>0, <1>1, <3>1, <3>4, <3>5, <3>6 DEF SessionKept
  <2>5. CASE alive' = alive \cup {"screen"}
    <3>1. /\ stage' = stage /\ fds' = FrameBuffer /\ step' = "signal"
          /\ term' = [term EXCEPT !.cursor = FALSE, !.blank = FALSE]
      BY <1>5, <2>1, <2>5 DEF CreateScreen, Created
    <3>2. Wiring(fds', watched', alive')
      BY <1>0, <2>2, <2>3, <2>5, <3>1, SameWiring
    <3>3. TermKept'
      <4>1. term' = [tm |-> term.tm, kbMode |-> term.kbMode, keymap |-> term.keymap,
                     kd |-> term.kd, cursor |-> FALSE, blank |-> FALSE]
        BY <1>0, <3>1 DEF TermKept
      <4> QED BY <1>0, <1>1, <2>1, <2>5, <4>1 DEF TermKept
    <3>4. OwnersKept(alive')
      BY <2>1, <2>5, WindowNames DEF OwnersKept, Instances
    <3>5. StartKept'
      BY <2>1, <2>2, <2>5, <3>1 DEF StartKept
    <3> QED BY <1>0, <1>1, <3>1, <3>2, <3>3, <3>4, <3>5 DEF SessionKept
  <2>6. alive' \in {alive, alive \ {"font"}, alive \cup {"screen"}}
    BY <1>5 DEF CreateScreen, Created
  <2> QED BY <2>4, <2>5, <2>6
<1>6. CASE CreateSignalIo
  <2>1. /\ alive = {"tty", "dispatcher", "font", "screen"}
        /\ DOMAIN fds \subseteq {"tty", "dispatcher", "fb"}
    BY <1>0, <1>6 DEF StartKept, CreateSignalIo
  <2>2. /\ alive' = alive \cup {"signal"} /\ fds' = WithFd(fds, "signal")
        /\ watched' = Watching(watched, WithFd(fds, "signal"), "signal")
        /\ step' = "mouse" /\ stage' = stage /\ term' = term
    BY <1>6 DEF CreateSignalIo, Created
  <2>3. Wiring(fds', watched', alive')
    <3>1. "signal" \in Objects /\ "signal" \notin Windows \cup Ims
      BY WindowNames DEF Objects, Instances
    <3>2. "signal" \notin DOMAIN fds \cup {"tty", "dispatcher", "fb"}
      BY <2>1
    <3>3. /\ alive \subseteq alive' /\ "signal" \in alive' /\ ("tty" \in alive' => "tty" \in alive)
          /\ ("signal" \in Windows \cup Ims => "tty" \in alive)
      BY <2>1, <2>2
    <3> QED BY <1>0, <2>2, <3>1, <3>2, <3>3, OpenedWiring, Zenon
  <2>4. TermKept'
    BY <1>0, <1>1, <2>2, TermStays
  <2>5. OwnersKept(alive')
    BY <2>1, <2>2, WindowNames DEF OwnersKept, Instances
  <2>6. StartKept'
    <3>1. DOMAIN fds' = DOMAIN fds \cup {"signal"}
      BY <2>2 DEF WithFd
    <3> QED BY <2>1, <2>2, <3>1 DEF StartKept
  <2> QED BY <1>0, <1>1, <2>2, <2>3, <2>4, <2>5, <2>6 DEF SessionKept
<1>7. CASE CreateMouse
  <2>1. /\ alive = {"tty", "dispatcher", "font", "screen", "signal"}
        /\ DOMAIN fds \subseteq {"tty", "dispatcher", "fb", "signal"}
    BY <1>0, <1>7 DEF StartKept, CreateMouse
  <2>2. alive' = alive \cup {"mouse"} /\ stage' = "run" /\ term' = term
    BY <1>7 DEF CreateMouse, Created
  <2>3. Wiring(fds', watched', alive')
    <3>1. "mouse" \in Objects /\ "mouse" \notin Windows \cup Ims
      BY WindowNames DEF Objects, Instances
    <3>2. "mouse" \notin DOMAIN fds \cup {"tty", "dispatcher", "fb"}
      BY <2>1
    <3>3. /\ alive \subseteq alive' /\ "mouse" \in alive' /\ ("tty" \in alive' => "tty" \in alive)
          /\ ("mouse" \in Windows \cup Ims => "tty" \in alive)
      BY <2>1, <2>2
    <3>4. CASE machine.gpm
      <4>1. fds' = WithFd(fds, "mouse") /\ watched' = Watching(watched, WithFd(fds, "mouse"), "mouse")
        BY <1>7, <3>4 DEF CreateMouse, Created
      <4> QED BY <1>0, <4>1, <3>1, <3>2, <3>3, OpenedWiring, Zenon
    <3>5. CASE ~ machine.gpm
      <4>1. fds' = fds /\ watched' = watched
        BY <1>7, <3>5 DEF CreateMouse, Created
      <4> QED BY <1>0, <4>1, <3>3, SameWiring
    <3> QED BY <3>4, <3>5
  <2>4. TermKept'
    BY <1>0, <1>1, <2>2, TermStays
  <2>5. OwnersKept(alive')
    BY <2>1, <2>2, WindowNames DEF OwnersKept, Instances
  <2> QED BY <1>0, <1>1, <2>1, <2>2, <2>3, <2>4, <2>5 DEF SessionKept
<1> QED BY <1>3, <1>4, <1>5, <1>6, <1>7

LEMMA KeyboardFields ==
  ASSUME NEW a, NEW b, NEW c, NEW d, NEW e, NEW f
  PROVE  Keyboard(ATerm(a, b, c, d, e, f)) = ATerm("raw", "unicode", "new", d, e, f)
<1> DEFINE t == ATerm(a, b, c, d, e, f)
<1>1. Keyboard(t) = [[[t EXCEPT !.keymap = "new"] EXCEPT !.tm = "raw"] EXCEPT !.kbMode = "unicode"]
  <2> HIDE DEF t
  <2> QED BY DEF Keyboard
<1>2. [t EXCEPT !.keymap = "new"] = ATerm(a, b, "new", d, e, f)
  BY DEF ATerm
<1>3. [ATerm(a, b, "new", d, e, f) EXCEPT !.tm = "raw"] = ATerm("raw", b, "new", d, e, f)
  BY DEF ATerm
<1>4. [ATerm("raw", b, "new", d, e, f) EXCEPT !.kbMode = "unicode"] =
        ATerm("raw", "unicode", "new", d, e, f)
  BY DEF ATerm
<1> QED BY <1>1, <1>2, <1>3, <1>4

LEMMA GivenBackFields ==
  ASSUME NEW a, NEW b, NEW c, NEW d, NEW e, NEW f
  PROVE  Restored(ATerm(a, b, c, d, e, f)) = ATerm("own", "own", "own", d, e, f)
<1> DEFINE t == ATerm(a, b, c, d, e, f)
<1>1. Restored(t) = [[[t EXCEPT !.keymap = "own"] EXCEPT !.kbMode = "own"] EXCEPT !.tm = "own"]
  <2> HIDE DEF t
  <2> QED BY DEF Restored
<1>2. [t EXCEPT !.keymap = "own"] = ATerm(a, b, "own", d, e, f)
  BY DEF ATerm
<1>3. [ATerm(a, b, "own", d, e, f) EXCEPT !.kbMode = "own"] = ATerm(a, "own", "own", d, e, f)
  BY DEF ATerm
<1>4. [ATerm(a, "own", "own", d, e, f) EXCEPT !.tm = "own"] = ATerm("own", "own", "own", d, e, f)
  BY DEF ATerm
<1> QED BY <1>1, <1>2, <1>3, <1>4

LEMMA ScreenFields ==
  ASSUME NEW a, NEW b, NEW c, NEW d, NEW e, NEW f
  PROVE  [ATerm(a, b, c, d, e, f) EXCEPT !.cursor = TRUE, !.blank = TRUE] = ATerm(a, b, c, d, TRUE, TRUE)
<1> DEFINE t == ATerm(a, b, c, d, e, f)
<1>1. [t EXCEPT !.cursor = TRUE, !.blank = TRUE] = [[t EXCEPT !.cursor = TRUE] EXCEPT !.blank = TRUE]
  <2> HIDE DEF t
  <2> QED OBVIOUS
<1>2. \A x : [t EXCEPT !.cursor = x] = ATerm(a, b, c, d, x, f)
  BY DEF ATerm
<1>3. \A x, y : [ATerm(a, b, c, d, y, f) EXCEPT !.blank = x] = ATerm(a, b, c, d, y, x)
  BY DEF ATerm
<1> HIDE DEF t
<1>4. [t EXCEPT !.cursor = TRUE] = ATerm(a, b, c, d, TRUE, f)
  BY <1>2, Zenon
<1>5. [ATerm(a, b, c, d, TRUE, f) EXCEPT !.blank = TRUE] = ATerm(a, b, c, d, TRUE, TRUE)
  BY <1>3, Zenon
<1>6. [[t EXCEPT !.cursor = TRUE] EXCEPT !.blank = TRUE] = ATerm(a, b, c, d, TRUE, TRUE)
  BY <1>4, <1>5, Zenon
<1> QED BY <1>1, <1>6, Zenon DEF t

LEMMA DisplayFields ==
  ASSUME NEW a, NEW b, NEW c, NEW d, NEW e, NEW f
  PROVE  /\ \A x : [ATerm(a, b, c, d, e, f) EXCEPT !.keymap = x] = ATerm(a, b, x, d, e, f)
         /\ \A x : [ATerm(a, b, c, d, e, f) EXCEPT !.kd = x] = ATerm(a, b, c, x, e, f)
<1>1. \A x : [ATerm(a, b, c, d, e, f) EXCEPT !.keymap = x] = ATerm(a, b, x, d, e, f)
  BY DEF ATerm
<1>2. \A x : [ATerm(a, b, c, d, e, f) EXCEPT !.kd = x] = ATerm(a, b, c, x, e, f)
  BY DEF ATerm
<1> QED BY <1>1, <1>2

\* While it runs.
LEMMA VisitSteps ==
  ASSUME SessionKept, EnterTerminal \/ LeaveTerminal \/ LeaveLoop \/ Exits
  PROVE  SessionKept'
<1>0. /\ stage \in {"run", "loop", "ending"} /\ Wiring(fds, watched, alive) /\ OwnersKept(alive)
      /\ TermKept /\ {"tty", "dispatcher", "screen"} \subseteq alive /\ misused = FALSE
  BY DEF SessionKept, EnterTerminal, LeaveTerminal, LeaveLoop, Exits, InLoop
<1>1. fds' = fds /\ watched' = watched /\ misused' = misused
  BY DEF EnterTerminal, LeaveTerminal, LeaveLoop, Exits, visitVars
<1>t. PICK tm, kbMode, km, kd, cursor, blank :
         term = ATerm(tm, kbMode, km, kd, cursor, blank)
  BY <1>0 DEF TermKept, ATerm
<1>m. machine' = machine
  BY DEF EnterTerminal, LeaveTerminal, LeaveLoop, Exits, visitVars
<1>k. \A t, mode : /\ machine.gpm => DisplayMode(t, mode) = t
                   /\ ~ machine.gpm => DisplayMode(t, mode) = [t EXCEPT !.kd = mode]
  BY DEF DisplayMode
<1>2. CASE EnterTerminal
  <2>1. /\ alive' = alive \cup {"manager"} /\ term' = Entered /\ inited' = TRUE
        /\ atConsole' = TRUE /\ stage' = stage
    BY <1>2 DEF EnterTerminal
  <2>2. Keyboard(term) = ATerm("raw", "unicode", "new", kd, cursor, blank)
    BY <1>t, KeyboardFields
  <2>3. term' \in {ATerm("raw", "unicode", "new", kd, cursor, blank),
                   ATerm("raw", "unicode", "new", "graphics", cursor, blank)}
        /\ (machine.gpm => term' = ATerm("raw", "unicode", "new", kd, cursor, blank))
    <3>1. CASE machine.gpm
      BY <1>k, <2>1, <2>2, <3>1 DEF Entered
    <3>2. CASE ~ machine.gpm
      BY <1>k, <2>1, <2>2, <3>2, DisplayFields DEF Entered
    <3> QED BY <3>1, <3>2
  <2>4. TermKept'
    BY <1>0, <1>t, <1>m, <2>1, <2>3 DEF TermKept, ATerm
  <2>5. Wiring(fds', watched', alive')
    BY <1>0, <1>1, <2>1, SameWiring
  <2>6. OwnersKept(alive')
    BY <1>0, <2>1, WindowNames DEF OwnersKept, Instances
  <2> QED BY <1>0, <1>1, <2>1, <2>4, <2>5, <2>6 DEF SessionKept
<1>3. ASSUME atConsole, term' = Left, inited' = inited, atConsole' = FALSE, alive' = alive
      PROVE  TermKept'
  <2>1. inited
    BY <1>0, <1>3 DEF TermKept
  <2>2. [term EXCEPT !.keymap = "own"] = ATerm(tm, kbMode, "own", kd, cursor, blank)
    BY <1>t, DisplayFields
  <2>3. [ATerm(tm, kbMode, "own", kd, cursor, blank) EXCEPT !.kd = "text"] =
          ATerm(tm, kbMode, "own", "text", cursor, blank)
    BY DisplayFields
  <2>4. term' = ATerm(tm, kbMode, "own", "text", cursor, blank)
    <3>1. CASE machine.gpm
      <4>1. kd = "text"
        BY <1>0, <1>t, <3>1 DEF TermKept, ATerm
      <4> QED BY <1>k, <1>3, <2>1, <2>2, <3>1, <4>1 DEF Left
    <3>2. CASE ~ machine.gpm
      BY <1>k, <1>3, <2>1, <2>2, <2>3, <3>2 DEF Left
    <3> QED BY <3>1, <3>2
  <2>5. /\ term'.tm = term.tm /\ term'.kbMode = term.kbMode /\ term'.keymap = "own"
        /\ term'.kd = "text" /\ term'.cursor = term.cursor /\ term'.blank = term.blank
    BY <1>t, <2>4 DEF ATerm
  <2>6. term' = [tm |-> term'.tm, kbMode |-> term'.kbMode, keymap |-> term'.keymap,
                 kd |-> term'.kd, cursor |-> term'.cursor, blank |-> term'.blank]
    BY <2>4 DEF ATerm
  <2>7. /\ inited' /\ inited' \in BOOLEAN /\ ~ atConsole' /\ atConsole' \in BOOLEAN
    BY <1>0, <1>3, <2>1 DEF TermKept
  <2>8. "tty" \notin alive' => term'.tm = "own" /\ term'.kbMode = "own"
    BY <1>0, <1>3
  <2>9. "screen" \notin alive' => term'.cursor = TRUE /\ term'.blank = TRUE
    <3>1. "screen" \in alive'
      BY <1>0, <1>3
    <3> QED BY <3>1
  <2> QED BY <1>0, <1>3, <2>5, <2>6, <2>7, <2>8, <2>9 DEF TermKept
<1>4. CASE LeaveTerminal
  <2>1. /\ atConsole /\ term' = Left /\ inited' = inited /\ atConsole' = FALSE
        /\ alive' = alive /\ stage' = stage
    BY <1>4 DEF LeaveTerminal
  <2>2. TermKept'
    BY <1>3, <2>1
  <2> QED BY <1>0, <1>1, <2>1, <2>2 DEF SessionKept
<1>5. CASE LeaveLoop
  <2>1. /\ term' = (IF atConsole THEN Left ELSE term) /\ inited' = inited /\ atConsole' = FALSE
        /\ alive' = alive /\ stage' = "delete"
    BY <1>5 DEF LeaveLoop
  <2>2. TermKept'
    <3>1. CASE atConsole
      BY <1>3, <2>1, <3>1
    <3>2. CASE ~ atConsole
      <4>1. atConsole' = atConsole
        BY <1>0, <2>1, <3>2 DEF TermKept
      <4> QED BY <1>0, <1>m, <2>1, <3>2, <4>1, TermStays
    <3> QED BY <3>1, <3>2
  <2> QED BY <1>0, <1>1, <2>1, <2>2 DEF SessionKept
<1>6. CASE Exits
  <2>1. /\ term' = term /\ inited' = inited /\ atConsole' = atConsole
        /\ alive' = alive /\ stage' = "ending"
    BY <1>6 DEF Exits, visitVars
  <2>2. TermKept'
    BY <1>0, <1>m, <2>1, TermStays
  <2> QED BY <1>0, <1>1, <2>1, <2>2 DEF SessionKept
<1> QED BY <1>2, <1>4, <1>5, <1>6

LEMMA OpeningSteps ==
  ASSUME SessionKept, NEW s \in Windows, NEW forked \in BOOLEAN, OpenWindow(s, forked) \/ StartIm(s)
  PROVE  SessionKept'
<1>0. /\ stage \in {"run", "loop", "ending"} /\ Wiring(fds, watched, alive) /\ OwnersKept(alive)
      /\ TermKept /\ {"tty", "dispatcher", "screen"} \subseteq alive /\ misused = FALSE
  BY DEF SessionKept, OpenWindow, StartIm, InLoop
<1>1. /\ misused' = misused /\ machine' = machine /\ inited' = inited /\ atConsole' = atConsole
      /\ term' = term /\ stage' \in {"loop", "ending"}
  BY <1>0 DEF OpenWindow, StartIm, InLoop, visitVars
<1>n. /\ s \in Objects /\ ImOf[s] \in Objects
      /\ s \notin {"tty", "dispatcher", "fb"} /\ ImOf[s] \notin {"tty", "dispatcher", "fb"}
      /\ ImOf[s] \in Ims /\ s \notin Ims /\ ImOf[s] \notin Windows
  BY WindowNames DEF Instances
<1>2. DOMAIN fds \ {"fb"} \subseteq alive
  BY <1>0 DEF Wiring
<1>3. CASE OpenWindow(s, forked)
  <2>1. /\ s \notin alive /\ alive' = alive \cup {s, "manager"}
        /\ fds' = IF forked THEN WithFd(fds, s) ELSE fds
        /\ watched' = IF forked THEN Watching(watched, fds', s) ELSE watched
    BY <1>3 DEF OpenWindow
  <2>2. alive \subseteq alive' /\ s \in alive' /\ ("tty" \in alive' => "tty" \in alive)
        /\ "tty" \in alive
    BY <1>0, <2>1
  <2>3. Wiring(fds', watched', alive')
    <3>1. CASE forked
      <4>1. fds' = WithFd(fds, s) /\ watched' = Watching(watched, WithFd(fds, s), s)
        BY <2>1, <3>1
      <4>2. s \notin DOMAIN fds \cup {"tty", "dispatcher", "fb"}
        BY <1>2, <1>n, <2>1
      <4> QED BY <1>0, <1>n, <2>2, <4>1, <4>2, OpenedWiring, Zenon
    <3>2. CASE ~ forked
      BY <1>0, <2>1, <2>2, <3>2, SameWiring
    <3> QED BY <3>1, <3>2
  <2>4. TermKept'
    BY <1>0, <1>1, <2>2, TermStays
  <2>5. OwnersKept(alive')
    <3>1. ASSUME NEW t \in Windows, ImOf[t] \in alive' PROVE t \in alive'
      <4>1. ImOf[t] \in alive
        BY <2>1, <3>1, WindowNames DEF Instances
      <4> QED BY <1>0, <2>2, <4>1 DEF OwnersKept
    <3>2. {"dispatcher", "manager", "screen"} \subseteq alive'
      BY <1>0, <2>1
    <3> QED BY <3>1, <3>2 DEF OwnersKept
  <2> QED BY <1>0, <1>1, <2>2, <2>3, <2>4, <2>5 DEF SessionKept
<1>4. CASE StartIm(s)
  <2>1. /\ s \in alive /\ ImOf[s] \notin alive /\ alive' = alive \cup {ImOf[s]}
        /\ fds' = WithFd(fds, ImOf[s]) /\ watched' = Watching(watched, WithFd(fds, ImOf[s]), ImOf[s])
    BY <1>4 DEF StartIm
  <2>2. alive \subseteq alive' /\ ImOf[s] \in alive' /\ ("tty" \in alive' => "tty" \in alive)
        /\ "tty" \in alive
    BY <1>0, <2>1
  <2>3. Wiring(fds', watched', alive')
    <3>1. ImOf[s] \notin DOMAIN fds \cup {"tty", "dispatcher", "fb"}
      BY <1>2, <1>n, <2>1
    <3> QED BY <1>0, <1>n, <2>1, <2>2, <3>1, OpenedWiring, Zenon
  <2>4. TermKept'
    BY <1>0, <1>1, <2>2, TermStays
  <2>5. OwnersKept(alive')
    <3>1. ASSUME NEW t \in Windows, ImOf[t] \in alive' PROVE t \in alive'
      <4>1. ImOf[t] \in alive \/ t = s
        BY <2>1, <3>1, WindowsAssumption
      <4> QED BY <1>0, <2>1, <2>2, <4>1 DEF OwnersKept
    <3>2. {"dispatcher", "manager", "screen"} \subseteq alive'
      BY <1>0, <2>1 DEF OwnersKept
    <3> QED BY <3>1, <3>2 DEF OwnersKept
  <2> QED BY <1>0, <1>1, <2>2, <2>3, <2>4, <2>5 DEF SessionKept
<1> QED BY <1>3, <1>4

\* A destructor that may run deletes what is there and calls what is there.
LEMMA Deleting ==
  ASSUME Wiring(fds, watched, alive), OwnersKept(alive), "dispatcher" \in alive,
         NEW o, o \in alive, o \in {"tty", "signal", "mouse"} \cup Windows \cup Ims,
         o \in Windows \cup Ims => "tty" \in alive,
         o = "tty" => DOMAIN fds \cap (Windows \cup Ims) = {},
         misused = FALSE, Deletes(o)
  PROVE  /\ Wiring(fds', watched', alive') /\ OwnersKept(alive')
         /\ misused' = FALSE
         /\ alive' = alive \ Gone(o) /\ o \in Gone(o) /\ Gone(o) \subseteq {o} \cup Ims
<1>1. /\ o \in Gone(o) /\ Gone(o) \subseteq {o} \cup Ims
      /\ \A g \in Gone(o) : g # o => o \in Windows /\ g = ImOf[o] /\ g \in alive
      /\ o \in Windows /\ ImOf[o] \in alive => ImOf[o] \in Gone(o)
  BY DEF Gone, Ims
<1>2. /\ alive' = alive \ Gone(o) /\ fds' = Closed(fds, Gone(o))
      /\ watched' = Unwatched(watched, Gone(o))
      /\ misused' = (misused \/ ~ (Calls(o) \subseteq alive))
  BY DEF Deletes
<1>n. /\ o \notin {"dispatcher", "fb", "manager", "screen"}
      /\ \A i \in {"tty", "dispatcher", "fb", "manager", "screen"} : i \notin Ims /\ i \notin Windows
  BY WindowNames DEF Instances
<1>3. Wiring(fds', watched', alive')
  <2>1. Gone(o) \cap {"dispatcher", "fb"} = {}
    BY <1>1, <1>n
  <2>2. "tty" \in Gone(o) => DOMAIN fds \cap (Windows \cup Ims) = {}
    BY <1>1, <1>n
  <2> QED BY <1>2, <2>1, <2>2, ClosedWiring
<1>4. OwnersKept(alive')
  <2>1. ASSUME NEW t \in Windows, ImOf[t] \in alive' PROVE t \in alive'
    <3>1. t \in alive /\ ImOf[t] \notin Gone(o) /\ ImOf[t] \in alive
      BY <1>2, <2>1 DEF OwnersKept
    <3>2. t \notin Gone(o)
      BY <1>1, <3>1, WindowNames
    <3> QED BY <1>2, <3>1, <3>2
  <2>2. alive' \cap (Windows \cup Ims) # {} => {"dispatcher", "manager", "screen"} \subseteq alive'
    BY <1>1, <1>2, <1>n DEF OwnersKept
  <2> QED BY <2>1, <2>2 DEF OwnersKept
<1>5. Calls(o) \subseteq alive
  <2>1. CASE o \in Windows
    <3>1. Calls(o) \subseteq {"dispatcher", "manager", "screen", "tty"}
      BY <2>1, WindowNames DEF Calls
    <3> QED BY <2>1, <3>1 DEF OwnersKept
  <2>2. CASE o \in Ims
    <3>1. Calls(o) = {"dispatcher", "manager", "screen", "tty"} \cup {s \in Windows : ImOf[s] = o}
      BY <2>2, WindowsAssumption DEF Calls
    <3> QED BY <2>2, <3>1 DEF OwnersKept
  <2>3. CASE o \notin Windows /\ o \notin Ims
    BY <2>3 DEF Calls
  <2> QED BY <2>1, <2>2, <2>3
<1>6. misused' = FALSE
  BY <1>2, <1>5
<1> QED BY <1>1, <1>2, <1>3, <1>4, <1>6

LEMMA CloseSteps ==
  ASSUME SessionKept, NEW o \in Windows \cup Ims, CloseWindow(o)
  PROVE  SessionKept'
<1>0. /\ stage \in {"loop", "ending"} /\ Wiring(fds, watched, alive) /\ OwnersKept(alive)
      /\ TermKept /\ {"tty", "dispatcher", "screen"} \subseteq alive /\ misused = FALSE
      /\ o \in alive /\ Deletes(o)
  BY DEF SessionKept, CloseWindow, InLoop
<1>1. /\ machine' = machine /\ inited' = inited /\ atConsole' = atConsole
      /\ term' = term /\ stage' \in {"loop", "ending"}
  BY <1>0 DEF CloseWindow
<1>2. o # "tty" /\ \A i \in {"tty", "dispatcher", "screen"} : i # o /\ i \notin Ims
  BY WindowNames DEF Instances
<1>3. /\ Wiring(fds', watched', alive') /\ OwnersKept(alive') /\ misused' = FALSE
      /\ alive' = alive \ Gone(o) /\ Gone(o) \subseteq {o} \cup Ims
  BY <1>0, <1>2, Deleting
<1>4. {"tty", "dispatcher", "screen"} \subseteq alive'
  BY <1>0, <1>2, <1>3
<1>5. TermKept'
  BY <1>0, <1>1, <1>4, TermStays
<1> QED BY <1>1, <1>3, <1>4, <1>5 DEF SessionKept

\* The highest descriptor that is watched is the terminal's only when it is the
\* last one.
LEMMA HighestIs ==
  ASSUME NEW f, NEW w, NEW a, Wiring(f, w, a), DOMAIN w # {}
  PROVE  LET o == w[Max(DOMAIN w)]
         IN  /\ o \in DOMAIN f \ {"dispatcher", "fb"}
             /\ o = "tty" => DOMAIN f \cap (Windows \cup Ims) = {}
<1> DEFINE top == Max(DOMAIN w)
           down == {NR_FDS - n : n \in DOMAIN w}
<1>0. NR_FDS \in Nat
  BY WindowsAssumption
<1>1. ASSUME NEW n \in DOMAIN w PROVE n \in 3 .. NR_FDS - 1
  BY DEF Wiring, FdsOK
<1>2. \E n \in DOMAIN w : \A m \in DOMAIN w : n >= m
  <2>1. down \subseteq Nat /\ down # {}
    BY <1>0, <1>1
  <2>2. PICK k \in down : \A j \in down : k <= j
    BY <2>1, NatMin
  <2>3. PICK n \in DOMAIN w : k = NR_FDS - n
    BY <2>2
  <2>4. \A m \in DOMAIN w : k <= NR_FDS - m
    BY <2>2
  <2> QED BY <1>0, <1>1, <2>3, <2>4
<1>3. top \in DOMAIN w /\ \A m \in DOMAIN w : top >= m
  BY <1>2, Zenon DEF Max
<1> HIDE DEF top
<1>4. w[top] \in DOMAIN f \ {"dispatcher", "fb"} /\ f[w[top]] = top
  BY <1>3 DEF Wiring
<1>5. ASSUME w[top] = "tty", NEW p \in DOMAIN f \cap (Windows \cup Ims) PROVE FALSE
  <2>1. "tty" \in a
    BY DEF Wiring
  <2>2. top = 3
    BY <1>4, <1>5, <2>1 DEF Wiring
  <2>3. p \notin {"tty", "dispatcher", "fb"}
    BY WindowNames DEF Instances
  <2>4. f[p] \in DOMAIN w /\ w[f[p]] = p
    BY <2>3 DEF Wiring
  <2>5. f[p] = 3
    BY <1>1, <1>3, <2>2, <2>4
  <2> QED BY <1>5, <2>2, <2>3, <2>4, <2>5
<1> QED BY <1>4, <1>5 DEF top

LEMMA DeletingSteps ==
  ASSUME SessionKept, DeleteWatched
  PROVE  SessionKept'
<1> DEFINE o == NextDeleted
<1>0. /\ stage = "delete" /\ Wiring(fds, watched, alive) /\ OwnersKept(alive)
      /\ TermKept /\ misused = FALSE /\ ~ atConsole
      /\ "dispatcher" \in alive /\ DOMAIN watched # {} /\ Deletes(o)
  BY DEF SessionKept, DeleteWatched
<1>1. /\ machine' = machine /\ inited' = inited /\ atConsole' = atConsole
      /\ term' = (IF o = "tty" THEN TtyGivenBack ELSE term) /\ stage' = stage
  BY DEF DeleteWatched
<1>2. /\ o \in DOMAIN fds \ {"dispatcher", "fb"}
      /\ o = "tty" => DOMAIN fds \cap (Windows \cup Ims) = {}
  BY <1>0, HighestIs DEF NextDeleted
<1> HIDE DEF o
<1>3. /\ o \in alive /\ o \in {"tty", "signal", "mouse"} \cup Windows \cup Ims
      /\ o \in Windows \cup Ims => "tty" \in alive
  BY <1>0, <1>2 DEF Wiring, FdsOK, Objects
<1>4. /\ Wiring(fds', watched', alive') /\ OwnersKept(alive') /\ misused' = FALSE
      /\ alive' = alive \ Gone(o) /\ o \in Gone(o) /\ Gone(o) \subseteq {o} \cup Ims
  BY <1>0, <1>2, <1>3, Deleting
<1>5. \A i \in {"tty", "dispatcher", "screen"} : i \notin Ims /\ i \notin Windows
  BY WindowNames DEF Instances
<1>6. "screen" \in alive' \/ "screen" \notin alive
  BY <1>3, <1>4, <1>5
<1>7. TermKept'
  <2>1. CASE o # "tty"
    <3>1. "tty" \in alive' \/ "tty" \notin alive
      BY <1>4, <1>5, <2>1
    <3> QED BY <1>0, <1>1, <1>6, <2>1, <3>1, TermStays
  <2>2. CASE o = "tty" /\ ~ inited
    <3>1. term' = term
      BY <1>1, <2>2 DEF TtyGivenBack
    <3> QED BY <1>0, <1>1, <1>6, <2>2, <3>1 DEF TermKept
  <2>3. CASE o = "tty" /\ inited
    <3>1. PICK tm, kbMode, km, kd, cursor, blank :
            term = ATerm(tm, kbMode, km, kd, cursor, blank)
      BY <1>0 DEF TermKept, ATerm
    <3>2. term' = ATerm("own", "own", "own", kd, cursor, blank)
      <4>1. term' = Restored(term)
        BY <1>1, <2>3 DEF TtyGivenBack
      <4> QED BY <3>1, <4>1, GivenBackFields
    <3> QED BY <1>0, <1>1, <1>6, <3>1, <3>2 DEF TermKept, ATerm
  <2> QED BY <2>1, <2>2, <2>3 DEF TermKept
<1> QED BY <1>0, <1>1, <1>4, <1>7 DEF SessionKept

LEMMA LastSteps ==
  ASSUME SessionKept, DeleteInstances
  PROVE  SessionKept'
<1>0. /\ stage = "delete" /\ Wiring(fds, watched, alive)
      /\ TermKept /\ misused = FALSE /\ ~ atConsole /\ DOMAIN watched = {}
  BY DEF SessionKept, DeleteInstances
<1>1. /\ stage' = "gone" /\ misused' = misused /\ atConsole' = atConsole
      /\ fds' = Closed(fds, {"dispatcher"} \union
                            (IF "screen" \in alive /\ machine.device = "fb" THEN {"fb"} ELSE {}))
      /\ term' = IF "screen" \in alive THEN [term EXCEPT !.cursor = TRUE, !.blank = TRUE] ELSE term
  BY DEF DeleteInstances, visitVars
<1>2. DOMAIN fds \subseteq {"dispatcher", "fb"}
  BY <1>0 DEF Wiring
<1>3. DOMAIN fds' \cap (Windows \cup Ims) = {}
  <2>1. DOMAIN fds' \subseteq DOMAIN fds
    BY <1>1 DEF Closed
  <2> QED BY <1>2, <2>1, WindowNames DEF Instances
<1>4. "tty" \notin alive
  BY <1>0, <1>2 DEF Wiring
<1>5. PICK cursor, blank : term = ATerm("own", "own", "own", "text", cursor, blank)
  BY <1>0, <1>4 DEF TermKept, ATerm
<1>6. term' = Own
  <2>1. Own = ATerm("own", "own", "own", "text", TRUE, TRUE)
    BY DEF Own, ATerm
  <2>2. CASE "screen" \in alive
    <3>1. term' = [term EXCEPT !.cursor = TRUE, !.blank = TRUE]
      BY <1>1, <2>2
    <3>2. [ATerm("own", "own", "own", "text", cursor, blank) EXCEPT !.cursor = TRUE, !.blank = TRUE] =
            ATerm("own", "own", "own", "text", TRUE, TRUE)
      BY ScreenFields, ZenonT(60)
    <3> QED BY <1>5, <2>1, <3>1, <3>2
  <2>3. CASE "screen" \notin alive
    <3>1. term.cursor = TRUE /\ term.blank = TRUE
      BY <1>0, <2>3 DEF TermKept
    <3>2. term = ATerm("own", "own", "own", "text", term.cursor, term.blank)
      BY <1>5 DEF ATerm
    <3> QED BY <1>1, <2>1, <2>3, <3>1, <3>2
  <2> QED BY <2>2, <2>3
<1> QED BY <1>0, <1>1, <1>3, <1>6 DEF SessionKept

LEMMA SessionSteps == SessionKept /\ SessionNext => SessionKept'
<1> SUFFICES ASSUME SessionKept, SessionNext PROVE SessionKept'
  OBVIOUS
<1>1. ASSUME NEW s \in Windows, StartIm(s) PROVE SessionKept'
  BY <1>1, OpeningSteps
<1>2. ASSUME NEW s \in Windows, NEW forked \in BOOLEAN, OpenWindow(s, forked) PROVE SessionKept'
  BY <1>2, OpeningSteps
<1>3. ASSUME NEW o \in Windows \cup Ims, CloseWindow(o) PROVE SessionKept'
  BY <1>3, CloseSteps
<1> QED BY <1>1, <1>2, <1>3, InitSteps, VisitSteps, DeletingSteps, LastSteps DEF SessionNext

LEMMA SessionStays ==
  ASSUME SessionKept, UNCHANGED sessionVars PROVE SessionKept'
<1>1. /\ stage' = stage /\ machine' = machine /\ step' = step /\ fds' = fds /\ watched' = watched
      /\ alive' = alive /\ misused' = misused /\ term' = term /\ inited' = inited
      /\ atConsole' = atConsole
  BY DEF sessionVars
<1>2. Wiring(fds, watched, alive)' <=> Wiring(fds, watched, alive)
  BY <1>1
<1>3. OwnersKept(alive)' <=> OwnersKept(alive)
  BY <1>1
<1>4. TermKept' <=> TermKept
  BY <1>1 DEF TermKept
<1>5. StartKept' <=> StartKept
  BY <1>1 DEF StartKept
<1> QED BY <1>1, <1>2, <1>3, <1>4, <1>5 DEF SessionKept

LEMMA SessionGivesBack ==
  SessionKept => TerminalGivenBack /\ NothingUsedAfterDelete /\ NothingLeftBehind
<1> SUFFICES ASSUME SessionKept
    PROVE  TerminalGivenBack /\ NothingUsedAfterDelete /\ NothingLeftBehind
  OBVIOUS
<1>1. TerminalGivenBack
  <2>1. CASE stage = "gone"
    BY <2>1 DEF SessionKept, TerminalGivenBack, Own
  <2>2. CASE stage # "gone"
    BY <2>2 DEF SessionKept, TermKept, TerminalGivenBack
  <2> QED BY <2>1, <2>2
<1> QED BY <1>1 DEF SessionKept, NothingUsedAfterDelete, NothingLeftBehind

-----------------------------------------------------------------------------
(* Keys (KeyInput).                                                        *)

\* The bytes of a character number by its size.
NoBytes == << >>
TwoBytes(x, y) == <<192 + x, 128 + y>>
ThreeBytes(x, y, z) == <<224 + x, 128 + y, 128 + z>>
FourBytes(w, x, y, z) == <<240 + w, 128 + x, 128 + y, 128 + z>>
OneByte(c) == <<c>>

TooHigh(c) == (55296 <= c /\ c <= 57343) \/ c = 65535 \/ c >= 2097152
Utf8Two(c) == TwoBytes(c \div 64, (c \div 1) % 64)
Utf8Three(c) == ThreeBytes(c \div 4096, (c \div 64) % 64, (c \div 1) % 64)
Utf8Four(c) == FourBytes(c \div 262144, (c \div 4096) % 64, (c \div 64) % 64, (c \div 1) % 64)

LEMMA Utf8Is ==
  ASSUME NEW c \in Nat
  PROVE  to_utf8(c) = IF c < 128 THEN OneByte(c) ELSE IF c < 2048 THEN Utf8Two(c)
                      ELSE IF TooHigh(c) THEN NoBytes
                      ELSE IF c < 65536 THEN Utf8Three(c) ELSE Utf8Four(c)
BY SMTT(20) DEF to_utf8, Trailing, NoBytes, OneByte, TwoBytes, ThreeBytes, FourBytes,
   TooHigh, Utf8Two, Utf8Three, Utf8Four

LEMMA DecodedOne == ASSUME NEW c PROVE Decoded(OneByte(c)) = c /\ Len(OneByte(c)) = 1
BY SMTT(20) DEF Decoded, OneByte

\* The number whose character these bytes are; no number is written in more
\* bytes than it needs, and every byte after the first is a trailing one.
IsCharacter(b, c) ==
    /\ Len(b) \in 1 .. 4 /\ Decoded(b) = c
    /\ c >= <<0, 128, 2048, 65536>>[Len(b)]
    /\ \A i \in 2 .. Len(b) : b[i] \in 128 .. 191

LEMMA Least == /\ <<0, 128, 2048, 65536>>[1] = 0 /\ <<0, 128, 2048, 65536>>[2] = 128
               /\ <<0, 128, 2048, 65536>>[3] = 2048 /\ <<0, 128, 2048, 65536>>[4] = 65536
BY SMTT(20)

LEMMA CharacterOfTwo ==
  ASSUME NEW c \in Nat, 128 <= c, c < 2048
  PROVE  IsCharacter(Utf8Two(c), c)
<1> DEFINE x == c \div 64
           y == (c \div 1) % 64
           b == TwoBytes(x, y)
<1>1. x \in 0 .. 31 /\ y \in 0 .. 63 /\ c = 64 * x + y
  BY SMTT(20)
<1>2. b = Utf8Two(c)
  BY DEF Utf8Two
<1> HIDE DEF x, y
<1>3. Len(b) = 2 /\ b[1] = 192 + x /\ b[2] = 128 + y
  BY SMTT(20) DEF TwoBytes
<1> HIDE DEF b
<1>4. b[1] % 32 = x /\ b[2] % 64 = y
  BY <1>1, <1>3, SMTT(20)
<1>5. Decoded(b) = 64 * (b[1] % 32) + (b[2] % 64)
  BY <1>3, SMTT(20) DEF Decoded
<1>6. Len(b) \in 1 .. 4 /\ Decoded(b) = c
  BY <1>1, <1>3, <1>4, <1>5, SMTT(20)
<1>7. c >= <<0, 128, 2048, 65536>>[Len(b)]
  BY <1>3, Least, SMTT(20)
<1>8. ASSUME NEW i \in 2 .. Len(b) PROVE b[i] \in 128 .. 191
  BY <1>1, <1>3, SMTT(20)
<1>9. IsCharacter(b, c)
  BY <1>6, <1>7, <1>8, SMTT(20) DEF IsCharacter
<1> QED BY <1>2, <1>9, SMTT(20)

LEMMA CharacterOfThree ==
  ASSUME NEW c \in Nat, 2048 <= c, c < 65536
  PROVE  IsCharacter(Utf8Three(c), c)
<1> DEFINE x == c \div 4096
           y == (c \div 64) % 64
           z == (c \div 1) % 64
           b == ThreeBytes(x, y, z)
<1>1. x \in 0 .. 15 /\ y \in 0 .. 63 /\ z \in 0 .. 63 /\ c = 64 * (64 * x + y) + z
  BY SMTT(20)
<1>2. b = Utf8Three(c)
  BY DEF Utf8Three
<1> HIDE DEF x, y, z
<1>3. Len(b) = 3 /\ b[1] = 224 + x /\ b[2] = 128 + y /\ b[3] = 128 + z
  BY SMTT(20) DEF ThreeBytes
<1> HIDE DEF b
<1>4. b[1] % 16 = x /\ b[2] % 64 = y /\ b[3] % 64 = z
  BY <1>1, <1>3, SMTT(20)
<1>5. Decoded(b) = 64 * (64 * (b[1] % 16) + (b[2] % 64)) + (b[3] % 64)
  BY <1>3, SMTT(20) DEF Decoded
<1>6. Len(b) \in 1 .. 4 /\ Decoded(b) = c
  BY <1>1, <1>3, <1>4, <1>5, SMTT(20)
<1>7. c >= <<0, 128, 2048, 65536>>[Len(b)]
  BY <1>3, Least, SMTT(20)
<1>8. ASSUME NEW i \in 2 .. Len(b) PROVE b[i] \in 128 .. 191
  BY <1>1, <1>3, SMTT(20)
<1>9. IsCharacter(b, c)
  BY <1>6, <1>7, <1>8, SMTT(20) DEF IsCharacter
<1> QED BY <1>2, <1>9, SMTT(20)

LEMMA CharacterOfFour ==
  ASSUME NEW c \in Nat, 65536 <= c, c < 2097152
  PROVE  IsCharacter(Utf8Four(c), c)
<1> DEFINE w == c \div 262144
           x == (c \div 4096) % 64
           y == (c \div 64) % 64
           z == (c \div 1) % 64
           b == FourBytes(w, x, y, z)
<1>1. /\ w \in 0 .. 7 /\ x \in 0 .. 63 /\ y \in 0 .. 63 /\ z \in 0 .. 63
      /\ c = 64 * (64 * (64 * w + x) + y) + z
  BY SMTT(20)
<1>2. b = Utf8Four(c)
  BY DEF Utf8Four
<1> HIDE DEF w, x, y, z
<1>3. Len(b) = 4 /\ b[1] = 240 + w /\ b[2] = 128 + x /\ b[3] = 128 + y /\ b[4] = 128 + z
  BY SMTT(20) DEF FourBytes
<1> HIDE DEF b
<1>4. b[1] % 8 = w /\ b[2] % 64 = x /\ b[3] % 64 = y /\ b[4] % 64 = z
  BY <1>1, <1>3, SMTT(20)
<1>5. Decoded(b) = 64 * (64 * (64 * (b[1] % 8) + (b[2] % 64)) + (b[3] % 64)) + (b[4] % 64)
  BY <1>3, SMTT(20) DEF Decoded
<1>6. Len(b) \in 1 .. 4 /\ Decoded(b) = c
  BY <1>1, <1>3, <1>4, <1>5, SMTT(20)
<1>7. c >= <<0, 128, 2048, 65536>>[Len(b)]
  BY <1>3, Least, SMTT(20)
<1>8. ASSUME NEW i \in 2 .. Len(b) PROVE b[i] \in 128 .. 191
  BY <1>1, <1>3, SMTT(20)
<1>9. IsCharacter(b, c)
  BY <1>6, <1>7, <1>8, SMTT(20) DEF IsCharacter
<1> QED BY <1>2, <1>9, SMTT(20)

\* What is written for a number is that character.
LEMMA Utf8OfCharacter ==
  ASSUME NEW c \in Nat, to_utf8(c) # NoBytes
  PROVE  IsCharacter(to_utf8(c), c)
<1>1. CASE c < 128
  <2> DEFINE b == OneByte(c)
  <2>1. Decoded(b) = c /\ Len(b) = 1
    BY DecodedOne
  <2> HIDE DEF b
  <2>2. to_utf8(c) = b
    BY <1>1, Utf8Is, SMTT(20) DEF b
  <2>3. IsCharacter(b, c)
    BY <1>1, <2>1, Least, SMTT(20) DEF IsCharacter
  <2> QED BY <2>2, <2>3, SMTT(20)
<1>2. CASE 128 <= c /\ c < 2048
  <2>1. to_utf8(c) = Utf8Two(c)
    BY <1>2, Utf8Is, SMTT(20)
  <2> QED BY <1>2, <2>1, CharacterOfTwo, SMTT(20)
<1>3. CASE 2048 <= c /\ c < 65536
  <2>1. to_utf8(c) = Utf8Three(c)
    BY <1>3, Utf8Is, SMTT(20)
  <2> QED BY <1>3, <2>1, CharacterOfThree, SMTT(20)
<1>4. CASE c >= 65536
  <2>1. to_utf8(c) = Utf8Four(c) /\ ~ TooHigh(c)
    BY <1>4, Utf8Is, SMTT(20)
  <2>2. c < 2097152
    BY <1>4, <2>1, SMTT(20) DEF TooHigh
  <2> QED BY <1>4, <2>1, <2>2, CharacterOfFour, SMTT(20)
<1> QED BY <1>1, <1>2, <1>3, <1>4, SMTT(20)

(* Keys and modifiers.                                                     *)
IsModifierKey(k, v) == Sym(k, {}).type = "shift" /\ Modifier(Sym(k, {})) = v
ModifierKeys(down, v) == {k \in down : IsModifierKey(k, v)}

LEMMA HeldIs ==
  ASSUME NEW down, NEW v
  PROVE  HeldModifiers(down, v) = Cardinality(ModifierKeys(down, v))
BY DEF HeldModifiers, ModifierKeys, IsModifierKey

LEMMA ModifierKeysFinite ==
  ASSUME NEW down \in SUBSET Keys, NEW v
  PROVE  /\ IsFiniteSet(down) /\ IsFiniteSet(ModifierKeys(down, v))
         /\ HeldModifiers(down, v) \in 0 .. Cardinality(Keys)
         /\ Cardinality(Keys) \in Nat
<1> DEFINE M == ModifierKeys(down, v)
<1>1. M \subseteq Keys
  BY DEF ModifierKeys
<1>2. IsFiniteSet(Keys)
  BY KeymapAssumption
<1>3. IsFiniteSet(M) /\ Cardinality(M) <= Cardinality(Keys)
  BY <1>1, <1>2, FS_Subset
<1>4. IsFiniteSet(down)
  BY <1>2, FS_Subset
<1>5. Cardinality(M) \in Nat /\ Cardinality(Keys) \in Nat
  BY <1>2, <1>3, FS_CardinalityType
<1> QED BY <1>3, <1>4, <1>5, HeldIs

LEMMA HeldEmpty == ASSUME NEW v PROVE HeldModifiers({}, v) = 0
<1>1. ModifierKeys({}, v) = {}
  BY DEF ModifierKeys
<1> QED BY <1>1, HeldIs, FS_EmptySet

LEMMA HeldAdded ==
  ASSUME NEW down \in SUBSET Keys, NEW k \in Keys, k \notin down, NEW v
  PROVE  HeldModifiers(down \union {k}, v)
           = IF IsModifierKey(k, v) THEN HeldModifiers(down, v) + 1 ELSE HeldModifiers(down, v)
<1> DEFINE M == ModifierKeys(down, v)
<1>1. ModifierKeys(down \union {k}, v) = IF IsModifierKey(k, v) THEN M \union {k} ELSE M
  BY DEF ModifierKeys
<1>2. k \notin M /\ IsFiniteSet(M)
  BY ModifierKeysFinite DEF ModifierKeys
<1>3. Cardinality(M \union {k}) = Cardinality(M) + 1
  BY <1>2, FS_AddElement
<1> QED BY <1>1, <1>3, HeldIs

LEMMA HeldRemoved ==
  ASSUME NEW down \in SUBSET Keys, NEW k \in down, NEW v
  PROVE  /\ HeldModifiers(down \ {k}, v)
              = IF IsModifierKey(k, v) THEN HeldModifiers(down, v) - 1 ELSE HeldModifiers(down, v)
         /\ IsModifierKey(k, v) => HeldModifiers(down, v) > 0
<1> DEFINE M == ModifierKeys(down, v)
<1>1. ModifierKeys(down \ {k}, v) = IF IsModifierKey(k, v) THEN M \ {k} ELSE M
  BY DEF ModifierKeys
<1>2. IsFiniteSet(M) /\ (IsModifierKey(k, v) => k \in M)
  BY ModifierKeysFinite DEF ModifierKeys
<1>3. IsModifierKey(k, v) => Cardinality(M \ {k}) = Cardinality(M) - 1
  BY <1>2, FS_RemoveElement
<1>4. IsModifierKey(k, v) => Cardinality(M \ {k}) \in Nat
  BY <1>2, FS_RemoveElement, FS_CardinalityType
<1>5. Cardinality(M) \in Nat
  BY <1>2, FS_CardinalityType
<1>6. IsModifierKey(k, v) => Cardinality(M) > 0
  BY <1>3, <1>4, <1>5
<1> QED BY <1>1, <1>3, <1>6, HeldIs

\* A key is the same modifier in every table of the keymap.
LEMMA ModifierOf ==
  ASSUME NEW k \in Keys, NEW S \in SUBSET Modifiers
  PROVE  /\ Sym(k, S).type = "shift" <=> Sym(k, {}).type = "shift"
         /\ Sym(k, S).type = "shift" =>
              Modifier(Sym(k, S)) \in Modifiers /\ Modifier(Sym(k, S)) = Modifier(Sym(k, {}))
<1>1. {} \in SUBSET Modifiers
  OBVIOUS
<1>2. Sym(k, S).type = "shift" =>
         /\ Sym(k, {}).type = "shift" /\ Modifier(Sym(k, S)) \in Modifiers
         /\ Modifier(Sym(k, {})) = Modifier(Sym(k, S))
  BY <1>1, KeymapAssumption
<1>3. Sym(k, {}).type = "shift" => Sym(k, S).type = "shift"
  BY <1>1, KeymapAssumption
<1> QED BY <1>2, <1>3

\* What counting a key code does to the counter of each modifier.
CountOf(n, down) == IF down THEN n + 1 ELSE IF n > 0 THEN n - 1 ELSE 0
LEMMA CountedIs ==
  ASSUME NEW counts \in [Modifiers -> Nat], NEW k \in Keys, NEW S \in SUBSET Modifiers,
         NEW down \in BOOLEAN, NEW rep \in BOOLEAN
  PROVE  LET c == Counted(counts, Sym(k, S), down, rep)
         IN  /\ c \in [Modifiers -> Nat]
             /\ \A v \in Modifiers :
                   c[v] = IF IsModifierKey(k, v) /\ ~ rep THEN CountOf(counts[v], down)
                          ELSE counts[v]
<1> DEFINE s == Sym(k, S)
           m == Modifier(s)
           c == Counted(counts, s, down, rep)
<1>1. CASE s.type # "shift" \/ rep
  <2>1. c = counts
    BY <1>1 DEF Counted
  <2>2. \A v \in Modifiers : ~ (IsModifierKey(k, v) /\ ~ rep)
    BY <1>1, ModifierOf DEF IsModifierKey
  <2> HIDE DEF c
  <2>3. \A v \in Modifiers :
           c[v] = IF IsModifierKey(k, v) /\ ~ rep THEN CountOf(counts[v], down) ELSE counts[v]
    BY <2>1, <2>2, Zenon
  <2> QED BY <2>1, <2>3, Zenon DEF c
<1>2. CASE s.type = "shift" /\ ~ rep
  <2>1. c = [counts EXCEPT ![m] = CountOf(counts[m], down)]
    BY <1>2 DEF Counted, CountOf
  <2>2. m \in Modifiers /\ \A v : IsModifierKey(k, v) <=> v = m
    BY <1>2, ModifierOf DEF IsModifierKey
  <2> HIDE DEF c, m
  <2>3. \A n \in Nat : CountOf(n, down) \in Nat
    BY DEF CountOf
  <2>4. counts[m] \in Nat
    BY <2>2
  <2>5. c \in [Modifiers -> Nat]
    BY <2>1, <2>3, <2>4
  <2>6. \A v \in Modifiers : c[v] = IF v = m THEN CountOf(counts[v], down) ELSE counts[v]
    BY <2>1
  <2>7. \A v \in Modifiers :
           c[v] = IF IsModifierKey(k, v) /\ ~ rep THEN CountOf(counts[v], down) ELSE counts[v]
    BY <1>2, <2>2, <2>6, Zenon
  <2> QED BY <2>5, <2>7, Zenon DEF c
<1> QED BY <1>1, <1>2, Zenon

(* The record of the client library.                                       *)
ImOK(lib) ==
    /\ {"key_down", "shift_down", "npadch"} \subseteq DOMAIN lib
    /\ lib.key_down \in SUBSET Keys
    /\ lib.shift_down \in [Modifiers -> Nat]
    /\ lib.npadch \in Nat \union {-1}
SameKeys(lib, old) ==
    /\ DOMAIN lib = DOMAIN old
    /\ lib.key_down = old.key_down /\ lib.shift_down = old.shift_down
SameKeysAndNumber(lib, old) == SameKeys(lib, old) /\ lib.npadch = old.npadch

LEMMA CapsChanged ==
  ASSUME NEW lib, {"key_down", "shift_down", "npadch"} \subseteq DOMAIN lib, NEW x
  PROVE  /\ SameKeysAndNumber([lib EXCEPT !.caps = x], lib)
         /\ SameKeysAndNumber([lib EXCEPT !.num = x], lib)
         /\ SameKeysAndNumber([lib EXCEPT !.applic = x], lib)
BY DEF SameKeysAndNumber, SameKeys

LEMMA NumberChanged ==
  ASSUME NEW lib, {"key_down", "shift_down", "npadch"} \subseteq DOMAIN lib, NEW x
  PROVE  /\ SameKeys([lib EXCEPT !.npadch = x], lib)
         /\ [lib EXCEPT !.npadch = x].npadch = x
BY DEF SameKeys

LEMMA LockedKeeps ==
  ASSUME NEW lib, {"key_down", "shift_down", "npadch"} \subseteq DOMAIN lib,
         NEW sym, NEW down \in BOOLEAN, NEW rep \in BOOLEAN
  PROVE  SameKeysAndNumber(Locked(lib, sym, down, rep), lib)
<1> DEFINE l == Locked(lib, sym, down, rep)
<1>1. \/ l = [lib EXCEPT !.caps = ~ @] \/ l = [lib EXCEPT !.caps = TRUE]
      \/ l = [lib EXCEPT !.num = ~ @] \/ l = [lib EXCEPT !.caps = FALSE] \/ l = lib
  BY Zenon DEF Locked
<1>2. SameKeysAndNumber(lib, lib)
  BY DEF SameKeysAndNumber, SameKeys
<1> HIDE DEF l
<1>3. SameKeysAndNumber(l, lib)
  <2>1. CASE l = [lib EXCEPT !.caps = ~ @]
    BY <2>1, CapsChanged, Zenon
  <2>2. CASE l = [lib EXCEPT !.caps = TRUE]
    BY <2>2, CapsChanged, Zenon
  <2>3. CASE l = [lib EXCEPT !.num = ~ @]
    BY <2>3, CapsChanged, Zenon
  <2>4. CASE l = [lib EXCEPT !.caps = FALSE]
    BY <2>4, CapsChanged, Zenon
  <2> QED BY <1>1, <1>2, <2>1, <2>2, <2>3, <2>4, Zenon
<1> QED BY <1>3 DEF l

LEMMA LookedUpIs ==
  ASSUME NEW lib, NEW k
  PROVE  \E S \in SUBSET Modifiers : LookedUp(lib, k) = Sym(k, S)
<1> DEFINE s == shift_state(lib.shift_down)
<1>1. s \in SUBSET Modifiers
  BY DEF shift_state
<1>2. Toggled(s, "shift") \in SUBSET Modifiers
  BY <1>1, KeymapAssumption DEF Toggled
<1>3. LookedUp(lib, k) = Sym(k, s) \/ LookedUp(lib, k) = Sym(k, Toggled(s, "shift"))
  BY Zenon DEF LookedUp
<1> HIDE DEF s
<1> QED BY <1>1, <1>2, <1>3, Zenon

KeyAndShifts(lib, keys, shifts) == [lib EXCEPT !.key_down = keys, !.shift_down = shifts]
LEMMA KeyAndShiftsIs ==
  ASSUME NEW lib, {"key_down", "shift_down", "npadch"} \subseteq DOMAIN lib, NEW keys, NEW shifts
  PROVE  LET l == KeyAndShifts(lib, keys, shifts)
         IN  /\ DOMAIN l = DOMAIN lib /\ l.key_down = keys /\ l.shift_down = shifts
             /\ l.npadch = lib.npadch
<1> DEFINE t == [lib EXCEPT !.key_down = keys]
           l == [t EXCEPT !.shift_down = shifts]
<1>1. DOMAIN t = DOMAIN lib /\ t.key_down = keys /\ t.npadch = lib.npadch
  OBVIOUS
<1>2. KeyAndShifts(lib, keys, shifts) = l
  BY DEF KeyAndShifts
<1> HIDE DEF t
<1>3. /\ DOMAIN l = DOMAIN t /\ l.key_down = t.key_down /\ l.shift_down = shifts
      /\ l.npadch = t.npadch
  BY <1>1
<1> HIDE DEF l
<1> QED BY <1>1, <1>2, <1>3, Zenon

\* What one key code does to the library's keys and modifiers.
KeysAfter(keys, k, down) == IF down THEN keys \union {k} ELSE keys \ {k}
CountAfter(n, k, v, down, rep) == IF IsModifierKey(k, v) /\ ~ rep THEN CountOf(n, down) ELSE n
LEMMA KeysymKeeps ==
  ASSUME NEW lib, ImOK(lib), NEW k \in Keys, NEW down \in BOOLEAN,
         NEW after, after = keycode_to_keysym(lib, k, down)
  PROVE  /\ ImOK(after) /\ after.npadch = lib.npadch
         /\ after.key_down = KeysAfter(lib.key_down, k, down)
         /\ \A v \in Modifiers :
               after.shift_down[v]
                  = CountAfter(lib.shift_down[v], k, v, down, down /\ k \in lib.key_down)
<1> DEFINE rep == down /\ k \in lib.key_down
           sym == LookedUp(lib, k)
           locked == Locked(lib, sym, down, rep)
           keys == IF down THEN locked.key_down \union {k} ELSE locked.key_down \ {k}
           shifts == Counted(locked.shift_down, sym, down, rep)
           l == KeyAndShifts(locked, keys, shifts)
<1>1. keycode_to_keysym(lib, k, down) = l
  BY Zenon DEF keycode_to_keysym, KeyAndShifts
<1>2. rep \in BOOLEAN
  OBVIOUS
<1>3. PICK S \in SUBSET Modifiers : sym = Sym(k, S)
  BY LookedUpIs
<1>4. /\ {"key_down", "shift_down", "npadch"} \subseteq DOMAIN lib
      /\ lib.shift_down \in [Modifiers -> Nat] /\ lib.key_down \in SUBSET Keys
      /\ lib.npadch \in Nat \union {-1}
  BY Zenon DEF ImOK
<1> HIDE DEF sym
<1>5. SameKeysAndNumber(locked, lib)
  BY <1>2, <1>4, LockedKeeps, Zenon
<1> HIDE DEF locked
<1>6. /\ DOMAIN locked = DOMAIN lib /\ locked.key_down = lib.key_down
      /\ locked.shift_down = lib.shift_down /\ locked.npadch = lib.npadch
  BY <1>5, Zenon DEF SameKeysAndNumber, SameKeys
<1>7. shifts = Counted(lib.shift_down, Sym(k, S), down, rep)
  BY <1>3, <1>6, Zenon
<1>8. keys = IF down THEN lib.key_down \union {k} ELSE lib.key_down \ {k}
  BY <1>6, Zenon
<1> HIDE DEF shifts, keys, rep
<1>9. /\ shifts \in [Modifiers -> Nat]
      /\ \A v \in Modifiers :
            shifts[v] = IF IsModifierKey(k, v) /\ ~ rep THEN CountOf(lib.shift_down[v], down)
                        ELSE lib.shift_down[v]
  BY <1>2, <1>4, <1>7, CountedIs
<1>10. keys \in SUBSET Keys
  BY <1>4, <1>8
<1>11. {"key_down", "shift_down", "npadch"} \subseteq DOMAIN locked
  BY <1>4, <1>6, Zenon
<1>12. /\ DOMAIN l = DOMAIN locked /\ l.key_down = keys /\ l.shift_down = shifts
       /\ l.npadch = locked.npadch
  BY <1>11, KeyAndShiftsIs
<1> HIDE DEF l
<1>13. ImOK(l)
  BY <1>4, <1>6, <1>9, <1>10, <1>11, <1>12, Zenon DEF ImOK
<1> QED BY <1>1, <1>6, <1>8, <1>9, <1>12, <1>13, Zenon DEF rep, KeysAfter, CountAfter

\* A text with a number is that number's character.
TextOK(t) == t.code = -1 \/ (t.code \in Nat /\ t.bytes = to_utf8(t.code))

LEMMA RedirectedIs ==
  ASSUME NEW lib, NEW sym
  PROVE  LET r == keypad_keysym_redirect(lib, sym)
         IN  r = sym \/ r.type \in {"latin", "cur"}
BY DEF keypad_keysym_redirect

LEMMA Composed == ASSUME NEW n \in Nat, NEW b \in Nat, NEW d \in Nat PROVE n * b + d \in Nat
BY Z3

ComposedDigits(lib, sym) ==
    IF lib.npadch = -1 THEN sym.digit ELSE lib.npadch * sym.base + sym.digit
LEMMA ComposedDigitsIs ==
  ASSUME NEW lib, ImOK(lib), NEW sym, sym.digit \in Nat, sym.base \in Nat
  PROVE  ComposedDigits(lib, sym) \in Nat
<1> DEFINE n == lib.npadch
           b == sym.base
           d == sym.digit
<1>1. n \in Nat \union {-1}
  BY Zenon DEF ImOK
<1>2. n \in Nat => n * b + d \in Nat
  BY Composed
<1> QED BY <1>1, <1>2, Zenon DEF ComposedDigits

TextWith(lib, keys) == [lib |-> lib, typed |-> [keys |-> keys, bytes |-> << >>, code |-> -1]]
NumberTyped(lib) ==
    [lib |-> [lib EXCEPT !.npadch = -1],
     typed |-> [keys |-> << >>, bytes |-> to_utf8(lib.npadch), code |-> lib.npadch]]
DigitTyped(lib, n) ==
    [lib |-> [lib EXCEPT !.npadch = n], typed |-> [keys |-> << >>, bytes |-> << >>, code |-> -1]]

LEMMA TextKeeps ==
  ASSUME NEW lib, ImOK(lib), NEW keysym, NEW down \in BOOLEAN,
         keysym.type = "ascii" => keysym.digit \in Nat /\ keysym.base \in Nat
  PROVE  LET r == keysym_to_term_string(lib, keysym, down)
         IN  SameKeys(r.lib, lib) /\ ImOK(r.lib) /\ TextOK(r.typed)
<1> DEFINE sym == keypad_keysym_redirect(lib, keysym)
           r == keysym_to_term_string(lib, keysym, down)
           digits == ComposedDigits(lib, sym)
<1>1. \/ sym.type = "shift" /\ lib.npadch # -1 /\ r = NumberTyped(lib)
      \/ sym.type = "ascii" /\ r = DigitTyped(lib, digits)
      \/ \E keys : r = TextWith(lib, keys)
  BY Zenon DEF keysym_to_term_string, NumberTyped, DigitTyped, TextWith, ComposedDigits
<1>2. sym = keysym \/ sym.type \in {"latin", "cur"}
  BY RedirectedIs
<1> HIDE DEF sym, r
<1>3. /\ {"key_down", "shift_down", "npadch"} \subseteq DOMAIN lib
      /\ lib.npadch \in Nat \union {-1}
  BY Zenon DEF ImOK
<1>4. ASSUME NEW l, SameKeys(l, lib), l.npadch \in Nat \union {-1} PROVE ImOK(l)
  BY <1>4, Zenon DEF ImOK, SameKeys
<1>5. ASSUME NEW x \in Nat \union {-1}
      PROVE  SameKeys([lib EXCEPT !.npadch = x], lib) /\ ImOK([lib EXCEPT !.npadch = x])
  <2>1. SameKeys([lib EXCEPT !.npadch = x], lib) /\ [lib EXCEPT !.npadch = x].npadch = x
    BY <1>3, NumberChanged, Zenon
  <2> QED BY <2>1, <1>4, Zenon
<1>6. CASE sym.type = "shift" /\ lib.npadch # -1 /\ r = NumberTyped(lib)
  <2>1. /\ r.lib = [lib EXCEPT !.npadch = -1]
        /\ r.typed.bytes = to_utf8(lib.npadch) /\ r.typed.code = lib.npadch
    BY <1>6, Zenon DEF NumberTyped
  <2>2. lib.npadch \in Nat
    BY <1>3, <1>6
  <2>3. -1 \in Nat \union {-1}
    OBVIOUS
  <2>4. TextOK(r.typed)
    BY <2>1, <2>2, Zenon DEF TextOK
  <2> QED BY <1>5, <2>1, <2>3, <2>4, Zenon DEF r
<1>7. CASE sym.type = "ascii" /\ r = DigitTyped(lib, digits)
  <2>1. r.lib = [lib EXCEPT !.npadch = digits] /\ r.typed.code = -1
    BY <1>7, Zenon DEF DigitTyped
  <2>2. sym.digit \in Nat /\ sym.base \in Nat
    BY <1>2, <1>7
  <2>3. digits \in Nat
    BY <2>2, ComposedDigitsIs, Zenon
  <2> HIDE DEF digits
  <2>4. digits \in Nat \union {-1}
    BY <2>3, Zenon
  <2>5. TextOK(r.typed)
    BY <2>1, Zenon DEF TextOK
  <2> QED BY <1>5, <2>1, <2>4, <2>5, Zenon DEF r
<1>8. CASE \E keys : r = TextWith(lib, keys)
  <2>1. PICK keys : r = TextWith(lib, keys)
    BY <1>8
  <2>2. r.lib = lib /\ r.typed.code = -1
    BY <2>1, Zenon DEF TextWith
  <2>3. SameKeys(r.lib, lib)
    BY <2>2, Zenon DEF SameKeys
  <2>4. TextOK(r.typed)
    BY <2>2, Zenon DEF TextOK
  <2> QED BY <2>2, <2>3, <2>4, Zenon DEF r
<1> QED BY <1>1, <1>6, <1>7, <1>8, Zenon

LEMMA FreshImKeeps ==
  ASSUME NEW lib, ImOK(lib)
  PROVE  /\ ImOK(FreshIm(lib)) /\ FreshIm(lib).key_down = {}
         /\ FreshIm(lib).shift_down = NoShifts
<1> DEFINE a == [lib EXCEPT !.npadch = -1]
           b == KeyAndShifts(a, {}, NoShifts)
<1>1. FreshIm(lib) = b
  BY Zenon DEF FreshIm, KeyAndShifts
<1>2. {"key_down", "shift_down", "npadch"} \subseteq DOMAIN lib
  BY Zenon DEF ImOK
<1>3. DOMAIN a = DOMAIN lib /\ a.npadch = -1
  BY <1>2
<1> HIDE DEF a
<1>4. {"key_down", "shift_down", "npadch"} \subseteq DOMAIN a
  BY <1>2, <1>3, Zenon
<1>5. /\ DOMAIN b = DOMAIN a /\ b.key_down = {} /\ b.shift_down = NoShifts
      /\ b.npadch = a.npadch
  BY <1>4, KeyAndShiftsIs
<1> HIDE DEF b
<1>6. NoShifts \in [Modifiers -> Nat]
  BY DEF NoShifts
<1>7. b.npadch \in Nat \union {-1}
  BY <1>3, <1>5
<1>8. b.key_down \in SUBSET Keys /\ b.shift_down \in [Modifiers -> Nat]
  BY <1>5, <1>6
<1>9. ImOK(b)
  BY <1>4, <1>5, <1>7, <1>8, Zenon DEF ImOK
<1> QED BY <1>1, <1>5, <1>9, Zenon

(* What holds of the keys at all times.                                    *)

\* TtyInput's keys are keys that are down, and it counts them; of a modifier it
\* may count fewer than are down, since a release of a key it has not seen
\* pressed takes one away, but never more.
TtyKeysOK ==
    /\ raw \in BOOLEAN /\ held \in SUBSET Keys /\ key_down \in SUBSET Keys
    /\ down_num = Cardinality(key_down)
    /\ raw => key_down \subseteq held
    /\ shift_down \in [Modifiers -> Nat]
    /\ \A v \in Modifiers : shift_down[v] <= HeldModifiers(key_down, v)

\* The library gets the release of keys it saw pressed only, so it is exact.
ImKeysOK ==
    /\ ImOK(im)
    /\ raw => /\ im.key_down = key_down
              /\ \A v \in Modifiers : im.shift_down[v] = HeldModifiers(key_down, v)

\* Nothing is saved but the kernel's own entries, and those FbTerm has changed
\* have been saved.
KeymapOK ==
    /\ keysBound \in BOOLEAN
    /\ keymap \in [SysKeys -> {"own", "fbterm"}] /\ old_val \in [SysKeys -> {"none", "own"}]
    /\ \A k \in SysKeys : k \notin Bound => keymap[k] = "own"
    /\ Unsaved \/ \A k \in Bound : old_val[k] = "own"
    /\ Unsaved \/ ~ keysBound => \A k \in SysKeys : keymap[k] = "own"

KeysKept == TtyKeysOK /\ ImKeysOK /\ TextOK(typed) /\ KeymapOK

LEMMA KeysStart == KeyInit => KeysKept
<1> SUFFICES ASSUME KeyInit PROVE KeysKept
  OBVIOUS
<1>1. TtyKeysOK
  <2>1. NoShifts \in [Modifiers -> Nat] /\ \A v \in Modifiers : NoShifts[v] = 0
    BY DEF NoShifts
  <2>2. \A v \in Modifiers : HeldModifiers(key_down, v) = 0
    BY HeldEmpty DEF KeyInit
  <2>3. Cardinality({}) = 0
    BY FS_EmptySet
  <2>4. /\ raw = FALSE /\ held = {} /\ key_down = {} /\ down_num = 0
        /\ shift_down = NoShifts
    BY Zenon DEF KeyInit
  <2>5. \A v \in Modifiers : shift_down[v] <= HeldModifiers(key_down, v)
    BY <2>1, <2>2, <2>4
  <2>6. raw \in BOOLEAN /\ held \in SUBSET Keys /\ key_down \in SUBSET Keys
    BY <2>4
  <2> QED BY <2>1, <2>3, <2>4, <2>5, <2>6, Zenon DEF TtyKeysOK
<1>2. ImKeysOK
  <2>1. NoShifts \in [Modifiers -> Nat]
    BY DEF NoShifts
  <2>2. ImOK(im)
    BY <2>1 DEF KeyInit, ImOK
  <2> QED BY <2>2 DEF KeyInit, ImKeysOK
<1>3. TextOK(typed)
  BY DEF KeyInit, TextOK
<1>4. KeymapOK
  BY DEF KeyInit, KeymapOK, Unsaved, Bound
<1> QED BY <1>1, <1>2, <1>3, <1>4 DEF KeysKept

LEMMA RawStarts == ASSUME KeysKept, StartRaw PROVE KeysKept'
<1>1. NoShifts \in [Modifiers -> Nat] /\ \A v \in Modifiers : NoShifts[v] = 0
  BY DEF NoShifts
<1>2. key_down' = {} /\ shift_down' = NoShifts /\ down_num' = 0 /\ held' = held /\ raw' = TRUE
  BY DEF StartRaw
<1>3. Cardinality({}) = 0
  BY FS_EmptySet
<1>4. \A v : HeldModifiers(key_down', v) = 0
  BY <1>2, HeldEmpty, Zenon
<1>5. held \in SUBSET Keys
  BY Zenon DEF KeysKept, TtyKeysOK
<1>6. TtyKeysOK'
  BY <1>1, <1>2, <1>3, <1>4, <1>5 DEF TtyKeysOK
<1>7. ImOK(im') /\ im'.key_down = {} /\ im'.shift_down = NoShifts
  BY FreshImKeeps, Zenon DEF StartRaw, KeysKept, ImKeysOK
<1>8. ImKeysOK'
  BY <1>1, <1>2, <1>4, <1>7, Zenon DEF ImKeysOK
<1>9. TextOK(typed)' /\ KeymapOK'
  BY Zenon DEF StartRaw, KeysKept, TextOK, KeymapOK, Unsaved, consoleVars
<1> QED BY <1>6, <1>8, <1>9, Zenon DEF KeysKept

LEMMA RawEnds == ASSUME KeysKept, EndRaw PROVE KeysKept'
<1>1. raw' = FALSE
  BY DEF EndRaw
<1>2. /\ held' = held /\ key_down' = key_down /\ down_num' = down_num
      /\ shift_down' = shift_down /\ im' = im /\ typed' = typed
      /\ keymap' = keymap /\ old_val' = old_val /\ keysBound' = keysBound
  BY DEF EndRaw, consoleVars
<1>3. TtyKeysOK'
  BY <1>1, <1>2 DEF KeysKept, TtyKeysOK
<1>4. ImKeysOK'
  BY <1>1, <1>2 DEF KeysKept, ImKeysOK
<1>5. TextOK(typed)' /\ KeymapOK'
  BY <1>2, Zenon DEF KeysKept, TextOK, KeymapOK, Unsaved
<1> QED BY <1>3, <1>4, <1>5, Zenon DEF KeysKept

LEMMA ModeUpdated == ASSUME KeysKept, update_term_mode PROVE KeysKept'
<1>1. /\ held' = held /\ key_down' = key_down /\ down_num' = down_num /\ raw' = raw
      /\ shift_down' = shift_down /\ typed' = typed
      /\ keymap' = keymap /\ old_val' = old_val /\ keysBound' = keysBound
  BY DEF update_term_mode, consoleVars
<1>2. PICK x : im' = [im EXCEPT !.applic = x]
  BY Zenon DEF update_term_mode
<1>3. ImOK(im)
  BY Zenon DEF KeysKept, ImKeysOK
<1>4. SameKeysAndNumber(im', im)
  BY <1>2, <1>3, CapsChanged, Zenon DEF ImOK
<1>5. ImKeysOK'
  BY <1>1, <1>3, <1>4, Zenon DEF KeysKept, ImKeysOK, ImOK, SameKeysAndNumber, SameKeys
<1>6. TtyKeysOK'
  BY <1>1, Zenon DEF KeysKept, TtyKeysOK
<1>7. TextOK(typed)' /\ KeymapOK'
  BY <1>1, Zenon DEF KeysKept, TextOK, KeymapOK, Unsaved
<1> QED BY <1>5, <1>6, <1>7, Zenon DEF KeysKept

LEMMA KeymapChanges == ASSUME KeysKept, NEW restore \in BOOLEAN, setupSysKey(restore) PROVE KeysKept'
<1>1. /\ held' = held /\ key_down' = key_down /\ down_num' = down_num /\ raw' = raw
      /\ shift_down' = shift_down /\ im' = im /\ typed' = typed
  BY DEF setupSysKey
<1>2. TtyKeysOK' /\ ImKeysOK' /\ TextOK(typed)'
  BY <1>1, Zenon DEF KeysKept, TtyKeysOK, ImKeysOK, TextOK
<1>3. KeymapOK
  BY DEF KeysKept
<1>4. keysBound' = ~ restore /\ Bound \subseteq SysKeys
  BY DEF setupSysKey, Bound
<1>0. keysBound' \in BOOLEAN /\ Bound' = Bound
  BY <1>4 DEF Bound
<1>5. ASSUME Unsaved /\ restore PROVE KeymapOK'
  <2>1. keymap' = keymap /\ old_val' = old_val
    BY <1>5 DEF setupSysKey
  <2>2. Unsaved'
    BY <1>5, <2>1, Zenon DEF Unsaved
  <2> QED BY <1>0, <1>3, <1>5, <2>1, <2>2 DEF KeymapOK
<1>6. ASSUME Unsaved /\ ~ restore PROVE KeymapOK'
  <2>1. old_val' = [k \in SysKeys |-> IF k \in Bound THEN "own" ELSE "none"]
    BY <1>3, <1>6 DEF setupSysKey, KeymapOK, Saved
  <2>2. keymap' = [k \in SysKeys |-> IF k \in Bound THEN "fbterm" ELSE "own"]
    BY <1>3, <1>6 DEF setupSysKey, KeymapOK
  <2>3. Unsaved' => Bound = {}
    BY <1>4, <2>1 DEF Unsaved
  <2>4. keymap' \in [SysKeys -> {"own", "fbterm"}] /\ old_val' \in [SysKeys -> {"none", "own"}]
    BY <2>1, <2>2
  <2>5. \A k \in SysKeys : k \notin Bound => keymap'[k] = "own"
    BY <2>2
  <2>6. \A k \in Bound : old_val'[k] = "own"
    BY <1>4, <2>1
  <2>7. Unsaved' => \A k \in SysKeys : keymap'[k] = "own"
    BY <2>3, <2>5
  <2>8. keysBound'
    BY <1>4, <1>6
  <2> QED BY <1>0, <2>4, <2>5, <2>6, <2>7, <2>8 DEF KeymapOK
<1>7. ASSUME ~ Unsaved PROVE KeymapOK'
  <2>1. old_val' = old_val
    BY <1>7 DEF setupSysKey, Saved
  <2>2. keymap' = [k \in SysKeys |-> IF k \notin Bound \/ restore THEN "own" ELSE "fbterm"]
    BY <1>3, <1>4, <1>7 DEF setupSysKey, KeymapOK
  <2>3. ~ Unsaved'
    BY <1>7, <2>1 DEF Unsaved
  <2>4. keymap' \in [SysKeys -> {"own", "fbterm"}]
    BY <2>2
  <2>5. \A k \in SysKeys : k \notin Bound => keymap'[k] = "own"
    BY <2>2
  <2>6. restore => \A k \in SysKeys : keymap'[k] = "own"
    BY <2>2
  <2>7. /\ old_val' \in [SysKeys -> {"none", "own"}]
        /\ \A k \in Bound : old_val'[k] = "own"
    BY <1>3, <1>7, <2>1, Zenon DEF KeymapOK
  <2> QED BY <1>0, <1>4, <2>3, <2>4, <2>5, <2>6, <2>7 DEF KeymapOK
<1> QED BY <1>2, <1>5, <1>6, <1>7, Zenon DEF KeysKept

\* One code of a key passes through TtyInput.
LEMMA TtyKeyReport ==
  ASSUME KeysKept, raw, NEW k \in Keys, NEW down \in BOOLEAN, down \/ k \in held,
         KeyMoves(k, down)
  PROVE  TtyKeysOK'
<1> DEFINE known == k \in key_down
           rep == down /\ known
           S == shift_state(shift_down)
           h(v) == HeldModifiers(key_down, v)
<1>1. /\ raw' = raw /\ held' = IF down THEN held \union {k} ELSE held \ {k}
      /\ key_down' = IF down THEN key_down \union {k} ELSE key_down \ {k}
      /\ down_num' = IF down = known THEN down_num ELSE IF down THEN down_num + 1 ELSE down_num - 1
      /\ shift_down' = Counted(shift_down, Sym(k, S), down, rep)
  BY Zenon DEF KeyMoves, KeyReport
<1>2. /\ held \in SUBSET Keys /\ key_down \in SUBSET Keys /\ down_num = Cardinality(key_down)
      /\ key_down \subseteq held /\ shift_down \in [Modifiers -> Nat] /\ raw \in BOOLEAN
      /\ \A v \in Modifiers : shift_down[v] <= h(v)
  BY Zenon DEF KeysKept, TtyKeysOK
<1>3. S \in SUBSET Modifiers /\ rep \in BOOLEAN /\ known \in BOOLEAN
  BY DEF shift_state
<1> HIDE DEF S, rep
<1>4. /\ shift_down' \in [Modifiers -> Nat]
      /\ \A v \in Modifiers :
            shift_down'[v] = IF IsModifierKey(k, v) /\ ~ rep THEN CountOf(shift_down[v], down)
                             ELSE shift_down[v]
  BY <1>1, <1>2, <1>3, CountedIs
<1>5. held' \in SUBSET Keys /\ key_down' \in SUBSET Keys /\ key_down' \subseteq held'
  BY <1>1, <1>2
<1>6. down_num' = Cardinality(key_down')
  <2>1. IsFiniteSet(key_down)
    BY <1>2, ModifierKeysFinite, Zenon
  <2>2. CASE down
    BY <1>1, <1>2, <2>1, <2>2, FS_AddElement
  <2>3. CASE ~ down /\ known
    BY <1>1, <1>2, <2>1, <2>3, FS_RemoveElement
  <2>4. CASE ~ down /\ ~ known
    <3>1. key_down' = key_down /\ down_num' = down_num
      BY <1>1, <2>4
    <3> QED BY <1>2, <3>1
  <2> QED BY <2>2, <2>3, <2>4
<1>7. ASSUME NEW v \in Modifiers PROVE shift_down'[v] <= HeldModifiers(key_down', v)
  <2>1. h(v) \in Nat /\ shift_down[v] \in Nat /\ shift_down[v] <= h(v)
    BY <1>2, ModifierKeysFinite
  <2>2. shift_down'[v] = IF IsModifierKey(k, v) /\ ~ rep THEN CountOf(shift_down[v], down)
                         ELSE shift_down[v]
    BY <1>4
  <2>3. CASE down /\ ~ known
    <3>1. HeldModifiers(key_down \union {k}, v) = IF IsModifierKey(k, v) THEN h(v) + 1 ELSE h(v)
      BY <1>2, <2>3, HeldAdded
    <3>2. key_down' = key_down \union {k}
      BY <1>1, <2>3
    <3>3. shift_down'[v] = IF IsModifierKey(k, v) THEN shift_down[v] + 1 ELSE shift_down[v]
      BY <2>2, <2>3 DEF rep, CountOf
    <3> HIDE DEF h
    <3> QED BY <2>1, <3>1, <3>2, <3>3
  <2>4. CASE down /\ known
    <3>1. key_down' = key_down
      BY <1>1, <2>4
    <3> QED BY <2>1, <2>2, <2>4, <3>1 DEF rep
  <2>5. CASE ~ down /\ known
    <3>1. /\ HeldModifiers(key_down \ {k}, v) = IF IsModifierKey(k, v) THEN h(v) - 1 ELSE h(v)
          /\ IsModifierKey(k, v) => h(v) > 0
      BY <1>2, <2>5, HeldRemoved
    <3> HIDE DEF h
    <3>2. CASE IsModifierKey(k, v)
      <4>1. shift_down'[v] = CountOf(shift_down[v], down)
        BY <2>2, <2>5, <3>2 DEF rep
      <4>2. CountOf(shift_down[v], down) <= h(v) - 1
        BY <2>1, <2>5, <3>1, <3>2 DEF CountOf
      <4> QED BY <1>1, <2>5, <3>1, <3>2, <4>1, <4>2
    <3>3. CASE ~ IsModifierKey(k, v)
      BY <1>1, <2>1, <2>2, <2>5, <3>1, <3>3
    <3> QED BY <3>2, <3>3
  <2>6. CASE ~ down /\ ~ known
    <3>1. key_down' = key_down
      BY <1>1, <2>6
    <3>2. CountOf(shift_down[v], down) <= shift_down[v]
      BY <2>1, <2>6 DEF CountOf
    <3>3. HeldModifiers(key_down', v) = h(v)
      BY <3>1
    <3> HIDE DEF h
    <3>4. shift_down'[v] <= shift_down[v]
      BY <2>1, <2>2, <3>2
    <3>5. shift_down'[v] \in Nat
      BY <1>4
    <3> QED BY <2>1, <3>3, <3>4, <3>5
  <2> QED BY <2>3, <2>4, <2>5, <2>6
<1> QED BY <1>1, <1>2, <1>4, <1>5, <1>6, <1>7, Zenon DEF TtyKeysOK

\* The same code passes through the library, if it is passed on.
LEMMA ImKeyReport ==
  ASSUME KeysKept, raw, NEW k \in Keys, NEW down \in BOOLEAN, KeyMoves(k, down)
  PROVE  ImKeysOK' /\ TextOK(typed)'
<1> DEFINE known == k \in key_down
           after == keycode_to_keysym(im, k, down)
           sym == LookedUp(im, k)
           reply == keysym_to_term_string(after, sym, down)
           h(v) == HeldModifiers(key_down, v)
<1>1. /\ key_down' = IF down THEN key_down \union {k} ELSE key_down \ {k}
      /\ IF down \/ known THEN im' = reply.lib /\ typed' = reply.typed ELSE im' = im /\ typed' = typed
  BY Zenon DEF KeyMoves, KeyReport, PassedOn
<1>2. /\ ImOK(im) /\ im.key_down = key_down /\ \A v \in Modifiers : im.shift_down[v] = h(v)
      /\ key_down \in SUBSET Keys /\ TextOK(typed)
  BY Zenon DEF KeysKept, ImKeysOK, TtyKeysOK
<1>3. CASE ~ down /\ ~ known
  <2>1. key_down' = key_down /\ im' = im /\ typed' = typed
    BY <1>1, <1>3
  <2> QED BY <1>2, <2>1, Zenon DEF ImKeysOK
<1>4. CASE down \/ known
  <2>1. /\ ImOK(after)
        /\ after.key_down = KeysAfter(im.key_down, k, down)
        /\ \A v \in Modifiers :
              after.shift_down[v] = CountAfter(im.shift_down[v], k, v, down, down /\ k \in im.key_down)
    <3>1. after = keycode_to_keysym(im, k, down) /\ down \in BOOLEAN /\ k \in Keys /\ ImOK(im)
      BY <1>2
    <3> HIDE DEF after
    <3> QED BY ONLY <3>1, KeysymKeeps, SMT
  <2>2. PICK S \in SUBSET Modifiers : sym = Sym(k, S)
    BY LookedUpIs
  <2>3. sym.type = "ascii" => sym.digit \in Nat /\ sym.base \in Nat
    BY <2>2, KeymapAssumption, Zenon
  <2> HIDE DEF after, sym
  <2>4. SameKeys(reply.lib, after) /\ ImOK(reply.lib) /\ TextOK(reply.typed)
    BY <2>1, <2>3, TextKeeps, Zenon
  <2> HIDE DEF reply
  <2>5. im' = reply.lib /\ typed' = reply.typed
    BY <1>1, <1>4
  <2>6. im'.key_down = key_down'
    BY <1>1, <1>2, <2>1, <2>4, <2>5, Zenon DEF SameKeys, KeysAfter
  <2>7. ASSUME NEW v \in Modifiers PROVE im'.shift_down[v] = HeldModifiers(key_down', v)
    <3>1. im'.shift_down[v] = after.shift_down[v]
      BY <2>4, <2>5, Zenon DEF SameKeys
    <3>2. after.shift_down[v] = IF IsModifierKey(k, v) /\ ~ (down /\ known)
                                THEN CountOf(h(v), down) ELSE h(v)
      BY <1>2, <2>1, Zenon DEF CountAfter
    <3>3. h(v) \in Nat
      BY <1>2, ModifierKeysFinite
    <3>4. CASE down /\ ~ known
      <4>1. HeldModifiers(key_down \union {k}, v) = IF IsModifierKey(k, v) THEN h(v) + 1 ELSE h(v)
        BY <1>2, <3>4, HeldAdded
      <4> QED BY <1>1, <3>1, <3>2, <3>3, <3>4, <4>1 DEF CountOf
    <3>5. CASE down /\ known
      <4>1. key_down' = key_down
        BY <1>1, <3>5
      <4> QED BY <3>1, <3>2, <3>5, <4>1
    <3>6. CASE ~ down /\ known
      <4>1. /\ HeldModifiers(key_down \ {k}, v) = IF IsModifierKey(k, v) THEN h(v) - 1 ELSE h(v)
            /\ IsModifierKey(k, v) => h(v) > 0
        BY <1>2, <3>6, HeldRemoved
      <4>2. key_down' = key_down \ {k}
        BY <1>1, <3>6
      <4> HIDE DEF h
      <4>3. IsModifierKey(k, v) => CountOf(h(v), down) = h(v) - 1
        BY <3>3, <3>6, <4>1 DEF CountOf
      <4> QED BY <3>1, <3>2, <3>6, <4>1, <4>2, <4>3
    <3> QED BY <1>4, <3>4, <3>5, <3>6
  <2> QED BY <2>4, <2>5, <2>6, <2>7, Zenon DEF ImKeysOK
<1> QED BY <1>3, <1>4

LEMMA KeyMoved ==
  ASSUME KeysKept, NEW k \in Keys, NEW down \in BOOLEAN, KeyMoves(k, down)
  PROVE  KeysKept'
<1>1. KeymapOK'
  BY Zenon DEF KeyMoves, consoleVars, KeysKept, KeymapOK, Unsaved
<1>2. CASE raw
  <2>1. down \/ k \in held
    BY DEF KeyMoves
  <2>2. TtyKeysOK'
    BY <1>2, <2>1, TtyKeyReport, Zenon
  <2>3. ImKeysOK' /\ TextOK(typed)'
    BY <1>2, ImKeyReport, Zenon
  <2> QED BY <1>1, <2>2, <2>3, Zenon DEF KeysKept
<1>3. CASE ~ raw
  <2>1. /\ raw' = raw /\ key_down' = key_down /\ down_num' = down_num /\ shift_down' = shift_down
        /\ im' = im /\ typed' = typed /\ held' = IF down THEN held \union {k} ELSE held \ {k}
    BY <1>3, Zenon DEF KeyMoves
  <2>2. TtyKeysOK
    BY Zenon DEF KeysKept
  <2>3. held' \in SUBSET Keys
    BY <2>1, <2>2 DEF TtyKeysOK
  <2>4. TtyKeysOK'
    BY <1>3, <2>1, <2>2, <2>3, Zenon DEF TtyKeysOK
  <2>5. ImKeysOK' /\ TextOK(typed)'
    BY <1>3, <2>1, Zenon DEF KeysKept, ImKeysOK, TextOK
  <2> QED BY <1>1, <2>4, <2>5, Zenon DEF KeysKept
<1> QED BY <1>2, <1>3

LEMMA KeysStep == ASSUME KeysKept, KeyNext PROVE KeysKept'
<1>1. CASE StartRaw
  BY <1>1, RawStarts
<1>2. CASE EndRaw
  BY <1>2, RawEnds
<1>3. CASE update_term_mode
  BY <1>3, ModeUpdated
<1>4. CASE \E k \in Keys, down \in BOOLEAN : KeyMoves(k, down)
  BY <1>4, KeyMoved
<1>5. CASE \E restore \in BOOLEAN : setupSysKey(restore)
  BY <1>5, KeymapChanges
<1> QED BY <1>1, <1>2, <1>3, <1>4, <1>5 DEF KeyNext

LEMMA KeysStay == ASSUME KeysKept, UNCHANGED keyVars PROVE KeysKept'
<1>1. /\ held' = held /\ raw' = raw /\ key_down' = key_down /\ down_num' = down_num
      /\ shift_down' = shift_down /\ im' = im /\ typed' = typed
      /\ keymap' = keymap /\ old_val' = old_val /\ keysBound' = keysBound
  BY DEF keyVars
<1> QED BY <1>1, Zenon DEF KeysKept, TtyKeysOK, ImKeysOK, TextOK, KeymapOK, Unsaved

LEMMA KeysSeen ==
  ASSUME KeysKept
  PROVE  /\ KeysTypeOK /\ NoStuckModifier /\ ImSeesTheKeys
         /\ ComposedIsCharacter /\ KeymapGivenBack
<1>1. TtyKeysOK /\ ImKeysOK /\ TextOK(typed) /\ KeymapOK
  BY Zenon DEF KeysKept
<1>2. KeysTypeOK
  <2>1. ASSUME NEW v \in Modifiers PROVE shift_down[v] \in 0 .. Cardinality(Keys)
    <3>1. shift_down[v] \in Nat /\ shift_down[v] <= HeldModifiers(key_down, v)
      BY <1>1 DEF TtyKeysOK
    <3>2. /\ HeldModifiers(key_down, v) \in 0 .. Cardinality(Keys) /\ Cardinality(Keys) \in Nat
      BY <1>1, ModifierKeysFinite, Zenon DEF TtyKeysOK
    <3> QED BY <3>1, <3>2
  <2>2. shift_down \in [Modifiers -> 0 .. Cardinality(Keys)]
    BY <1>1, <2>1 DEF TtyKeysOK
  <2> QED BY <1>1, <2>2, Zenon DEF KeysTypeOK, TtyKeysOK
<1>3. NoStuckModifier
  BY <1>1, Zenon DEF NoStuckModifier, TtyKeysOK
<1>4. ImSeesTheKeys
  BY <1>1, Zenon DEF ImSeesTheKeys, ImKeysOK
<1>5. ComposedIsCharacter
  <2> SUFFICES ASSUME typed.code # -1, typed.bytes # << >>
               PROVE  /\ Decoded(typed.bytes) = typed.code
                      /\ typed.code >= <<0, 128, 2048, 65536>>[Len(typed.bytes)]
                      /\ \A i \in 2 .. Len(typed.bytes) : typed.bytes[i] \in 128 .. 191
    BY DEF ComposedIsCharacter
  <2> DEFINE c == typed.code
  <2>1. c \in Nat /\ typed.bytes = to_utf8(c)
    BY <1>1, SMTT(20) DEF TextOK
  <2> HIDE DEF c
  <2>2. to_utf8(c) # NoBytes
    BY <2>1, SMTT(20) DEF NoBytes
  <2>3. IsCharacter(to_utf8(c), c)
    BY <2>1, <2>2, Utf8OfCharacter, SMTT(20)
  <2> QED BY <2>1, <2>3, SMTT(20) DEF IsCharacter, c
<1>6. KeymapGivenBack
  BY <1>1 DEF KeymapGivenBack, KeymapOK
<1> QED BY <1>2, <1>3, <1>4, <1>5, <1>6

-----------------------------------------------------------------------------
(* Panning (ScreenPan): numbers, devices, lines of the screen, and the window.*)

\* Division by a row's height.
LEMMA Divided ==
  ASSUME NEW F \in Nat \ {0}, NEW p \in Int
  PROVE  /\ p \div F \in Int /\ p % F \in 0 .. F - 1
         /\ F * (p \div F) \in Int /\ p = F * (p \div F) + (p % F)
BY Z3

LEMMA ProductsApart ==
  ASSUME NEW F \in Nat \ {0}, NEW a \in Int, NEW b \in Int
  PROVE  /\ F * a \in Int /\ F * b \in Int
         /\ F * (a + b) = F * a + F * b /\ F * (a - b) = F * a - F * b
         /\ F * (a + 1) = F * a + F
         /\ F * a < F * b + F => a <= b
         /\ a <= b => F * a <= F * b
BY Z3

LEMMA OneQuotient ==
  ASSUME NEW F \in Nat \ {0}, NEW a \in Int, NEW b \in Int,
         NEW r \in 0 .. F - 1, NEW t \in 0 .. F - 1, F * a + r = F * b + t
  PROVE  a = b /\ r = t
<1>1. F * a < F * b + F /\ F * b < F * a + F
  BY ProductsApart
<1>2. a <= b /\ b <= a
  BY <1>1, ProductsApart
<1> QED BY <1>2, ProductsApart

LEMMA DividedShifted ==
  ASSUME NEW F \in Nat \ {0}, NEW p \in Int, NEW n \in Int
  PROVE  (p + F * n) \div F = (p \div F) + n /\ (p + F * n) % F = p % F
<1> DEFINE q == p \div F
           r == p % F
           m == p + F * n
           x == m \div F
           y == m % F
<1>1. q \in Int /\ r \in 0 .. F - 1 /\ p = F * q + r /\ F * q \in Int
  BY Divided
<1>2. m \in Int
  BY ProductsApart
<1> HIDE DEF m
<1>3. x \in Int /\ y \in 0 .. F - 1 /\ m = F * x + y /\ F * x \in Int
  BY <1>2, Divided
<1> HIDE DEF q, r, x, y
<1>4. F * (q + n) = F * q + F * n /\ F * n \in Int
  BY <1>1, ProductsApart
<1>5. m = F * (q + n) + r
  BY <1>1, <1>4 DEF m
<1>6. q + n \in Int
  BY <1>1
<1>7. F * (q + n) + r = F * x + y
  BY <1>3, <1>5
<1>8. q + n = x /\ r = y
  BY <1>1, <1>3, <1>6, <1>7, OneQuotient
<1> QED BY <1>8 DEF q, r, x, y, m

LEMMA MultipleOf ==
  ASSUME NEW s \in Nat \ {0}, NEW a \in Int
  PROVE  a % s = 0 <=> \E x \in Int : a = s * x
<1>1. ASSUME NEW x \in Int PROVE (s * x) % s = 0
  BY Z3
<1>2. a % s = 0 => a = s * (a \div s) /\ a \div s \in Int
  BY Divided
<1> QED BY <1>1, <1>2

LEMMA MultiplesMove ==
  ASSUME NEW s \in Nat \ {0}, NEW a \in Int, NEW b \in Int, NEW n \in Int,
         a % s = 0, b % s = 0
  PROVE  /\ (a + b * n) % s = 0 /\ (a - b * n) % s = 0
         /\ (a + b) % s = 0 /\ (a - b) % s = 0 /\ 0 % s = 0 /\ b * n \in Int
<1>1. PICK x \in Int : a = s * x
  BY MultipleOf
<1>2. PICK y \in Int : b = s * y
  BY MultipleOf
<1>3. a + b * n = s * (x + y * n) /\ a - b * n = s * (x - y * n) /\ b * n \in Int
  BY <1>1, <1>2, Z3
<1>4. a + b = s * (x + y) /\ a - b = s * (x - y) /\ 0 = s * 0
  BY <1>1, <1>2, Z3
<1>5. x + y * n \in Int /\ x - y * n \in Int /\ x + y \in Int /\ x - y \in Int /\ 0 \in Int
  BY Z3
<1>6. a + b * n \in Int /\ a - b * n \in Int /\ a + b \in Int /\ a - b \in Int
  BY <1>3
<1>7. (a + b * n) % s = 0 /\ (a - b * n) % s = 0
  BY <1>3, <1>5, <1>6, MultipleOf
<1>8. (a + b) % s = 0 /\ (a - b) % s = 0 /\ 0 % s = 0
  BY <1>4, <1>5, <1>6, MultipleOf
<1> QED BY <1>3, <1>7, <1>8

LEMMA MultipleLess ==
  ASSUME NEW s \in Nat \ {0}, NEW a \in Int, NEW b \in Int, NEW n \in Int,
         a % s = 0, b % s = 0
  PROVE  (a - b * n) % s = 0
<1>1. PICK x \in Int : a = s * x
  BY MultipleOf
<1>2. PICK y \in Int : b = s * y
  BY MultipleOf
<1>3. a - b * n = s * (x - y * n) /\ x - y * n \in Int /\ a - b * n \in Int
  BY <1>1, <1>2, Z3
<1> QED BY <1>3, MultipleOf

\* What panning relies on of a device: the start line may be anywhere from 0 to
\* max, in steps, and the memory holds the screen from there.
IsDevice(d) ==
  /\ d.scroll.max \in Nat /\ d.scroll.step \in Nat \ {0}
  /\ d.scroll.memory \in Nat /\ d.scroll.memory >= mHeight
  /\ IF d.scroll.type = "YWrap" THEN d.scroll.memory = d.scroll.max + 1
     ELSE d.scroll.memory = d.scroll.max + mHeight
  /\ d.scroll.type # "Redraw" =>
        /\ FontHeight % d.scroll.step = 0
        /\ Multiple(IF d.scroll.type = "YWrap" THEN d.scroll.max + 1 ELSE d.scroll.max,
                    d.scroll.step)

ScrollOK(d) ==
  /\ d.max \in Nat /\ d.step \in Nat \ {0} /\ d.memory \in Nat /\ d.memory >= mHeight
  /\ IF d.type = "YWrap" THEN d.memory = d.max + 1 ELSE d.memory = d.max + mHeight
  /\ d.type # "Redraw" => FontHeight % d.step = 0

LEMMA RowIsFontHeight ==
  FH(1) = FontHeight /\ FontHeight \in Nat \ {0} /\ mHeight \in Nat \ {0}
BY ScreenAssumption DEF FH

LEMMA RedrawOK == ScrollOK(Redraw)
BY ScreenAssumption DEF ScrollOK, Redraw

LEMMA FbScrollOK ==
  ASSUME NEW rotate, NEW v \in Virtual, NEW sp \in Steps, NEW sw \in Steps, NEW ok \in BOOLEAN
  PROVE  ScrollOK(FbScroll(rotate, v, sp, sw, ok))
<1> DEFINE ypan == v > mHeight /\ sp # 0 /\ Multiple(FH(1), sp)
           ywrap == sw # 0 /\ Multiple(FH(1), sw)
           wrap == [type |-> "YWrap", max |-> v - 1, step |-> sw, memory |-> v]
           pan == [type |-> "YPan", max |-> v - mHeight, step |-> sp, memory |-> v]
           d == FbScroll(rotate, v, sp, sw, ok)
<1>1. d = Redraw \/ (ywrap /\ d = wrap) \/ (ypan /\ d = pan)
  BY DEF FbScroll
<1>2. v \in Nat /\ v >= mHeight /\ sp \in Nat /\ sw \in Nat
  BY ScreenAssumption
<1>3. ASSUME ywrap PROVE ScrollOK(wrap)
  <2>1. v - 1 \in Nat
    BY <1>2, ScreenAssumption
  <2> QED BY <1>2, <1>3, <2>1, RowIsFontHeight DEF ScrollOK, Multiple
<1>4. ASSUME ypan PROVE ScrollOK(pan)
  BY <1>2, <1>4, RowIsFontHeight DEF ScrollOK, Multiple
<1> QED BY <1>1, <1>3, <1>4, RedrawOK

LEMMA VesaScrollOK ==
  ASSUME NEW rotate, NEW v \in Virtual, NEW ok \in BOOLEAN
  PROVE  ScrollOK(VesaScroll(rotate, v, ok))
<1> DEFINE kind == IF rotate \in {0, 180} THEN "YPan" ELSE "XPan"
           pan == [type |-> kind, max |-> v - mHeight, step |-> 1, memory |-> v]
           d == VesaScroll(rotate, v, ok)
<1>1. d = Redraw \/ (v > mHeight /\ d = pan)
  BY ScreenAssumption DEF VesaScroll
<1>2. FontHeight % 1 = 0
  BY RowIsFontHeight
<1>3. v > mHeight => ScrollOK(pan)
  BY <1>2, RowIsFontHeight, ScreenAssumption DEF ScrollOK
<1> QED BY <1>1, <1>3, RedrawOK

LEMMA DevicesOK == ASSUME NEW dev \in Devices PROVE IsDevice(dev)
<1>1. dev.scroll \in Scrolls /\ Aligned(dev.scroll)
  BY DEF Devices
<1>2. PICK r \in Turns, v \in Virtual, sp \in Steps, sw \in Steps, ok \in BOOLEAN :
        dev.scroll = FbScroll(r, v, sp, sw, ok) \/ dev.scroll = VesaScroll(r, v, ok)
  BY <1>1 DEF Scrolls
<1>3. ScrollOK(dev.scroll)
  BY <1>2, FbScrollOK, VesaScrollOK
<1> QED BY <1>1, <1>3 DEF IsDevice, ScrollOK, Aligned

-----------------------------------------------------------------------------
\* A screen: its start line is one the device takes, and every line of the
\* memory has text and a margin.
ALine(text, margin) == [text |-> text, margin |-> margin]
IsScreen(s) ==
  /\ {"dev", "mOffsetCur", "lines"} \subseteq DOMAIN s
  /\ IsDevice(s.dev)
  /\ s.mOffsetCur \in 0 .. s.dev.scroll.max
  /\ DOMAIN s.lines = 0 .. s.dev.scroll.memory - 1
  /\ \A l \in DOMAIN s.lines :
        s.lines[l] = ALine(s.lines[l].text, s.lines[l].margin)

\* Every line of the screen has its own place in the memory.
LEMMA PlaceIs ==
  ASSUME NEW s, IsScreen(s), NEW p \in PixelLines, NEW o \in PixelLines
  PROVE  /\ Place(s, p) \in DOMAIN s.lines
         /\ Place(s, p) = Place(s, o) => p = o
<1> DEFINE d == s.dev.scroll
           max == d.max
           off == s.mOffsetCur
           q(x) == (IF Flipped(s) THEN mHeight - 1 - x ELSE x) + off
           memory == d.memory
<1>1. /\ max \in Nat /\ memory \in Nat /\ memory >= mHeight /\ off \in 0 .. max
      /\ IF d.type = "YWrap" THEN memory = max + 1 ELSE memory = max + mHeight
      /\ DOMAIN s.lines = 0 .. memory - 1
  BY DEF IsScreen, IsDevice
<1>2. /\ \A x : Place(s, x) = IF d.type = "YWrap" /\ q(x) > max THEN q(x) - (max + 1) ELSE q(x)
  BY DEF Place
<1>3. p \in 0 .. mHeight - 1 /\ o \in 0 .. mHeight - 1 /\ mHeight \in Nat
  BY RowIsFontHeight DEF PixelLines
<1> HIDE DEF d, max, off, memory
<1>4. q(p) \in Int /\ q(o) \in Int /\ (q(p) = q(o) => p = o)
      /\ q(p) - q(o) < mHeight /\ q(o) - q(p) < mHeight
      /\ q(p) \in off .. off + mHeight - 1 /\ q(o) \in off .. off + mHeight - 1
  <2>1. off \in Int
    BY <1>1
  <2>2. CASE Flipped(s)
    <3>1. q(p) = mHeight - 1 - p + off /\ q(o) = mHeight - 1 - o + off
      BY <2>2
    <3> HIDE DEF q
    <3> QED BY <1>3, <2>1, <3>1
  <2>3. CASE ~ Flipped(s)
    <3>1. q(p) = p + off /\ q(o) = o + off
      BY <2>3
    <3> HIDE DEF q
    <3> QED BY <1>3, <2>1, <3>1
  <2> QED BY <2>2, <2>3
<1>5. Place(s, p) = IF d.type = "YWrap" /\ q(p) > max THEN q(p) - (max + 1) ELSE q(p)
  BY <1>2
<1>6. Place(s, o) = IF d.type = "YWrap" /\ q(o) > max THEN q(o) - (max + 1) ELSE q(o)
  BY <1>2
<1> HIDE DEF q
<1>7. Place(s, p) \in 0 .. memory - 1
  BY <1>1, <1>3, <1>4, <1>5
<1>8. Place(s, p) = Place(s, o) => q(p) = q(o)
  BY <1>1, <1>3, <1>4, <1>5, <1>6
<1> QED BY <1>1, <1>4, <1>7, <1>8

LEMMA LineDrawn ==
  ASSUME NEW t, NEW m, NEW v, NEW line, line = ALine(t, m), NEW x
  PROVE  /\ x = "text" => [line EXCEPT ![x] = v] = ALine(v, m)
         /\ x = "margin" => [line EXCEPT ![x] = v] = ALine(t, v)
<1>1. CASE x = "text"
  BY <1>1, SMTT(60) DEF ALine
<1>2. CASE x = "margin"
  BY <1>2, SMTT(60) DEF ALine
<1> QED BY <1>1, <1>2

LEMMA LineParts == ASSUME NEW t, NEW m PROVE ALine(t, m).text = t /\ ALine(t, m).margin = m
BY DEF ALine

TextAt(s, p) == s.lines[Place(s, p)].text
MarginAt(s, p) == s.lines[Place(s, p)].margin
SameDisplay(f, s) == DOMAIN f = DOMAIN s /\ f.dev = s.dev /\ f.mOffsetCur = s.mOffsetCur

LEMMA SamePlaces ==
  ASSUME NEW f, NEW s, SameDisplay(f, s) PROVE \A p : Place(f, p) = Place(s, p)
BY DEF SameDisplay, Place, Flipped

\* Only the lines filled change, each in the columns that are filled.
LEMMA FillIs ==
  ASSUME NEW s, IsScreen(s), NEW lines \in SUBSET PixelLines,
         NEW part1 \in {"text", "margin"}, NEW value
  PROVE  LET f == Fill(s, lines, part1, value)
         IN  /\ IsScreen(f) /\ SameDisplay(f, s)
             /\ \A p \in PixelLines :
                   /\ TextAt(f, p) = IF part1 = "text" /\ p \in lines THEN value[p]
                                     ELSE TextAt(s, p)
                   /\ MarginAt(f, p) = IF part1 = "margin" /\ p \in lines THEN value[p]
                                       ELSE MarginAt(s, p)
<1> DEFINE at == {Place(s, p) : p \in lines}
           drawnBy(l) == CHOOSE p \in lines : Place(s, p) = l
           new == [l \in DOMAIN s.lines |->
                     IF l \in at THEN [s.lines[l] EXCEPT ![part1] = value[drawnBy(l)]]
                     ELSE s.lines[l]]
           f == Fill(s, lines, part1, value)
<1>1. {"dev", "mOffsetCur", "lines"} \subseteq DOMAIN s
  BY DEF IsScreen
<1>2. f = [s EXCEPT !.lines = new]
  BY DEF Fill
<1> HIDE DEF new, f
<1>3. SameDisplay(f, s) /\ f.lines = new
  BY <1>1, <1>2 DEF SameDisplay
<1>4. \A l \in DOMAIN s.lines :
         s.lines[l] = ALine(s.lines[l].text, s.lines[l].margin)
  BY DEF IsScreen
<1>5. ASSUME NEW l \in DOMAIN s.lines, l \in at
      PROVE  LET v == value[drawnBy(l)]
             IN  new[l] = ALine(IF part1 = "text" THEN v ELSE s.lines[l].text,
                                IF part1 = "margin" THEN v ELSE s.lines[l].margin)
  <2> DEFINE v == value[drawnBy(l)]
  <2>1. new[l] = [s.lines[l] EXCEPT ![part1] = v]
    BY <1>5 DEF new
  <2> HIDE DEF v, new
  <2> DEFINE line == s.lines[l]
             t == line.text
             m == line.margin
  <2>2. line = ALine(t, m) /\ new[l] = [line EXCEPT ![part1] = v]
    BY <1>4, <2>1
  <2> HIDE DEF line, t, m
  <2>3. CASE part1 = "text"
    <3>1. [line EXCEPT ![part1] = v] = ALine(v, m)
      BY <2>2, <2>3, LineDrawn
    <3> QED BY <2>2, <2>3, <3>1 DEF t, m, v, line
  <2>4. CASE part1 = "margin"
    <3>1. [line EXCEPT ![part1] = v] = ALine(t, v)
      BY <2>2, <2>4, LineDrawn
    <3> QED BY <2>2, <2>4, <3>1 DEF t, m, v, line
  <2> QED BY <2>3, <2>4
<1>6. ASSUME NEW l \in DOMAIN s.lines, l \notin at PROVE new[l] = s.lines[l]
  BY <1>6 DEF new
<1>7. DOMAIN new = DOMAIN s.lines
  BY DEF new
<1> HIDE DEF at
<1>8. ASSUME NEW l \in DOMAIN new PROVE new[l] = ALine(new[l].text, new[l].margin)
  <2>1. CASE l \in at
    <3>1. PICK t, m : new[l] = ALine(t, m)
      BY <1>5, <1>7, <2>1
    <3>2. new[l].text = t /\ new[l].margin = m
      BY <3>1, LineParts
    <3> QED BY <3>1, <3>2, Zenon
  <2>2. CASE l \notin at
    BY <1>4, <1>6, <1>7, <2>2
  <2> QED BY <2>1, <2>2
<1>9. IsScreen(f)
  BY <1>3, <1>7, <1>8 DEF IsScreen, SameDisplay
<1>10. ASSUME NEW p \in PixelLines
       PROVE  /\ TextAt(f, p) = IF part1 = "text" /\ p \in lines THEN value[p] ELSE TextAt(s, p)
              /\ MarginAt(f, p) = IF part1 = "margin" /\ p \in lines THEN value[p]
                                  ELSE MarginAt(s, p)
  <2> DEFINE l == Place(s, p)
  <2>1. l \in DOMAIN s.lines /\ Place(f, p) = l
    BY <1>3, PlaceIs, SamePlaces
  <2>2. TextAt(f, p) = new[l].text /\ MarginAt(f, p) = new[l].margin
    BY <1>3, <2>1 DEF TextAt, MarginAt
  <2>3. TextAt(s, p) = s.lines[l].text /\ MarginAt(s, p) = s.lines[l].margin
    BY DEF TextAt, MarginAt
  <2>4. CASE p \in lines
    <3>1. l \in at
      BY <2>4 DEF at
    <3>2. drawnBy(l) \in lines /\ Place(s, drawnBy(l)) = l
      BY <2>4
    <3>3. drawnBy(l) = p
      BY <3>2, PlaceIs
    <3> HIDE DEF l
    <3>4. new[l] = ALine(IF part1 = "text" THEN value[drawnBy(l)] ELSE s.lines[l].text,
                         IF part1 = "margin" THEN value[drawnBy(l)] ELSE s.lines[l].margin)
      BY <1>5, <2>1, <3>1
    <3> HIDE DEF drawnBy
    <3> QED BY <2>2, <2>3, <2>4, <3>3, <3>4, LineParts
  <2>5. CASE p \notin lines
    <3>1. l \notin at
      BY <2>5, PlaceIs DEF at
    <3>2. new[l] = s.lines[l]
      BY <1>6, <2>1, <3>1
    <3> HIDE DEF l
    <3> QED BY <2>2, <2>3, <2>5, <3>2
  <2> QED BY <2>4, <2>5
<1> QED BY <1>3, <1>9, <1>10 DEF f

LEMMA RowOf ==
  ASSUME NEW p \in PixelLines
  PROVE  /\ p \in Nat /\ p < mHeight /\ p \div FontHeight \in Nat
         /\ p \in BelowText <=> p \div FontHeight >= mRows
         /\ p < FH(mRows) <=> p \div FontHeight < mRows
         /\ p < FH(mRows) <=> p \div FontHeight \in Rows
<1> DEFINE F == FontHeight
           r == p \div F
           m == p % F
<1>1. p \in Nat /\ p < mHeight /\ F \in Nat \ {0} /\ mRows \in Nat /\ mHeight \in Nat
  BY ScreenAssumption DEF PixelLines
<1>2. r \in Int /\ m \in 0 .. F - 1 /\ F * r \in Int /\ p = F * r + m
  BY <1>1, Divided
<1> HIDE DEF r, m
<1>3. r \in Nat
  <2>1. F * 0 < F * r + F
    BY <1>1, <1>2
  <2>2. 0 <= r
    BY <1>1, <1>2, <2>1, ProductsApart
  <2> QED BY <1>2, <2>2
<1>4. F * mRows \in Int /\ FH(mRows) = F * mRows
  BY <1>1 DEF FH
<1>5. ASSUME p < F * mRows PROVE r < mRows
  <2>1. ASSUME mRows <= r PROVE FALSE
    <3>1. F * mRows <= F * r
      BY <1>1, <1>2, <2>1, ProductsApart
    <3> QED BY <1>2, <1>4, <1>5, <3>1
  <2> QED BY <1>1, <1>3, <2>1
<1>6. ASSUME r < mRows PROVE p < F * mRows
  <2>1. r + 1 <= mRows /\ r + 1 \in Int
    BY <1>1, <1>3, <1>6
  <2>2. F * (r + 1) <= F * mRows /\ F * (r + 1) = F * r + F
    BY <1>1, <1>2, <2>1, ProductsApart
  <2> QED BY <1>1, <1>2, <1>4, <2>2
<1>7. p < F * mRows <=> r < mRows
  BY <1>5, <1>6
<1>8. p \in BelowText <=> ~ (p < F * mRows)
  BY <1>1, <1>4 DEF BelowText
<1>9. r < mRows <=> r \in Rows
  BY <1>1, <1>3 DEF Rows
<1>10. r >= mRows <=> ~ (r < mRows)
  BY <1>1, <1>3
<1> QED BY <1>1, <1>3, <1>4, <1>7, <1>8, <1>9, <1>10 DEF r

LEMMA LineSets ==
  /\ BelowText \in SUBSET PixelLines
  /\ \A rows : LinesOf(rows) \in SUBSET PixelLines
<1>1. FH(mRows) \in Nat
  BY ScreenAssumption DEF FH
<1>2. BelowText \in SUBSET PixelLines
  BY <1>1, ScreenAssumption DEF BelowText, PixelLines
<1> QED BY <1>2 DEF LinesOf

LEMMA ErasedIs ==
  ASSUME NEW s, IsScreen(s), NEW rows
  PROVE  LET f == eraseColumns(s, rows)
         IN  /\ IsScreen(f) /\ SameDisplay(f, s)
             /\ \A p \in PixelLines :
                   /\ TextAt(f, p) = IF p \in BelowText THEN "black" ELSE TextAt(s, p)
                   /\ MarginAt(f, p) = IF p \in BelowText \/ p \in LinesOf(rows) THEN "black"
                                       ELSE MarginAt(s, p)
<1> DEFINE a == Fill(s, LinesOf(rows), "margin", Black)
           b == Fill(a, BelowText, "text", Black)
           f == Fill(b, BelowText, "margin", Black)
<1>1. LinesOf(rows) \in SUBSET PixelLines /\ BelowText \in SUBSET PixelLines
      /\ "text" \in {"text", "margin"} /\ "margin" \in {"text", "margin"}
  BY LineSets
<1>2. \A p \in PixelLines : Black[p] = "black"
  BY DEF Black
<1>3. /\ IsScreen(a) /\ SameDisplay(a, s)
      /\ \A p \in PixelLines :
            /\ TextAt(a, p) = TextAt(s, p)
            /\ MarginAt(a, p) = IF p \in LinesOf(rows) THEN Black[p] ELSE MarginAt(s, p)
  BY <1>1, FillIs
<1> HIDE DEF a
<1>4. /\ IsScreen(b) /\ SameDisplay(b, a)
      /\ \A p \in PixelLines :
            /\ TextAt(b, p) = IF p \in BelowText THEN Black[p] ELSE TextAt(a, p)
            /\ MarginAt(b, p) = MarginAt(a, p)
  BY <1>1, <1>3, FillIs
<1> HIDE DEF b
<1>5. /\ IsScreen(f) /\ SameDisplay(f, b)
      /\ \A p \in PixelLines :
            /\ TextAt(f, p) = TextAt(b, p)
            /\ MarginAt(f, p) = IF p \in BelowText THEN Black[p] ELSE MarginAt(b, p)
  BY <1>1, <1>4, FillIs
<1> HIDE DEF f
<1>6. SameDisplay(f, s)
  BY <1>3, <1>4, <1>5 DEF SameDisplay
<1>7. \A p \in PixelLines :
         /\ TextAt(f, p) = IF p \in BelowText THEN "black" ELSE TextAt(s, p)
         /\ MarginAt(f, p) = IF p \in BelowText \/ p \in LinesOf(rows) THEN "black"
                             ELSE MarginAt(s, p)
  BY <1>2, <1>3, <1>4, <1>5
<1>8. f = eraseColumns(s, rows)
  BY DEF f, b, a, eraseColumns
<1> QED BY <1>5, <1>6, <1>7, <1>8

LEMMA DrawnIs ==
  ASSUME NEW s, IsScreen(s), NEW rows, NEW which
  PROVE  LET f == DrawRows(s, rows, which)
         IN  /\ IsScreen(f) /\ SameDisplay(f, s)
             /\ \A p \in PixelLines :
                   /\ TextAt(f, p) = IF p \in LinesOf(which)
                                     THEN RowLine(rows[p \div FontHeight], p) ELSE TextAt(s, p)
                   /\ MarginAt(f, p) = MarginAt(s, p)
<1> DEFINE line == [p \in LinesOf(which) |-> RowLine(rows[p \div FontHeight], p)]
           f == Fill(s, LinesOf(which), "text", line)
<1>1. LinesOf(which) \in SUBSET PixelLines /\ "text" \in {"text", "margin"}
  BY LineSets
<1>2. \A p \in LinesOf(which) : line[p] = RowLine(rows[p \div FontHeight], p)
  OBVIOUS
<1> HIDE DEF line
<1>3. /\ IsScreen(f) /\ SameDisplay(f, s)
      /\ \A p \in PixelLines :
            /\ TextAt(f, p) = IF p \in LinesOf(which) THEN line[p] ELSE TextAt(s, p)
            /\ MarginAt(f, p) = MarginAt(s, p)
  BY <1>1, FillIs
<1> HIDE DEF f
<1>4. f = DrawRows(s, rows, which)
  BY DEF f, line, DrawRows
<1> QED BY <1>2, <1>3, <1>4

\* Line p of the screen shows its row, or black below the text.
Shown(s, rows, p) ==
  /\ TextAt(s, p) = IF p < FH(mRows) THEN RowLine(rows[p \div FontHeight], p) ELSE "black"
  /\ MarginAt(s, p) = "black"
Shows(s, rows) ==
  /\ Multiple(s.mOffsetCur, s.dev.scroll.step)
  /\ \A p \in PixelLines : Shown(s, rows, p)

LEMMA InLines ==
  ASSUME NEW p \in PixelLines, NEW rows
  PROVE  p \in LinesOf(rows) <=> p \div FontHeight \in rows
BY DEF LinesOf

\* Drawing the rows that changed is enough.
LEMMA ChangedDrawn ==
  ASSUME NEW s, IsScreen(s), NEW old, Shows(s, old), NEW rows, NEW which \in SUBSET Rows,
         \A r \in Rows \ which : rows[r] = old[r]
  PROVE  /\ IsScreen(DrawRows(s, rows, which)) /\ SameDisplay(DrawRows(s, rows, which), s)
         /\ Shows(DrawRows(s, rows, which), rows)
<1> DEFINE f == DrawRows(s, rows, which)
<1>1. /\ IsScreen(f) /\ SameDisplay(f, s)
      /\ \A p \in PixelLines :
            /\ TextAt(f, p) = IF p \in LinesOf(which)
                              THEN RowLine(rows[p \div FontHeight], p) ELSE TextAt(s, p)
            /\ MarginAt(f, p) = MarginAt(s, p)
  BY DrawnIs
<1> HIDE DEF f
<1>2. Multiple(f.mOffsetCur, f.dev.scroll.step)
  BY <1>1 DEF SameDisplay, Shows
<1>3. ASSUME NEW p \in PixelLines PROVE Shown(f, rows, p)
  <2> DEFINE r == p \div FontHeight
  <2>1. p < FH(mRows) <=> r \in Rows
    BY RowOf
  <2>2. p \in LinesOf(which) <=> r \in which
    BY InLines
  <2>3. Shown(s, old, p)
    BY DEF Shows
  <2> HIDE DEF r
  <2>4. r \in Rows \ which => RowLine(rows[r], p) = RowLine(old[r], p)
    OBVIOUS
  <2>5. MarginAt(f, p) = "black"
    BY <1>1, <2>3 DEF Shown
  <2>6. TextAt(f, p) = IF r \in which THEN RowLine(rows[r], p) ELSE TextAt(s, p)
    BY <1>1, <2>2 DEF r
  <2>7. TextAt(s, p) = IF r \in Rows THEN RowLine(old[r], p) ELSE "black"
    BY <2>1, <2>3 DEF Shown, r
  <2>8. TextAt(f, p) = IF r \in Rows THEN RowLine(rows[r], p) ELSE "black"
    BY <2>4, <2>6, <2>7
  <2> QED BY <2>1, <2>5, <2>8 DEF Shown, r
<1> QED BY <1>1, <1>2, <1>3 DEF f, Shows

\* The whole margin erased, and all rows drawn before or after.
LEMMA AllDrawn ==
  ASSUME NEW s, IsScreen(s), Multiple(s.mOffsetCur, s.dev.scroll.step),
         NEW rows, NEW which \in SUBSET Rows,
         \A p \in PixelLines : p \div FontHeight \in Rows \ which =>
            TextAt(s, p) = RowLine(rows[p \div FontHeight], p)
  PROVE  LET f == DrawRows(eraseMargin(s, TRUE, mRows), rows, which)
         IN  IsScreen(f) /\ SameDisplay(f, s) /\ Shows(f, rows)
<1> DEFINE e == eraseMargin(s, TRUE, mRows)
           f == DrawRows(e, rows, which)
<1>1. e = eraseColumns(s, Rows)
  BY DEF eraseMargin, Rows
<1> HIDE DEF e
<1>2. /\ IsScreen(e) /\ SameDisplay(e, s)
      /\ \A p \in PixelLines :
            /\ TextAt(e, p) = IF p \in BelowText THEN "black" ELSE TextAt(s, p)
            /\ MarginAt(e, p) = IF p \in BelowText \/ p \in LinesOf(Rows) THEN "black"
                                ELSE MarginAt(s, p)
  BY <1>1, ErasedIs
<1>3. /\ IsScreen(f) /\ SameDisplay(f, e)
      /\ \A p \in PixelLines :
            /\ TextAt(f, p) = IF p \in LinesOf(which)
                              THEN RowLine(rows[p \div FontHeight], p) ELSE TextAt(e, p)
            /\ MarginAt(f, p) = MarginAt(e, p)
  BY <1>2, DrawnIs
<1> HIDE DEF f
<1>4. SameDisplay(f, s)
  BY <1>2, <1>3 DEF SameDisplay
<1>5. Multiple(f.mOffsetCur, f.dev.scroll.step)
  BY <1>4 DEF SameDisplay
<1>6. ASSUME NEW p \in PixelLines PROVE Shown(f, rows, p)
  <2> DEFINE r == p \div FontHeight
  <2>1. /\ p < FH(mRows) <=> r \in Rows
        /\ p \in BelowText <=> ~(r \in Rows)
    <3>1. r \in Nat /\ (p \in BelowText <=> r >= mRows) /\ (p < FH(mRows) <=> r \in Rows)
      BY RowOf
    <3>2. r \in Rows <=> ~(r >= mRows)
      BY <3>1, ScreenAssumption DEF Rows
    <3> QED BY <3>1, <3>2
  <2>2. /\ p \in LinesOf(which) <=> r \in which
        /\ p \in LinesOf(Rows) <=> r \in Rows
    BY InLines
  <2>3. r \in Rows \ which => TextAt(s, p) = RowLine(rows[r], p)
    OBVIOUS
  <2>4. TextAt(f, p) = IF r \in which THEN RowLine(rows[r], p) ELSE TextAt(e, p)
    BY <1>3, <2>2
  <2>5. TextAt(e, p) = IF r \in Rows THEN TextAt(s, p) ELSE "black"
    BY <1>2, <2>1
  <2> HIDE DEF r
  <2>6. MarginAt(f, p) = "black"
    BY <1>2, <1>3, <2>1, <2>2
  <2>7. TextAt(f, p) = IF r \in Rows THEN RowLine(rows[r], p) ELSE "black"
    BY <2>3, <2>4, <2>5
  <2> QED BY <2>1, <2>6, <2>7 DEF Shown, r
<1> QED BY <1>3, <1>4, <1>5, <1>6 DEF f, e, Shows

\* move shifts the start line by n rows, the other way round when the display is
\* upside down: what a line now shows was n rows further down.
Start(s, n) == IF Flipped(s) THEN s.mOffsetCur - FH(n) ELSE s.mOffsetCur + FH(n)

LEMMA StartMoves ==
  ASSUME NEW s, IsScreen(s), NEW n \in Int,
         -mHeight < FH(n), FH(n) < mHeight,
         s.dev.scroll.type = "YWrap" \/ ~Outside(s, Start(s, n)),
         NEW f, f.dev = s.dev, f.mOffsetCur = NewOffset(s, Start(s, n)),
         NEW p \in PixelLines, p + FH(n) \in PixelLines
  PROVE  Place(f, p) = Place(s, p + FH(n))
<1> DEFINE max == s.dev.scroll.max
           wrap == s.dev.scroll.type = "YWrap"
           off == s.mOffsetCur
           new == f.mOffsetCur
           m == FH(n)
           start == Start(s, n)
           flip == Flipped(s)
           q == (IF flip THEN mHeight - 1 - (p + m) ELSE p + m) + off
           x == (IF flip THEN mHeight - 1 - p ELSE p) + new
<1>1. /\ max \in Nat /\ off \in 0 .. max /\ mHeight \in Nat
      /\ wrap => mHeight <= max + 1
  BY ScreenAssumption DEF IsScreen, IsDevice
<1>2. p \in 0 .. mHeight - 1 /\ p + m \in 0 .. mHeight - 1 /\ m \in Int
  BY ScreenAssumption DEF PixelLines, FH
<1>3. start = IF flip THEN off - m ELSE off + m
  BY DEF Start
<1>4. new = IF ~(start < 0 \/ start > max) THEN start
            ELSE IF wrap
            THEN IF start < 0 THEN start + (max + 1) ELSE start - (max + 1)
            ELSE IF start < 0 THEN max ELSE 0
  BY DEF NewOffset, Outside
<1>5. wrap \/ ~(start < 0 \/ start > max)
  BY DEF Outside
<1>6. Place(f, p) = IF wrap /\ x > max THEN x - (max + 1) ELSE x
  BY DEF Place, Flipped
<1>7. Place(s, p + m) = IF wrap /\ q > max THEN q - (max + 1) ELSE q
  BY DEF Place, Flipped
<1>8. -mHeight < m /\ m < mHeight
  OBVIOUS
<1>9. q = (IF flip THEN mHeight - 1 - (p + m) ELSE p + m) + off
      /\ x = (IF flip THEN mHeight - 1 - p ELSE p) + new
  OBVIOUS
<1> HIDE DEF max, wrap, off, new, m, start, flip, q, x
<1>10. CASE ~wrap
  <2>1. new = start
    BY <1>4, <1>5, <1>10
  <2>2. x = q
    BY <1>1, <1>2, <1>3, <1>9, <2>1
  <2> QED BY <1>6, <1>7, <1>10, <2>2 DEF m
<1>11. CASE wrap
  <2>1. start \in Int /\ start + (max + 1) \in Int /\ start - (max + 1) \in Int
    BY <1>1, <1>2, <1>3
  <2>2. CASE flip
    <3>1. start = off - m /\ q = mHeight - 1 - p - m + off /\ x = mHeight - 1 - p + new
      BY <1>1, <1>2, <1>3, <1>9, <2>2
    <3>2. new = IF start < 0 THEN start + (max + 1)
                ELSE IF start > max THEN start - (max + 1) ELSE start
      BY <1>1, <1>4, <1>11, <2>1
    <3> QED BY <1>1, <1>2, <1>6, <1>7, <1>8, <1>11, <2>1, <3>1, <3>2 DEF m
  <2>3. CASE ~flip
    <3>1. start = off + m /\ q = p + m + off /\ x = p + new
      BY <1>1, <1>2, <1>3, <1>9, <2>3
    <3>2. new = IF start < 0 THEN start + (max + 1)
                ELSE IF start > max THEN start - (max + 1) ELSE start
      BY <1>1, <1>4, <1>11, <2>1
    <3> QED BY <1>1, <1>2, <1>6, <1>7, <1>8, <1>11, <2>1, <3>1, <3>2 DEF m
  <2> QED BY <2>2, <2>3
<1> QED BY <1>10, <1>11

\* Wherever move comes to, the device takes the start line.
LEMMA StartTaken ==
  ASSUME NEW s, IsScreen(s), Multiple(s.mOffsetCur, s.dev.scroll.step), NEW n \in Int,
         -mHeight < FH(n), FH(n) < mHeight, s.dev.scroll.type # "Redraw"
  PROVE  /\ NewOffset(s, Start(s, n)) \in 0 .. s.dev.scroll.max
         /\ Multiple(NewOffset(s, Start(s, n)), s.dev.scroll.step)
<1> DEFINE max == s.dev.scroll.max
           wrap == s.dev.scroll.type = "YWrap"
           off == s.mOffsetCur
           step1 == s.dev.scroll.step
           m == FH(n)
           start == Start(s, n)
           new == NewOffset(s, start)
           flip == Flipped(s)
<1>1. /\ max \in Nat /\ off \in 0 .. max /\ mHeight \in Nat /\ step1 \in Nat \ {0}
      /\ wrap => mHeight <= max + 1
      /\ off % step1 = 0 /\ FontHeight % step1 = 0
      /\ (IF wrap THEN max + 1 ELSE max) % step1 = 0
  BY ScreenAssumption DEF IsScreen, IsDevice, Multiple
<1>2. FontHeight \in Int /\ m = FontHeight * n
  BY ScreenAssumption DEF FH
<1>3. start = IF flip THEN off - m ELSE off + m
  BY DEF Start
<1>4. new = IF ~(start < 0 \/ start > max) THEN start
            ELSE IF wrap
            THEN IF start < 0 THEN start + (max + 1) ELSE start - (max + 1)
            ELSE IF start < 0 THEN max ELSE 0
  BY DEF NewOffset, Outside
<1>5. -mHeight < m /\ m < mHeight
  OBVIOUS
<1>6. Multiple(new, step1) <=> new % step1 = 0
  BY DEF Multiple
<1> HIDE DEF max, wrap, off, step1, m, start, new, flip
<1>7. /\ (off + m) % step1 = 0 /\ (off - m) % step1 = 0 /\ m \in Int /\ 0 % step1 = 0
  <2>1. off \in Int /\ FontHeight \in Int /\ n \in Int /\ step1 \in Nat \ {0}
        /\ off % step1 = 0 /\ FontHeight % step1 = 0
    BY <1>1, <1>2
  <2>2. (off + FontHeight * n) % step1 = 0 /\ 0 % step1 = 0 /\ FontHeight * n \in Int
    BY <2>1, MultiplesMove, ZenonT(60)
  <2>3. (off - FontHeight * n) % step1 = 0
    BY <2>1, MultipleLess, ZenonT(60)
  <2> QED BY <1>2, <2>2, <2>3
<1>8. start \in Int /\ start % step1 = 0
  BY <1>1, <1>3, <1>7
<1>9. wrap => (start + (max + 1)) % step1 = 0 /\ (start - (max + 1)) % step1 = 0
  <2>1. max + 1 \in Int /\ 0 \in Int
    BY <1>1
  <2>2. wrap => (max + 1) % step1 = 0
    BY <1>1
  <2> QED BY <1>1, <1>8, <2>1, <2>2, MultiplesMove
<1>10. ~wrap => max % step1 = 0
  BY <1>1
<1>11. new % step1 = 0
  BY <1>4, <1>7, <1>8, <1>9, <1>10
<1>12. start > -mHeight /\ start < max + mHeight
  BY <1>1, <1>3, <1>5, <1>7
<1>13. new \in 0 .. max
  BY <1>1, <1>4, <1>8, <1>12
<1> QED BY <1>6, <1>11, <1>13 DEF new, max, start, step1

\* A line that stays in the text when its row moves by n.
LEMMA MovedLine ==
  ASSUME NEW p \in PixelLines, NEW n \in Int, (p \div FontHeight) + n \in Rows
  PROVE  /\ p + FH(n) \in PixelLines /\ p + FH(n) < FH(mRows)
         /\ (p + FH(n)) \div FontHeight = (p \div FontHeight) + n
         /\ (p + FH(n)) % FontHeight = p % FontHeight
<1> DEFINE q == p + FH(n)
           r == p \div FontHeight
<1>1. p \in Int /\ FontHeight \in Nat \ {0} /\ FH(n) = FontHeight * n /\ FH(n) \in Int
  BY ScreenAssumption DEF PixelLines, FH
<1>2. q \div FontHeight = r + n /\ q % FontHeight = p % FontHeight
  BY <1>1, DividedShifted
<1>3. q \in Int /\ r \in Int
  BY <1>1, Divided
<1> DEFINE a == q \div FontHeight
           b == q % FontHeight
<1>4. /\ a \in Int /\ b \in 0 .. FontHeight - 1 /\ FontHeight * a \in Int
      /\ q = FontHeight * a + b
  BY <1>1, <1>3, Divided
<1>5. a \in Rows
  BY <1>2
<1> HIDE DEF q, a, b, r
<1>6. a \in Int /\ 0 <= a /\ a + 1 <= mRows /\ mRows \in Int /\ a + 1 \in Int /\ 0 \in Int
  BY <1>4, <1>5, ScreenAssumption DEF Rows
<1>7. FontHeight * 0 <= FontHeight * a /\ FontHeight * (a + 1) = FontHeight * a + FontHeight
      /\ FontHeight * (a + 1) <= FontHeight * mRows /\ FontHeight * mRows \in Int
  BY <1>1, <1>6, ProductsApart
<1>8. FontHeight * 0 = 0
  BY <1>1
<1>9. q \in 0 .. mHeight - 1 /\ q < FontHeight * mRows
  BY <1>1, <1>3, <1>4, <1>7, <1>8, ScreenAssumption
<1> QED BY <1>2, <1>9 DEF q, a, r, PixelLines, FH

\* Rows are less than the screen apart.
LEMMA RowsApart ==
  ASSUME NEW n \in Int, -mRows < n, n < mRows
  PROVE  -mHeight < FH(n) /\ FH(n) < mHeight /\ FH(n) \in Int
<1> DEFINE F == FontHeight
<1>1. /\ F \in Nat \ {0} /\ mRows \in Int /\ mHeight \in Nat /\ FH(n) = F * n
      /\ F * mRows \in Int /\ F * mRows <= mHeight
  BY ScreenAssumption DEF FH
<1>2. n + 1 \in Int /\ n + 1 <= mRows /\ 0 - mRows \in Int /\ (0 - mRows) + 1 \in Int
      /\ (0 - mRows) + 1 <= n /\ 0 \in Int
  BY <1>1
<1> HIDE DEF F
<1>3. F * (n + 1) = F * n + F /\ F * (n + 1) <= F * mRows /\ F * n \in Int
  BY <1>1, <1>2, ProductsApart
<1>4. F * ((0 - mRows) + 1) = F * (0 - mRows) + F
  BY <1>1, <1>2, ProductsApart
<1>5. F * ((0 - mRows) + 1) <= F * n
  BY <1>1, <1>2, ProductsApart
<1>6. F * (0 - mRows) = F * 0 - F * mRows /\ F * 0 \in Int
  BY <1>1, <1>2, ProductsApart
<1>7. F * 0 = 0
  BY <1>1
<1> QED BY <1>1, <1>3, <1>4, <1>5, <1>6, <1>7

\* A screen whose start line moved by n, the rows from top to bot with it.
PanTo(s, n) == [s EXCEPT !.mOffsetCur = NewOffset(s, Start(s, n))]
MarginRows(n) == IF n < 0 THEN 0 .. -n - 1 ELSE mRows - n .. mRows - 1

LEMMA PanToIs ==
  ASSUME NEW s, IsScreen(s), Multiple(s.mOffsetCur, s.dev.scroll.step), NEW n \in Int,
         -mRows < n, n < mRows, s.dev.scroll.type # "Redraw"
  PROVE  LET f == PanTo(s, n)
         IN  /\ IsScreen(f) /\ DOMAIN f = DOMAIN s /\ f.dev = s.dev /\ f.lines = s.lines
             /\ f.mOffsetCur = NewOffset(s, Start(s, n))
             /\ Multiple(f.mOffsetCur, f.dev.scroll.step)
<1> DEFINE f == PanTo(s, n)
           new == NewOffset(s, Start(s, n))
<1>1. -mHeight < FH(n) /\ FH(n) < mHeight
  BY RowsApart
<1>2. new \in 0 .. s.dev.scroll.max /\ Multiple(new, s.dev.scroll.step)
  BY <1>1, StartTaken
<1>3. {"dev", "mOffsetCur", "lines"} \subseteq DOMAIN s
  BY DEF IsScreen
<1>4. f = [s EXCEPT !.mOffsetCur = new]
  BY DEF PanTo
<1> HIDE DEF f, new
<1>5. /\ DOMAIN f = DOMAIN s /\ f.dev = s.dev /\ f.lines = s.lines /\ f.mOffsetCur = new
  BY <1>3, <1>4
<1>6. IsScreen(f)
  BY <1>2, <1>5 DEF IsScreen
<1> QED BY <1>2, <1>5, <1>6 DEF f, new

\* Rows that kept their picture, those outside drawn before and those vacated
\* after the margins are erased: together the rows of the window.
LEMMA PannedShows ==
  ASSUME NEW s, IsScreen(s), NEW old, Shows(s, old), NEW n \in Int, n # 0,
         -mRows < n, n < mRows, s.dev.scroll.type # "Redraw",
         s.dev.scroll.type = "YWrap" \/ ~Outside(s, Start(s, n)),
         NEW rows, NEW out \in SUBSET Rows, NEW left \in SUBSET Rows,
         \A r \in Rows \ (out \cup left) : r + n \in Rows /\ rows[r] = old[r + n]
  PROVE  LET e == eraseColumns(DrawRows(PanTo(s, n), rows, out), MarginRows(n))
             f == DrawRows(e, rows, left)
         IN  IsScreen(e) /\ IsScreen(f) /\ f.dev = s.dev /\ Shows(f, rows)
<1> DEFINE a == PanTo(s, n)
           b == DrawRows(a, rows, out)
           e == eraseColumns(b, MarginRows(n))
           f == DrawRows(e, rows, left)
<1>1. Multiple(s.mOffsetCur, s.dev.scroll.step)
  BY DEF Shows
<1>2. /\ IsScreen(a) /\ a.dev = s.dev /\ a.lines = s.lines
      /\ a.mOffsetCur = NewOffset(s, Start(s, n))
      /\ Multiple(a.mOffsetCur, a.dev.scroll.step)
  BY <1>1, PanToIs
<1>3. -mHeight < FH(n) /\ FH(n) < mHeight /\ FH(n) \in Int
  BY RowsApart
<1> HIDE DEF a
<1>4. ASSUME NEW p \in PixelLines, p + FH(n) \in PixelLines
      PROVE  /\ TextAt(a, p) = TextAt(s, p + FH(n))
             /\ MarginAt(a, p) = MarginAt(s, p + FH(n))
  <2>1. Place(a, p) = Place(s, p + FH(n))
    BY <1>2, <1>3, <1>4, StartMoves
  <2> QED BY <1>2, <2>1 DEF TextAt, MarginAt
<1>5. /\ IsScreen(b) /\ SameDisplay(b, a)
      /\ \A p \in PixelLines :
            /\ TextAt(b, p) = IF p \in LinesOf(out)
                              THEN RowLine(rows[p \div FontHeight], p) ELSE TextAt(a, p)
            /\ MarginAt(b, p) = MarginAt(a, p)
  BY <1>2, DrawnIs
<1> HIDE DEF b
<1>6. /\ IsScreen(e) /\ SameDisplay(e, b)
      /\ \A p \in PixelLines :
            /\ TextAt(e, p) = IF p \in BelowText THEN "black" ELSE TextAt(b, p)
            /\ MarginAt(e, p) = IF p \in BelowText \/ p \in LinesOf(MarginRows(n))
                                THEN "black" ELSE MarginAt(b, p)
  BY <1>5, ErasedIs
<1> HIDE DEF e
<1>7. /\ IsScreen(f) /\ SameDisplay(f, e)
      /\ \A p \in PixelLines :
            /\ TextAt(f, p) = IF p \in LinesOf(left)
                              THEN RowLine(rows[p \div FontHeight], p) ELSE TextAt(e, p)
            /\ MarginAt(f, p) = MarginAt(e, p)
  BY <1>6, DrawnIs
<1> HIDE DEF f
<1>8. f.dev = s.dev /\ Multiple(f.mOffsetCur, f.dev.scroll.step)
  BY <1>2, <1>5, <1>6, <1>7 DEF SameDisplay
<1>9. ASSUME NEW p \in PixelLines PROVE Shown(f, rows, p)
  <2> DEFINE r == p \div FontHeight
             q == p + FH(n)
  <2>1. /\ r \in Nat
        /\ p < FH(mRows) <=> r \in Rows
        /\ p \in BelowText <=> ~(r \in Rows)
    <3>1. r \in Nat /\ (p \in BelowText <=> r >= mRows) /\ (p < FH(mRows) <=> r \in Rows)
      BY RowOf
    <3>2. r \in Rows <=> ~(r >= mRows)
      BY <3>1, ScreenAssumption DEF Rows
    <3> QED BY <3>1, <3>2
  <2>2. /\ p \in LinesOf(out) <=> r \in out
        /\ p \in LinesOf(left) <=> r \in left
        /\ p \in LinesOf(MarginRows(n)) <=> r \in MarginRows(n)
    BY InLines
  <2>3. TextAt(f, p) = IF r \in left THEN RowLine(rows[r], p)
                       ELSE IF r \notin Rows THEN "black"
                       ELSE IF r \in out THEN RowLine(rows[r], p) ELSE TextAt(a, p)
    BY <1>5, <1>6, <1>7, <2>1, <2>2
  <2>4. MarginAt(f, p) = IF r \notin Rows \/ r \in MarginRows(n) THEN "black"
                         ELSE MarginAt(a, p)
    BY <1>5, <1>6, <1>7, <2>1, <2>2
  <2>5. r \in Rows /\ r \notin MarginRows(n) => r + n \in Rows
    BY <2>1, ScreenAssumption DEF Rows, MarginRows
  <2>6. ASSUME r + n \in Rows
        PROVE  /\ TextAt(a, p) = RowLine(old[r + n], p)
               /\ MarginAt(a, p) = "black"
    <3>1. /\ q \in PixelLines /\ q < FH(mRows)
          /\ q \div FontHeight = r + n /\ q % FontHeight = p % FontHeight
      BY <2>6, MovedLine
    <3>2. TextAt(a, p) = TextAt(s, q) /\ MarginAt(a, p) = MarginAt(s, q)
      BY <1>4, <3>1
    <3>3. Shown(s, old, q)
      BY <3>1 DEF Shows
    <3> HIDE DEF q, r
    <3>4. MarginAt(s, q) = "black" /\ TextAt(s, q) = RowLine(old[r + n], q)
      BY <3>1, <3>3 DEF Shown
    <3>5. RowLine(old[r + n], q) = RowLine(old[r + n], p)
      BY <3>1 DEF RowLine
    <3> QED BY <3>2, <3>4, <3>5
  <2> HIDE DEF r, q
  <2>7. MarginAt(f, p) = "black"
    BY <2>4, <2>5, <2>6
  <2>8. ASSUME r \in Rows, r \notin out, r \notin left
        PROVE  TextAt(a, p) = RowLine(rows[r], p)
    <3>1. r + n \in Rows /\ rows[r] = old[r + n]
      BY <2>8
    <3> QED BY <2>6, <3>1
  <2>9. TextAt(f, p) = IF r \in Rows THEN RowLine(rows[r], p) ELSE "black"
    BY <2>3, <2>8
  <2> QED BY <2>1, <2>7, <2>9 DEF Shown, r
<1> QED BY <1>6, <1>7, <1>8, <1>9 DEF f, e, b, a, Shows

\* What gets out of sight is never seen.
LEMMA ForgottenIs ==
  ASSUME NEW s, IsScreen(s)
  PROVE  /\ IsScreen(Forget(s)) /\ Forget(s).dev = s.dev
         /\ \A rows : Shows(s, rows) => Shows(Forget(s), rows)
<1> DEFINE seen == {Place(s, p) : p \in PixelLines}
           new == [l \in DOMAIN s.lines |-> IF l \in seen THEN s.lines[l] ELSE Unknown]
           f == Forget(s)
<1>1. {"dev", "mOffsetCur", "lines"} \subseteq DOMAIN s
  BY DEF IsScreen
<1>2. f = [s EXCEPT !.lines = new]
  BY DEF Forget
<1>3. \A l \in DOMAIN s.lines : new[l] = IF l \in seen THEN s.lines[l] ELSE Unknown
  OBVIOUS
<1>4. DOMAIN new = DOMAIN s.lines
  OBVIOUS
<1>5. \A p \in PixelLines : Place(s, p) \in seen
  OBVIOUS
<1> HIDE DEF new, f, seen
<1>6. SameDisplay(f, s) /\ f.lines = new
  BY <1>1, <1>2 DEF SameDisplay
<1>7. ASSUME NEW l \in DOMAIN new PROVE new[l] = ALine(new[l].text, new[l].margin)
  <2>1. s.lines[l] = ALine(s.lines[l].text, s.lines[l].margin)
    BY <1>4 DEF IsScreen
  <2>2. Unknown = ALine("foreign", "foreign")
    BY DEF Unknown, ALine
  <2>3. Unknown = ALine(Unknown.text, Unknown.margin)
    BY <2>2, LineParts
  <2> QED BY <1>3, <1>4, <2>1, <2>3
<1>8. IsScreen(f)
  BY <1>4, <1>6, <1>7 DEF IsScreen, SameDisplay
<1>9. ASSUME NEW p \in PixelLines
      PROVE  TextAt(f, p) = TextAt(s, p) /\ MarginAt(f, p) = MarginAt(s, p)
  <2>1. Place(f, p) = Place(s, p)
    BY <1>6, SamePlaces
  <2>2. Place(s, p) \in DOMAIN s.lines
    BY PlaceIs
  <2>3. new[Place(s, p)] = s.lines[Place(s, p)]
    BY <1>3, <1>5, <2>2
  <2> QED BY <1>6, <2>1, <2>3 DEF TextAt, MarginAt
<1>10. ASSUME NEW rows, Shows(s, rows) PROVE Shows(f, rows)
  BY <1>6, <1>9, <1>10 DEF Shows, Shown, SameDisplay
<1> QED BY <1>6, <1>8, <1>10 DEF f, SameDisplay

\* A window and its screen.
PanKept ==
  /\ IsScreen(scr)
  /\ {"rows", "ours"} \subseteq DOMAIN win /\ win.ours \in BOOLEAN /\ DOMAIN win.rows = Rows
  /\ win.ours => Shows(scr, win.rows)

LEMMA KeptIsShown == PanKept => WindowIsShown
<1> SUFFICES ASSUME PanKept, win.ours PROVE WindowIsShown
  BY DEF WindowIsShown
<1>1. IsScreen(scr) /\ Shows(scr, win.rows)
  BY DEF PanKept
<1>2. scr.mOffsetCur \in 0 .. scr.dev.scroll.max
      /\ Multiple(scr.mOffsetCur, scr.dev.scroll.step)
  BY <1>1 DEF IsScreen, Shows
<1>3. ASSUME NEW p \in PixelLines, NEW text,
             text = IF p < FH(mRows) THEN RowLine(win.rows[p \div FontHeight], p) ELSE "black"
      PROVE  Visible(p) = [text |-> text, margin |-> "black"]
  <2>1. Place(scr, p) \in DOMAIN scr.lines
    BY <1>1, PlaceIs
  <2>2. Visible(p) = ALine(Visible(p).text, Visible(p).margin)
    BY <1>1, <2>1 DEF Visible, IsScreen
  <2>3. Visible(p).text = text /\ Visible(p).margin = "black"
    BY <1>1, <1>3 DEF Shows, Shown, TextAt, MarginAt, Visible
  <2> QED BY <2>2, <2>3 DEF ALine
<1> QED BY <1>2, <1>3 DEF WindowIsShown

\* The display as it was taken over, cleared and drawn.
LEMMA Cleared ==
  ASSUME NEW s, IsScreen(s), s.mOffsetCur = 0, NEW rows
  PROVE  LET f == DrawRows(eraseMargin(s, TRUE, mRows), rows, Rows)
         IN  IsScreen(f) /\ Shows(f, rows)
<1>1. s.dev.scroll.step \in Nat \ {0}
  BY DEF IsScreen, IsDevice
<1>2. Multiple(s.mOffsetCur, s.dev.scroll.step)
  BY <1>1 DEF Multiple
<1>3. Rows \in SUBSET Rows /\ Rows \ Rows = {}
  OBVIOUS
<1> QED BY <1>2, <1>3, AllDrawn

LEMMA PanStarts == PanInit => PanKept
<1> SUFFICES ASSUME PanInit PROVE PanKept
  OBVIOUS
<1> DEFINE rows == [r \in Rows |-> Blank]
<1>1. PICK dev \in Devices :
        /\ scr = DrawRows(eraseMargin([dev |-> dev, mOffsetCur |-> 0,
                             lines |-> [l \in 0 .. dev.scroll.memory - 1 |-> Unknown]],
                             TRUE, mRows), rows, Rows)
        /\ win = [rows |-> rows, ours |-> TRUE]
  BY DEF PanInit
<1> DEFINE lines == [l \in 0 .. dev.scroll.memory - 1 |-> Unknown]
           s == [dev |-> dev, mOffsetCur |-> 0, lines |-> lines]
<1>2. IsDevice(dev)
  BY DevicesOK
<1>3. Unknown = ALine(Unknown.text, Unknown.margin)
  <2>1. Unknown = ALine("foreign", "foreign")
    BY DEF Unknown, ALine
  <2> QED BY <2>1, LineParts
<1>4. DOMAIN lines = 0 .. dev.scroll.memory - 1 /\ \A l \in DOMAIN lines : lines[l] = Unknown
  OBVIOUS
<1> HIDE DEF lines
<1>5. DOMAIN s = {"dev", "mOffsetCur", "lines"} /\ s.dev = dev /\ s.mOffsetCur = 0
      /\ s.lines = lines
  OBVIOUS
<1>6. scr = DrawRows(eraseMargin(s, TRUE, mRows), rows, Rows)
  BY <1>1 DEF lines
<1>7. DOMAIN rows = Rows
  OBVIOUS
<1> HIDE DEF s, rows
<1>8. 0 \in 0 .. dev.scroll.max
  BY <1>2 DEF IsDevice
<1>9. IsScreen(s)
  BY <1>2, <1>3, <1>4, <1>5, <1>8 DEF IsScreen
<1>10. IsScreen(scr) /\ Shows(scr, rows)
  BY <1>5, <1>6, <1>9, Cleared
<1>11. {"rows", "ours"} \subseteq DOMAIN win /\ win.ours \in BOOLEAN /\ win.rows = rows
  BY <1>1
<1> QED BY <1>7, <1>10, <1>11 DEF PanKept

LEMMA WriteKeeps ==
  ASSUME PanKept, NEW r \in Rows, NEW t, WriteRow(r, t) PROVE PanKept'
<1> DEFINE rows == [win.rows EXCEPT ![r] = t]
<1>1. win' = [win EXCEPT !.rows = rows]
      /\ scr' = IF win.ours THEN DrawRows(scr, rows, {r}) ELSE scr
  BY DEF WriteRow
<1>2. IsScreen(scr) /\ {"rows", "ours"} \subseteq DOMAIN win /\ win.ours \in BOOLEAN
      /\ DOMAIN win.rows = Rows /\ (win.ours => Shows(scr, win.rows))
  BY DEF PanKept
<1>3. DOMAIN rows = Rows /\ \A x \in Rows \ {r} : rows[x] = win.rows[x]
  BY <1>2
<1> HIDE DEF rows
<1>4. DOMAIN win' = DOMAIN win /\ win'.rows = rows /\ win'.ours = win.ours
  BY <1>1, <1>2
<1>5. {r} \in SUBSET Rows
  OBVIOUS
<1>6. win.ours => IsScreen(DrawRows(scr, rows, {r})) /\ Shows(DrawRows(scr, rows, {r}), rows)
  BY <1>2, <1>3, <1>5, ChangedDrawn
<1>7. IsScreen(scr') /\ (win.ours => Shows(scr', rows))
  BY <1>1, <1>2, <1>6
<1> QED BY <1>2, <1>3, <1>4, <1>7 DEF PanKept

LEMMA LeaveKeeps == ASSUME PanKept, LeaveScreen PROVE PanKept'
<1> DEFINE lines == [l \in DOMAIN scr.lines |-> Unknown]
           s == [scr EXCEPT !.mOffsetCur = 0]
<1>1. IsScreen(scr) /\ {"rows", "ours"} \subseteq DOMAIN win /\ win.ours \in BOOLEAN
      /\ DOMAIN win.rows = Rows
  BY DEF PanKept
<1>2. {"dev", "mOffsetCur", "lines"} \subseteq DOMAIN scr
  BY <1>1 DEF IsScreen
<1>3. Unknown = ALine(Unknown.text, Unknown.margin)
  <2>1. Unknown = ALine("foreign", "foreign")
    BY DEF Unknown, ALine
  <2> QED BY <2>1, LineParts
<1>4. DOMAIN lines = DOMAIN scr.lines /\ \A l \in DOMAIN lines : lines[l] = Unknown
  OBVIOUS
<1>5. scr' = [[scr EXCEPT !.mOffsetCur = 0] EXCEPT !.lines = lines]
  BY <1>2 DEF LeaveScreen
<1> HIDE DEF lines, s
<1>6. DOMAIN s = DOMAIN scr /\ s.dev = scr.dev /\ s.mOffsetCur = 0
  BY <1>2 DEF s
<1>7. scr' = [s EXCEPT !.lines = lines]
  BY <1>5 DEF s
<1>8. DOMAIN scr' = DOMAIN s /\ scr'.dev = s.dev /\ scr'.mOffsetCur = 0 /\ scr'.lines = lines
  BY <1>2, <1>6, <1>7
<1>9. 0 \in 0 .. scr.dev.scroll.max
  BY <1>1 DEF IsScreen, IsDevice
<1>10. IsScreen(scr')
  BY <1>1, <1>3, <1>4, <1>6, <1>8, <1>9 DEF IsScreen
<1>11. win' = [win EXCEPT !.ours = FALSE]
  BY DEF LeaveScreen
<1>12. DOMAIN win' = DOMAIN win /\ win'.rows = win.rows /\ win'.ours = FALSE
  BY <1>1, <1>11
<1> QED BY <1>1, <1>10, <1>12 DEF PanKept

LEMMA EnterKeeps == ASSUME PanKept, EnterScreen PROVE PanKept'
<1> DEFINE s == [scr EXCEPT !.mOffsetCur = 0]
<1>1. IsScreen(scr) /\ {"rows", "ours"} \subseteq DOMAIN win /\ DOMAIN win.rows = Rows
  BY DEF PanKept
<1>2. {"dev", "mOffsetCur", "lines"} \subseteq DOMAIN scr
  BY <1>1 DEF IsScreen
<1>3. DOMAIN s = DOMAIN scr /\ s.dev = scr.dev /\ s.mOffsetCur = 0 /\ s.lines = scr.lines
  BY <1>2
<1>4. scr' = DrawRows(eraseMargin(s, TRUE, mRows), win.rows, Rows)
  BY DEF EnterScreen
<1> HIDE DEF s
<1>5. 0 \in 0 .. scr.dev.scroll.max
  BY <1>1 DEF IsScreen, IsDevice
<1>6. IsScreen(s)
  BY <1>1, <1>3, <1>5 DEF IsScreen
<1>7. IsScreen(scr') /\ Shows(scr', win.rows)
  BY <1>3, <1>4, <1>6, Cleared
<1>8. win' = [win EXCEPT !.ours = TRUE]
  BY DEF EnterScreen
<1>9. DOMAIN win' = DOMAIN win /\ win'.rows = win.rows /\ win'.ours = TRUE
  BY <1>1, <1>8
<1> QED BY <1>1, <1>7, <1>9 DEF PanKept

\* What ScrollRows asks of move for rows top to bot.
ScrollFrom(top, n) == IF n > 0 THEN top + n ELSE top
ScrollTo(top, n) == IF n > 0 THEN top ELSE top - n
ScrollHeight(top, bot, n) == bot - top + 1 - (IF n > 0 THEN n ELSE -n)
KeptRows(top, bot, n) == ScrollTo(top, n) .. ScrollTo(top, n) + ScrollHeight(top, bot, n) - 1

\* move and the drawing after it, whether it panned, started over at the other
\* end of the memory or declined.
LEMMA MoveShows ==
  ASSUME NEW s, IsScreen(s), NEW old, Shows(s, old),
         NEW top \in Rows, NEW bot \in Rows, NEW n \in Int, n # 0,
         ScrollHeight(top, bot, n) > 0, NEW rows,
         \A r \in Rows : r \in KeptRows(top, bot, n) => rows[r] = old[r + n],
         \A r \in Rows : r \notin top .. bot => rows[r] = old[r],
         NEW result,
         result = move(s, ScrollFrom(top, n), ScrollTo(top, n), ScrollHeight(top, bot, n), rows)
  PROVE  /\ ~result.moved => /\ IsScreen(DrawRows(result.scr, rows, top .. bot))
                              /\ Shows(DrawRows(result.scr, rows, top .. bot), rows)
         /\ result.moved =>
               LET f == DrawRows(result.scr, rows, (top .. bot) \ KeptRows(top, bot, n))
               IN  IsScreen(f) /\ Shows(f, rows)
<1> DEFINE from == ScrollFrom(top, n)
           to == ScrollTo(top, n)
           h == ScrollHeight(top, bot, n)
           kept == KeptRows(top, bot, n)
           start == Start(s, n)
           panned == PanTo(s, n)
           all == Outside(s, start) /\ s.dev.scroll.type # "YWrap"
           around == DrawRows(panned, rows, Rows \ (top .. bot))
           started == eraseMargin(around, TRUE, mRows)
           shifted == eraseColumns(around, MarginRows(n))
           declines == s.dev.scroll.type = "Redraw" \/ ~Accelerates(from, to, h)
<1>1. /\ -mRows < n /\ n < mRows /\ from - to = n /\ (to > from <=> n < 0)
      /\ (IF from < to THEN from ELSE to) = top
      /\ (IF from < to THEN to ELSE from) + h - 1 = bot
      /\ top .. bot \in SUBSET Rows /\ kept \in SUBSET (top .. bot)
      /\ \A r \in kept : r + n \in Rows
      /\ (n < 0 => to - from = -n) /\ from \in Int /\ to \in Int /\ h \in Int
  <2>1. /\ from = IF n > 0 THEN top + n ELSE top
        /\ to = IF n > 0 THEN top ELSE top - n
        /\ h = bot - top + 1 - (IF n > 0 THEN n ELSE -n) /\ h > 0
        /\ kept = to .. to + h - 1
    BY DEF ScrollFrom, ScrollTo, ScrollHeight, KeptRows
  <2> HIDE DEF from, to, h, kept
  <2>2. /\ top \in Int /\ bot \in Int /\ mRows \in Nat
        /\ 0 <= top /\ 0 <= bot /\ top < mRows /\ bot < mRows
    BY ScreenAssumption DEF Rows
  <2>3. top .. bot \in SUBSET Rows
    BY <2>2 DEF Rows
  <2>4. CASE n > 0
    <3>1. from = top + n /\ to = top /\ h = bot - top + 1 - n
      BY <2>1, <2>4
    <3>2. /\ -mRows < n /\ n < mRows /\ from - to = n /\ ~(to > from) /\ ~(n < 0)
          /\ ~(from < to) /\ from + h - 1 = bot
          /\ from \in Int /\ to \in Int /\ h \in Int
      BY <2>1, <2>2, <2>4, <3>1
    <3>3. kept \subseteq top .. bot /\ \A r \in kept : r + n \in Rows
      BY <2>1, <2>2, <2>4, <3>1 DEF Rows
    <3> QED BY <2>3, <2>4, <3>1, <3>2, <3>3
  <2>5. CASE n < 0
    <3>1. from = top /\ to = top - n /\ h = bot - top + 1 + n
      BY <2>1, <2>2, <2>5
    <3>2. /\ -mRows < n /\ n < mRows /\ from - to = n /\ to - from = -n /\ to > from
          /\ ~(n > 0) /\ from < to /\ to + h - 1 = bot
          /\ from \in Int /\ to \in Int /\ h \in Int
      BY <2>1, <2>2, <2>5, <3>1
    <3>3. kept \subseteq top .. bot /\ \A r \in kept : r + n \in Rows
      BY <2>1, <2>2, <2>5, <3>1 DEF Rows
    <3> QED BY <2>3, <2>5, <3>1, <3>2, <3>3
  <2> QED BY <2>4, <2>5
<1>2. Shifted(s, from, to) = start
  BY <1>1 DEF Shifted, Start
<1>3. result = IF declines THEN [scr |-> s, moved |-> FALSE]
               ELSE [scr |-> IF all THEN started
                             ELSE eraseMargin(around, to > from,
                                              IF to > from THEN to - from ELSE from - to),
                     moved |-> ~all]
  <2> DEFINE offset == Shifted(s, from, to)
             first == IF from < to THEN from ELSE to
             end == (IF from < to THEN to ELSE from) + h
             drawnBy == DrawRows([s EXCEPT !.mOffsetCur = NewOffset(s, offset)], rows,
                                 Rows \ (first .. end - 1))
             over == Outside(s, offset) /\ s.dev.scroll.type # "YWrap"
  <2>1. result = IF declines THEN [scr |-> s, moved |-> FALSE]
                 ELSE [scr |-> IF over THEN eraseMargin(drawnBy, TRUE, mRows)
                               ELSE eraseMargin(drawnBy, to > from,
                                                IF to > from THEN to - from ELSE from - to),
                       moved |-> ~over]
    BY Zenon DEF move
  <2>2. over <=> all
    BY <1>2
  <2>3. first = top /\ end - 1 = bot
    BY <1>1
  <2> HIDE DEF first, end
  <2>4. drawnBy = around
    BY <1>2, <2>3 DEF PanTo
  <2> HIDE DEF drawnBy, over, all, around, declines
  <2>5. (~over) = (~all) /\ over = all
    BY <2>2
  <2> QED BY <2>1, <2>4, <2>5 DEF started
<1>4. eraseMargin(around, to > from, IF to > from THEN to - from ELSE from - to) = shifted
  BY <1>1 DEF eraseMargin, MarginRows
<1> HIDE DEF panned, all, around, started, shifted, declines, start, from, to, h, kept
<1>5. /\ declines => result.scr = s /\ ~result.moved
      /\ ~declines /\ all => result.scr = started /\ ~result.moved
      /\ ~declines /\ ~all => result.scr = shifted /\ result.moved
  <2>1. CASE declines
    BY <1>3, <2>1
  <2>2. CASE ~declines /\ all
    <3>1. result = [scr |-> started, moved |-> ~all]
      BY <1>3, <2>2
    <3>2. (~all) = FALSE
      BY <2>2
    <3>3. result = [scr |-> started, moved |-> FALSE]
      BY <3>1, <3>2
    <3> QED BY <2>2, <3>3
  <2>3. CASE ~declines /\ ~all
    <3>1. result = [scr |-> shifted, moved |-> ~all]
      BY <1>3, <1>4, <2>3
    <3>2. (~all) = TRUE
      BY <2>3
    <3>3. result = [scr |-> shifted, moved |-> TRUE]
      BY <3>1, <3>2
    <3> QED BY <2>3, <3>3
  <2> QED BY <2>1, <2>2, <2>3
<1>6. Rows \ (top .. bot) \in SUBSET Rows
  OBVIOUS
<1>7. CASE declines
  <2>1. \A r \in Rows \ (top .. bot) : rows[r] = old[r]
    OBVIOUS
  <2>2. IsScreen(DrawRows(s, rows, top .. bot)) /\ Shows(DrawRows(s, rows, top .. bot), rows)
    BY <1>1, <2>1, ChangedDrawn
  <2> QED BY <1>5, <1>7, <2>2
<1>8. CASE ~declines /\ all
  <2>1. /\ IsScreen(panned) /\ Multiple(panned.mOffsetCur, panned.dev.scroll.step)
    <3>1. s.dev.scroll.type # "Redraw" /\ Multiple(s.mOffsetCur, s.dev.scroll.step)
      BY <1>8 DEF declines, Shows
    <3> QED BY <1>1, <3>1, PanToIs DEF panned
  <2>2. /\ IsScreen(around) /\ SameDisplay(around, panned)
        /\ \A p \in PixelLines :
              TextAt(around, p) = IF p \in LinesOf(Rows \ (top .. bot))
                                  THEN RowLine(rows[p \div FontHeight], p)
                                  ELSE TextAt(panned, p)
    BY <2>1, DrawnIs DEF around
  <2>3. Multiple(around.mOffsetCur, around.dev.scroll.step)
    BY <2>1, <2>2 DEF SameDisplay
  <2>4. \A p \in PixelLines : p \div FontHeight \in Rows \ (top .. bot) =>
            TextAt(around, p) = RowLine(rows[p \div FontHeight], p)
    BY <2>2, InLines
  <2>5. /\ IsScreen(DrawRows(started, rows, top .. bot))
        /\ Shows(DrawRows(started, rows, top .. bot), rows)
    BY <1>1, <2>2, <2>3, <2>4, AllDrawn DEF started
  <2> QED BY <1>5, <1>8, <2>5
<1>9. CASE ~declines /\ ~all
  <2> DEFINE left == (top .. bot) \ kept
             out == Rows \ (top .. bot)
  <2>1. s.dev.scroll.type # "Redraw" /\ (s.dev.scroll.type = "YWrap" \/ ~Outside(s, Start(s, n)))
    BY <1>9 DEF declines, all, start
  <2>2. left \in SUBSET Rows /\ out \in SUBSET Rows
    BY <1>1
  <2>3. \A r \in Rows \ (out \cup left) : r + n \in Rows /\ rows[r] = old[r + n]
    <3>1. \A r \in Rows \ (out \cup left) : r \in kept
      OBVIOUS
    <3> QED BY <1>1, <3>1 DEF kept
  <2>4. shifted = eraseColumns(DrawRows(PanTo(s, n), rows, out), MarginRows(n))
    BY DEF shifted, around, panned
  <2>5. -mRows < n /\ n < mRows
    BY <1>1
  <2> HIDE DEF left, out
  <2>6. IsScreen(DrawRows(shifted, rows, left)) /\ Shows(DrawRows(shifted, rows, left), rows)
    BY <2>1, <2>2, <2>3, <2>4, <2>5, PannedShows
  <2> QED BY <1>5, <1>9, <2>6 DEF left, kept
<1> QED BY <1>7, <1>8, <1>9

LEMMA ScrollKeeps ==
  ASSUME PanKept, NEW top \in Rows, NEW bot \in Rows, NEW n \in Int, n # 0,
         NEW enabled \in BOOLEAN, ScrollRows(top, bot, n, enabled)
  PROVE  PanKept'
<1> DEFINE from == ScrollFrom(top, n)
           to == ScrollTo(top, n)
           h == ScrollHeight(top, bot, n)
           kept == KeptRows(top, bot, n)
           rows == [r \in Rows |-> IF r \in kept THEN win.rows[r + n]
                                   ELSE IF r \in top .. bot THEN Blank ELSE win.rows[r]]
           moved == move(scr, from, to, h, rows)
           result == IF enabled THEN moved ELSE [scr |-> scr, moved |-> FALSE]
           f == DrawRows(result.scr, rows,
                         IF result.moved THEN (top .. bot) \ kept ELSE top .. bot)
<1>1. /\ h > 0
      /\ win' = [win EXCEPT !.rows = rows]
      /\ scr' = IF win.ours THEN Forget(f) ELSE scr
  BY DEF ScrollRows, ScrollFrom, ScrollTo, ScrollHeight, KeptRows
<1>2. IsScreen(scr) /\ {"rows", "ours"} \subseteq DOMAIN win /\ win.ours \in BOOLEAN
      /\ DOMAIN win.rows = Rows /\ (win.ours => Shows(scr, win.rows))
  BY DEF PanKept
<1>3. /\ top \in Int /\ bot \in Int /\ from \in Int /\ to \in Int /\ h \in Nat
      /\ kept \subseteq top .. bot /\ top .. bot \in SUBSET Rows
  <2>1. top \in Int /\ bot \in Int /\ top >= 0 /\ bot < mRows /\ mRows \in Nat
    BY ScreenAssumption DEF Rows
  <2>2. from \in Int /\ to \in Int /\ h \in Nat
    BY <1>1, <2>1 DEF ScrollFrom, ScrollTo, ScrollHeight
  <2>3. kept \subseteq top .. bot
    BY <1>1, <2>1 DEF ScrollFrom, ScrollTo, ScrollHeight, KeptRows
  <2>4. top .. bot \in SUBSET Rows
    BY <2>1 DEF Rows
  <2> QED BY <2>1, <2>2, <2>3, <2>4
<1>4. /\ \A r \in Rows : r \in kept => rows[r] = win.rows[r + n]
      /\ \A r \in Rows : r \notin top .. bot => rows[r] = win.rows[r]
      /\ DOMAIN rows = Rows
  BY <1>3
<1> HIDE DEF from, to, h, kept, rows, result, f
<1>5. ASSUME win.ours PROVE IsScreen(f) /\ Shows(f, rows)
  <2>1. CASE enabled
    <3> DEFINE old == win.rows
    <3>1. result = move(scr, ScrollFrom(top, n), ScrollTo(top, n), ScrollHeight(top, bot, n), rows)
      BY <2>1 DEF result, from, to, h
    <3>2. Shows(scr, old) /\ IsScreen(scr)
      BY <1>2, <1>5
    <3>3. ScrollHeight(top, bot, n) > 0
      BY <1>1 DEF h
    <3>4. /\ \A r \in Rows : r \in KeptRows(top, bot, n) => rows[r] = old[r + n]
          /\ \A r \in Rows : r \notin top .. bot => rows[r] = old[r]
      BY <1>4 DEF kept
    <3> HIDE DEF old
    <3>5. /\ ~result.moved => /\ IsScreen(DrawRows(result.scr, rows, top .. bot))
                              /\ Shows(DrawRows(result.scr, rows, top .. bot), rows)
          /\ result.moved =>
                 LET g == DrawRows(result.scr, rows, (top .. bot) \ KeptRows(top, bot, n))
                 IN  IsScreen(g) /\ Shows(g, rows)
      BY <3>1, <3>2, <3>3, <3>4, MoveShows, ZenonT(60)
    <3> QED BY <3>5 DEF f, kept
  <2>2. CASE ~enabled
    <3>1. result.scr = scr /\ ~result.moved
      BY <2>2 DEF result
    <3>2. \A r \in Rows \ (top .. bot) : rows[r] = win.rows[r]
      BY <1>4
    <3>3. IsScreen(DrawRows(scr, rows, top .. bot))
          /\ Shows(DrawRows(scr, rows, top .. bot), rows)
      BY <1>2, <1>3, <1>5, <3>2, ChangedDrawn
    <3> QED BY <3>1, <3>3 DEF f
  <2> QED BY <2>1, <2>2
<1>6. DOMAIN win' = DOMAIN win /\ win'.rows = rows /\ win'.ours = win.ours
  BY <1>1, <1>2
<1>7. IsScreen(scr') /\ (win.ours => Shows(scr', rows))
  <2>1. CASE win.ours
    BY <1>1, <1>5, <2>1, ForgottenIs
  <2>2. CASE ~win.ours
    BY <1>1, <1>2, <2>2
  <2> QED BY <2>1, <2>2
<1> QED BY <1>2, <1>4, <1>6, <1>7 DEF PanKept

LEMMA PanSteps == PanKept /\ PanNext => PanKept'
<1> SUFFICES ASSUME PanKept, PanNext PROVE PanKept'
  OBVIOUS
<1>1. CASE LeaveScreen
  BY <1>1, LeaveKeeps
<1>2. CASE EnterScreen
  BY <1>2, EnterKeeps
<1>3. CASE \E r \in Rows, t \in Texts : WriteRow(r, t)
  BY <1>3, WriteKeeps
<1>4. CASE \E top, bot \in Rows, n \in (1 - mRows .. mRows - 1) \ {0},
              enabled \in BOOLEAN : ScrollRows(top, bot, n, enabled)
  <2>1. PICK top \in Rows, bot \in Rows, n \in (1 - mRows .. mRows - 1) \ {0},
             enabled \in BOOLEAN : ScrollRows(top, bot, n, enabled)
    BY <1>4
  <2>2. n \in Int /\ n # 0
    BY ScreenAssumption
  <2> QED BY <2>1, <2>2, ScrollKeeps
<1> QED BY <1>1, <1>2, <1>3, <1>4 DEF PanNext

LEMMA PanStays == ASSUME PanKept, UNCHANGED panVars PROVE PanKept'
<1>1. scr' = scr /\ win' = win
  BY DEF panVars
<1> QED BY <1>1 DEF PanKept

-----------------------------------------------------------------------------
(* Pipes (IoPipe): the conversion as a function, then the invariant.       *)

\* A function on 0 .. n defined by recursion over what is before each place.
IsStep(G, n, V) ==
  /\ G \in [(0 .. n) \X [0 .. n -> V] -> V]
  /\ \A i \in 0 .. n : \A f, g \in [0 .. n -> V] :
        (\A j \in 0 .. n : j < i => f[j] = g[j]) => G[<<i, f>>] = G[<<i, g>>]

HasFunction(G, n, V) == \E f \in [0 .. n -> V] : \A i \in 0 .. n : f[i] = G[<<i, f>>]

Before(G, n, V, k) == \E f \in [0 .. n -> V] : \A i \in 0 .. n : i < k => f[i] = G[<<i, f>>]

LEMMA RecursionExists ==
  ASSUME NEW n \in Nat, NEW V, NEW v0 \in V, NEW G, IsStep(G, n, V)
  PROVE  HasFunction(G, n, V)
<1> DEFINE Bad == {k \in Nat : k <= n + 1 /\ ~ Before(G, n, V, k)}
<1>1. SUFFICES Bad = {}
  <2>1. n + 1 \in Nat /\ n + 1 \notin Bad
    BY <1>1
  <2>2. Before(G, n, V, n + 1)
    BY <2>1
  <2>3. \A i \in 0 .. n : i < n + 1
    OBVIOUS
  <2> QED BY <2>2, <2>3 DEF Before, HasFunction
<1> SUFFICES ASSUME Bad # {} PROVE FALSE
  OBVIOUS
<1>2. PICK m \in Bad : \A j \in Bad : m <= j
  BY NatMin
<1>3. m \in Nat /\ m <= n + 1 /\ ~ Before(G, n, V, m)
  OBVIOUS
<1>4. Before(G, n, V, 0)
  <2> DEFINE f == [i \in 0 .. n |-> v0]
  <2>1. f \in [0 .. n -> V] /\ \A i \in 0 .. n : ~ (i < 0)
    OBVIOUS
  <2> QED BY <2>1 DEF Before
<1>5. m # 0
  BY <1>3, <1>4
<1> DEFINE k == m - 1
<1>6. k \in 0 .. n /\ k \in Nat /\ k + 1 = m /\ k \notin Bad
  BY <1>2, <1>3, <1>5
<1>7. Before(G, n, V, k)
  BY <1>6
<1>8. PICK f \in [0 .. n -> V] : \A i \in 0 .. n : i < k => f[i] = G[<<i, f>>]
  BY <1>7 DEF Before
<1> DEFINE v == G[<<k, f>>]
           g == [i \in 0 .. n |-> IF i = k THEN v ELSE f[i]]
<1> HIDE DEF k
<1>9. <<k, f>> \in (0 .. n) \X [0 .. n -> V]
  BY <1>6
<1>10. v \in V
  BY <1>9 DEF IsStep
<1> HIDE DEF v
<1>11. g \in [0 .. n -> V] /\ g[k] = v /\ \A i \in 0 .. n : i < k => g[i] = f[i]
  BY <1>6, <1>10
<1> HIDE DEF g
<1>12. \A i \in 0 .. n : i <= k => G[<<i, g>>] = G[<<i, f>>]
  <2> SUFFICES ASSUME NEW i \in 0 .. n, i <= k PROVE G[<<i, g>>] = G[<<i, f>>]
    OBVIOUS
  <2>1. \A j \in 0 .. n : j < i => g[j] = f[j]
    BY <1>6, <1>11
  <2> QED BY <1>11, <2>1, Zenon DEF IsStep
<1>13. \A i \in 0 .. n : i < m => g[i] = G[<<i, g>>]
  <2> SUFFICES ASSUME NEW i \in 0 .. n, i < m PROVE g[i] = G[<<i, g>>]
    OBVIOUS
  <2>a. i <= k
    BY <1>3, <1>6
  <2>1. G[<<i, g>>] = G[<<i, f>>]
    BY <1>12, <2>a
  <2>2. CASE i = k
    BY <1>11, <2>1, <2>2 DEF v
  <2>3. CASE i # k
    <3>1. i < k
      BY <1>6, <2>3
    <3> QED BY <1>8, <1>11, <2>1, <3>1
  <2> QED BY <2>2, <2>3
<1> QED BY <1>3, <1>11, <1>13 DEF Before

\* What was handed on: characters and the bytes each was.
Handed == [char : {"c", "?", "raw"}, from : Seq(Bytes)]

\* f joins what lies in s up to each place.
IsFlat(f, s) ==
  /\ f \in [0 .. Len(s) -> Seq(Bytes)] /\ f[0] = <<>>
  /\ \A i \in 1 .. Len(s) : f[i] = f[i - 1] \o s[i]

LEMMA FlatExists ==
  ASSUME NEW s \in Seq(Seq(Bytes)) PROVE \E f : IsFlat(f, s)
<1> DEFINE n == Len(s)
           V == Seq(Bytes)
           G == [p \in (0 .. n) \X [0 .. n -> V] |->
                   IF p[1] = 0 THEN <<>> ELSE p[2][p[1] - 1] \o s[p[1]]]
<1>1. n \in Nat /\ <<>> \in V /\ \A i \in 1 .. n : s[i] \in V
  OBVIOUS
<1>2. \A u, v \in V : u \o v \in V
  OBVIOUS
<1> HIDE DEF n, V
<1>3. \A i \in 0 .. n, f \in [0 .. n -> V] :
        G[<<i, f>>] = IF i = 0 THEN <<>> ELSE f[i - 1] \o s[i]
  OBVIOUS
<1>4. G \in [(0 .. n) \X [0 .. n -> V] -> V]
  <2> SUFFICES ASSUME NEW i \in 0 .. n, NEW f \in [0 .. n -> V]
               PROVE  (IF i = 0 THEN <<>> ELSE f[i - 1] \o s[i]) \in V
    OBVIOUS
  <2>1. CASE i = 0
    BY <1>1, <2>1
  <2>2. CASE i # 0
    <3>1. i - 1 \in 0 .. n /\ i \in 1 .. n
      BY <1>1, <2>2
    <3>2. f[i - 1] \in V /\ s[i] \in V
      BY <1>1, <3>1
    <3> QED BY <1>2, <2>2, <3>2
  <2> QED BY <2>1, <2>2
<1> HIDE DEF G
<1>5. ASSUME NEW i \in 0 .. n, NEW f \in [0 .. n -> V], NEW g \in [0 .. n -> V],
             \A j \in 0 .. n : j < i => f[j] = g[j]
      PROVE  G[<<i, f>>] = G[<<i, g>>]
  <2>1. CASE i = 0
    BY <1>3, <2>1
  <2>2. CASE i # 0
    <3>1. i - 1 \in 0 .. n /\ i - 1 < i
      BY <1>1, <2>2
    <3>2. f[i - 1] = g[i - 1]
      BY <1>5, <3>1
    <3> QED BY <1>3, <2>2, <3>2
  <2> QED BY <2>1, <2>2
<1>6. PICK f \in [0 .. n -> V] : \A i \in 0 .. n : f[i] = G[<<i, f>>]
  <2>1. \A i \in 0 .. n : \A f, g \in [0 .. n -> V] :
            (\A j \in 0 .. n : j < i => f[j] = g[j]) => G[<<i, f>>] = G[<<i, g>>]
    BY <1>5
  <2>2. <<>> \in V
    BY <1>1
  <2>3. IsStep(G, n, V)
    BY <1>4, <2>1 DEF IsStep
  <2>4. n \in Nat
    BY <1>1
  <2> HIDE DEF G
  <2>5. HasFunction(G, n, V)
    BY <2>2, <2>3, <2>4, RecursionExists, Zenon
  <2> QED BY <2>5 DEF HasFunction
<1>7. f[0] = <<>>
  <2>1. 0 \in 0 .. n
    BY <1>1
  <2> QED BY <1>3, <1>6, <2>1
<1>8. \A i \in 1 .. n : f[i] = f[i - 1] \o s[i]
  <2> SUFFICES ASSUME NEW i \in 1 .. n PROVE f[i] = f[i - 1] \o s[i]
    OBVIOUS
  <2>1. i \in 0 .. n /\ i # 0
    BY <1>1
  <2> QED BY <1>3, <1>6, <2>1
<1> QED BY <1>6, <1>7, <1>8 DEF IsFlat, n, V

LEMMA FlatIs ==
  ASSUME NEW s \in Seq(Seq(Bytes)), NEW f, IsFlat(f, s)
  PROVE  FlattenSeq(s) = f[Len(s)]
<1> DEFINE n == Len(s)
           Def(h) == h = [i \in 1 .. n |-> IF i = 1 THEN s[i] ELSE h[i - 1] \o s[i]]
           g == CHOOSE h : Def(h)
<1>1. n \in Nat /\ f \in [0 .. n -> Seq(Bytes)] /\ f[0] = <<>>
      /\ \A i \in 1 .. n : f[i] = f[i - 1] \o s[i]
  <2>1. Len(s) \in Nat
    BY LenProperties
  <2> QED BY <2>1 DEF IsFlat
<1>2. CASE n = 0
  <2>1. s = <<>>
    BY <1>2
  <2> QED BY <1>1, <1>2, <2>1 DEF FlattenSeq
<1>3. CASE n # 0
  <2>1. FlattenSeq(s) = g[n]
    BY <1>3 DEF FlattenSeq
  <2> DEFINE h == [i \in 1 .. n |-> f[i]]
  <2>a. f[1] = s[1]
    <3>1. 1 \in 1 .. n /\ n - 0 = n /\ 1 - 1 = 0
      BY <1>1, <1>3
    <3>3. s[1] \in Seq(Bytes)
      BY <3>1, ElementOfSeq
    <3>4. f[1] = f[0] \o s[1]
      BY <1>1, <3>1
    <3>2. <<>> \o s[1] = s[1]
      BY <3>3
    <3> QED BY <1>1, <3>2, <3>4
  <2> HIDE DEF n
  <2>2. Def(h)
    <3> SUFFICES ASSUME NEW i \in 1 .. n
                 PROVE  f[i] = IF i = 1 THEN s[i] ELSE h[i - 1] \o s[i]
      OBVIOUS
    <3>1. CASE i = 1
      BY <2>a, <3>1
    <3>2. CASE i # 1
      <4>1. i - 1 \in 1 .. n
        BY <1>1, <3>2
      <4>2. h[i - 1] = f[i - 1]
        BY <4>1
      <4> QED BY <1>1, <3>2, <4>2
    <3> QED BY <3>1, <3>2
  <2>3. Def(g)
    BY <2>2
  <2> HIDE DEF g, h
  <2>4. \A i \in 1 .. n : g[i] = IF i = 1 THEN s[i] ELSE g[i - 1] \o s[i]
    BY <2>3
  <2> DEFINE Bad == {i \in 1 .. n : f[i] # g[i]}
  <2>5. Bad = {}
    <3> SUFFICES ASSUME Bad # {} PROVE FALSE
      OBVIOUS
    <3>1. PICK m \in Bad : \A k \in Bad : m <= k
      <4>1. Bad \subseteq Nat
        OBVIOUS
      <4> QED BY <4>1, NatMin
    <3>2. CASE m = 1
      BY <2>4, <2>a, <3>2
    <3>3. CASE m # 1
      <4>1. m - 1 \in 1 .. n /\ m - 1 \notin Bad
        BY <1>1, <3>1, <3>3
      <4>2. f[m - 1] = g[m - 1]
        BY <4>1
      <4>3. f[m] = g[m]
        BY <1>1, <2>4, <3>3, <4>2
      <4> QED BY <4>3
    <3> QED BY <3>2, <3>3
  <2>6. n \in 1 .. n
    BY <1>1, <1>3
  <2> QED BY <2>1, <2>5, <2>6 DEF n
<1> QED BY <1>2, <1>3

LEMMA BytesAssociate ==
  ASSUME NEW a \in Seq(Bytes), NEW b \in Seq(Bytes), NEW c \in Seq(Bytes)
  PROVE  (a \o b) \o c = a \o (b \o c)
BY ConcatAssociative

LEMMA FlatConcat ==
  ASSUME NEW a \in Seq(Seq(Bytes)), NEW b \in Seq(Seq(Bytes))
  PROVE  FlattenSeq(a \o b) = FlattenSeq(a) \o FlattenSeq(b)
<1> DEFINE n == Len(a)
           m == Len(b)
<1>1. n \in Nat /\ m \in Nat /\ a \o b \in Seq(Seq(Bytes)) /\ Len(a \o b) = n + m
      /\ (\A i \in 1 .. n : (a \o b)[i] = a[i]) /\ (\A i \in 1 .. m : (a \o b)[n + i] = b[i])
      /\ (\A i \in 1 .. m : b[i] \in Seq(Bytes))
  OBVIOUS
<1>2. PICK f : IsFlat(f, a \o b)
  BY <1>1, FlatExists
<1>3. PICK g : IsFlat(g, a)
  BY FlatExists
<1>4. PICK h : IsFlat(h, b)
  BY FlatExists
<1>5. FlattenSeq(a \o b) = f[n + m] /\ FlattenSeq(a) = g[n] /\ FlattenSeq(b) = h[m]
  BY <1>1, <1>2, <1>3, <1>4, FlatIs
<1> DEFINE c == a \o b
<1>6. f[0] = <<>> /\ \A i \in 1 .. n + m : f[i] = f[i - 1] \o c[i]
  <2>1. Len(c) = n + m
    BY <1>1
  <2> HIDE DEF c, n, m
  <2>2. IsFlat(f, c)
    BY <1>2 DEF c
  <2> QED BY <2>1, <2>2 DEF IsFlat
<1>7. g[0] = <<>> /\ (\A i \in 1 .. n : g[i] = g[i - 1] \o a[i]) /\ g[n] \in Seq(Bytes)
  <2>1. n \in 0 .. n
    BY <1>1
  <2> QED BY <1>3, <2>1 DEF IsFlat
<1>8. h[0] = <<>> /\ (\A i \in 1 .. m : h[i] = h[i - 1] \o b[i])
      /\ \A i \in 0 .. m : h[i] \in Seq(Bytes)
  BY <1>4 DEF IsFlat
<1>a. (\A i \in 1 .. n : c[i] = a[i]) /\ (\A i \in 1 .. m : c[n + i] = b[i])
  BY <1>1
<1> HIDE DEF n, m, c
<1>9. f[n] = g[n]
  <2> DEFINE Wrong == {i \in 0 .. n : f[i] # g[i]}
  <2>1. Wrong = {}
    <3> SUFFICES ASSUME Wrong # {} PROVE FALSE
      OBVIOUS
    <3>1. PICK k \in Wrong : \A j \in Wrong : k <= j
      <4>1. Wrong \subseteq Nat
        BY <1>1
      <4> QED BY <4>1, NatMin
    <3>2. k \in 0 .. n /\ f[k] # g[k]
      OBVIOUS
    <3>3. k # 0
      BY <1>6, <1>7, <3>2
    <3>4. k \in 1 .. n /\ k \in 1 .. n + m /\ k - 1 \in 0 .. n /\ ~ (k <= k - 1)
      BY <1>1, <3>2, <3>3
    <3>5. f[k - 1] = g[k - 1]
      BY <3>1, <3>4, Zenon
    <3>6. f[k] = f[k - 1] \o c[k] /\ g[k] = g[k - 1] \o a[k] /\ c[k] = a[k]
      BY <1>6, <1>7, <1>a, <3>4, Zenon
    <3> QED BY <3>2, <3>5, <3>6, Zenon
  <2>2. n \in 0 .. n
    BY <1>1
  <2> QED BY <2>1, <2>2
<1> DEFINE Bad == {i \in 0 .. m : f[n + i] # g[n] \o h[i]}
<1>10. Bad = {}
  <2> SUFFICES ASSUME Bad # {} PROVE FALSE
    OBVIOUS
  <2>1. PICK k \in Bad : \A j \in Bad : k <= j
    <3>1. 0 .. m \subseteq Nat
      BY <1>1
    <3>2. Bad \subseteq Nat
      BY <3>1, Zenon
    <3> QED BY <3>2, NatMin
  <2>2. k \in 0 .. m /\ f[n + k] # g[n] \o h[k]
    OBVIOUS
  <2>3. CASE k = 0
    <3>1. n + 0 = n /\ g[n] \o <<>> = g[n]
      BY <1>1, <1>7
    <3> QED BY <1>8, <1>9, <2>2, <2>3, <3>1
  <2>4. CASE k # 0
    <3>1. k - 1 \in 0 .. m /\ k \in 1 .. m /\ n + k \in 1 .. n + m /\ (n + k) - 1 = n + (k - 1)
      BY <1>1, <2>2, <2>4
    <3>2. ~ (k <= k - 1)
      BY <3>1
    <3>3. f[n + (k - 1)] = g[n] \o h[k - 1]
      BY <2>1, <3>1, <3>2, Zenon
    <3>8. c[n + k] = b[k]
      BY <1>a, <3>1, Zenon
    <3>9. n + k \in 1 .. n + m
      BY <3>1
    <3>10. \A i \in 1 .. n + m : f[i] = f[i - 1] \o c[i]
      BY <1>6
    <3>7. f[n + k] = f[(n + k) - 1] \o c[n + k]
      BY <3>9, <3>10, Zenon
    <3>4. f[n + k] = (g[n] \o h[k - 1]) \o b[k]
      BY <3>1, <3>3, <3>7, <3>8, Zenon
    <3>5. h[k - 1] \in Seq(Bytes) /\ b[k] \in Seq(Bytes) /\ h[k] = h[k - 1] \o b[k]
      BY <1>1, <1>8, <3>1
    <3>6. (g[n] \o h[k - 1]) \o b[k] = g[n] \o (h[k - 1] \o b[k])
      <4>1. g[n] \in Seq(Bytes) /\ h[k - 1] \in Seq(Bytes) /\ b[k] \in Seq(Bytes)
        BY <1>7, <3>5
      <4> QED BY <4>1, BytesAssociate, Zenon
    <3> QED BY <2>2, <3>4, <3>5, <3>6
  <2> QED BY <2>3, <2>4
<1>11. m \in 0 .. m
  BY <1>1
<1> QED BY <1>5, <1>9, <1>10, <1>11 DEF c

\* The bytes of each character handed on.
Froms(c) == [i \in DOMAIN c |-> c[i].from]

LEMMA FromsIs ==
  ASSUME NEW e \in Seq(Handed)
  PROVE  /\ Froms(e) \in Seq(Seq(Bytes)) /\ Len(Froms(e)) = Len(e)
         /\ \A i \in 1 .. Len(e) : Froms(e)[i] = e[i].from
<1>1. Len(e) \in Nat /\ DOMAIN e = 1 .. Len(e)
  OBVIOUS
<1>2. \A i \in 1 .. Len(e) : e[i] \in Handed
  OBVIOUS
<1>3. \A i \in 1 .. Len(e) : e[i].from \in Seq(Bytes)
  BY <1>2 DEF Handed
<1>4. Froms(e) = [i \in 1 .. Len(e) |-> e[i].from]
  BY <1>1 DEF Froms
<1> DEFINE n == Len(e)
           T == Seq(Bytes)
<1> HIDE DEF n, T
<1>5. Froms(e) \in [1 .. n -> T]
  BY <1>3, <1>4 DEF n, T
<1>6. n \in Nat
  BY <1>1 DEF n
<1>7. Froms(e) \in Seq(T) /\ Len(Froms(e)) = n
  BY <1>5, <1>6
<1> QED BY <1>4, <1>7 DEF n, T

LEMMA BytesOfJoined ==
  ASSUME NEW c \in Seq(Handed), NEW d \in Seq(Handed)
  PROVE  BytesOf(c \o d) = BytesOf(c) \o BytesOf(d)
<1>0. /\ c \o d \in Seq(Handed) /\ Len(c \o d) = Len(c) + Len(d)
      /\ Len(c) \in Nat /\ Len(d) \in Nat
      /\ \A i \in 1 .. Len(c) + Len(d) :
            (c \o d)[i] = IF i <= Len(c) THEN c[i] ELSE d[i - Len(c)]
  BY ConcatProperties
<1>1. /\ Froms(c \o d) \in Seq(Seq(Bytes)) /\ Len(Froms(c \o d)) = Len(c) + Len(d)
      /\ \A i \in 1 .. Len(c) + Len(d) : Froms(c \o d)[i] = (c \o d)[i].from
  BY <1>0, FromsIs
<1>a. /\ Froms(c) \in Seq(Seq(Bytes)) /\ Len(Froms(c)) = Len(c)
      /\ \A i \in 1 .. Len(c) : Froms(c)[i] = c[i].from
  BY FromsIs
<1>b. /\ Froms(d) \in Seq(Seq(Bytes)) /\ Len(Froms(d)) = Len(d)
      /\ \A i \in 1 .. Len(d) : Froms(d)[i] = d[i].from
  BY FromsIs
<1>2. Froms(c \o d) = Froms(c) \o Froms(d)
  <2> DEFINE u == Froms(c)
             v == Froms(d)
             w == Froms(c \o d)
             n == Len(c)
             m == Len(d)
  <2>1. /\ u \o v \in Seq(Seq(Bytes)) /\ Len(u \o v) = n + m
        /\ \A i \in 1 .. n + m : (u \o v)[i] = IF i <= n THEN u[i] ELSE v[i - n]
    <3> HIDE DEF u, v
    <3>1. u \in Seq(Seq(Bytes)) /\ v \in Seq(Seq(Bytes)) /\ Len(u) = n /\ Len(v) = m
      BY <1>a, <1>b DEF u, v
    <3>2. /\ u \o v \in Seq(Seq(Bytes)) /\ Len(u \o v) = Len(u) + Len(v)
          /\ \A i \in 1 .. Len(u) + Len(v) : (u \o v)[i] = IF i <= Len(u) THEN u[i] ELSE v[i - Len(u)]
      BY <3>1, ConcatProperties, ZenonT(60)
    <3> QED BY <3>1, <3>2
  <2>2. \A i \in 1 .. n + m : w[i] = (u \o v)[i]
    <3> SUFFICES ASSUME NEW i \in 1 .. n + m PROVE w[i] = (u \o v)[i]
      OBVIOUS
    <3>1. CASE i <= n
      <4>1. i \in 1 .. n
        BY <1>0, <3>1
      <4> QED BY <1>0, <1>1, <1>a, <2>1, <3>1, <4>1
    <3>2. CASE ~ (i <= n)
      <4>1. i - n \in 1 .. m
        BY <1>0, <3>2
      <4> QED BY <1>0, <1>1, <1>b, <2>1, <3>2, <4>1
    <3> QED BY <3>1, <3>2
  <2> HIDE DEF u, v, w
  <2>3. w \in Seq(Seq(Bytes)) /\ Len(w) = n + m
    BY <1>1 DEF w
  <2>4. w = u \o v
    BY <2>1, <2>2, <2>3, SeqEqual
  <2> QED BY <2>4 DEF u, v, w
<1>3. FlattenSeq(Froms(c) \o Froms(d)) = FlattenSeq(Froms(c)) \o FlattenSeq(Froms(d))
  BY <1>a, <1>b, FlatConcat
<1> QED BY <1>2, <1>3 DEF BytesOf, Froms

LEMMA BytesOfBytes ==
  ASSUME NEW c \in Seq(Handed) PROVE BytesOf(c) \in Seq(Bytes)
<1>1. Froms(c) \in Seq(Seq(Bytes)) /\ Len(Froms(c)) \in Nat
  BY FromsIs
<1>2. PICK f : IsFlat(f, Froms(c))
  BY <1>1, FlatExists
<1>3. FlattenSeq(Froms(c)) = f[Len(Froms(c))]
  BY <1>1, <1>2, FlatIs
<1>4. Len(Froms(c)) \in 0 .. Len(Froms(c))
  BY <1>1
<1>5. BytesOf(c) = FlattenSeq(Froms(c))
  BY DEF BytesOf, Froms
<1> QED BY <1>2, <1>3, <1>4, <1>5 DEF IsFlat

LEMMA BytesOfNone == BytesOf(<<>>) = <<>>
BY DEF BytesOf, FlattenSeq

LEMMA BytesOfOne ==
  ASSUME NEW c \in Handed PROVE BytesOf(<<c>>) = c.from
<1> DEFINE F == [i \in DOMAIN <<c>> |-> <<c>>[i].from]
           f == [i \in 0 .. 1 |-> IF i = 0 THEN <<>> ELSE c.from]
<1>1. F \in Seq(Seq(Bytes)) /\ Len(F) = 1 /\ F[1] = c.from /\ c.from \in Seq(Bytes)
  BY DEF Handed
<1>2. <<>> \o c.from = c.from
  BY <1>1
<1>3. IsFlat(f, F)
  BY <1>1, <1>2 DEF IsFlat
<1> QED BY <1>1, <1>3, FlatIs DEF BytesOf

LEMMA AsIsBytes ==
  ASSUME NEW b \in Seq(Bytes)
  PROVE  AsIs(b) \in Seq(Handed) /\ BytesOf(AsIs(b)) = b
<1> DEFINE n == Len(b)
           one(i) == Char("raw", <<b[i]>>)
<1>1. n \in Nat /\ DOMAIN b = 1 .. n /\ \A i \in 1 .. n : b[i] \in Bytes
  OBVIOUS
<1>2. \A i \in 1 .. n : one(i) \in Handed /\ one(i).from = <<b[i]>>
  <2>1. \A x \in Bytes : <<x>> \in Seq(Bytes)
    OBVIOUS
  <2> QED BY <1>1, <2>1 DEF Char, Handed
<1>3. AsIs(b) = [i \in 1 .. n |-> one(i)]
  BY <1>1 DEF AsIs
<1> HIDE DEF n, one
<1>4. AsIs(b) \in Seq(Handed) /\ Len(AsIs(b)) = n
  <2>1. AsIs(b) \in [1 .. n -> Handed]
    BY <1>2, <1>3
  <2> HIDE DEF Handed
  <2> QED BY <1>1, <2>1
<1>5. Froms(AsIs(b)) \in Seq(Seq(Bytes)) /\ Len(Froms(AsIs(b))) = n
      /\ \A i \in 1 .. n : Froms(AsIs(b))[i] = <<b[i]>>
  BY <1>2, <1>3, <1>4, FromsIs
<1> DEFINE f == [i \in 0 .. n |-> SubSeq(b, 1, i)]
<1>6. f \in [0 .. n -> Seq(Bytes)] /\ f[0] = <<>>
  BY DEF n
<1>7. \A i \in 1 .. n : SubSeq(b, 1, i) = SubSeq(b, 1, i - 1) \o <<b[i]>>
  BY DEF n
<1>8. \A i \in 1 .. n : f[i] = f[i - 1] \o Froms(AsIs(b))[i]
  <2> SUFFICES ASSUME NEW i \in 1 .. n PROVE f[i] = f[i - 1] \o Froms(AsIs(b))[i]
    OBVIOUS
  <2>1. i - 1 \in 0 .. n /\ i \in 0 .. n
    BY <1>1
  <2>2. f[i] = SubSeq(b, 1, i) /\ f[i - 1] = SubSeq(b, 1, i - 1)
    BY <2>1
  <2> QED BY <1>5, <1>7, <2>2
<1>9. SubSeq(b, 1, n) = b /\ n \in 0 .. n
  BY <1>1 DEF n
<1>10. f[n] = b
  BY <1>9
<1> HIDE DEF f
<1>11. IsFlat(f, Froms(AsIs(b)))
  BY <1>5, <1>6, <1>8 DEF IsFlat
<1>12. FlattenSeq(Froms(AsIs(b))) = b
  BY <1>5, <1>10, <1>11, FlatIs
<1> QED BY <1>4, <1>12 DEF BytesOf, Froms

\* What translate makes of the bytes from place i on, r being what it makes of
\* those after them.
Conversions == [out : Seq(Handed), tail : Seq(Bytes)]
Nothing == [out |-> <<>>, tail |-> <<>>]
Ends(x, i) == x[i + 1] = "lead" /\ i + 1 = Len(x)
Pair(x, i) == x[i + 1] = "lead" /\ i + 2 <= Len(x) /\ x[i + 2] = "trail"
Used(x, i) == IF Pair(x, i) THEN 2 ELSE 1
Given(x, i) == Char(IF x[i + 1] = "plain" \/ Pair(x, i) THEN "c" ELSE "?",
                    SubSeq(x, i + 1, i + Used(x, i)))
Took(x, i, r) ==
  IF Ends(x, i) THEN [out |-> <<>>, tail |-> <<"lead">>]
  ELSE [out |-> <<Given(x, i)>> \o r.out, tail |-> r.tail]

IsConv(f, x) ==
  /\ f \in [0 .. Len(x) -> Conversions] /\ f[Len(x)] = Nothing
  /\ \A i \in 0 .. Len(x) - 1 : f[i] = Took(x, i, f[i + Used(x, i)])

LEMMA UsedIs ==
  ASSUME NEW x \in Seq(Bytes), NEW i \in 0 .. Len(x) - 1
  PROVE  /\ Used(x, i) \in {1, 2} /\ i + Used(x, i) \in 0 .. Len(x)
         /\ x[i + 1] \in Bytes
<1>1. Len(x) \in Nat /\ i \in Nat /\ i + 1 \in 1 .. Len(x)
  OBVIOUS
<1>2. x[i + 1] \in Bytes
  BY <1>1
<1>3. CASE Pair(x, i)
  BY <1>1, <1>2, <1>3 DEF Used, Pair
<1>4. CASE ~ Pair(x, i)
  BY <1>1, <1>2, <1>4 DEF Used
<1> QED BY <1>3, <1>4

LEMMA GivenIs ==
  ASSUME NEW x \in Seq(Bytes), NEW i \in 0 .. Len(x) - 1
  PROVE  Given(x, i) \in Handed /\ Given(x, i).from = SubSeq(x, i + 1, i + Used(x, i))
<1>1. i + Used(x, i) \in 0 .. Len(x) /\ Len(x) \in Nat
  BY UsedIs
<1> DEFINE k == i + Used(x, i)
<1> HIDE DEF k
<1>2. SubSeq(x, i + 1, k) \in Seq(Bytes)
  <2>1. i + 1 \in Int /\ k \in Int /\ \A j \in i + 1 .. k : j \in 1 .. Len(x)
    BY <1>1 DEF k
  <2>2. \A j \in i + 1 .. k : x[j] \in Bytes
    BY <2>1
  <2> QED BY <2>1, <2>2, SubSeqProperties
<1> QED BY <1>2 DEF Given, Char, Handed, k

LEMMA NothingIs == Nothing \in Conversions /\ [out |-> <<>>, tail |-> <<"lead">>] \in Conversions
<1>1. <<>> \in Seq(Handed) /\ <<>> \in Seq(Bytes) /\ <<"lead">> \in Seq(Bytes)
  BY DEF Bytes
<1> QED BY <1>1 DEF Nothing, Conversions

LEMMA TookIs ==
  ASSUME NEW x \in Seq(Bytes), NEW i \in 0 .. Len(x) - 1, NEW r \in Conversions
  PROVE  Took(x, i, r) \in Conversions
<1>1. CASE Ends(x, i)
  BY <1>1, NothingIs DEF Took
<1>2. CASE ~ Ends(x, i)
  <2>1. Given(x, i) \in Handed
    BY GivenIs
  <2>2. r.out \in Seq(Handed) /\ r.tail \in Seq(Bytes)
    BY DEF Conversions
  <2>3. <<Given(x, i)>> \o r.out \in Seq(Handed)
    BY <2>1, <2>2
  <2> QED BY <1>2, <2>2, <2>3 DEF Took, Conversions
<1> QED BY <1>1, <1>2

LEMMA ConvExists ==
  ASSUME NEW x \in Seq(Bytes) PROVE \E f : IsConv(f, x)
<1> DEFINE n == Len(x)
           V == Conversions
           G == [p \in (0 .. n) \X [0 .. n -> V] |->
                   IF p[1] = 0 THEN Nothing
                   ELSE Took(x, n - p[1], p[2][p[1] - Used(x, n - p[1])])]
<1>1. n \in Nat /\ Nothing \in V
  BY NothingIs
<1>2. \A j \in 0 .. n : j # 0 =>
        /\ n - j \in 0 .. n - 1 /\ j - Used(x, n - j) \in 0 .. n /\ j - Used(x, n - j) < j
  <2> SUFFICES ASSUME NEW j \in 0 .. n, j # 0
               PROVE  /\ n - j \in 0 .. n - 1 /\ j - Used(x, n - j) \in 0 .. n
                      /\ j - Used(x, n - j) < j
    OBVIOUS
  <2>1. n - j \in 0 .. n - 1
    BY <1>1
  <2>2. Used(x, n - j) \in {1, 2} /\ (n - j) + Used(x, n - j) \in 0 .. n
    BY <2>1, UsedIs
  <2> HIDE DEF n
  <2> QED BY <1>1, <2>1, <2>2
<1>3. \A j \in 0 .. n, f \in [0 .. n -> V] :
        G[<<j, f>>] = IF j = 0 THEN Nothing ELSE Took(x, n - j, f[j - Used(x, n - j)])
  OBVIOUS
<1>4. G \in [(0 .. n) \X [0 .. n -> V] -> V]
  <2> SUFFICES ASSUME NEW j \in 0 .. n, NEW f \in [0 .. n -> V]
               PROVE  (IF j = 0 THEN Nothing ELSE Took(x, n - j, f[j - Used(x, n - j)])) \in V
    OBVIOUS
  <2>1. CASE j = 0
    BY <1>1, <2>1
  <2>2. CASE j # 0
    <3>1. n - j \in 0 .. n - 1 /\ f[j - Used(x, n - j)] \in V
      BY <1>2, <2>2
    <3>2. Took(x, n - j, f[j - Used(x, n - j)]) \in V
      BY <3>1, TookIs
    <3> QED BY <2>2, <3>2
  <2> QED BY <2>1, <2>2
<1> HIDE DEF G, V
<1>5. ASSUME NEW j \in 0 .. n, NEW f \in [0 .. n -> V], NEW g \in [0 .. n -> V],
             \A k \in 0 .. n : k < j => f[k] = g[k]
      PROVE  G[<<j, f>>] = G[<<j, g>>]
  <2>1. CASE j = 0
    BY <1>3, <2>1
  <2>2. CASE j # 0
    <3>1. f[j - Used(x, n - j)] = g[j - Used(x, n - j)]
      BY <1>2, <1>5, <2>2
    <3> QED BY <1>3, <2>2, <3>1
  <2> QED BY <2>1, <2>2
<1>6. PICK h \in [0 .. n -> V] : \A j \in 0 .. n : h[j] = G[<<j, h>>]
  <2>1. \A i \in 0 .. n : \A f, g \in [0 .. n -> V] :
            (\A j \in 0 .. n : j < i => f[j] = g[j]) => G[<<i, f>>] = G[<<i, g>>]
    BY <1>5
  <2>2. Nothing \in V
    BY <1>1
  <2>3. IsStep(G, n, V)
    BY <1>4, <2>1 DEF IsStep
  <2>4. n \in Nat
    BY <1>1
  <2>5. HasFunction(G, n, V)
    BY <2>2, <2>3, <2>4, RecursionExists, Zenon
  <2> QED BY <2>5 DEF HasFunction
<1> DEFINE f == [i \in 0 .. n |-> h[n - i]]
<1>7. \A i \in 0 .. n : n - i \in 0 .. n
  BY <1>1
<1>8. f \in [0 .. n -> V]
  BY <1>7
<1>9. f[n] = Nothing
  <2>1. n \in 0 .. n /\ n - n = 0 /\ 0 \in 0 .. n
    BY <1>1
  <2> QED BY <1>3, <1>6, <2>1
<1>10. \A i \in 0 .. n - 1 : f[i] = Took(x, i, f[i + Used(x, i)])
  <2> SUFFICES ASSUME NEW i \in 0 .. n - 1 PROVE f[i] = Took(x, i, f[i + Used(x, i)])
    OBVIOUS
  <2>1. i \in 0 .. n /\ n - i \in 0 .. n /\ n - i # 0 /\ n - (n - i) = i
    BY <1>1
  <2>2. Used(x, i) \in {1, 2} /\ i + Used(x, i) \in 0 .. n
    BY UsedIs
  <2> DEFINE u == Used(x, i)
  <2>3. h[n - i] = Took(x, i, h[(n - i) - u])
    BY <1>3, <1>6, <2>1
  <2> HIDE DEF u
  <2>4. (n - i) - u = n - (i + u)
    BY <1>1, <2>1, <2>2 DEF u
  <2>5. f[i + u] = h[n - (i + u)] /\ f[i] = h[n - i]
    BY <2>1, <2>2 DEF u
  <2>6. f[i] = Took(x, i, f[i + u])
    BY <2>3, <2>4, <2>5
  <2> QED BY <2>6 DEF u
<1> QED BY <1>8, <1>9, <1>10 DEF IsConv, V

\* The bytes from a place on, and what one call of iconv makes of them.
LEMMA RestIs ==
  ASSUME NEW x \in Seq(Bytes), NEW i \in 0 .. Len(x)
  PROVE  /\ Rest(x, i) \in Seq(Bytes) /\ Len(Rest(x, i)) = Len(x) - i
         /\ \A j \in 1 .. Len(x) - i : Rest(x, i)[j] = x[i + j]
         /\ \A n \in 0 .. Len(x) - i : SubSeq(Rest(x, i), 1, n) = SubSeq(x, i + 1, i + n)
<1>1. Len(x) \in Nat /\ i \in Nat /\ i + 1 \in Int /\ Len(x) \in Int
  OBVIOUS
<1>2. \A j \in i + 1 .. Len(x) : x[j] \in Bytes
  BY <1>1, ElementOfSeq
<1> DEFINE y == SubSeq(x, i + 1, Len(x))
<1>3. /\ y \in Seq(Bytes)
      /\ Len(y) = IF i + 1 <= Len(x) THEN Len(x) - (i + 1) + 1 ELSE 0
      /\ \A j \in 1 .. Len(x) - (i + 1) + 1 : y[j] = x[(i + 1) + j - 1]
  BY <1>1, <1>2, SubSeqProperties
<1> HIDE DEF y
<1>4. Len(y) = Len(x) - i
  BY <1>1, <1>3
<1>5. \A j \in 1 .. Len(x) - i : y[j] = x[i + j]
  <2> SUFFICES ASSUME NEW j \in 1 .. Len(x) - i PROVE y[j] = x[i + j]
    OBVIOUS
  <2>1. j \in 1 .. Len(x) - (i + 1) + 1 /\ (i + 1) + j - 1 = i + j
    BY <1>1
  <2> QED BY <1>3, <2>1
<1>6. ASSUME NEW n \in 0 .. Len(x) - i
      PROVE  SubSeq(y, 1, n) = SubSeq(x, i + 1, i + n)
  <2>1. n \in Int /\ i + n \in Int /\ n >= 0 /\ 1 \in Int
    BY <1>1
  <2>2. (\A j \in 1 .. n : y[j] \in Bytes) /\ (\A j \in i + 1 .. i + n : x[j] \in Bytes)
    BY <1>1, <1>2, <1>3, <1>4, ElementOfSeq
  <2> DEFINE u == SubSeq(y, 1, n)
             v == SubSeq(x, i + 1, i + n)
  <2>3. u \in Seq(Bytes) /\ Len(u) = n /\ \A j \in 1 .. n : u[j] = y[j]
    <3>1. /\ u \in Seq(Bytes) /\ Len(u) = IF 1 <= n THEN n - 1 + 1 ELSE 0
          /\ \A j \in 1 .. n - 1 + 1 : u[j] = y[1 + j - 1]
      BY <2>1, <2>2, SubSeqProperties
    <3> HIDE DEF u
    <3>2. \A j \in 1 .. n : j \in 1 .. n - 1 + 1 /\ 1 + j - 1 = j
      BY <2>1
    <3> QED BY <2>1, <3>1, <3>2
  <2>4. v \in Seq(Bytes) /\ Len(v) = n /\ \A j \in 1 .. n : v[j] = x[i + j]
    <3>1. /\ v \in Seq(Bytes) /\ Len(v) = IF i + 1 <= i + n THEN (i + n) - (i + 1) + 1 ELSE 0
          /\ \A j \in 1 .. (i + n) - (i + 1) + 1 : v[j] = x[(i + 1) + j - 1]
      BY <1>1, <2>1, <2>2, SubSeqProperties
    <3> HIDE DEF v
    <3>2. \A j \in 1 .. n : j \in 1 .. (i + n) - (i + 1) + 1 /\ (i + 1) + j - 1 = i + j
      BY <1>1, <2>1
    <3> QED BY <1>1, <2>1, <3>1, <3>2
  <2> HIDE DEF u, v
  <2>5. \A j \in 1 .. n : u[j] = v[j]
    <3>1. \A j \in 1 .. n : j \in 1 .. Len(x) - i
      BY <1>1
    <3> QED BY <1>5, <2>3, <2>4, <3>1
  <2>6. u = v
    BY <2>3, <2>4, <2>5, SeqEqual
  <2> QED BY <2>6 DEF u, v
<1> QED BY <1>3, <1>4, <1>5, <1>6 DEF y, Rest

LEMMA StepIs ==
  ASSUME NEW x \in Seq(Bytes), NEW i \in 0 .. Len(x) - 1
  PROVE  Step(Rest(x, i)) =
           IF x[i + 1] = "plain" THEN [kind |-> "char", used |-> 1]
           ELSE IF Ends(x, i) THEN [kind |-> "unfinished", used |-> 1]
           ELSE IF Pair(x, i) THEN [kind |-> "char", used |-> 2]
           ELSE [kind |-> "illegal", used |-> 1]
<1> DEFINE y == Rest(x, i)
<1>1. Len(x) \in Nat /\ i \in Nat /\ i \in 0 .. Len(x)
  OBVIOUS
<1>2. Len(y) = Len(x) - i /\ \A j \in 1 .. Len(x) - i : y[j] = x[i + j]
  BY <1>1, RestIs
<1> HIDE DEF y
<1>3. y[1] = x[i + 1]
  BY <1>1, <1>2
<1>4. i + 2 <= Len(x) => y[2] = x[i + 2]
  BY <1>1, <1>2
<1>5. (Len(y) = 1 <=> i + 1 = Len(x)) /\ (Len(y) = 1 \/ i + 2 <= Len(x))
      /\ ~ (i + 1 = Len(x) /\ i + 2 <= Len(x))
  BY <1>1, <1>2
<1>6. CASE x[i + 1] = "plain"
  BY <1>3, <1>6 DEF Step, y
<1>7. CASE x[i + 1] # "plain" /\ x[i + 1] # "lead"
  BY <1>3, <1>7 DEF Step, y, Ends, Pair
<1>8. CASE x[i + 1] = "lead"
  <2>1. CASE Len(y) = 1
    BY <1>3, <1>5, <1>8, <2>1 DEF Step, y, Ends
  <2>2. CASE Len(y) # 1
    BY <1>3, <1>4, <1>5, <1>8, <2>2 DEF Step, y, Ends, Pair
  <2> QED BY <2>1, <2>2
<1> QED BY <1>6, <1>7, <1>8

\* The body of the loop, with the result of the later ones in g.
Body(g, x, i) ==
  IF i = Len(x) THEN [out |-> <<>>, tail |-> <<>>]
  ELSE LET s == Step(Rest(x, i))
           n == IF s.kind = "illegal" THEN Skipped(Rest(x, i)) ELSE s.used
           then == g[i + n]
       IN  CASE s.kind = "unfinished" -> [out |-> <<>>, tail |-> Rest(x, i)]
             [] s.kind = "illegal" ->
                  [then EXCEPT !.out = <<Char("?", Upto(Rest(x, i), 1))>> \o @]
             [] OTHER ->
                  [then EXCEPT !.out = <<Char("c", Upto(Rest(x, i), s.used))>> \o @]

LEMMA OutExcept ==
  ASSUME NEW r \in Conversions, NEW o
  PROVE  [r EXCEPT !.out = o] = [out |-> o, tail |-> r.tail]
<1>1. r = [out |-> r.out, tail |-> r.tail]
  BY DEF Conversions
<1> QED BY <1>1

LEMMA BodyIs ==
  ASSUME NEW x \in Seq(Bytes), NEW i \in 0 .. Len(x) - 1, NEW g,
         g[i + Used(x, i)] \in Conversions
  PROVE  Body(g, x, i) = Took(x, i, g[i + Used(x, i)])
<1> DEFINE y == Rest(x, i)
           s == Step(y)
           r == g[i + Used(x, i)]
<1>1. Len(x) \in Nat /\ i \in Nat /\ i \in 0 .. Len(x) /\ i # Len(x) /\ Used(x, i) \in {1, 2}
      /\ i + Used(x, i) \in 0 .. Len(x)
  BY UsedIs
<1>2. s = IF x[i + 1] = "plain" THEN [kind |-> "char", used |-> 1]
          ELSE IF Ends(x, i) THEN [kind |-> "unfinished", used |-> 1]
          ELSE IF Pair(x, i) THEN [kind |-> "char", used |-> 2]
          ELSE [kind |-> "illegal", used |-> 1]
  BY StepIs
<1>3. Upto(y, Used(x, i)) = SubSeq(x, i + 1, i + Used(x, i))
  <2>1. Used(x, i) \in 0 .. Len(x) - i
    BY <1>1
  <2> QED BY <1>1, <2>1, RestIs DEF Upto
<1>4. Skipped(y) = 1
  BY DEF Skipped
<1>5. r \in Conversions
  OBVIOUS
<1>6. \A o : [r EXCEPT !.out = o] = [out |-> o, tail |-> r.tail]
  BY <1>5, OutExcept
<1>7. CASE Ends(x, i)
  <2>1. s.kind = "unfinished"
    BY <1>2, <1>7 DEF Ends
  <2>2. y = <<"lead">>
    <3>1. y \in Seq(Bytes) /\ Len(y) = Len(x) - i /\ \A j \in 1 .. Len(x) - i : y[j] = x[i + j]
      BY <1>1, RestIs
    <3> HIDE DEF y
    <3>2. Len(x) - i = 1
      BY <1>1, <1>7 DEF Ends
    <3>3. Len(y) = 1 /\ y[1] = "lead"
      BY <1>7, <3>1, <3>2 DEF Ends
    <3> QED BY <3>1, <3>3
  <2> HIDE DEF y, s
  <2>3. Body(g, x, i) = [out |-> <<>>, tail |-> y]
    BY <1>1, <2>1 DEF Body, s, y
  <2> QED BY <1>7, <2>2, <2>3 DEF Took
<1>8. CASE ~ Ends(x, i) /\ (x[i + 1] = "plain" \/ Pair(x, i))
  <2>1. s.kind = "char" /\ s.used = Used(x, i)
    BY <1>2, <1>8 DEF Used, Pair
  <2>2. Given(x, i) = Char("c", Upto(y, Used(x, i)))
    BY <1>3, <1>8 DEF Given
  <2> HIDE DEF s, y
  <2>3. Body(g, x, i) = [g[i + s.used] EXCEPT !.out = <<Char("c", Upto(y, s.used))>> \o @]
    BY <1>1, <2>1 DEF Body, s, y
  <2>4. Body(g, x, i) = [r EXCEPT !.out = <<Given(x, i)>> \o r.out]
    BY <2>1, <2>2, <2>3
  <2> HIDE DEF r
  <2>5. Body(g, x, i) = [out |-> <<Given(x, i)>> \o r.out, tail |-> r.tail]
    BY <1>6, <2>4
  <2> QED BY <1>8, <2>5 DEF Took, r
<1>9. CASE ~ Ends(x, i) /\ ~ (x[i + 1] = "plain" \/ Pair(x, i))
  <2>1. s.kind = "illegal" /\ Used(x, i) = 1
    BY <1>2, <1>9 DEF Used
  <2>2. Given(x, i) = Char("?", Upto(y, 1))
    BY <1>3, <1>9, <2>1 DEF Given
  <2> HIDE DEF s, y
  <2>3. Body(g, x, i) = [g[i + 1] EXCEPT !.out = <<Char("?", Upto(y, 1))>> \o @]
    BY <1>1, <1>4, <2>1 DEF Body, s, y
  <2>4. Body(g, x, i) = [r EXCEPT !.out = <<Given(x, i)>> \o r.out]
    BY <2>1, <2>2, <2>3
  <2> HIDE DEF r
  <2>5. Body(g, x, i) = [out |-> <<Given(x, i)>> \o r.out, tail |-> r.tail]
    BY <1>6, <2>4
  <2> QED BY <1>9, <2>5 DEF Took, r
<1> QED BY <1>7, <1>8, <1>9

LEMMA ConvertedIs ==
  ASSUME NEW x \in Seq(Bytes), NEW f, IsConv(f, x)
  PROVE  Converted(x) = f[0]
<1> DEFINE n == Len(x)
           Def(h) == h = [i \in 0 .. n |-> Body(h, x, i)]
           g == CHOOSE h : Def(h)
<1>1. Converted(x) = g[0]
  BY DEF Converted, Body
<1>2. /\ n \in Nat /\ f \in [0 .. n -> Conversions] /\ f[n] = Nothing
      /\ \A i \in 0 .. n - 1 : f[i] = Took(x, i, f[i + Used(x, i)])
  BY LenProperties DEF IsConv
<1>3. \A i \in 0 .. n - 1 : i + Used(x, i) \in 0 .. n /\ Used(x, i) \in {1, 2}
  BY UsedIs
<1>4. \A h : Body(h, x, n) = Nothing
  BY DEF Body, Nothing
<1>5. ASSUME NEW i \in 0 .. n - 1, NEW h, h[i + Used(x, i)] = f[i + Used(x, i)]
      PROVE  Body(h, x, i) = f[i]
  <2>1. h[i + Used(x, i)] \in Conversions
    BY <1>2, <1>3, <1>5
  <2>2. Body(h, x, i) = Took(x, i, h[i + Used(x, i)])
    BY <2>1, BodyIs
  <2> QED BY <1>2, <1>5, <2>2
<1> HIDE DEF n
<1>6. Def(f)
  <2>1. \A i \in 0 .. n : f[i] = Body(f, x, i)
    <3> SUFFICES ASSUME NEW i \in 0 .. n PROVE f[i] = Body(f, x, i)
      OBVIOUS
    <3>1. CASE i = n
      BY <1>2, <1>4, <3>1
    <3>2. CASE i # n
      <4>1. i \in 0 .. n - 1
        BY <1>2, <3>2
      <4> QED BY <1>5, <4>1
    <3> QED BY <3>1, <3>2
  <2> QED BY <1>2, <2>1
<1>7. Def(g)
  BY <1>6
<1> HIDE DEF g
<1>8. \A i \in 0 .. n : g[i] = Body(g, x, i)
  BY <1>7
<1> DEFINE Bad == {j \in 0 .. n : g[n - j] # f[n - j]}
<1>9. Bad = {}
  <2> SUFFICES ASSUME Bad # {} PROVE FALSE
    OBVIOUS
  <2>1. PICK m \in Bad : \A k \in Bad : m <= k
    <3>1. 0 .. n \subseteq Nat
      BY <1>2
    <3>2. Bad \subseteq Nat
      BY <3>1, Zenon
    <3> QED BY <3>2, NatMin
  <2>2. m \in 0 .. n /\ g[n - m] # f[n - m]
    OBVIOUS
  <2> DEFINE i == n - m
  <2>3. i \in 0 .. n /\ m = n - i
    BY <1>2, <2>2
  <2>4. CASE m = 0
    <3>1. i = n
      BY <1>2, <2>4
    <3> QED BY <1>2, <1>4, <1>8, <2>2, <2>3, <3>1
  <2>5. CASE m # 0
    <3>1. i \in 0 .. n - 1
      BY <1>2, <2>3, <2>5
    <3> DEFINE k == i + Used(x, i)
    <3>2. k \in 0 .. n /\ k > i
      BY <1>2, <1>3, <2>3, <3>1
    <3> HIDE DEF k, i
    <3>3. n - k \in 0 .. n /\ ~ (m <= n - k) /\ n - (n - k) = k
      BY <1>2, <2>3, <3>2
    <3>4. g[k] = f[k]
      BY <2>1, <3>3, Zenon
    <3>5. Body(g, x, i) = f[i]
      BY <1>5, <3>1, <3>4 DEF k
    <3> QED BY <1>8, <2>2, <2>3, <3>5 DEF i
  <2> QED BY <2>4, <2>5
<1>10. g[0] = f[0]
  <2>1. n \in 0 .. n /\ n - n = 0
    BY <1>2
  <2> QED BY <1>9, <2>1
<1> QED BY <1>1, <1>10

\* Every byte is handed on or kept.
LEMMA ConvKeeps ==
  ASSUME NEW x \in Seq(Bytes), NEW f, IsConv(f, x)
  PROVE  \A i \in 0 .. Len(x) :
           /\ BytesOf(f[i].out) \o f[i].tail = SubSeq(x, i + 1, Len(x))
           /\ f[i].tail \in {<<>>, <<"lead">>}
<1> DEFINE n == Len(x)
           Good(i) == /\ BytesOf(f[i].out) \o f[i].tail = SubSeq(x, i + 1, n)
                      /\ f[i].tail \in {<<>>, <<"lead">>}
           Bad == {j \in 0 .. n : ~ Good(n - j)}
<1>1. /\ n \in Nat /\ f \in [0 .. n -> Conversions] /\ f[n] = Nothing
      /\ \A i \in 0 .. n - 1 : f[i] = Took(x, i, f[i + Used(x, i)])
  BY LenProperties DEF IsConv
<1>2. Good(n)
  <2>1. f[n].out = <<>> /\ f[n].tail = <<>>
    BY <1>1 DEF Nothing
  <2>2. SubSeq(x, n + 1, n) = <<>>
    BY <1>1, SubSeqEmpty
  <2>3. <<>> \o <<>> = <<>>
    OBVIOUS
  <2> QED BY <2>1, <2>2, <2>3, BytesOfNone
<1>3. ASSUME NEW i \in 0 .. n - 1, Good(i + Used(x, i)) PROVE Good(i)
  <2> DEFINE k == i + Used(x, i)
             r == f[k]
  <2>1. k \in 0 .. n /\ i \in 0 .. n /\ i < k /\ r \in Conversions
    <3>1. Used(x, i) \in {1, 2} /\ k \in 0 .. n
      BY UsedIs
    <3> QED BY <1>1, <3>1
  <2>2. r.out \in Seq(Handed) /\ r.tail \in Seq(Bytes)
    BY <2>1 DEF Conversions
  <2>3. f[i] = Took(x, i, r)
    BY <1>1
  <2>4. CASE Ends(x, i)
    <3>1. f[i].out = <<>> /\ f[i].tail = <<"lead">>
      BY <2>3, <2>4 DEF Took
    <3>2. i + 1 = n /\ x[i + 1] = "lead"
      BY <2>4 DEF Ends
    <3>3. SubSeq(x, i + 1, n) = <<"lead">>
      <4>1. n \in 1 .. Len(x)
        BY <1>1, <3>2
      <4> DEFINE u == SubSeq(x, n, n)
      <4>3. u \in Seq(Bytes) /\ Len(u) = 1 /\ u[1] = x[n]
        <5>1. n \in Int /\ n \in Nat /\ \A j \in n .. n : x[j] \in Bytes
          BY <4>1, ElementOfSeq
        <5>2. /\ u \in Seq(Bytes) /\ Len(u) = IF n <= n THEN n - n + 1 ELSE 0
              /\ \A j \in 1 .. n - n + 1 : u[j] = x[n + j - 1]
          BY <5>1, SubSeqProperties
        <5> HIDE DEF u
        <5>3. n <= n /\ n - n + 1 = 1 /\ 1 \in 1 .. n - n + 1 /\ n + 1 - 1 = n
          BY <5>1
        <5> QED BY <5>2, <5>3
      <4> HIDE DEF u
      <4>2. u = <<x[n]>>
        BY <4>3
      <4> QED BY <3>2, <4>2 DEF u
    <3>4. <<>> \o <<"lead">> = <<"lead">>
      OBVIOUS
    <3> QED BY <3>1, <3>3, <3>4, BytesOfNone
  <2>5. CASE ~ Ends(x, i)
    <3> DEFINE g == Given(x, i)
    <3>1. f[i].out = <<g>> \o r.out /\ f[i].tail = r.tail
      BY <2>3, <2>5 DEF Took
    <3>2. g \in Handed /\ g.from = SubSeq(x, i + 1, k)
      BY GivenIs
    <3> HIDE DEF g, r
    <3>3. <<g>> \in Seq(Handed) /\ BytesOf(<<g>>) = g.from /\ g.from \in Seq(Bytes)
          /\ BytesOf(r.out) \in Seq(Bytes)
      <4>1. g.from \in Seq(Bytes)
        BY <3>2 DEF Handed
      <4>2. <<g>> \in Seq(Handed)
        <5> HIDE DEF Handed
        <5> QED BY <3>2
      <4>3. BytesOf(<<g>>) = g.from
        BY <3>2, BytesOfOne
      <4>4. BytesOf(r.out) \in Seq(Bytes)
        BY <2>2, BytesOfBytes
      <4> QED BY <4>1, <4>2, <4>3, <4>4
    <3>4. BytesOf(<<g>> \o r.out) = g.from \o BytesOf(r.out)
      BY <2>2, <3>3, BytesOfJoined
    <3>5. (g.from \o BytesOf(r.out)) \o r.tail = g.from \o (BytesOf(r.out) \o r.tail)
      BY <2>2, <3>3, BytesAssociate
    <3>6. BytesOf(r.out) \o r.tail = SubSeq(x, k + 1, n) /\ r.tail \in {<<>>, <<"lead">>}
      BY <1>3 DEF r
    <3> HIDE DEF k
    <3>7. SubSeq(x, i + 1, k) \o SubSeq(x, k + 1, n) = SubSeq(x, i + 1, n)
      <4>1. i + 1 \in 1 .. Len(x) + 1 /\ k \in (i + 1) - 1 .. Len(x) /\ n \in k .. Len(x)
        BY <1>1, <2>1
      <4> QED BY <4>1, ConcatAdjacentSubSeq
    <3> QED BY <3>1, <3>2, <3>4, <3>5, <3>6, <3>7
  <2> QED BY <2>4, <2>5
<1> HIDE DEF n, Good
<1>4. Bad = {}
  <2> SUFFICES ASSUME Bad # {} PROVE FALSE
    OBVIOUS
  <2>1. PICK m \in Bad : \A k \in Bad : m <= k
    <3>1. 0 .. n \subseteq Nat
      BY <1>1
    <3>2. Bad \subseteq Nat
      BY <3>1, Zenon
    <3> QED BY <3>2, NatMin
  <2>2. m \in 0 .. n /\ ~ Good(n - m)
    OBVIOUS
  <2> DEFINE i == n - m
  <2>3. i \in 0 .. n /\ m = n - i
    BY <1>1, <2>2
  <2>4. m # 0
    <3>1. n - 0 = n
      BY <1>1
    <3> QED BY <1>2, <2>2, <3>1
  <2>5. i \in 0 .. n - 1
    BY <1>1, <2>3, <2>4
  <2> DEFINE k == i + Used(x, i)
  <2>6. k \in 0 .. n /\ k > i
    <3>1. Used(x, i) \in {1, 2} /\ k \in 0 .. n
      BY <2>5, UsedIs DEF n
    <3> QED BY <2>3, <3>1
  <2> HIDE DEF k, i
  <2>7. n - k \in 0 .. n /\ ~ (m <= n - k) /\ n - (n - k) = k
    BY <1>1, <2>3, <2>6
  <2>8. Good(k)
    BY <2>1, <2>7, Zenon
  <2>9. Good(i)
    BY <1>3, <2>5, <2>8 DEF k
  <2> QED BY <2>2, <2>9 DEF i
<1>5. \A i \in 0 .. n : Good(i)
  <2> SUFFICES ASSUME NEW i \in 0 .. n PROVE Good(i)
    OBVIOUS
  <2>1. n - i \in 0 .. n /\ n - (n - i) = i
    BY <1>1
  <2> QED BY <1>4, <2>1, Zenon
<1> QED BY <1>5 DEF n, Good

LEMMA ConvertedKeeps ==
  ASSUME NEW x \in Seq(Bytes)
  PROVE  /\ Converted(x).out \in Seq(Handed) /\ Converted(x).tail \in {<<>>, <<"lead">>}
         /\ BytesOf(Converted(x).out) \o Converted(x).tail = x
         /\ Converted(x) = [out |-> Converted(x).out, tail |-> Converted(x).tail]
<1>1. PICK f : IsConv(f, x)
  BY ConvExists
<1>2. Converted(x) = f[0]
  BY <1>1, ConvertedIs
<1>3. 0 \in 0 .. Len(x) /\ 0 + 1 = 1
  BY LenProperties
<1>4. f[0] \in Conversions
  BY <1>1, <1>3 DEF IsConv
<1>5. SubSeq(x, 0 + 1, Len(x)) = x
  BY SubSeqFull
<1>6. BytesOf(f[0].out) \o f[0].tail = x /\ f[0].tail \in {<<>>, <<"lead">>}
  BY <1>1, <1>3, <1>5, ConvKeeps
<1> QED BY <1>2, <1>4, <1>6 DEF Conversions

\* What is made of the last bytes does not depend on those before.
LEMMA ConvRest ==
  ASSUME NEW x \in Seq(Bytes), NEW p \in 0 .. Len(x), NEW f, IsConv(f, x)
  PROVE  Converted(Rest(x, p)) = f[p]
<1> DEFINE y == Rest(x, p)
           n == Len(x)
           m == Len(y)
<1>1. n \in Nat /\ p \in Nat /\ m = n - p /\ m \in Nat /\ y \in Seq(Bytes)
      /\ \A j \in 1 .. m : y[j] = x[p + j]
  BY RestIs
<1>2. PICK g : IsConv(g, y)
  BY <1>1, ConvExists
<1>3. Converted(y) = g[0]
  BY <1>1, <1>2, ConvertedIs
<1>4. /\ f \in [0 .. n -> Conversions] /\ f[n] = Nothing
      /\ \A i \in 0 .. n - 1 : f[i] = Took(x, i, f[i + Used(x, i)])
  BY DEF IsConv
<1>5. /\ g \in [0 .. m -> Conversions] /\ g[m] = Nothing
      /\ \A i \in 0 .. m - 1 : g[i] = Took(y, i, g[i + Used(y, i)])
  BY <1>2 DEF IsConv
<1>6. ASSUME NEW j \in 0 .. m - 1
      PROVE  /\ Used(y, j) = Used(x, p + j) /\ j + Used(y, j) \in 0 .. m
             /\ Used(y, j) \in {1, 2}
             /\ \A r : Took(y, j, r) = Took(x, p + j, r)
  <2>1. /\ y[j + 1] = x[(p + j) + 1] /\ (j + 1 = m <=> (p + j) + 1 = n)
        /\ (j + 2 <= m <=> (p + j) + 2 <= n)
        /\ (j + 2 <= m => y[j + 2] = x[(p + j) + 2])
    <3>1. j + 1 \in 1 .. m /\ p + (j + 1) = (p + j) + 1
      BY <1>1
    <3>2. j + 2 <= m => j + 2 \in 1 .. m /\ p + (j + 2) = (p + j) + 2
      BY <1>1
    <3>3. (j + 1 = m <=> (p + j) + 1 = n) /\ (j + 2 <= m <=> (p + j) + 2 <= n)
      BY <1>1
    <3>4. \A i \in 1 .. m : y[i] = x[p + i]
      BY <1>1
    <3> HIDE DEF y, m, n
    <3>7. j + 1 \in 1 .. m
      BY <3>1
    <3>8. y[j + 1] = x[p + (j + 1)]
      BY <3>4, <3>7, Zenon
    <3>5. y[j + 1] = x[(p + j) + 1]
      BY <3>1, <3>8
    <3>6. ASSUME j + 2 <= m PROVE y[j + 2] = x[(p + j) + 2]
      <4>1. j + 2 \in 1 .. m
        BY <3>2, <3>6
      <4>2. y[j + 2] = x[p + (j + 2)]
        BY <3>4, <4>1, Zenon
      <4> QED BY <3>2, <3>6, <4>2
    <3> QED BY <3>3, <3>5, <3>6
  <2>2. Ends(y, j) <=> Ends(x, p + j)
    BY <2>1 DEF Ends
  <2>3. Pair(y, j) <=> Pair(x, p + j)
    BY <2>1 DEF Pair
  <2>4. Used(y, j) = Used(x, p + j)
    BY <2>3 DEF Used
  <2>5. Used(y, j) \in {1, 2} /\ j + Used(y, j) \in 0 .. m
    BY <1>1, UsedIs
  <2> DEFINE u == Used(y, j)
  <2>6. SubSeq(y, j + 1, j + u) = SubSeq(x, (p + j) + 1, (p + j) + u)
    <3> HIDE DEF y, u
    <3>1. j + u \in 0 .. m /\ u \in {1, 2}
      BY <2>5 DEF u
    <3> HIDE DEF m, n
    <3>2. j + 1 \in 1 .. m /\ j + u \in 1 .. m /\ 1 \in 1 .. n /\ p + 1 \in 1 .. n
      BY <1>1, <3>1
    <3>3. j + 1 \in 1 .. n - (p + 1) + 1 /\ j + u \in 1 .. n - (p + 1) + 1 /\ n \in 1 .. n
      BY <1>1, <3>2
    <3>4. SubSeq(SubSeq(x, p + 1, n), j + 1, j + u)
            = SubSeq(x, (p + 1) + (j + 1) - 1, (p + 1) + (j + u) - 1)
      <4> DEFINE a == p + 1
                 b == j + 1
                 c == j + u
      <4>1. /\ a \in 1 .. Len(x) /\ n \in a - 1 .. Len(x)
            /\ b \in 1 .. n - a + 1 /\ c \in b - 1 .. n - a + 1
        BY <1>1, <3>1, <3>2, <3>3 DEF n
      <4> HIDE DEF a, b, c
      <4>2. SubSeq(SubSeq(x, a, n), b, c) = SubSeq(x, a + b - 1, a + c - 1)
        BY <4>1, SubSeqOfSubSeq
      <4> QED BY <4>2 DEF a, b, c
    <3>5. (p + 1) + (j + 1) - 1 = (p + j) + 1 /\ (p + 1) + (j + u) - 1 = (p + j) + u
      BY <1>1, <3>1
    <3>6. y = SubSeq(x, p + 1, n)
      BY DEF y, Rest, n
    <3> QED BY <3>4, <3>5, <3>6
  <2>7. Given(y, j) = Given(x, p + j)
    <3>1. Used(x, p + j) = u /\ Used(y, j) = u
      BY <2>4
    <3> HIDE DEF u
    <3> QED BY <2>1, <2>3, <2>6, <3>1 DEF Given
  <2> QED BY <2>2, <2>4, <2>5, <2>7 DEF Took
<1> HIDE DEF y, m, n
<1> DEFINE Bad == {j \in 0 .. m : g[m - j] # f[p + (m - j)]}
<1>7. Bad = {}
  <2> SUFFICES ASSUME Bad # {} PROVE FALSE
    OBVIOUS
  <2>1. PICK d \in Bad : \A k \in Bad : d <= k
    <3>1. 0 .. m \subseteq Nat
      BY <1>1
    <3>2. Bad \subseteq Nat
      BY <3>1, Zenon
    <3> QED BY <3>2, NatMin
  <2>2. d \in 0 .. m /\ g[m - d] # f[p + (m - d)]
    OBVIOUS
  <2> DEFINE j == m - d
  <2>3. j \in 0 .. m /\ d = m - j /\ g[j] # f[p + j]
    BY <1>1, <2>2
  <2> HIDE DEF j
  <2>4. CASE j = m
    <3>1. p + m = n
      BY <1>1
    <3> QED BY <1>4, <1>5, <2>3, <2>4, <3>1
  <2>5. CASE j # m
    <3>a. j \in 0 .. m
      BY <2>3
    <3>b. n \in Nat /\ p \in Nat /\ m = n - p /\ m \in Nat
      BY <1>1
    <3>1. j \in 0 .. m - 1 /\ p + j \in 0 .. n - 1
      BY <2>5, <3>a, <3>b
    <3> DEFINE k == j + Used(y, j)
    <3>2. Used(y, j) \in {1, 2} /\ k \in 0 .. m /\ Used(y, j) = Used(x, p + j)
      BY <1>6, <3>1
    <3>3. k > j /\ p + k = (p + j) + Used(x, p + j)
      <4> HIDE DEF k
      <4>1. j \in 0 .. m /\ p \in Nat /\ Used(x, p + j) \in {1, 2}
        BY <3>a, <3>b, <3>2
      <4>2. k = j + Used(x, p + j)
        BY <3>2 DEF k
      <4> DEFINE v == Used(x, p + j)
      <4> HIDE DEF v
      <4>3. j \in 0 .. m /\ p \in Nat /\ v \in {1, 2} /\ k = j + v
        BY <3>2, <4>1, <4>2 DEF v
      <4>4. k > j /\ p + k = (p + j) + v
        BY <3>b, <4>3
      <4> QED BY <4>4 DEF v
    <3>4. g[j] = Took(y, j, g[k])
      BY <1>5, <3>1
    <3>5. f[p + j] = Took(x, p + j, f[(p + j) + Used(x, p + j)])
      BY <1>4, <3>1
    <3>6. Took(y, j, g[k]) = Took(x, p + j, g[k])
      BY <1>6, <3>1
    <3> HIDE DEF k
    <3>7. m - k \in 0 .. m /\ ~ (d <= m - k) /\ m - (m - k) = k
      <4>1. d = m - j /\ k \in 0 .. m /\ j \in 0 .. m /\ k > j
        BY <2>3, <3>2, <3>3
      <4> QED BY <3>b, <4>1
    <3>8. g[k] = f[p + k]
      BY <2>1, <3>7, Zenon
    <3> QED BY <2>3, <3>3, <3>4, <3>5, <3>6, <3>8
  <2> QED BY <2>4, <2>5
<1>8. g[0] = f[p]
  <2>1. m \in 0 .. m /\ m - m = 0 /\ p + 0 = p
    BY <1>1
  <2>2. g[m - m] = f[p + (m - m)]
    BY <1>7, <2>1, Zenon
  <2> QED BY <2>1, <2>2
<1> QED BY <1>3, <1>8 DEF y

LEMMA HandedAssociate ==
  ASSUME NEW a \in Seq(Handed), NEW b \in Seq(Handed), NEW c \in Seq(Handed)
  PROVE  a \o (b \o c) = (a \o b) \o c
BY ConcatAssociative

\* The tail of one read and the bytes of the next give what both at once would.
LEMMA ConvJoin ==
  ASSUME NEW a \in Seq(Bytes), NEW b \in Seq(Bytes)
  PROVE  /\ Converted(a \o b).out = Converted(a).out \o Converted(Converted(a).tail \o b).out
         /\ Converted(a \o b).tail = Converted(Converted(a).tail \o b).tail
<1> DEFINE x == a \o b
           n == Len(a)
           m == Len(b)
<1>1. /\ n \in Nat /\ m \in Nat /\ x \in Seq(Bytes) /\ Len(x) = n + m
      /\ \A i \in 1 .. n + m : x[i] = IF i <= n THEN a[i] ELSE b[i - n]
  BY ConcatProperties, LenProperties
<1>2. PICK f : IsConv(f, x)
  BY <1>1, ConvExists
<1>3. PICK g : IsConv(g, a)
  BY ConvExists
<1>4. Converted(x) = f[0] /\ Converted(a) = g[0]
  BY <1>1, <1>2, <1>3, ConvertedIs
<1>5. /\ f \in [0 .. n + m -> Conversions]
      /\ \A i \in 0 .. (n + m) - 1 : f[i] = Took(x, i, f[i + Used(x, i)])
  <2> HIDE DEF x
  <2> QED BY <1>1, <1>2 DEF IsConv
<1>6. /\ g \in [0 .. n -> Conversions] /\ g[n] = Nothing
      /\ \A i \in 0 .. n - 1 : g[i] = Took(a, i, g[i + Used(a, i)])
  BY <1>3 DEF IsConv
<1>7. ASSUME NEW i \in 0 .. n - 1, ~ Ends(a, i)
      PROVE  /\ Used(x, i) = Used(a, i) /\ Given(x, i) = Given(a, i) /\ ~ Ends(x, i)
             /\ i \in 0 .. (n + m) - 1
  <2>1. i + 1 \in 1 .. n /\ i + 1 \in 1 .. n + m /\ i \in 0 .. (n + m) - 1
    BY <1>1
  <2>2. x[i + 1] = a[i + 1]
    <3> HIDE DEF x, n, m
    <3> QED BY <1>1, <2>1
  <2>3. ASSUME i + 2 <= n PROVE x[i + 2] = a[i + 2] /\ i + 2 <= n + m
    <3>1. i + 2 \in 1 .. n + m /\ i + 2 <= n
      BY <1>1, <2>3
    <3> HIDE DEF x, n, m
    <3> QED BY <1>1, <3>1
  <2>4. a[i + 1] = "lead" => i + 2 <= n
    BY <1>1, <1>7 DEF Ends
  <2>5. ~ Ends(x, i)
    <3>1. i + 2 <= n => ~ (i + 1 = n + m)
      BY <1>1
    <3> HIDE DEF x, n, m
    <3> QED BY <1>1, <2>2, <2>4, <3>1 DEF Ends
  <2>6. Pair(x, i) <=> Pair(a, i)
    <3> HIDE DEF x, m
    <3> QED BY <1>1, <2>2, <2>3, <2>4 DEF Pair
  <2>7. Used(x, i) = Used(a, i)
    BY <2>6 DEF Used
  <2> DEFINE u == Used(a, i)
  <2>8. SubSeq(x, i + 1, i + u) = SubSeq(a, i + 1, i + u)
    <3>1. i + u \in 0 .. n /\ u \in {1, 2}
      BY UsedIs
    <3> HIDE DEF u
    <3>2. i + 1 \in 1 .. Len(a) /\ i + u \in 1 .. Len(a)
      BY <1>1, <3>1
    <3> QED BY <3>2, SubSeqOfConcat1
  <2>9. Given(x, i) = Given(a, i)
    <3> HIDE DEF x, u
    <3> QED BY <2>2, <2>6, <2>7, <2>8 DEF Given, u
  <2> QED BY <2>1, <2>5, <2>7, <2>9
<1> DEFINE Good(i) == /\ f[i].out = g[i].out \o Converted(g[i].tail \o b).out
                      /\ f[i].tail = Converted(g[i].tail \o b).tail
           Bad == {j \in 0 .. n : ~ Good(n - j)}
<1>8. Good(n)
  <2>1. n \in 0 .. Len(x)
    BY <1>1
  <2>2. Rest(x, n) = <<>> \o b
    <3>1. <<>> \o b = b
      BY ConcatEmptySeq
    <3>2. /\ Rest(x, n) \in Seq(Bytes) /\ Len(Rest(x, n)) = Len(x) - n
          /\ \A j \in 1 .. Len(x) - n : Rest(x, n)[j] = x[n + j]
      BY <1>1, <2>1, RestIs
    <3> DEFINE y == Rest(x, n)
    <3> HIDE DEF y, x, n, m
    <3>3. y \in Seq(Bytes) /\ Len(y) = m /\ \A j \in 1 .. m : y[j] = x[n + j]
      <4>1. Len(x) - n = m
        BY <1>1
      <4> QED BY <3>2, <4>1 DEF y
    <3>4. \A j \in 1 .. m : y[j] = b[j]
      <4> SUFFICES ASSUME NEW j \in 1 .. m PROVE y[j] = b[j]
        OBVIOUS
      <4>1. n + j \in 1 .. n + m /\ ~ (n + j <= n) /\ (n + j) - n = j
        BY <1>1
      <4> QED BY <1>1, <3>3, <4>1
    <3>5. y = b
      BY <3>3, <3>4, SeqEqual DEF m
    <3> QED BY <3>1, <3>5 DEF y
  <2>3. f[n] = Converted(<<>> \o b)
    <3>1. Converted(Rest(x, n)) = f[n]
      <4> HIDE DEF x, n
      <4> QED BY <1>1, <1>2, <2>1, ConvRest
    <3> QED BY <2>2, <3>1
  <2>4. g[n].out = <<>> /\ g[n].tail = <<>>
    BY <1>6 DEF Nothing
  <2>5. <<>> \o b \in Seq(Bytes)
    OBVIOUS
  <2>6. Converted(<<>> \o b).out \in Seq(Handed)
    BY <2>5, ConvertedKeeps
  <2>7. <<>> \o Converted(<<>> \o b).out = Converted(<<>> \o b).out
    BY <2>6, ConcatEmptySeq
  <2> QED BY <2>3, <2>4, <2>7
<1>9. ASSUME NEW i \in 0 .. n - 1, Ends(a, i) PROVE Good(i)
  <2>0. i + 1 = n /\ a[i + 1] = "lead"
    BY <1>9 DEF Ends
  <2>1. i \in 0 .. Len(x) /\ <<"lead">> \in Seq(Bytes)
    BY <1>1 DEF Bytes
  <2>2. Rest(x, i) = <<"lead">> \o b
    <3>1. /\ <<"lead">> \o b \in Seq(Bytes) /\ Len(<<"lead">> \o b) = 1 + m
          /\ \A j \in 1 .. 1 + m : (<<"lead">> \o b)[j] = IF j = 1 THEN "lead" ELSE b[j - 1]
      BY <2>1
    <3>2. /\ Rest(x, i) \in Seq(Bytes) /\ Len(Rest(x, i)) = Len(x) - i
          /\ \A j \in 1 .. Len(x) - i : Rest(x, i)[j] = x[i + j]
      BY <1>1, <2>1, RestIs
    <3> DEFINE y == Rest(x, i)
               z == <<"lead">> \o b
    <3> HIDE DEF y, z, x, n, m
    <3>3. y \in Seq(Bytes) /\ Len(y) = 1 + m /\ \A j \in 1 .. 1 + m : y[j] = x[i + j]
      <4>1. Len(x) - i = 1 + m
        BY <1>1, <2>0
      <4> QED BY <3>2, <4>1 DEF y
    <3>4. \A j \in 1 .. 1 + m : y[j] = z[j]
      <4> SUFFICES ASSUME NEW j \in 1 .. 1 + m PROVE y[j] = z[j]
        OBVIOUS
      <4>1. CASE j = 1
        <5>1. i + j \in 1 .. n + m /\ i + j <= n /\ i + j = i + 1
          BY <1>1, <2>0, <4>1
        <5> QED BY <1>1, <2>0, <3>1, <3>3, <4>1, <5>1 DEF z
      <4>2. CASE j # 1
        <5>1. i + j \in 1 .. n + m /\ ~ (i + j <= n) /\ (i + j) - n = j - 1
          BY <1>1, <2>0, <4>2
        <5>2. y[j] = x[i + j]
          BY <3>3
        <5>3. x[i + j] = b[(i + j) - n]
          BY <1>1, <5>1
        <5>4. z[j] = b[j - 1]
          BY <3>1, <4>2 DEF z
        <5> QED BY <5>1, <5>2, <5>3, <5>4
      <4> QED BY <4>1, <4>2
    <3>5. z \in Seq(Bytes) /\ Len(z) = 1 + m
      BY <3>1 DEF z
    <3>6. y = z
      BY <3>3, <3>4, <3>5, SeqEqual
    <3> QED BY <3>6 DEF y, z
  <2>3. f[i] = Converted(<<"lead">> \o b)
    <3>1. Converted(Rest(x, i)) = f[i]
      <4> HIDE DEF x
      <4>1. x \in Seq(Bytes) /\ i \in 0 .. Len(x) /\ IsConv(f, x)
        BY <1>1, <1>2, <2>1
      <4> QED BY <4>1, ConvRest
    <3> QED BY <2>2, <3>1
  <2>4. g[i] = Took(a, i, g[i + Used(a, i)])
    BY <1>6
  <2>5. g[i].out = <<>> /\ g[i].tail = <<"lead">>
    BY <1>9, <2>4 DEF Took
  <2>6. <<"lead">> \o b \in Seq(Bytes)
    BY <2>1
  <2>7. Converted(<<"lead">> \o b).out \in Seq(Handed)
    BY <2>6, ConvertedKeeps
  <2>8. <<>> \o Converted(<<"lead">> \o b).out = Converted(<<"lead">> \o b).out
    BY <2>7, ConcatEmptySeq
  <2> QED BY <2>3, <2>5, <2>8
<1>10. ASSUME NEW i \in 0 .. n - 1, ~ Ends(a, i), Good(i + Used(a, i)) PROVE Good(i)
  <2> DEFINE k == i + Used(a, i)
             one == Given(a, i)
             more == Converted(g[k].tail \o b)
  <2>1. /\ Used(x, i) = Used(a, i) /\ Given(x, i) = one /\ ~ Ends(x, i)
        /\ i \in 0 .. (n + m) - 1
    BY <1>7, <1>10
  <2>2. k \in 0 .. n
    BY UsedIs
  <2>3. f[i] = Took(x, i, f[k])
    BY <1>5, <2>1
  <2>4. g[i] = Took(a, i, g[k])
    BY <1>6
  <2>5. f[i].out = <<one>> \o f[k].out /\ f[i].tail = f[k].tail
    BY <2>1, <2>3 DEF Took
  <2>6. g[i].out = <<one>> \o g[k].out /\ g[i].tail = g[k].tail
    BY <1>10, <2>4 DEF Took
  <2>7. f[k].out = g[k].out \o more.out /\ f[k].tail = more.tail
    BY <1>10
  <2>8. one \in Handed /\ g[k] \in Conversions
    BY <1>6, <2>2, GivenIs
  <2>9. g[k].out \in Seq(Handed) /\ g[k].tail \in Seq(Bytes)
    BY <2>8 DEF Conversions
  <2>10. more.out \in Seq(Handed)
    <3>1. g[k].tail \o b \in Seq(Bytes)
      BY <2>9
    <3> QED BY <3>1, ConvertedKeeps
  <2> HIDE DEF one, more, k
  <2>11. <<one>> \o (g[k].out \o more.out) = (<<one>> \o g[k].out) \o more.out
    <3>1. <<one>> \in Seq(Handed)
      <4> HIDE DEF Handed
      <4> QED BY <2>8
    <3>2. g[k].out \in Seq(Handed)
      BY <2>9
    <3> QED BY <2>10, <3>1, <3>2, HandedAssociate, Zenon
  <2> QED BY <2>5, <2>6, <2>7, <2>11 DEF more
<1> HIDE DEF n, Good
<1>11. Bad = {}
  <2> SUFFICES ASSUME Bad # {} PROVE FALSE
    OBVIOUS
  <2>1. PICK d \in Bad : \A k \in Bad : d <= k
    <3>1. 0 .. n \subseteq Nat
      BY <1>1
    <3>2. Bad \subseteq Nat
      BY <3>1, Zenon
    <3> QED BY <3>2, NatMin
  <2>2. d \in 0 .. n /\ ~ Good(n - d)
    OBVIOUS
  <2> DEFINE i == n - d
  <2>3. i \in 0 .. n /\ d = n - i
    BY <1>1, <2>2
  <2>4. d # 0
    <3>1. n - 0 = n
      BY <1>1
    <3> QED BY <1>8, <2>2, <3>1
  <2>5. i \in 0 .. n - 1
    BY <1>1, <2>3, <2>4
  <2> DEFINE k == i + Used(a, i)
  <2>6. k \in 0 .. n /\ k > i
    <3>1. Used(a, i) \in {1, 2} /\ k \in 0 .. n
      BY <2>5, UsedIs DEF n
    <3> QED BY <2>3, <3>1
  <2> HIDE DEF k, i
  <2>7. n - k \in 0 .. n /\ ~ (d <= n - k) /\ n - (n - k) = k
    BY <1>1, <2>3, <2>6
  <2>8. Good(k)
    BY <2>1, <2>7, Zenon
  <2>9. Good(i)
    BY <1>9, <1>10, <2>5, <2>8 DEF k
  <2> QED BY <2>2, <2>9 DEF i
<1>12. Good(0)
  <2>1. n \in 0 .. n /\ n - n = 0
    BY <1>1
  <2>2. Good(n - n)
    BY <1>11, <2>1, Zenon
  <2> QED BY <2>1, <2>2
<1> QED BY <1>4, <1>12 DEF Good

\* What was handed on, what was read and what was typed go together.
PipeKept ==
  /\ pipe \in [codec : BOOLEAN, mBufRead : Seq(Bytes), mBufWrite : Seq(Bytes),
               pending : Seq(Bytes), num : 0 .. Retries]
  /\ pipe.mBufRead \in {<<>>, <<"lead">>} /\ pipe.mBufWrite \in {<<>>, <<"lead">>}
  /\ switches \in 0 .. MaxSwitches
  /\ got \in Seq(Handed) /\ arrived \in Seq(Bytes)
  /\ written \in [offered : Seq(Bytes), sent : Seq(Bytes), stuck : BOOLEAN, cut : BOOLEAN]
  /\ EveryByteOnce
  /\ switches = 0 /\ pipe.codec =>
       got = Converted(arrived).out /\ pipe.mBufRead = Converted(arrived).tail
  /\ TypedArrives

LEMMA PipeStarts == PipeInit => PipeKept
<1> SUFFICES ASSUME PipeInit PROVE PipeKept
  OBVIOUS
<1>1. <<>> \in Seq(Bytes) /\ <<>> \in Seq(Handed) /\ <<>> \o <<>> = <<>>
  OBVIOUS
<1>2. /\ pipe \in [codec : BOOLEAN, mBufRead : {<<>>}, mBufWrite : {<<>>},
                   pending : {<<>>}, num : {0}]
      /\ got = <<>> /\ arrived = <<>> /\ switches = 0
      /\ written = [offered |-> <<>>, sent |-> <<>>, stuck |-> FALSE, cut |-> FALSE]
  BY DEF PipeInit
<1>3. pipe.mBufRead = <<>> /\ pipe.mBufWrite = <<>> /\ pipe.pending = <<>>
  BY <1>2
<1>4. pipe \in [codec : BOOLEAN, mBufRead : Seq(Bytes), mBufWrite : Seq(Bytes),
                pending : Seq(Bytes), num : 0 .. Retries]
  <2>1. 0 \in 0 .. Retries
    BY DEF Retries
  <2>2. /\ pipe = [codec |-> pipe.codec, mBufRead |-> <<>>, mBufWrite |-> <<>>,
                   pending |-> <<>>, num |-> 0]
        /\ pipe.codec \in BOOLEAN
    BY <1>2
  <2> DEFINE c == pipe.codec
  <2> HIDE DEF c
  <2>3. [codec |-> c, mBufRead |-> <<>>, mBufWrite |-> <<>>, pending |-> <<>>, num |-> 0]
          \in [codec : BOOLEAN, mBufRead : Seq(Bytes), mBufWrite : Seq(Bytes),
               pending : Seq(Bytes), num : 0 .. Retries]
    BY <1>1, <2>1, <2>2 DEF c
  <2> QED BY <2>2, <2>3 DEF c
<1>5. written \in [offered : Seq(Bytes), sent : Seq(Bytes), stuck : BOOLEAN, cut : BOOLEAN]
  BY <1>1, <1>2
<1>6. EveryByteOnce
  BY <1>1, <1>2, <1>3, BytesOfNone DEF EveryByteOnce
<1>7. Converted(<<>>).out = <<>> /\ Converted(<<>>).tail = <<>>
  <2>1. PICK f : IsConv(f, <<>>)
    BY <1>1, ConvExists
  <2>2. Converted(<<>>) = f[0]
    BY <1>1, <2>1, ConvertedIs
  <2>3. Len(<<>>) = 0
    OBVIOUS
  <2>4. f[0] = Nothing
    BY <2>1, <2>3 DEF IsConv
  <2> QED BY <2>2, <2>4 DEF Nothing
<1>8. TypedArrives
  BY <1>1, <1>2, <1>3 DEF TypedArrives
<1>9. switches \in 0 .. MaxSwitches
  BY <1>2, PipeAssumption
<1> QED BY <1>1, <1>2, <1>3, <1>4, <1>5, <1>6, <1>7, <1>8, <1>9 DEF PipeKept

LEMMA TailIs ==
  ASSUME NEW t \in {<<>>, <<"lead">>} PROVE t \in Seq(Bytes) /\ Len(t) <= 1
<1>1. <<>> \in Seq(Bytes) /\ Len(<<>>) = 0
  OBVIOUS
<1>2. "lead" \in Bytes
  BY DEF Bytes
<1>3. <<"lead">> \in Seq(Bytes) /\ Len(<<"lead">>) = 1
  <2> HIDE DEF Bytes
  <2> QED BY <1>2
<1>4. CASE t = <<>>
  BY <1>1, <1>4
<1>5. CASE t = <<"lead">>
  BY <1>3, <1>5
<1> QED BY <1>4, <1>5

LEMMA ReadKept ==
  ASSUME PipeKept, Ready PROVE PipeKept'
<1>1. PICK n \in 1 .. Room(pipe.mBufRead) : \E bytes \in [1 .. n -> Bytes] :
        LET all == Joined(pipe.mBufRead, bytes)
            c == Converted(all)
        IN  /\ Idle
            /\ Len(arrived) + Len(written.offered) + n <= MaxBytes
            /\ arrived' = arrived \o bytes
            /\ got' = got \o (IF pipe.codec THEN c.out ELSE AsIs(all))
            /\ pipe' = [pipe EXCEPT !.mBufRead = IF pipe.codec THEN c.tail ELSE <<>>]
            /\ UNCHANGED <<written, switches>>
  BY Zenon DEF Ready
<1>2. PICK bytes \in [1 .. n -> Bytes] :
        LET all == Joined(pipe.mBufRead, bytes)
            c == Converted(all)
        IN  /\ Idle
            /\ Len(arrived) + Len(written.offered) + n <= MaxBytes
            /\ arrived' = arrived \o bytes
            /\ got' = got \o (IF pipe.codec THEN c.out ELSE AsIs(all))
            /\ pipe' = [pipe EXCEPT !.mBufRead = IF pipe.codec THEN c.tail ELSE <<>>]
            /\ UNCHANGED <<written, switches>>
  BY <1>1, Zenon
<1> DEFINE t == pipe.mBufRead
           all == t \o bytes
           c == Converted(all)
           more == IF pipe.codec THEN c.out ELSE AsIs(all)
           left == IF pipe.codec THEN c.tail ELSE <<>>
<1>3. /\ arrived' = arrived \o bytes /\ got' = got \o more
      /\ pipe' = [pipe EXCEPT !.mBufRead = left]
      /\ written' = written /\ switches' = switches
  BY <1>2 DEF Joined
<1>4. /\ pipe \in [codec : BOOLEAN, mBufRead : Seq(Bytes), mBufWrite : Seq(Bytes),
                   pending : Seq(Bytes), num : 0 .. Retries]
      /\ t \in {<<>>, <<"lead">>} /\ pipe.mBufWrite \in {<<>>, <<"lead">>}
      /\ got \in Seq(Handed) /\ arrived \in Seq(Bytes)
      /\ BytesOf(got) \o t = arrived
  BY DEF PipeKept, EveryByteOnce
<1>5. bytes \in Seq(Bytes)
  <2>1. n \in Nat
    BY DEF Room
  <2> QED BY <2>1
<1>6. t \in Seq(Bytes)
  BY <1>4, TailIs
<1> HIDE DEF t
<1>7. all \in Seq(Bytes)
  BY <1>5, <1>6
<1> HIDE DEF all
<1>8. /\ more \in Seq(Handed) /\ left \in {<<>>, <<"lead">>} /\ BytesOf(more) \o left = all
  <2>1. CASE pipe.codec
    BY <1>7, <2>1, ConvertedKeeps
  <2>2. CASE ~ pipe.codec
    <3>1. AsIs(all) \in Seq(Handed) /\ BytesOf(AsIs(all)) = all
      BY <1>7, AsIsBytes
    <3>2. all \o <<>> = all
      BY <1>7
    <3> QED BY <2>2, <3>1, <3>2
  <2> QED BY <2>1, <2>2
<1>9. left \in Seq(Bytes)
  BY <1>8, TailIs
<1> HIDE DEF more, left
<1>10. /\ pipe' \in [codec : BOOLEAN, mBufRead : Seq(Bytes), mBufWrite : Seq(Bytes),
                     pending : Seq(Bytes), num : 0 .. Retries]
       /\ pipe'.mBufRead = left /\ pipe'.mBufWrite = pipe.mBufWrite
       /\ pipe'.codec = pipe.codec /\ pipe'.pending = pipe.pending
  BY <1>3, <1>4, <1>9
<1>11. got' \in Seq(Handed) /\ arrived' \in Seq(Bytes)
  <2>1. arrived' \in Seq(Bytes)
    BY <1>3, <1>4, <1>5
  <2> HIDE DEF Handed
  <2> QED BY <1>3, <1>4, <1>8, <2>1
<1>12. BytesOf(got') \o left = arrived'
  <2>1. BytesOf(got') = BytesOf(got) \o BytesOf(more)
    BY <1>3, <1>4, <1>8, BytesOfJoined
  <2>2. BytesOf(got) \in Seq(Bytes) /\ BytesOf(more) \in Seq(Bytes)
    BY <1>4, <1>8, BytesOfBytes
  <2>3. (BytesOf(got) \o BytesOf(more)) \o left = BytesOf(got) \o (BytesOf(more) \o left)
    BY <1>9, <2>2, BytesAssociate
  <2>4. (BytesOf(got) \o t) \o bytes = BytesOf(got) \o (t \o bytes)
    BY <1>5, <1>6, <2>2, BytesAssociate
  <2> QED BY <1>3, <1>4, <1>8, <2>1, <2>3, <2>4 DEF all
<1>13. ASSUME switches' = 0, pipe'.codec
       PROVE  got' = Converted(arrived').out /\ left = Converted(arrived').tail
  <2>1. got = Converted(arrived).out /\ t = Converted(arrived).tail
    BY <1>3, <1>10, <1>13 DEF PipeKept, t
  <2>2. more = Converted(t \o bytes).out /\ left = Converted(t \o bytes).tail
    BY <1>10, <1>13 DEF more, left, c, all
  <2>3. /\ Converted(arrived \o bytes).out
             = Converted(arrived).out \o Converted(Converted(arrived).tail \o bytes).out
        /\ Converted(arrived \o bytes).tail = Converted(Converted(arrived).tail \o bytes).tail
    BY <1>4, <1>5, ConvJoin
  <2> QED BY <1>3, <2>1, <2>2, <2>3
<1>14. TypedArrives'
  BY <1>3, <1>10 DEF PipeKept, TypedArrives
<1>15. EveryByteOnce'
  BY <1>10, <1>12 DEF EveryByteOnce
<1>16. written' \in [offered : Seq(Bytes), sent : Seq(Bytes), stuck : BOOLEAN, cut : BOOLEAN]
       /\ switches' \in 0 .. MaxSwitches
  BY <1>3 DEF PipeKept
<1> QED BY <1>4, <1>8, <1>10, <1>11, <1>13, <1>14, <1>15, <1>16 DEF PipeKept

LEMMA WriteKept ==
  ASSUME PipeKept, Write PROVE PipeKept'
<1>1. PICK n \in 1 .. MaxBytes : \E bytes \in [1 .. n -> Bytes \ {"bad"}] :
        LET c == Converted(bytes)
            text == IF pipe.codec THEN BytesOf(c.out) ELSE bytes
        IN  /\ Idle
            /\ Len(arrived) + Len(written.offered) + n <= MaxBytes
            /\ pipe' = [pipe EXCEPT
                          !.pending = text, !.num = Retries,
                          !.mBufWrite = IF pipe.codec /\ c.tail # <<>> THEN c.tail ELSE @]
            /\ written' = [written EXCEPT !.offered = @ \o bytes,
                             !.cut = @ \/ (pipe.codec /\ c.tail # <<>>)]
            /\ UNCHANGED <<got, arrived, switches>>
  BY Zenon DEF Write
<1>2. PICK bytes \in [1 .. n -> Bytes \ {"bad"}] :
        LET c == Converted(bytes)
            text == IF pipe.codec THEN BytesOf(c.out) ELSE bytes
        IN  /\ Idle
            /\ Len(arrived) + Len(written.offered) + n <= MaxBytes
            /\ pipe' = [pipe EXCEPT
                          !.pending = text, !.num = Retries,
                          !.mBufWrite = IF pipe.codec /\ c.tail # <<>> THEN c.tail ELSE @]
            /\ written' = [written EXCEPT !.offered = @ \o bytes,
                             !.cut = @ \/ (pipe.codec /\ c.tail # <<>>)]
            /\ UNCHANGED <<got, arrived, switches>>
  BY <1>1, Zenon
<1> DEFINE c == Converted(bytes)
           text == IF pipe.codec THEN BytesOf(c.out) ELSE bytes
           buf == IF pipe.codec /\ c.tail # <<>> THEN c.tail ELSE pipe.mBufWrite
           cut == written.cut \/ (pipe.codec /\ c.tail # <<>>)
           offered == written.offered \o bytes
<1>3. /\ pipe' = [pipe EXCEPT !.pending = text, !.num = Retries, !.mBufWrite = buf]
      /\ written' = [written EXCEPT !.offered = offered, !.cut = cut]
      /\ got' = got /\ arrived' = arrived /\ switches' = switches /\ Idle
  BY <1>2
<1>4. /\ pipe \in [codec : BOOLEAN, mBufRead : Seq(Bytes), mBufWrite : Seq(Bytes),
                   pending : Seq(Bytes), num : 0 .. Retries]
      /\ pipe.mBufRead \in {<<>>, <<"lead">>} /\ pipe.mBufWrite \in {<<>>, <<"lead">>}
      /\ written \in [offered : Seq(Bytes), sent : Seq(Bytes), stuck : BOOLEAN, cut : BOOLEAN]
  BY DEF PipeKept
<1>5. bytes \in Seq(Bytes)
  <2>1. n \in Nat /\ bytes \in [1 .. n -> Bytes]
    BY PipeAssumption
  <2> QED BY <2>1
<1>6. /\ c.out \in Seq(Handed) /\ c.tail \in {<<>>, <<"lead">>} /\ BytesOf(c.out) \o c.tail = bytes
  BY <1>5, ConvertedKeeps
<1>7. BytesOf(c.out) \in Seq(Bytes)
  BY <1>6, BytesOfBytes
<1>8. text \in Seq(Bytes) /\ (~ (pipe.codec /\ c.tail # <<>>) => text = bytes)
  <2>1. BytesOf(c.out) \o <<>> = BytesOf(c.out)
    BY <1>7
  <2> HIDE DEF c
  <2> QED BY <1>5, <1>6, <1>7, <2>1
<1>9. buf \in {<<>>, <<"lead">>}
  BY <1>4, <1>6
<1>10. buf \in Seq(Bytes) /\ Retries \in 0 .. Retries /\ cut \in BOOLEAN
  <2>1. buf \in Seq(Bytes)
    <3> HIDE DEF buf
    <3> QED BY <1>9, TailIs
  <2>2. Retries \in 0 .. Retries
    BY DEF Retries
  <2>3. cut \in BOOLEAN
    <3>1. written.cut \in BOOLEAN
      BY <1>4
    <3> QED BY <3>1
  <2> QED BY <2>1, <2>2, <2>3
<1>11. ~ cut => ~ written.cut /\ text = bytes
  BY <1>4, <1>8
<1>12. offered \in Seq(Bytes)
  BY <1>4, <1>5
<1> HIDE DEF c, text, buf, cut
<1>13. /\ pipe' \in [codec : BOOLEAN, mBufRead : Seq(Bytes), mBufWrite : Seq(Bytes),
                     pending : Seq(Bytes), num : 0 .. Retries]
       /\ pipe'.mBufRead = pipe.mBufRead /\ pipe'.mBufWrite = buf
       /\ pipe'.codec = pipe.codec /\ pipe'.pending = text
  BY <1>3, <1>4, <1>8, <1>10
<1>a. offered = written.offered \o bytes
  OBVIOUS
<1> HIDE DEF offered
<1>14. /\ written' \in [offered : Seq(Bytes), sent : Seq(Bytes), stuck : BOOLEAN, cut : BOOLEAN]
       /\ written'.offered = offered /\ written'.cut = cut
       /\ written'.sent = written.sent /\ written'.stuck = written.stuck
  BY <1>3, <1>4, <1>10, <1>12
<1>15. TypedArrives'
  <2> SUFFICES ASSUME ~ written'.stuck, ~ written'.cut
               PROVE  written'.sent \o pipe'.pending = written'.offered
    BY DEF TypedArrives
  <2>1. written.sent \o pipe.pending = written.offered /\ pipe.pending = <<>>
    BY <1>3, <1>11, <1>14 DEF PipeKept, TypedArrives, Idle
  <2>2. written.sent = written.offered
    BY <1>4, <2>1
  <2> QED BY <1>11, <1>13, <1>14, <1>a, <2>2
<1>16. EveryByteOnce'
  BY <1>3, <1>13 DEF PipeKept, EveryByteOnce
<1> QED BY <1>3, <1>4, <1>9, <1>13, <1>14, <1>15, <1>16 DEF PipeKept

LEMMA SentKept ==
  ASSUME PipeKept, WriteSome PROVE PipeKept'
<1>1. PICK n \in 1 .. Len(pipe.pending) :
        /\ pipe' = [pipe EXCEPT !.pending = Rest(@, n)]
        /\ written' = [written EXCEPT !.sent = @ \o Upto(pipe.pending, n)]
        /\ UNCHANGED <<got, arrived, switches>>
  BY DEF WriteSome
<1> DEFINE p == pipe.pending
           left == Rest(p, n)
           taken == Upto(p, n)
           gone == written.sent \o taken
<1>2. /\ pipe \in [codec : BOOLEAN, mBufRead : Seq(Bytes), mBufWrite : Seq(Bytes),
                   pending : Seq(Bytes), num : 0 .. Retries]
      /\ written \in [offered : Seq(Bytes), sent : Seq(Bytes), stuck : BOOLEAN, cut : BOOLEAN]
  BY DEF PipeKept
<1>3. p \in Seq(Bytes) /\ Len(p) \in Nat
  BY <1>2
<1>4. left \in Seq(Bytes) /\ taken \in Seq(Bytes) /\ taken \o left = p
  <2>1. n \in 0 .. Len(p)
    BY <1>3
  <2>2. left \in Seq(Bytes)
    BY <1>3, <2>1, RestIs
  <2>3. taken \in Seq(Bytes)
    <3>1. 1 \in Int /\ n \in Int /\ \A j \in 1 .. n : p[j] \in Bytes
      BY <1>3, <2>1, ElementOfSeq
    <3> QED BY <3>1, SubSeqProperties DEF Upto
  <2>4. taken \o left = p
    <3>1. 1 \in 1 .. Len(p) + 1 /\ n \in 1 - 1 .. Len(p) /\ Len(p) \in n .. Len(p)
      BY <1>3, <2>1
    <3>2. SubSeq(p, 1, n) \o SubSeq(p, n + 1, Len(p)) = SubSeq(p, 1, Len(p))
      <4> HIDE DEF p
      <4> QED BY <1>3, <3>1, ConcatAdjacentSubSeq
    <3>3. SubSeq(p, 1, Len(p)) = p
      BY <1>3, SubSeqFull
    <3> QED BY <3>2, <3>3 DEF Upto, Rest
  <2> QED BY <2>2, <2>3, <2>4
<1>5. /\ pipe' = [pipe EXCEPT !.pending = left] /\ written' = [written EXCEPT !.sent = gone]
      /\ got' = got /\ arrived' = arrived /\ switches' = switches
  BY <1>1
<1> HIDE DEF left, taken
<1>6. gone \in Seq(Bytes)
  BY <1>2, <1>4
<1>7. gone \o left = written.sent \o p
  <2>1. written.sent \in Seq(Bytes)
    BY <1>2
  <2>2. (written.sent \o taken) \o left = written.sent \o (taken \o left)
    BY <1>4, <2>1, BytesAssociate
  <2> QED BY <1>4, <2>2
<1> HIDE DEF gone
<1>8. /\ pipe' \in [codec : BOOLEAN, mBufRead : Seq(Bytes), mBufWrite : Seq(Bytes),
                    pending : Seq(Bytes), num : 0 .. Retries]
      /\ pipe'.mBufRead = pipe.mBufRead /\ pipe'.mBufWrite = pipe.mBufWrite
      /\ pipe'.codec = pipe.codec /\ pipe'.pending = left
  BY <1>2, <1>4, <1>5
<1>9. /\ written' \in [offered : Seq(Bytes), sent : Seq(Bytes), stuck : BOOLEAN, cut : BOOLEAN]
      /\ written'.offered = written.offered /\ written'.cut = written.cut
      /\ written'.sent = gone /\ written'.stuck = written.stuck
  BY <1>2, <1>5, <1>6
<1>10. TypedArrives'
  BY <1>7, <1>8, <1>9 DEF PipeKept, TypedArrives
<1>11. EveryByteOnce'
  BY <1>5, <1>8 DEF PipeKept, EveryByteOnce
<1> QED BY <1>5, <1>8, <1>9, <1>10, <1>11 DEF PipeKept

LEMMA WaitKept ==
  ASSUME PipeKept, WriteAgain PROVE PipeKept'
<1>1. /\ pipe \in [codec : BOOLEAN, mBufRead : Seq(Bytes), mBufWrite : Seq(Bytes),
                   pending : Seq(Bytes), num : 0 .. Retries]
      /\ written \in [offered : Seq(Bytes), sent : Seq(Bytes), stuck : BOOLEAN, cut : BOOLEAN]
  BY DEF PipeKept
<1>2. got' = got /\ arrived' = arrived /\ switches' = switches
  BY DEF WriteAgain
<1>3. CASE pipe.num > 0
  <2>1. pipe' = [pipe EXCEPT !.num = pipe.num - 1] /\ written' = written
    BY <1>3 DEF WriteAgain
  <2>2. pipe.num - 1 \in 0 .. Retries
    BY <1>1, <1>3 DEF Retries
  <2>3. /\ pipe' \in [codec : BOOLEAN, mBufRead : Seq(Bytes), mBufWrite : Seq(Bytes),
                      pending : Seq(Bytes), num : 0 .. Retries]
        /\ pipe'.mBufRead = pipe.mBufRead /\ pipe'.mBufWrite = pipe.mBufWrite
        /\ pipe'.codec = pipe.codec /\ pipe'.pending = pipe.pending
    BY <1>1, <2>1, <2>2
  <2> QED BY <1>2, <2>1, <2>3 DEF PipeKept, EveryByteOnce, TypedArrives
<1>4. CASE ~ (pipe.num > 0)
  <2>1. /\ pipe' = [pipe EXCEPT !.pending = <<>>]
        /\ written' = [written EXCEPT !.stuck = TRUE]
    BY <1>4 DEF WriteAgain
  <2>2. <<>> \in Seq(Bytes)
    OBVIOUS
  <2>3. /\ pipe' \in [codec : BOOLEAN, mBufRead : Seq(Bytes), mBufWrite : Seq(Bytes),
                      pending : Seq(Bytes), num : 0 .. Retries]
        /\ pipe'.mBufRead = pipe.mBufRead /\ pipe'.mBufWrite = pipe.mBufWrite
        /\ pipe'.codec = pipe.codec
    BY <1>1, <2>1, <2>2
  <2>4. /\ written' \in [offered : Seq(Bytes), sent : Seq(Bytes), stuck : BOOLEAN, cut : BOOLEAN]
        /\ written'.stuck = TRUE
    BY <1>1, <2>1
  <2> QED BY <1>2, <2>3, <2>4 DEF PipeKept, EveryByteOnce, TypedArrives
<1> QED BY <1>3, <1>4

LEMMA CodecKept ==
  ASSUME PipeKept, SetCodec PROVE PipeKept'
<1>1. /\ pipe \in [codec : BOOLEAN, mBufRead : Seq(Bytes), mBufWrite : Seq(Bytes),
                   pending : Seq(Bytes), num : 0 .. Retries]
      /\ switches \in 0 .. MaxSwitches
  BY DEF PipeKept
<1>2. /\ got' = got /\ arrived' = arrived /\ written' = written
      /\ switches < MaxSwitches /\ switches' = switches + 1
      /\ pipe' = [pipe EXCEPT !.codec = ~ pipe.codec]
  BY DEF SetCodec
<1>3. switches' \in 0 .. MaxSwitches /\ switches' # 0
  BY <1>1, <1>2, PipeAssumption
<1>4. /\ pipe' \in [codec : BOOLEAN, mBufRead : Seq(Bytes), mBufWrite : Seq(Bytes),
                    pending : Seq(Bytes), num : 0 .. Retries]
      /\ pipe'.mBufRead = pipe.mBufRead /\ pipe'.mBufWrite = pipe.mBufWrite
      /\ pipe'.pending = pipe.pending
  <2> DEFINE c == ~ pipe.codec
  <2>1. c \in BOOLEAN
    OBVIOUS
  <2>2. pipe' = [pipe EXCEPT !.codec = c]
    BY <1>2
  <2> HIDE DEF c
  <2> QED BY <1>1, <2>1, <2>2
<1> QED BY <1>2, <1>3, <1>4 DEF PipeKept, EveryByteOnce, TypedArrives

LEMMA PipeSteps == PipeKept /\ PipeNext => PipeKept'
BY ReadKept, WriteKept, SentKept, WaitKept, CodecKept DEF PipeNext, WriteIo

LEMMA PipeStays == ASSUME PipeKept, UNCHANGED pipeVars PROVE PipeKept'
<1>1. pipe' = pipe /\ got' = got /\ arrived' = arrived /\ written' = written
      /\ switches' = switches
  BY DEF pipeVars
<1> QED BY <1>1 DEF PipeKept, EveryByteOnce, TypedArrives

LEMMA KeptIsPassed ==
  PipeKept => PipeTypeOK /\ EveryByteOnce /\ PortionsDoNotShow /\ TypedArrives
<1> SUFFICES ASSUME PipeKept
             PROVE  PipeTypeOK /\ EveryByteOnce /\ PortionsDoNotShow /\ TypedArrives
  OBVIOUS
<1>1. Len(pipe.mBufRead) <= 1 /\ Len(pipe.mBufWrite) <= 1
  BY TailIs DEF PipeKept
<1> QED BY <1>1 DEF PipeKept, PipeTypeOK, PortionsDoNotShow

-----------------------------------------------------------------------------
(* The double buffer (DisplaySwap).                                        *)

ARect == [x : Int, y : Int, w : Int, h : Int]
ARga(a, d, o) == [mRgaActive |-> a, mDirtyRects |-> d, mDirtyOverflow |-> o]

QueueOK(q) ==
  /\ q = ARga(q.mRgaActive, q.mDirtyRects, q.mDirtyOverflow)
  /\ q.mRgaActive \in BOOLEAN /\ q.mDirtyOverflow \in BOOLEAN
  /\ q.mDirtyRects \in Seq(ARect) /\ Len(q.mDirtyRects) <= MAX_DIRTY_RECTS

NotedAll(q) == Noted(q, Len(q.mDirtyRects))
Unpanned == display.scroll = "Redraw" /\ display.bpp # 15
Plain == Unpanned /\ ~ Turned

\* A buffer, where w was drawn without a swap since: what the display does not
\* show yet is in the list, unless the list has overflowed or is not kept at
\* all, or is excused.
Follows(b, w) ==
  /\ QueueOK(b.rga) /\ b.stale \subseteq Memory /\ b.unnoted \subseteq Memory
  /\ b.rga.mRgaActive /\ ~ b.rga.mDirtyOverflow =>
        b.stale \subseteq NotedAll(b.rga) \cup b.unnoted \cup Unreached
  /\ b.stale \subseteq w \cup b.unnoted \cup Unreached
  /\ Unpanned => b.unnoted = {}
  /\ Plain => b.stale \cap Unreached = {}
  /\ ~ b.rga.mRgaActive => b.stale \subseteq w

SwapKept ==
  /\ display \in Displays /\ mOffset \in 0 .. MaxOffset
  /\ waiting \subseteq Memory
  /\ Follows(Buffer, waiting)

LEMMA ActiveSet ==
  ASSUME NEW a, NEW d, NEW o, NEW f
  PROVE  [ARga(a, d, o) EXCEPT !.mRgaActive = f] = ARga(f, d, o)
BY DEF ARga

\* The sides of the screen, and the offsets.
LEMMA DisplaySides ==
  ASSUME display \in Displays
  PROVE  /\ Width \in Nat /\ Height \in Nat
         /\ MaxOffset \in Nat
         /\ display.scroll = "Redraw" => MaxOffset = 0
         /\ ~ Turned => Width = display.xres /\ Height = display.yres
         /\ display.rot \in {0, 90, 180, 270}
         /\ Turned <=> display.rot \in {90, 270}
         /\ display.pitch \in Nat \ {0} /\ display.lines \in Nat
         /\ display.scroll \in {"Redraw", "YPan", "YWrap"}
<1>1. /\ display.rot \in {0, 90, 180, 270} /\ display.scroll \in {"Redraw", "YPan", "YWrap"}
      /\ display.xres \in Nat /\ display.yres \in Nat \ {0} /\ display.pitch \in Nat \ {0}
      /\ display.virtual \in Nat /\ display.lines \in Nat
      /\ display.yres <= display.virtual
  BY SwapAssumption
<1>2. Width \in Nat /\ Height \in Nat
  BY <1>1 DEF Width, Height
<1>3. MaxOffset \in Nat /\ (display.scroll = "Redraw" => MaxOffset = 0)
  BY <1>1 DEF MaxOffset
<1> QED BY <1>1, <1>2, <1>3 DEF Width, Height, Turned

\* Geometry: where a rectangle lies in another, its pixels do.
LEMMA BlockInBlock ==
  ASSUME NEW r \in ARect, NEW s \in ARect,
         s.x <= r.x, r.x + r.w <= s.x + s.w, s.y <= r.y, r.y + r.h <= s.y + s.h
  PROVE  Block(r) \subseteq Block(s)
<1> SUFFICES ASSUME NEW p \in Block(r) PROVE p \in Block(s)
  OBVIOUS
<1>1. PICK i \in r.x .. r.x + r.w - 1, j \in r.y .. r.y + r.h - 1 : p = At(i, j)
  BY DEF Block
<1>2. i \in s.x .. s.x + s.w - 1 /\ j \in s.y .. s.y + s.h - 1
  BY <1>1 DEF ARect
<1>3. p \in Memory
  BY DEF Block
<1> QED BY <1>1, <1>2, <1>3 DEF Block

LEMMA NoBlock == ASSUME NEW r \in ARect, r.w = 0 \/ r.h = 0 PROVE Block(r) = {}
BY DEF Block, ARect

LEMMA RowsAreBlock ==
  ASSUME NEW r \in ARect, display.scroll # "YWrap" PROVE RowsOf(r) = Block(r)
BY DEF RowsOf, Block, Wrapped

\* A drawing on the screen is cut off at its sides, and stays between them
\* when it is turned.
LEMMA ClippedIn ==
  ASSUME display \in Displays, NEW d \in Drawings, d.x < Width, d.y < Height
  PROVE  /\ Clipped(d) \in ARect
         /\ Clipped(d).x = d.x /\ Clipped(d).y = d.y
         /\ d.x \in Nat /\ d.y \in Nat /\ d.w \in Nat /\ d.h \in Nat
         /\ Clipped(d).w <= d.w /\ Clipped(d).h <= d.h
         /\ d.x + Clipped(d).w <= Width /\ d.y + Clipped(d).h <= Height
<1>1. Width \in Nat /\ Height \in Nat
  BY DisplaySides
<1>2. d \in [kind : {"rect", "fill", "sixel"}, x : Nat, y : Nat, w : Nat, h : Nat]
  BY SwapAssumption
<1> QED BY <1>1, <1>2 DEF Clipped, AtMost, ARect

LEMMA TurnedIn ==
  ASSUME display \in Displays, NEW r \in ARect, r.x >= 0, r.y >= 0,
         r.x + r.w <= Width, r.y + r.h <= Height
  PROVE  /\ TurnedRect(r) \in ARect
         /\ ~ Turned =>
              LET t == TurnedRect(r)
              IN  t.x >= 0 /\ t.y >= 0 /\ t.x + t.w <= Width /\ t.y + t.h <= Height
<1>1. Width \in Nat /\ Height \in Nat /\ display.rot \in {0, 90, 180, 270}
      /\ (Turned <=> display.rot \in {90, 270})
  BY DisplaySides
<1>2. PICK x \in Int, y \in Int, w \in Int, h \in Int : r = [x |-> x, y |-> y, w |-> w, h |-> h]
  BY DEF ARect
<1>3. CASE display.rot = 0
  BY <1>1, <1>3 DEF TurnedRect
<1>4. CASE display.rot = 180
  <2> DEFINE a == Width - x - w
             c == Height - y - h
  <2>1. TurnedRect(r) = [r EXCEPT !.x = a, !.y = c]
    BY <1>2, <1>4 DEF TurnedRect
  <2>2. a \in Int /\ c \in Int /\ a >= 0 /\ c >= 0 /\ a + w <= Width /\ c + h <= Height
    BY <1>1, <1>2
  <2> HIDE DEF a, c
  <2>3. TurnedRect(r) = [x |-> a, y |-> c, w |-> w, h |-> h]
    BY <1>2, <2>1
  <2> QED BY <2>2, <2>3 DEF ARect
<1>5. CASE display.rot \in {90, 270}
  BY <1>1, <1>2, <1>5 DEF TurnedRect, ARect
<1> QED BY <1>1, <1>3, <1>4, <1>5

LEMMA PannedIs ==
  ASSUME NEW r \in ARect, NEW offset \in Nat
  PROVE  /\ Panned(r, offset) \in ARect
         /\ offset = 0 => Panned(r, offset) = r
<1>1. PICK x \in Int, y \in Int, w \in Int, h \in Int : r = [x |-> x, y |-> y, w |-> w, h |-> h]
  BY DEF ARect
<1> DEFINE o == y + offset
<1>2. Panned(r, offset) = [r EXCEPT !.y = o] /\ o \in Int /\ (offset = 0 => o = y)
  BY <1>1 DEF Panned
<1> HIDE DEF o
<1>3. Panned(r, offset) = [x |-> x, y |-> o, w |-> w, h |-> h]
  BY <1>1, <1>2
<1> QED BY <1>1, <1>2, <1>3 DEF ARect

\* Where a screen is not panned, the rectangle noted covers what was drawn; and
\* where it is not turned either, the copy of the whole screen does.
LEMMA DrawnPlaces ==
  ASSUME display \in Displays, NEW d \in Drawings, d.x < Width, d.y < Height,
         NEW offset \in 0 .. MaxOffset
  PROVE  /\ PlacesOf(d, offset) \subseteq Memory
         /\ NotedFor(d, offset) \in ARect
         /\ Unpanned => PlacesOf(d, offset) \subseteq Covered(NotedFor(d, offset))
         /\ Plain => PlacesOf(d, offset) \cap Unreached = {}
<1> DEFINE c == Clipped(d)
           t == TurnedRect(c)
           noted == NotedFor(d, offset)
           places == PlacesOf(d, offset)
           cell == [x |-> d.x, y |-> d.y, w |-> d.w, h |-> d.h]
           drawn_at == Panned(c, offset)
<1>1. /\ c \in ARect /\ c.x = d.x /\ c.y = d.y
      /\ d.x \in Nat /\ d.y \in Nat /\ d.w \in Nat /\ d.h \in Nat
      /\ c.w <= d.w /\ c.h <= d.h
      /\ d.x + c.w <= Width /\ d.y + c.h <= Height
  BY ClippedIn
<1>2. /\ t \in ARect
      /\ ~ Turned => t.x >= 0 /\ t.y >= 0 /\ t.x + t.w <= Width /\ t.y + t.h <= Height
  <2> HIDE DEF c
  <2> QED BY <1>1, TurnedIn
<1>3. d.kind \in {"rect", "fill", "sixel"}
  BY SwapAssumption
<1>4. /\ offset \in Nat /\ Width \in Nat /\ Height \in Nat
      /\ Unpanned => offset = 0 /\ display.scroll # "YWrap" /\ display.bpp # 15
  BY DisplaySides DEF Unpanned
<1>5. cell \in ARect
  BY <1>1 DEF ARect
<1>6. noted = IF d.kind = "sixel" THEN cell ELSE Panned(t, offset)
  BY DEF NotedFor
<1>7. Panned(t, offset) \in ARect /\ (offset = 0 => Panned(t, offset) = t)
      /\ drawn_at \in ARect /\ (offset = 0 => drawn_at = c)
  <2> HIDE DEF c, t
  <2> QED BY <1>1, <1>2, <1>4, PannedIs
<1>8. places = CASE d.kind = "rect" -> RowsOf(noted)
                 [] d.kind = "fill" -> IF display.bpp = 15 THEN Memory ELSE Covered(noted)
                 [] d.kind = "sixel" -> Block(drawn_at)
  BY DEF PlacesOf
<1> HIDE DEF c, t, noted, places, cell, drawn_at
<1>9. noted \in ARect
  BY <1>5, <1>6, <1>7
<1>10. places \subseteq Memory
  BY <1>3, <1>8 DEF RowsOf, Block, Covered
<1>11. ASSUME Unpanned PROVE places \subseteq Covered(noted)
  <2>1. Covered(noted) = Block(noted)
    BY <1>4, <1>11 DEF Covered
  <2>2. CASE d.kind = "rect"
    BY <1>4, <1>8, <1>9, <1>11, <2>1, <2>2, RowsAreBlock
  <2>3. CASE d.kind = "fill"
    BY <1>4, <1>8, <1>11, <2>3
  <2>4. CASE d.kind = "sixel"
    <3>1. noted = cell /\ drawn_at = c
      BY <1>4, <1>6, <1>7, <1>11, <2>4
    <3>2. cell.x = d.x /\ cell.y = d.y /\ cell.w = d.w /\ cell.h = d.h
      BY DEF cell
    <3>3. Block(c) \subseteq Block(cell)
      BY <1>1, <1>5, <3>2, BlockInBlock DEF ARect
    <3> QED BY <1>8, <2>1, <2>4, <3>1, <3>3
  <2> QED BY <1>3, <2>2, <2>3, <2>4
<1>12. ASSUME Plain PROVE places \cap Unreached = {}
  <2>1. WholeScreen \in ARect /\ WholeScreen.x = 0 /\ WholeScreen.y = 0 /\ WholeScreen.w = Width /\ WholeScreen.h = Height
    BY <1>4 DEF WholeScreen, ARect
  <2>2. Covered(WholeScreen) = Block(WholeScreen)
    BY <1>4, <1>12 DEF Covered, Plain
  <2>3. Unreached \cap Block(WholeScreen) = {}
    BY <2>2 DEF Unreached
  <2>4. CASE d.kind = "sixel"
    <3>1. places = Block(c)
      BY <1>4, <1>7, <1>8, <1>12, <2>4 DEF Plain
    <3>2. Block(c) \subseteq Block(WholeScreen)
      BY <1>1, <2>1, BlockInBlock DEF ARect
    <3> QED BY <2>3, <3>1, <3>2
  <2>5. CASE d.kind # "sixel"
    <3>1. noted = t
      BY <1>4, <1>6, <1>7, <1>12, <2>5 DEF Plain
    <3>2. Block(t) \subseteq Block(WholeScreen)
      BY <1>2, <1>12, <2>1, BlockInBlock DEF ARect, Plain
    <3>3. Covered(noted) = Block(noted)
      BY <1>4, <1>12 DEF Covered, Plain
    <3>4. places \subseteq Block(noted)
      BY <1>11, <1>12, <3>3 DEF Plain
    <3> QED BY <2>3, <3>1, <3>2, <3>4
  <2> QED BY <2>4, <2>5
<1> QED BY <1>9, <1>10, <1>11, <1>12 DEF noted, places

\* A rectangle marked is in the list, or the list overflows.
LEMMA MarkedFollows ==
  ASSUME NEW q, QueueOK(q), NEW r \in ARect
  PROVE  LET m == markDirty(q, r)
         IN  /\ QueueOK(m) /\ m.mRgaActive = q.mRgaActive
             /\ m.mRgaActive /\ ~ m.mDirtyOverflow =>
                  ~ q.mDirtyOverflow /\ NotedAll(q) \cup Covered(r) \subseteq NotedAll(m)
<1> DEFINE d == q.mDirtyRects
           n == Len(d)
           m == markDirty(q, r)
<1>1. n \in Nat /\ d \in Seq(ARect) /\ n <= MAX_DIRTY_RECTS
  BY DEF QueueOK
<1>2. CASE ~ q.mRgaActive
  <2>1. m = q
    BY <1>2 DEF markDirty
  <2> QED BY <1>2, <2>1
<1>3. CASE q.mRgaActive /\ ~ (r.w # 0 /\ r.h # 0)
  <2>1. m = q
    BY <1>3 DEF markDirty
  <2>2. Covered(r) = {}
    BY <1>3, NoBlock DEF Covered
  <2> QED BY <2>1, <2>2
<1>4. CASE q.mRgaActive /\ r.w # 0 /\ r.h # 0 /\ q.mDirtyOverflow
  <2>1. m = q
    BY <1>4 DEF markDirty, addDirtyRect
  <2> QED BY <1>4, <2>1
<1>5. CASE q.mRgaActive /\ r.w # 0 /\ r.h # 0 /\ ~ q.mDirtyOverflow /\ n >= MAX_DIRTY_RECTS
  <2>1. m = [q EXCEPT !.mDirtyOverflow = TRUE]
    BY <1>5 DEF markDirty, addDirtyRect
  <2>2. m = ARga(q.mRgaActive, d, TRUE)
    BY <2>1 DEF QueueOK, ARga
  <2>3. m.mRgaActive = q.mRgaActive /\ m.mDirtyRects = d /\ m.mDirtyOverflow = TRUE
    BY <2>2 DEF ARga
  <2> HIDE DEF m
  <2>4. QueueOK(m)
    BY <1>1, <2>2, <2>3 DEF QueueOK
  <2> QED BY <2>3, <2>4 DEF m
<1>6. CASE q.mRgaActive /\ r.w # 0 /\ r.h # 0 /\ ~ q.mDirtyOverflow /\ ~ (n >= MAX_DIRTY_RECTS)
  <2> DEFINE e == Append(d, r)
  <2>1. m = [q EXCEPT !.mDirtyRects = e]
    BY <1>6 DEF markDirty, addDirtyRect
  <2>2. e \in Seq(ARect) /\ Len(e) = n + 1 /\ e[n + 1] = r /\ \A i \in 1 .. n : e[i] = d[i]
    BY <1>1
  <2> HIDE DEF e
  <2>3. m = ARga(q.mRgaActive, e, q.mDirtyOverflow)
    BY <2>1 DEF QueueOK, ARga
  <2>4. m.mRgaActive = q.mRgaActive /\ m.mDirtyRects = e /\ m.mDirtyOverflow = q.mDirtyOverflow
    BY <2>3 DEF ARga
  <2> HIDE DEF m
  <2>5. Len(e) <= MAX_DIRTY_RECTS
    BY <1>1, <1>6, <2>2, SwapAssumption
  <2>6. QueueOK(m)
    <3>1. q.mRgaActive \in BOOLEAN /\ q.mDirtyOverflow \in BOOLEAN
      BY DEF QueueOK
    <3> QED BY <2>2, <2>3, <2>4, <2>5, <3>1 DEF QueueOK
  <2>7. NotedAll(q) \cup Covered(r) \subseteq NotedAll(m)
    <3> SUFFICES ASSUME NEW p \in NotedAll(q) \cup Covered(r) PROVE p \in Noted(m, n + 1)
      BY <2>2, <2>4 DEF NotedAll
    <3>1. CASE p \in Covered(r)
      <4>1. n + 1 \in 1 .. n + 1
        BY <1>1
      <4> QED BY <2>2, <2>4, <3>1, <4>1 DEF Noted
    <3>2. CASE p \in NotedAll(q)
      <4>1. PICK i \in 1 .. n : p \in Covered(d[i])
        BY <3>2 DEF NotedAll, Noted
      <4>2. i \in 1 .. n + 1
        BY <1>1
      <4> QED BY <2>2, <2>4, <4>1, <4>2 DEF Noted
    <3> QED BY <3>1, <3>2
  <2> QED BY <1>6, <2>4, <2>6, <2>7 DEF m
<1> QED BY <1>2, <1>3, <1>4, <1>5, <1>6 DEF QueueOK

LEMMA DrawnFollows ==
  ASSUME display \in Displays, NEW b, NEW w, Follows(b, w), NEW d \in Possible(b),
         NEW offset \in 0 .. MaxOffset
  PROVE  Follows(Drawn(b, d, offset), w \cup PlacesOf(d, offset))
<1> DEFINE places == PlacesOf(d, offset)
           noted == NotedFor(d, offset)
           c == Covered(noted)
           m == markDirty(b.rga, noted)
           e == Drawn(b, d, offset)
<1>1. /\ places \subseteq Memory /\ noted \in ARect
      /\ Unpanned => places \subseteq c
      /\ Plain => places \cap Unreached = {}
  BY DrawnPlaces DEF Possible
<1>2. /\ e.rga = m /\ e.stale = b.stale \cup places
      /\ e.unnoted = b.unnoted \cup (places \ c)
  BY DEF Drawn
<1>3. /\ QueueOK(m) /\ m.mRgaActive = b.rga.mRgaActive
      /\ m.mRgaActive /\ ~ m.mDirtyOverflow =>
           ~ b.rga.mDirtyOverflow /\ NotedAll(b.rga) \cup c \subseteq NotedAll(m)
  <2> HIDE DEF noted
  <2> QED BY <1>1, MarkedFollows DEF Follows
<1> HIDE DEF places, noted, c, m, e
<1>4. m.mRgaActive /\ ~ m.mDirtyOverflow => e.stale \subseteq NotedAll(m) \cup e.unnoted \cup Unreached
  BY <1>2, <1>3 DEF Follows
<1>5. e.stale \subseteq (w \cup places) \cup e.unnoted \cup Unreached
  BY <1>2 DEF Follows
<1>6. e.stale \subseteq Memory /\ e.unnoted \subseteq Memory
  BY <1>1, <1>2 DEF Follows
<1>7. (Unpanned => e.unnoted = {}) /\ (Plain => e.stale \cap Unreached = {})
  BY <1>1, <1>2 DEF Follows
<1>8. ~ m.mRgaActive => e.stale \subseteq w \cup places
  BY <1>2, <1>3 DEF Follows
<1>9. Follows(e, w \cup places)
  BY <1>2, <1>3, <1>4, <1>5, <1>6, <1>7, <1>8 DEF Follows
<1> QED BY <1>9 DEF e, places

\* Swapping leaves nothing but what is excused, whatever the blitter does.
LEMMA SwapLeaves ==
  ASSUME display \in Displays, NEW b, NEW w, Follows(b, w), NEW res \in SwapResults(b)
  PROVE  Follows(res, {})
<1> DEFINE q == b.rga
           n == Len(q.mDirtyRects)
           off == [q EXCEPT !.mRgaActive = FALSE]
           clear == clearDirtyRects(q)
           all == [rga |-> off, stale |-> {}, unnoted |-> {}]
           left(copied) == [rga |-> clear, stale |-> b.stale \ copied,
                            unnoted |-> b.unnoted \ copied]
<1>1. QueueOK(q)
  BY DEF Follows
<1>2. \/ res = all
      \/ q.mRgaActive /\ Flushes(q) /\ res = left(NotedAll(q))
      \/ q.mRgaActive /\ WholeFits /\ \E k \in 0 .. n : res = left(Noted(q, k) \cup Covered(WholeScreen))
  <2>1. n \in Nat
    BY <1>1 DEF QueueOK
  <2> QED BY <2>1 DEF SwapResults, NotedAll
<1>3. QueueOK(off) /\ off.mRgaActive = FALSE
  <2>1. PICK a \in BOOLEAN, d \in Seq(ARect), o \in BOOLEAN : q = ARga(a, d, o)
    BY <1>1 DEF QueueOK, ARga
  <2> DEFINE no == FALSE
             was == ARga(a, d, o)
  <2>2. off = [was EXCEPT !.mRgaActive = no]
    BY <2>1
  <2> HIDE DEF no
  <2>3. [was EXCEPT !.mRgaActive = no] = ARga(no, d, o)
    BY ActiveSet
  <2>4. off = ARga(no, d, o)
    BY <2>2, <2>3
  <2>5. off = ARga(FALSE, d, o)
    BY <2>4 DEF no
  <2> HIDE DEF off
  <2>6. off.mRgaActive = FALSE /\ off.mDirtyRects = d /\ off.mDirtyOverflow = o
    BY <2>5 DEF ARga
  <2>7. Len(d) <= MAX_DIRTY_RECTS
    BY <1>1, <2>1 DEF QueueOK, ARga
  <2> QED BY <2>5, <2>6, <2>7 DEF QueueOK
<1>4. QueueOK(clear) /\ clear.mRgaActive = q.mRgaActive
  <2>1. PICK a \in BOOLEAN, d \in Seq(ARect), o \in BOOLEAN : q = ARga(a, d, o)
    BY <1>1 DEF QueueOK, ARga
  <2> DEFINE none == <<>>
  <2>2. clear = [[q EXCEPT !.mDirtyRects = none] EXCEPT !.mDirtyOverflow = FALSE]
    BY DEF clearDirtyRects
  <2> HIDE DEF none, clear
  <2>3. clear = ARga(q.mRgaActive, none, FALSE)
    BY <2>1, <2>2 DEF ARga
  <2>4. clear.mRgaActive = q.mRgaActive /\ clear.mDirtyRects = none /\ clear.mDirtyOverflow = FALSE
    BY <2>3 DEF ARga
  <2>5. none \in Seq(ARect) /\ Len(none) <= MAX_DIRTY_RECTS
    BY SwapAssumption DEF none
  <2>6. q.mRgaActive \in BOOLEAN
    BY <1>1 DEF QueueOK
  <2> QED BY <2>3, <2>4, <2>5, <2>6 DEF QueueOK
<1> HIDE DEF off, clear
<1>5. CASE res = all
  <2>1. res.rga = off /\ res.stale = {} /\ res.unnoted = {}
    BY <1>5
  <2> QED BY <1>3, <2>1 DEF Follows
<1>6. ASSUME NEW copied, q.mRgaActive,
             res.rga = clear, res.stale = b.stale \ copied, res.unnoted = b.unnoted \ copied,
             b.stale \ copied \subseteq (b.unnoted \ copied) \cup Unreached
      PROVE  Follows(res, {})
  <2>2. /\ b.stale \subseteq Memory /\ b.unnoted \subseteq Memory
        /\ Unpanned => b.unnoted = {}
        /\ Plain => b.stale \cap Unreached = {}
    BY DEF Follows
  <2>3. QueueOK(res.rga) /\ res.rga.mRgaActive
    BY <1>4, <1>6
  <2>4. res.stale \subseteq res.unnoted \cup Unreached
    BY <1>6
  <2> HIDE DEF q
  <2> QED BY <1>6, <2>2, <2>3, <2>4 DEF Follows
<1>7. CASE q.mRgaActive /\ Flushes(q) /\ res = left(NotedAll(q))
  <2>1. ~ q.mDirtyOverflow
    BY <1>7 DEF Flushes
  <2>2. b.stale \subseteq NotedAll(q) \cup b.unnoted \cup Unreached
    BY <1>7, <2>1 DEF Follows
  <2>3. b.stale \ NotedAll(q) \subseteq (b.unnoted \ NotedAll(q)) \cup Unreached
    BY <2>2
  <2>4. /\ res.rga = clear /\ res.stale = b.stale \ NotedAll(q)
        /\ res.unnoted = b.unnoted \ NotedAll(q)
    BY <1>7
  <2>5. q.mRgaActive
    BY <1>7
  <2> HIDE DEF left, q
  <2> QED BY <1>6, <2>3, <2>4, <2>5
<1>8. CASE q.mRgaActive /\ WholeFits
             /\ \E k \in 0 .. n : res = left(Noted(q, k) \cup Covered(WholeScreen))
  <2>1. PICK k \in 0 .. n : res = left(Noted(q, k) \cup Covered(WholeScreen))
    BY <1>8
  <2> DEFINE gone == Noted(q, k) \cup Covered(WholeScreen)
  <2>2. b.stale \subseteq Memory
    BY DEF Follows
  <2>3. Unreached = Memory \ Covered(WholeScreen)
    BY <1>8 DEF Unreached
  <2>4. b.stale \ gone \subseteq (b.unnoted \ gone) \cup Unreached
    BY <2>2, <2>3
  <2>5. /\ res.rga = clear /\ res.stale = b.stale \ gone
        /\ res.unnoted = b.unnoted \ gone
    BY <2>1
  <2>6. q.mRgaActive
    BY <1>8
  <2> HIDE DEF left, q, gone
  <2> QED BY <1>6, <2>4, <2>5, <2>6
<1> QED BY <1>2, <1>5, <1>7, <1>8

\* A handler that may draw; the places it may draw at are drawn since the last swap.
LEMMA MayDrawFollows ==
  ASSUME display \in Displays, NEW b, NEW w, Follows(b, w), NEW offset \in 0 .. MaxOffset,
         NEW c \in MayDraw(b, offset)
  PROVE  \E v : Follows(c, v)
<1>1. CASE c = b
  BY <1>1
<1>2. CASE \E d \in Possible(b) : c = Drawn(b, d, offset)
  <2>1. PICK d \in Possible(b) : c = Drawn(b, d, offset)
    BY <1>2
  <2>2. Follows(Drawn(b, d, offset), w \cup PlacesOf(d, offset))
    BY DrawnFollows
  <2> QED BY <2>1, <2>2
<1> QED BY <1>1, <1>2 DEF MayDraw

\* The state after a step that leaves the display as it is.
LEMMA KeptStep ==
  ASSUME display \in Displays, display' = display, mOffset' \in 0 .. MaxOffset,
         NEW b, Follows(b, waiting'), waiting' \subseteq Memory,
         rga' = b.rga, stale' = b.stale, unnoted' = b.unnoted
  PROVE  SwapKept'
<1>1. Memory' = Memory /\ MaxOffset' = MaxOffset /\ Unreached' = Unreached
      /\ Unpanned' = Unpanned /\ Plain' = Plain
  BY DEF Memory, MaxOffset, Unreached, Unpanned, Plain, WholeFits, WholeScreen, Width, Height,
         Turned, Covered, Block, At
<1>2. NotedAll(rga)' = NotedAll(b.rga)
  BY DEF NotedAll, Noted, Covered, Block, At, Memory
<1>3. /\ (Buffer.rga)' = b.rga /\ (Buffer.stale)' = b.stale /\ (Buffer.unnoted)' = b.unnoted
  BY DEF Buffer
<1>4. QueueOK(b.rga) /\ (QueueOK(rga)' <=> QueueOK(b.rga))
  BY DEF QueueOK, Follows
<1>5. Follows(Buffer, waiting)'
  BY <1>1, <1>2, <1>3, <1>4 DEF Follows, Buffer
<1> QED BY <1>1, <1>5 DEF SwapKept

LEMMA Swapped ==
  ASSUME display \in Displays, display' = display, mOffset' \in 0 .. MaxOffset,
         NEW b, NEW w, Follows(b, w), Swaps(b)
  PROVE  SwapKept'
<1>1. PICK res \in SwapResults(b) : rga' = res.rga /\ stale' = res.stale /\ unnoted' = res.unnoted
  BY DEF Swaps, Becomes
<1>2. Follows(res, {})
  BY SwapLeaves
<1>3. waiting' = {}
  BY DEF Swaps
<1> QED BY <1>1, <1>2, <1>3, KeptStep

LEMMA SwapStarts == SwapInit => SwapKept
<1> SUFFICES ASSUME SwapInit PROVE SwapKept
  OBVIOUS
<1>1. PICK a \in BOOLEAN : rga = ARga(a, <<>>, FALSE)
  BY DEF SwapInit, ARga
<1>2. rga.mRgaActive = a /\ rga.mDirtyRects = <<>> /\ rga.mDirtyOverflow = FALSE
  BY <1>1 DEF ARga
<1>3. <<>> \in Seq(ARect) /\ Len(<<>>) <= MAX_DIRTY_RECTS
  BY SwapAssumption
<1>4. QueueOK(rga)
  BY <1>1, <1>2, <1>3 DEF QueueOK
<1>5. /\ stale = {} /\ unnoted = {} /\ waiting = {}
      /\ display \in Displays /\ mOffset = 0
  BY DEF SwapInit
<1>6. mOffset \in 0 .. MaxOffset
  BY <1>5, DisplaySides
<1>7. Buffer.rga = rga /\ Buffer.stale = {} /\ Buffer.unnoted = {}
  BY <1>5 DEF Buffer
<1> QED BY <1>4, <1>5, <1>6, <1>7 DEF SwapKept, Follows

LEMMA SwapSteps == SwapKept /\ SwapNext => SwapKept'
<1> SUFFICES ASSUME SwapKept, SwapNext PROVE SwapKept'
  OBVIOUS
<1>1. display \in Displays /\ mOffset \in 0 .. MaxOffset /\ Follows(Buffer, waiting)
  BY DEF SwapKept
<1>2. CASE DrawsAndSwaps
  <2>1. PICK b \in MayDraw(Buffer, mOffset), offset \in 0 .. MaxOffset :
          /\ mOffset' = offset
          /\ \E c \in MayDraw(b, offset) : Swaps(c)
    BY <1>2 DEF DrawsAndSwaps
  <2>2. PICK c \in MayDraw(b, offset) : Swaps(c)
    BY <2>1
  <2>3. PICK w : Follows(b, w)
    BY <1>1, <2>1, MayDrawFollows
  <2>4. PICK v : Follows(c, v)
    BY <1>1, <2>1, <2>2, <2>3, MayDrawFollows
  <2>5. display' = display
    BY <1>2 DEF DrawsAndSwaps
  <2> QED BY <1>1, <2>1, <2>2, <2>4, <2>5, Swapped
<1>3. CASE CursorFlash
  <2>1. PICK b \in MayDraw(Buffer, mOffset) :
          \E first \in SwapResults(b) : \E c \in MayDraw(first, mOffset) : Swaps(c)
    BY <1>3 DEF CursorFlash
  <2>2. PICK first \in SwapResults(b) : \E c \in MayDraw(first, mOffset) : Swaps(c)
    BY <2>1
  <2>3. PICK c \in MayDraw(first, mOffset) : Swaps(c)
    BY <2>2
  <2>4. PICK w : Follows(b, w)
    BY <1>1, <2>1, MayDrawFollows
  <2>5. Follows(first, {})
    BY <1>1, <2>2, <2>4, SwapLeaves
  <2>6. PICK v : Follows(c, v)
    BY <1>1, <2>3, <2>5, MayDrawFollows
  <2>7. display' = display /\ mOffset' = mOffset
    BY <1>3 DEF CursorFlash
  <2> QED BY <1>1, <2>3, <2>6, <2>7, Swapped
<1>4. CASE ImDraws
  <2>1. PICK d \in Possible(Buffer) :
          \E c \in MayDraw(Drawn(Buffer, d, mOffset), mOffset) : Swaps(c)
    BY <1>4 DEF ImDraws
  <2>2. PICK c \in MayDraw(Drawn(Buffer, d, mOffset), mOffset) : Swaps(c)
    BY <2>1
  <2>3. Follows(Drawn(Buffer, d, mOffset), waiting \cup PlacesOf(d, mOffset))
    BY <1>1, <2>1, DrawnFollows
  <2>4. PICK v : Follows(c, v)
    BY <1>1, <2>2, <2>3, MayDrawFollows
  <2>5. display' = display /\ mOffset' = mOffset
    BY <1>4 DEF ImDraws
  <2> QED BY <1>1, <2>2, <2>4, <2>5, Swapped
<1>5. CASE SelectText
  <2>1. PICK d \in Possible(Buffer) :
          /\ Becomes(Drawn(Buffer, d, mOffset))
          /\ waiting' = waiting \cup PlacesOf(d, mOffset)
    BY <1>5 DEF SelectText
  <2> DEFINE e == Drawn(Buffer, d, mOffset)
  <2>2. Follows(e, waiting \cup PlacesOf(d, mOffset))
    BY <1>1, <2>1, DrawnFollows
  <2>3. display' = display /\ mOffset' = mOffset
    BY <1>5 DEF SelectText
  <2>4. rga' = e.rga /\ stale' = e.stale /\ unnoted' = e.unnoted
    BY <2>1 DEF Becomes
  <2>5. waiting' \subseteq Memory
    <3>1. PlacesOf(d, mOffset) \subseteq Memory
      BY <1>1, <2>1, DrawnPlaces DEF Possible
    <3> QED BY <2>1, <3>1 DEF SwapKept
  <2> HIDE DEF e
  <2> QED BY <1>1, <2>1, <2>2, <2>3, <2>4, <2>5, KeptStep
<1> QED BY <1>2, <1>3, <1>4, <1>5 DEF SwapNext

LEMMA SwapStays == ASSUME SwapKept, UNCHANGED swapVars PROVE SwapKept'
<1>1. /\ display' = display /\ mOffset' = mOffset /\ rga' = rga /\ stale' = stale
      /\ unnoted' = unnoted /\ waiting' = waiting
  BY DEF swapVars
<1>2. Buffer.rga = rga /\ Buffer.stale = stale /\ Buffer.unnoted = unnoted
  BY DEF Buffer
<1>3. /\ display \in Displays /\ mOffset \in 0 .. MaxOffset /\ waiting \subseteq Memory
      /\ Follows(Buffer, waiting)
  BY DEF SwapKept
<1> QED BY <1>1, <1>2, <1>3, KeptStep

LEMMA KeptIsCurrent == SwapKept => SwapTypeOK /\ DisplayIsCurrent
<1> SUFFICES ASSUME SwapKept PROVE SwapTypeOK /\ DisplayIsCurrent
  OBVIOUS
<1>1. Buffer.rga = rga /\ Buffer.stale = stale /\ Buffer.unnoted = unnoted
  BY DEF Buffer
<1>2. /\ display \in Displays /\ mOffset \in 0 .. MaxOffset /\ waiting \subseteq Memory
      /\ Follows(Buffer, waiting)
  BY DEF SwapKept
<1>3. SwapTypeOK
  BY <1>1, <1>2 DEF Follows, QueueOK, SwapTypeOK
<1>4. DisplayIsCurrent
  <2>1. stale \subseteq waiting \cup unnoted \cup Unreached
    BY <1>1, <1>2 DEF Follows
  <2>2. /\ Unpanned => unnoted = {}
        /\ Plain => stale \cap Unreached = {}
        /\ ~ rga.mRgaActive => stale \subseteq waiting
    BY <1>1, <1>2 DEF Follows
  <2> QED BY <2>1, <2>2 DEF DisplayIsCurrent, Unpanned, Plain
<1> QED BY <1>3, <1>4

-----------------------------------------------------------------------------
(* Requests to the blitter (RgaRequest).                                   *)

LEMMA DivByTen == ASSUME NEW n \in Nat, n <= 1003 PROVE n \div 10 \in 0 .. 100
OBVIOUS
LEMMA DivByHundred == ASSUME NEW n \in Nat, n <= 1003 PROVE n \div 100 \in 0 .. 10
OBVIOUS
LEMMA NegativeDiv == (-1) \div 256 = -1
<1>1. \A n \in Int : n < 0 /\ n >= -256 => n \div 256 = -1
  OBVIOUS
<1>2. -1 \in Int /\ -1 < 0 /\ -1 >= -256
  OBVIOUS
<1> QED BY <1>1, <1>2
LEMMA NegativeRest == (-1) % 256 = 255
<1>1. \A n \in Int : n < 0 /\ n >= -256 => n % 256 = n + 256
  OBVIOUS
<1>2. -1 \in Int /\ -1 < 0 /\ -1 >= -256 /\ -1 + 256 = 255
  OBVIOUS
<1> QED BY <1>1, <1>2
LEMMA FormatDiv == ASSUME NEW n \in Int PROVE (n * 256) \div 256 = n
OBVIOUS

\* A known device is newer than 1.003.
LEMMA KnownIsNewer ==
  ASSUME NEW v \in Blitters, Rga!rga_get_info(v) # {}
  PROVE  v.number \in Nat /\ v.number > 1003
<1>1. v.number \in Nat
  BY RgaAssumption
<1>2. SUFFICES ASSUME v.number <= 1003 PROVE FALSE
  BY <1>1
<1>3. v.number \div 10 \in 0 .. 100 /\ v.number \div 100 \in 0 .. 10
  BY <1>1, <1>2, DivByTen, DivByHundred
<1> DEFINE a == v.number \div 10
           b == v.number \div 100
<1>4. a \notin {200, 300, 302, 400} /\ b \notin {13, 16, 30, 32, 40, 420}
  BY <1>3
<1> HIDE DEF a, b
<1>5. Rga!rga_get_info(v) = {}
  BY <1>4 DEF Rga!rga_get_info, a, b
<1> QED BY <1>5

\* A format by its old name and by its new one has the same number.
LEMMA CodeIs ==
  ASSUME NEW f \in Nat
  PROVE  Rga!Code(f) = IF f = 0 THEN 0
                   ELSE IF f \div 256 = 0 THEN f
                   ELSE IF (f \div 256) % 256 # 0 THEN f \div 256 ELSE -1
<1>1. 0 \div 256 = 0 /\ (-1) \div 256 = -1
  BY NegativeDiv
<1>2. CASE f = 0
  BY <1>1, <1>2 DEF Rga!Code, Rga!RkRgaGetRgaFormat, Rga!IsKnown
<1>3. CASE f # 0 /\ f \div 256 = 0
  <2>1. f \in 1 .. 255
    BY <1>3
  <2>2. (f * 256) \div 256 = f /\ f % 256 = f /\ 0 % 256 = 0
    BY <2>1, FormatDiv
  <2> DEFINE g == f * 256
  <2>3. Rga!RkRgaCompatibleFormat(f) = g
    BY <1>3 DEF Rga!RkRgaCompatibleFormat
  <2>4. ~ Rga!IsKnown(f) /\ Rga!IsKnown(g)
    BY <1>3, <2>1, <2>2 DEF Rga!IsKnown
  <2>5. Rga!Code(f) = g \div 256
    BY <2>3, <2>4 DEF Rga!Code, Rga!RkRgaGetRgaFormat
  <2> QED BY <1>3, <2>2, <2>5
<1>4. CASE f # 0 /\ f \div 256 # 0
  <2>1. Rga!RkRgaCompatibleFormat(f) = f
    BY <1>4 DEF Rga!RkRgaCompatibleFormat
  <2>2. Rga!IsKnown(f) <=> (f \div 256) % 256 # 0
    BY <1>4 DEF Rga!IsKnown
  <2> QED BY <1>1, <1>4, <2>1, <2>2 DEF Rga!Code, Rga!RkRgaGetRgaFormat
<1> QED BY <1>2, <1>3, <1>4

LEMMA CodeOfCompatible ==
  ASSUME NEW f \in Nat
  PROVE  Rga!RkRgaCompatibleFormat(f) \in Nat /\ Rga!Code(Rga!RkRgaCompatibleFormat(f)) = Rga!Code(f)
<1>1. CASE f = 0 \/ f \div 256 # 0
  BY <1>1 DEF Rga!RkRgaCompatibleFormat
<1>2. CASE f # 0 /\ f \div 256 = 0
  <2>1. f \in 1 .. 255
    BY <1>2
  <2>2. f * 256 \in Nat /\ f * 256 # 0 /\ (f * 256) \div 256 = f /\ f % 256 = f /\ f # 0
    BY <2>1, FormatDiv
  <2>3. Rga!RkRgaCompatibleFormat(f) = f * 256
    BY <1>2 DEF Rga!RkRgaCompatibleFormat
  <2> DEFINE g == f * 256
  <2> HIDE DEF g
  <2>4. Rga!Code(g) = f
    BY <2>2, CodeIs DEF g
  <2>5. Rga!Code(f) = f
    BY <1>2, CodeIs
  <2> QED BY <2>2, <2>3, <2>4, <2>5 DEF g
<1> QED BY <1>1, <1>2

LEMMA CodeAgain ==
  ASSUME NEW f \in Nat PROVE Rga!Code(Rga!Code(f) * 256) = Rga!Code(f)
<1> DEFINE c == Rga!Code(f)
           g == c * 256
<1>1. c = 0 \/ c = -1 \/ (c \in Nat /\ c # 0 /\ c % 256 # 0)
  <2>1. CASE f # 0 /\ f \div 256 = 0
    <3>1. f \in 1 .. 255
      BY <2>1
    <3>2. f % 256 = f
      BY <3>1
    <3>3. c = f
      BY <2>1, CodeIs
    <3> QED BY <3>1, <3>2, <3>3
  <2>2. CASE f = 0 \/ f \div 256 # 0
    <3>1. f \div 256 \in Nat
      OBVIOUS
    <3> QED BY <2>2, <3>1, CodeIs
  <2> QED BY <2>1, <2>2
<1> HIDE DEF c
<1>2. CASE c = 0
  <2>1. g = 0
    BY <1>2
  <2> QED BY <1>2, <2>1, CodeIs DEF c
<1>3. CASE c = -1
  <2>1. g \div 256 = -1 /\ (-1) % 256 # 0 /\ -1 \in Int
    BY <1>3, FormatDiv, NegativeRest
  <2> HIDE DEF g
  <2>2. Rga!IsKnown(g)
    BY <2>1 DEF Rga!IsKnown
  <2>3. Rga!Code(g) = -1
    BY <2>1, <2>2 DEF Rga!Code, Rga!RkRgaGetRgaFormat
  <2> QED BY <1>3, <2>3 DEF c, g
<1>4. CASE c \in Nat /\ c # 0 /\ c % 256 # 0
  <2>1. g \div 256 = c
    BY <1>4, FormatDiv
  <2> HIDE DEF g
  <2>2. Rga!IsKnown(g)
    BY <1>4, <2>1 DEF Rga!IsKnown
  <2>3. Rga!Code(g) = c
    BY <2>1, <2>2 DEF Rga!Code, Rga!RkRgaGetRgaFormat
  <2> QED BY <2>3 DEF c, g
<1> QED BY <1>1, <1>2, <1>3, <1>4

LEMMA BytesByCode ==
  ASSUME NEW f, NEW g, Rga!Code(f) = Rga!Code(g) PROVE Rga!bytesPerPixel(f) = Rga!bytesPerPixel(g)
BY DEF Rga!bytesPerPixel, Rga!Group

\* The bytes of a pixel of a format, one where the table has none.
PixelBytes(f) == IF Rga!bytesPerPixel(f) = 0 THEN 1 ELSE Rga!bytesPerPixel(f)

\* An operand of the library that is what its caller means.
InfoMeans(i, meant) ==
  /\ i.format \in Nat
  /\ i.x \in Nat /\ i.y \in Nat /\ i.w \in Nat /\ i.h \in Nat /\ i.ws \in Nat
  /\ i.w = meant.w /\ i.h = meant.h
  /\ PixelBytes(i.format) = meant.bytes
  /\ i.ws * PixelBytes(i.format) = meant.pitch
  /\ i.at + i.y * meant.pitch + i.x * meant.bytes
       = meant.at + meant.y * meant.pitch + meant.x * meant.bytes
  /\ i.x + i.w <= i.ws
  /\ build = "im2d" => i.y + i.h <= i.hs

\* Whatever it is turned by, the device then covers what is meant.
LEMMA OperandCovers ==
  ASSUME NEW i, NEW meant, InfoMeans(i, meant), NEW p, NEW rotation,
         p.vir_w = i.ws, p.vir_h = i.hs, p.format = Rga!Code(i.format), p.base.at = i.at,
         Rga!Covered(p, rotation) = [x |-> i.x, y |-> i.y, w |-> i.w, h |-> i.h]
  PROVE  Rga!CoversMeant(build, p, rotation, meant)
<1> DEFINE c == Rga!Covered(p, rotation)
           bytes == PixelBytes(p.format * 256)
           pitch == p.vir_w * bytes
<1>1. bytes = PixelBytes(i.format)
  <2>1. Rga!Code(p.format * 256) = Rga!Code(i.format)
    BY CodeAgain DEF InfoMeans
  <2> QED BY <2>1, BytesByCode DEF PixelBytes
<1>2. bytes = meant.bytes /\ pitch = meant.pitch
  BY <1>1 DEF InfoMeans
<1>3. c.x = i.x /\ c.y = i.y /\ c.w = i.w /\ c.h = i.h
  OBVIOUS
<1> HIDE DEF c, bytes, pitch
<1>4. p.base.at + c.y * pitch + c.x * bytes
        = meant.at + meant.y * meant.pitch + meant.x * meant.bytes
  BY <1>2, <1>3 DEF InfoMeans
<1>5. c.w = meant.w /\ c.h = meant.h /\ c.x >= 0 /\ c.x + c.w <= p.vir_w
      /\ (build = "im2d" => c.y >= 0 /\ c.y + c.h <= p.vir_h)
  BY <1>3 DEF InfoMeans
<1> QED BY <1>2, <1>4, <1>5 DEF Rga!CoversMeant, c, bytes, pitch, PixelBytes

LEMMA ActiveCovers ==
  ASSUME NEW v, NEW i, NEW meant, InfoMeans(i, meant),
         NEW rotation, rotation \notin {"ROT_90", "ROT_180", "ROT_270"}
  PROVE  Rga!CoversMeant(build, Rga!ActiveInfo(Rga!Base(v, i), i, i.x, i.y, i.w, i.h), rotation, meant)
<1> DEFINE p == Rga!ActiveInfo(Rga!Base(v, i), i, i.x, i.y, i.w, i.h)
<1>1. /\ p.vir_w = i.ws /\ p.vir_h = i.hs /\ p.format = Rga!Code(i.format) /\ p.base.at = i.at
      /\ p.x_offset = i.x /\ p.y_offset = i.y /\ p.act_w = i.w /\ p.act_h = i.h
  BY DEF Rga!ActiveInfo, Rga!Base
<1> HIDE DEF p
<1>2. Rga!Covered(p, rotation) = [x |-> i.x, y |-> i.y, w |-> i.w, h |-> i.h]
  BY <1>1 DEF Rga!Covered
<1> QED BY <1>1, <1>2, OperandCovers DEF p

LEMMA CornerBack == ASSUME NEW a \in Nat, NEW b \in Nat PROVE ((a + b - 1) - b) + 1 = a
OBVIOUS

LEMMA RotatedCovers ==
  ASSUME NEW v, NEW i, NEW meant, InfoMeans(i, meant), NEW rotation
  PROVE  Rga!CoversMeant(build, Rga!RotatedInfo(Rga!Base(v, i), i, rotation), rotation, meant)
<1> DEFINE p == Rga!RotatedInfo(Rga!Base(v, i), i, rotation)
           all == [x |-> i.x, y |-> i.y, w |-> i.w, h |-> i.h]
<1>1. p.vir_w = i.ws /\ p.vir_h = i.hs /\ p.format = Rga!Code(i.format) /\ p.base.at = i.at
  BY DEF Rga!RotatedInfo, Rga!ActiveInfo, Rga!Base
<1>2. ((i.x + i.w - 1) - i.w) + 1 = i.x /\ ((i.y + i.h - 1) - i.h) + 1 = i.y
  BY CornerBack DEF InfoMeans
<1>3. CASE rotation = "ROT_90"
  <2>1. /\ p.x_offset = i.x + i.w - 1 /\ p.y_offset = i.y /\ p.act_w = i.h /\ p.act_h = i.w
    BY <1>3 DEF Rga!RotatedInfo, Rga!ActiveInfo
  <2> HIDE DEF p
  <2>2. Rga!Covered(p, rotation) = [x |-> (p.x_offset - p.act_h) + 1, y |-> p.y_offset, w |-> p.act_h, h |-> p.act_w]
    BY <1>3 DEF Rga!Covered
  <2>3. Rga!Covered(p, rotation) = all
    BY <1>2, <2>1, <2>2
  <2> QED BY <1>1, <2>3, OperandCovers DEF p
<1>4. CASE rotation = "ROT_180"
  <2>1. /\ p.x_offset = i.x + i.w - 1 /\ p.y_offset = i.y + i.h - 1
        /\ p.act_w = i.w /\ p.act_h = i.h
    BY <1>4 DEF Rga!RotatedInfo, Rga!ActiveInfo
  <2> HIDE DEF p
  <2>2. Rga!Covered(p, rotation) = [x |-> (p.x_offset - p.act_w) + 1, y |-> (p.y_offset - p.act_h) + 1, w |-> p.act_w, h |-> p.act_h]
    BY <1>4 DEF Rga!Covered
  <2>3. Rga!Covered(p, rotation) = all
    BY <1>2, <2>1, <2>2
  <2> QED BY <1>1, <2>3, OperandCovers DEF p
<1>5. CASE rotation = "ROT_270"
  <2>1. /\ p.x_offset = i.x /\ p.y_offset = i.y + i.h - 1 /\ p.act_w = i.h /\ p.act_h = i.w
    BY <1>5 DEF Rga!RotatedInfo, Rga!ActiveInfo
  <2> HIDE DEF p
  <2>2. Rga!Covered(p, rotation) = [x |-> p.x_offset, y |-> (p.y_offset - p.act_w) + 1, w |-> p.act_h, h |-> p.act_w]
    BY <1>5 DEF Rga!Covered
  <2>3. Rga!Covered(p, rotation) = all
    BY <1>2, <2>1, <2>2
  <2> QED BY <1>1, <2>3, OperandCovers DEF p
<1>6. CASE rotation \notin {"ROT_90", "ROT_180", "ROT_270"}
  <2>1. p = Rga!ActiveInfo(Rga!Base(v, i), i, i.x, i.y, i.w, i.h)
    BY <1>6 DEF Rga!RotatedInfo
  <2> QED BY <1>6, <2>1, ActiveCovers
<1> QED BY <1>3, <1>4, <1>5, <1>6

\* What a call that went through has sent.
IsBlit(q, v, s, d, rotation, async) ==
  /\ q.render_mode = "bitblt"
  /\ q.src = Rga!ActiveInfo(Rga!Base(v, s), s, s.x, s.y, s.w, s.h)
  /\ q.dst = Rga!RotatedInfo(Rga!Base(v, d), d, rotation)
  /\ q.rotation = rotation
  /\ q.mmu_dst = Rga!MmuFlag(v, d)
  /\ q.async = async

IsFill(q, v, d, async) ==
  /\ q.render_mode = "color_fill"
  /\ q.dst = Rga!ActiveInfo(Rga!Base(v, d), d, d.x, d.y, d.w, d.h)
  /\ q.rotation = "none"
  /\ q.mmu_dst = (v.number >= 1003 /\ d.addr = "virtual")
  /\ q.async = async

LEMMA BlitDoes ==
  ASSUME NEW v, NEW s, NEW d, NEW turn, NEW async,
         s.addr # "none", d.addr # "none",
         NEW r \in Rga!RgaBlit(v, s, d, turn, async), r.ok
  PROVE  /\ v # NoContext /\ Rga!checkRectForRga(s) /\ Rga!checkRectForRga(d)
         /\ IsBlit(r.sent, v, s, d, turn.rotation, async)
<1>1. r \notin Rga!Refused
  BY DEF Rga!Refused
<1>2. v # NoContext /\ Rga!checkRectForRga(s) /\ Rga!checkRectForRga(d)
  BY <1>1 DEF Rga!RgaBlit
<1> DEFINE q == [render_mode |-> "bitblt", rotation |-> turn.rotation,
         src |-> Rga!ActiveInfo(Rga!Base(v, s), s, s.x, s.y, s.w, s.h),
         dst |-> Rga!RotatedInfo(Rga!Base(v, d), d, turn.rotation),
         mmu_dst |-> Rga!MmuFlag(v, d), async |-> async]
<1>3. IsBlit(q, v, s, d, turn.rotation, async)
  BY DEF IsBlit
<1>4. r \in Rga!Submitted(q)
  BY <1>1, Zenon DEF Rga!RgaBlit
<1> HIDE DEF q
<1>5. r.sent = q
  BY <1>4 DEF Rga!Submitted
<1> QED BY <1>2, <1>3, <1>5

LEMMA FillDoes ==
  ASSUME NEW v, NEW d, NEW async, d.addr # "none",
         NEW r \in Rga!RgaCollorFill(v, d, async), r.ok
  PROVE  v # NoContext /\ IsFill(r.sent, v, d, async)
<1>1. r \notin Rga!Refused
  BY DEF Rga!Refused
<1>2. v # NoContext
  BY <1>1 DEF Rga!RgaCollorFill
<1> DEFINE q == [render_mode |-> "color_fill", rotation |-> "none",
         dst |-> Rga!ActiveInfo(Rga!Base(v, d), d, d.x, d.y, d.w, d.h),
         mmu_dst |-> v.number >= 1003 /\ d.addr = "virtual", async |-> async]
<1>3. IsFill(q, v, d, async)
  BY DEF IsFill
<1>4. r \in Rga!Submitted(q)
  BY <1>1, Zenon DEF Rga!RgaCollorFill
<1> HIDE DEF q
<1>5. r.sent = q
  BY <1>4 DEF Rga!Submitted
<1> QED BY <1>2, <1>3, <1>5

\* DoneAsAsked of a call, what it has sent and the device.
Fulfils(call, q, v) ==
  /\ q # Rga!NoRequest
  /\ q.async = call.async
  /\ q.mmu_dst = (call.addr = "virtual")
  /\ q.dst.base.field = Rga!DeviceField(v)
  /\ call.bpp # 15 => Rga!CoversMeant(build, q.dst, q.rotation, call.dst)
  /\ \A meant \in call.src :
       /\ q.render_mode = "bitblt"
       /\ call.bpp # 15 => Rga!CoversMeant(build, q.src, "none", meant)
  /\ call.src = {} => q.render_mode = "color_fill"

LEMMA CalledDone ==
  ASSUME NEW call, NEW results, NEW v, Rga!Called(call, results, v),
         \A r \in results : r.ok => Fulfils(call, r.sent, v)
  PROVE  Rga!DoneAsAsked' /\ rgaCtx' = v
<1>1. PICK r \in results :
        wanted' = call /\ answer' = r.ok /\ sent' = r.sent /\ rgaCtx' = v /\ build' = build
  BY DEF Rga!Called
<1>2. ASSUME answer' PROVE Fulfils(wanted', sent', rgaCtx')
  <2>1. r.ok
    BY <1>1, <1>2
  <2>2. Fulfils(call, r.sent, v)
    BY <2>1
  <2>3. call = wanted' /\ r.sent = sent' /\ v = rgaCtx'
    BY <1>1
  <2> QED BY <2>2, <2>3, Zenon
<1>3. rgaCtx' = v /\ build' = build /\ (answer' => Fulfils(wanted', sent', rgaCtx'))
  BY <1>1, <1>2
<1> QED BY <1>3, Zenon DEF Rga!DoneAsAsked, Fulfils

LEMMA Rotated == ASSUME NEW b, NEW d, NEW rotation PROVE Rga!RotatedInfo(b, d, rotation).base = b
BY DEF Rga!RotatedInfo, Rga!ActiveInfo

LEMMA BlitFulfils ==
  ASSUME NEW v, NEW call, NEW q, NEW s, NEW d, NEW rotation, NEW meant,
         IsBlit(q, v, s, d, rotation, call.async), call.src = {meant},
         v.number \in Nat, v.number > 1003 \/ call.addr = "virtual", d.addr = call.addr,
         call.bpp # 15 => InfoMeans(s, meant) /\ InfoMeans(d, call.dst)
  PROVE  Fulfils(call, q, v)
<1>1. q # Rga!NoRequest
  BY DEF IsBlit, Rga!NoRequest
<1>2. q.mmu_dst = (call.addr = "virtual")
  <2>1. (v.number <= 1003 \/ d.addr = "virtual") <=> call.addr = "virtual"
    OBVIOUS
  <2>2. q.mmu_dst = (v.number <= 1003 \/ d.addr = "virtual")
    BY DEF IsBlit, Rga!MmuFlag
  <2> QED BY <2>1, <2>2
<1>3. q.dst.base.field = Rga!DeviceField(v)
  <2>1. q.dst.base = Rga!Base(v, d)
    BY Rotated DEF IsBlit
  <2> QED BY <2>1 DEF Rga!Base, Rga!DeviceField
<1>4. call.bpp # 15 => Rga!CoversMeant(build, q.dst, q.rotation, call.dst)
  BY RotatedCovers DEF IsBlit
<1>5. call.bpp # 15 => Rga!CoversMeant(build, q.src, "none", meant)
  <2> SUFFICES ASSUME call.bpp # 15 PROVE Rga!CoversMeant(build, q.src, "none", meant)
    OBVIOUS
  <2>1. "none" \notin {"ROT_90", "ROT_180", "ROT_270"}
    OBVIOUS
  <2> QED BY <2>1, ActiveCovers DEF IsBlit
<1>6. q.async = call.async /\ q.render_mode = "bitblt"
  BY DEF IsBlit
<1> QED BY <1>1, <1>2, <1>3, <1>4, <1>5, <1>6 DEF Fulfils

LEMMA FillFulfils ==
  ASSUME NEW v, NEW call, NEW q, NEW d,
         IsFill(q, v, d, call.async), call.src = {},
         v.number \in Nat, v.number >= 1003, d.addr = call.addr,
         call.bpp # 15 => InfoMeans(d, call.dst)
  PROVE  Fulfils(call, q, v)
<1>1. q # Rga!NoRequest
  BY DEF IsFill, Rga!NoRequest
<1>2. q.mmu_dst = (call.addr = "virtual")
  <2>1. (v.number >= 1003 /\ d.addr = "virtual") <=> call.addr = "virtual"
    OBVIOUS
  <2>2. q.mmu_dst = (v.number >= 1003 /\ d.addr = "virtual")
    BY DEF IsFill
  <2> QED BY <2>1, <2>2
<1>3. q.dst.base.field = Rga!DeviceField(v)
  BY DEF IsFill, Rga!ActiveInfo, Rga!Base, Rga!DeviceField
<1>4. call.bpp # 15 => Rga!CoversMeant(build, q.dst, q.rotation, call.dst)
  <2>1. "none" \notin {"ROT_90", "ROT_180", "ROT_270"}
    OBVIOUS
  <2> QED BY <2>1, ActiveCovers DEF IsFill
<1>5. q.async = call.async /\ q.render_mode = "color_fill"
  BY DEF IsFill
<1> QED BY <1>1, <1>2, <1>3, <1>4, <1>5 DEF Fulfils

-----------------------------------------------------------------------------
\* im2d.
Pictures == [addr : {"virtual", "physical", "none"}, at : Nat, w : Nat, h : Nat,
             ws : Nat, hs : Nat, format : Nat]
Rectangles == [x : Nat, y : Nat, w : Nat, h : Nat]

Applied(pic, rect) == Rga!rga_apply_rect(Rga!Compatible(pic), rect)
Operand(pic, rect) == Rga!InfoOf(Applied(pic, rect), rect)
Sized(rect) == rect.w > 0 /\ rect.h > 0

LEMMA AppliedIs ==
  ASSUME NEW pic \in Pictures, NEW rect \in Rectangles
  PROVE  Applied(pic, rect) =
           [addr |-> pic.addr, at |-> pic.at,
            w |-> IF Sized(rect) THEN rect.w ELSE pic.w,
            h |-> IF Sized(rect) THEN rect.h ELSE pic.h,
            ws |-> pic.ws, hs |-> pic.hs, format |-> Rga!RkRgaCompatibleFormat(pic.format)]
<1> DEFINE f == Rga!RkRgaCompatibleFormat(pic.format)
           p == [addr |-> pic.addr, at |-> pic.at, w |-> pic.w, h |-> pic.h, ws |-> pic.ws,
                 hs |-> pic.hs, format |-> f]
<1>1. Rga!Compatible(pic) = [pic EXCEPT !.format = f]
  BY DEF Rga!Compatible
<1> HIDE DEF f
<1>2. Rga!Compatible(pic) = p
  BY <1>1 DEF Pictures
<1>3. CASE ~ Sized(rect)
  BY <1>2, <1>3 DEF Applied, Rga!rga_apply_rect, Sized, f
<1>4. CASE Sized(rect)
  <2>1. Applied(pic, rect) = [[p EXCEPT !.w = rect.w] EXCEPT !.h = rect.h]
    BY <1>2, <1>4 DEF Applied, Rga!rga_apply_rect, Sized
  <2> QED BY <1>4, <2>1 DEF f
<1> QED BY <1>3, <1>4

LEMMA OperandIs ==
  ASSUME NEW pic \in Pictures, NEW rect \in Rectangles
  PROVE  Operand(pic, rect) =
           Rga!rga_info(pic.addr, pic.at, rect.x, rect.y,
                    IF Sized(rect) THEN rect.w ELSE pic.w,
                    IF Sized(rect) THEN rect.h ELSE pic.h,
                    pic.ws, pic.hs, Rga!RkRgaCompatibleFormat(pic.format))
<1> DEFINE a == Applied(pic, rect)
<1>1. /\ a.addr = pic.addr /\ a.at = pic.at /\ a.ws = pic.ws /\ a.hs = pic.hs
      /\ a.format = Rga!RkRgaCompatibleFormat(pic.format)
      /\ a.w = (IF Sized(rect) THEN rect.w ELSE pic.w)
      /\ a.h = (IF Sized(rect) THEN rect.h ELSE pic.h)
  BY AppliedIs
<1> HIDE DEF a
<1>2. Operand(pic, rect) = Rga!InfoOf(a, rect)
  BY DEF Operand, a
<1> QED BY <1>1, <1>2 DEF Rga!InfoOf

LEMMA MeansIs ==
  ASSUME NEW pic \in Pictures, NEW rect \in Rectangles
  PROVE  Rga!Means(pic, rect) =
           Rga!Meant(pic.at, rect.x, rect.y,
                 IF Sized(rect) THEN rect.w ELSE pic.w,
                 IF Sized(rect) THEN rect.h ELSE pic.h,
                 pic.ws * PixelBytes(pic.format), PixelBytes(pic.format))
<1> DEFINE p == Rga!rga_apply_rect(pic, rect)
<1>1. CASE ~ Sized(rect)
  <2>1. p = pic
    BY <1>1 DEF Rga!rga_apply_rect, Sized
  <2> QED BY <1>1, <2>1 DEF Rga!Means, PixelBytes
<1>2. CASE Sized(rect)
  <2>1. p = [[pic EXCEPT !.w = rect.w] EXCEPT !.h = rect.h]
    BY <1>2 DEF Rga!rga_apply_rect, Sized
  <2>2. p.at = pic.at /\ p.w = rect.w /\ p.h = rect.h /\ p.ws = pic.ws /\ p.hs = pic.hs
        /\ p.format = pic.format
    BY <2>1 DEF Pictures
  <2> HIDE DEF p
  <2>3. Rga!Means(pic, rect) = Rga!Meant(p.at, rect.x, rect.y, p.w, p.h, p.ws * PixelBytes(p.format),
                                 PixelBytes(p.format))
    BY DEF Rga!Means, PixelBytes, p
  <2> QED BY <1>2, <2>2, <2>3
<1> QED BY <1>1, <1>2

Inside(i) == i.x + i.w <= i.ws /\ i.y + i.h <= i.hs

LEMMA OperandMeans ==
  ASSUME NEW pic \in Pictures, NEW rect \in Rectangles, Inside(Operand(pic, rect))
  PROVE  InfoMeans(Operand(pic, rect), Rga!Means(pic, rect)) /\ Operand(pic, rect).addr = pic.addr
<1> DEFINE i == Operand(pic, rect)
           m == Rga!Means(pic, rect)
           w == IF Sized(rect) THEN rect.w ELSE pic.w
           h == IF Sized(rect) THEN rect.h ELSE pic.h
           f == Rga!RkRgaCompatibleFormat(pic.format)
           b == PixelBytes(pic.format)
<1>1. i.addr = pic.addr /\ i.at = pic.at /\ i.x = rect.x /\ i.y = rect.y /\ i.w = w /\ i.h = h
      /\ i.ws = pic.ws /\ i.hs = pic.hs /\ i.format = f
  BY OperandIs DEF Rga!rga_info
<1>2. m.at = pic.at /\ m.x = rect.x /\ m.y = rect.y /\ m.w = w /\ m.h = h
      /\ m.pitch = pic.ws * b /\ m.bytes = b
  BY MeansIs DEF Rga!Meant
<1>3. pic.format \in Nat /\ pic.ws \in Nat /\ pic.w \in Nat /\ pic.h \in Nat
      /\ rect.x \in Nat /\ rect.y \in Nat /\ rect.w \in Nat /\ rect.h \in Nat
  BY DEF Pictures, Rectangles
<1>4. f \in Nat /\ PixelBytes(f) = b
  BY <1>3, CodeOfCompatible, BytesByCode DEF PixelBytes
<1>5. w \in Nat /\ h \in Nat
  BY <1>3
<1>6. Inside(i)
  OBVIOUS
<1> HIDE DEF i, m, w, h, f, b
<1>7. i.x + i.w <= i.ws /\ i.y + i.h <= i.hs
  BY <1>6 DEF Inside
<1>8. InfoMeans(i, m)
  BY <1>1, <1>2, <1>3, <1>4, <1>5, <1>7 DEF InfoMeans
<1> QED BY <1>1, <1>8 DEF i, m

\* What a fill of im2d has sent, and what was checked of it.
FillSent(q, v, dst, drect, usage) ==
  /\ IsFill(q, v, Operand(dst, drect), usage.sync = "0")
  /\ \E n : Rga!rga_check_info(Applied(dst, drect), drect, n)

BlitSent(q, v, src, srect, dst, drect, usage) ==
  /\ IsBlit(q, v, Operand(src, srect), Operand(dst, drect),
            Rga!Turn(usage).rotation, usage.sync = "0")
  /\ Rga!checkRectForRga(Operand(src, srect)) /\ Rga!checkRectForRga(Operand(dst, drect))

\* What im2d answers yes to went to the library below with these operands.
LEMMA ImprocessDoes ==
  ASSUME NEW v \in Blitters \cup {NoContext}, NEW src0 \in Pictures, NEW dst0 \in Pictures,
         NEW srect \in Rectangles, NEW drect \in Rectangles, NEW usage, usage.fill \in BOOLEAN,
         NEW r \in Rga!improcess(v, src0, dst0, srect, drect, usage), r.ok
  PROVE  /\ v \in Blitters /\ v.number \in Nat /\ v.number > 1003
         /\ usage.fill => FillSent(r.sent, v, dst0, drect, usage)
         /\ ~ usage.fill => BlitSent(r.sent, v, src0, srect, dst0, drect, usage)
<1> DEFINE src == Applied(src0, srect)
           dst == Applied(dst0, drect)
           async == usage.sync = "0"
           s == Rga!InfoOf(src, srect)
           d == Rga!InfoOf(dst, drect)
<1>1. r \notin Rga!Refused
  BY DEF Rga!Refused
<1>2. /\ v # NoContext /\ Rga!HasAddress(src, dst, usage) /\ Rga!imcheck_t(v, src, dst, srect, drect, usage)
      /\ usage.fill => r \in Rga!RgaCollorFill(v, d, async)
      /\ ~ usage.fill => r \in Rga!RgaBlit(v, s, d, Rga!Turn(usage), async)
  BY <1>1, Zenon DEF Rga!improcess, Applied
<1>3. v \in Blitters
  BY <1>2
<1>4. PICK info \in Rga!rga_get_info(v) : Rga!rga_check_info(dst, drect, info.output_resolution)
  BY <1>2, Zenon DEF Rga!imcheck_t
<1>5. v.number \in Nat /\ v.number > 1003
  BY <1>3, <1>4, KnownIsNewer
<1>6. d.addr = dst.addr /\ s.addr = src.addr
  BY DEF Rga!InfoOf, Rga!rga_info
<1>7. d.addr # "none" /\ (~ usage.fill => s.addr # "none")
  BY <1>2, <1>6 DEF Rga!HasAddress
<1> HIDE DEF s, d, async
<1>8. usage.fill => IsFill(r.sent, v, d, async)
  BY <1>2, <1>7, FillDoes
<1>9. ~ usage.fill =>
        /\ IsBlit(r.sent, v, s, d, Rga!Turn(usage).rotation, async)
        /\ Rga!checkRectForRga(s) /\ Rga!checkRectForRga(d)
  BY <1>2, <1>7, BlitDoes
<1> QED BY <1>3, <1>4, <1>5, <1>8, <1>9 DEF FillSent, BlitSent, Operand, s, d, async

LEMMA ContextIs == ASSUME rgaCtx \in Blitters \cup {NoContext}, NEW v \in Rga!Contexts
                   PROVE  v \in Blitters \cup {NoContext}
BY DEF Rga!Contexts

LEMMA NumberIs == ASSUME NEW v \in Blitters PROVE v.number \in Nat /\ v.number >= 1003
BY RgaAssumption

-----------------------------------------------------------------------------
\* Another program's calls.
LEMMA ImCallFulfils ==
  ASSUME NEW v \in Blitters \cup {NoContext}, NEW src \in ImPictures, NEW dst \in ImPictures,
         NEW srect \in ImRects, NEW drect \in ImRects, NEW usage \in ImUsages,
         NEW call, call.src = (IF usage.fill THEN {} ELSE {Rga!Means(src, srect)}),
         call.dst = Rga!Means(dst, drect), call.addr = dst.addr, call.async = (usage.sync = "0"),
         NEW r \in Rga!improcess(v, src, dst, srect, drect, usage), r.ok
  PROVE  Fulfils(call, r.sent, v)
<1>1. src \in Pictures /\ dst \in Pictures /\ srect \in Rectangles /\ drect \in Rectangles
      /\ usage.fill \in BOOLEAN
  BY RgaAssumption DEF Pictures, Rectangles
<1>2. /\ v \in Blitters /\ v.number \in Nat /\ v.number > 1003
      /\ usage.fill => FillSent(r.sent, v, dst, drect, usage)
      /\ ~ usage.fill => BlitSent(r.sent, v, src, srect, dst, drect, usage)
  BY <1>1, ImprocessDoes
<1>3. CASE ~ usage.fill
  <2>1. /\ IsBlit(r.sent, v, Operand(src, srect), Operand(dst, drect),
                  Rga!Turn(usage).rotation, call.async)
        /\ Rga!checkRectForRga(Operand(src, srect)) /\ Rga!checkRectForRga(Operand(dst, drect))
    BY <1>2, <1>3 DEF BlitSent
  <2>2. Inside(Operand(src, srect)) /\ Inside(Operand(dst, drect))
    BY <2>1 DEF Rga!checkRectForRga, Inside
  <2>3. InfoMeans(Operand(src, srect), Rga!Means(src, srect))
    BY <1>1, <2>2, OperandMeans
  <2>4. InfoMeans(Operand(dst, drect), call.dst) /\ Operand(dst, drect).addr = call.addr
    BY <1>1, <2>2, OperandMeans
  <2>5. call.src = {Rga!Means(src, srect)}
    BY <1>3
  <2> QED BY <1>2, <2>1, <2>3, <2>4, <2>5, BlitFulfils
<1>4. CASE usage.fill
  <2>0. FillSent(r.sent, v, dst, drect, usage)
    BY <1>2, <1>4
  <2>1. IsFill(r.sent, v, Operand(dst, drect), call.async)
    BY <2>0 DEF FillSent
  <2>2. PICK n : Rga!rga_check_info(Applied(dst, drect), drect, n)
    BY <2>0 DEF FillSent
  <2> DEFINE a == Applied(dst, drect)
             o == Operand(dst, drect)
  <2>3. a.w <= a.ws /\ a.h <= a.hs /\ drect.x + drect.w <= a.ws /\ drect.y + drect.h <= a.hs
    BY <2>2, <1>1, AppliedIs DEF Rga!rga_check_info, Pictures, Rectangles, Sized
  <2>4. /\ a.ws = o.ws /\ a.hs = o.hs /\ a.w = o.w /\ a.h = o.h /\ o.x = drect.x /\ o.y = drect.y
    BY DEF Operand, Rga!InfoOf, Rga!rga_info
  <2>5. a.w = (IF Sized(drect) THEN drect.w ELSE dst.w) /\ a.h = (IF Sized(drect) THEN drect.h ELSE dst.h)
        /\ a.ws = dst.ws /\ a.hs = dst.hs
    BY <1>1, AppliedIs
  <2> HIDE DEF a, o
  <2>6. Inside(o)
    <3>1. CASE Sized(drect)
      BY <2>3, <2>4, <2>5, <3>1 DEF Inside
    <3>2. CASE ~ Sized(drect)
      <4>1. drect.w \in Nat /\ drect.h \in Nat
        BY <1>1 DEF Rectangles
      <4>2. drect = Rga!NoRect
        BY <3>2, <4>1, RgaAssumption DEF Sized
      <4>3. o.x = 0 /\ o.y = 0
        BY <2>4, <4>2 DEF Rga!NoRect
      <4>4. o.w \in Nat /\ o.h \in Nat
        BY <1>1, <2>4, <2>5, <3>2 DEF Pictures
      <4> QED BY <2>3, <2>4, <4>3, <4>4 DEF Inside
    <3> QED BY <3>1, <3>2
  <2>7. InfoMeans(o, call.dst) /\ o.addr = call.addr
    BY <1>1, <2>6, OperandMeans DEF o
  <2>8. call.src = {}
    BY <1>4
  <2>9. v.number >= 1003
    BY <1>2
  <2> QED BY <1>2, <2>1, <2>7, <2>8, <2>9, FillFulfils DEF o
<1> QED BY <1>1, <1>3, <1>4

\* RgaAdapter.
Unit(bpp) == (bpp + 7) \div 8

LEMMA DepthsAre ==
  ASSUME NEW bpp \in Rga!Depths
  PROVE  /\ Rga!formatFromBpp(bpp) \in Nat
         /\ Rga!RkRgaCompatibleFormat(Rga!formatFromBpp(bpp)) = Rga!formatFromBpp(bpp)
         /\ bpp # 15 => bpp = Unit(bpp) * 8 /\ Unit(bpp) \in Nat \ {0} /\ bpp \div 8 = Unit(bpp)
                        /\ PixelBytes(Rga!formatFromBpp(bpp)) = Unit(bpp)
<1>1. Rga!BGRA_8888 = 768 /\ Rga!RGB_565 = 1024 /\ Rga!RGBA_5551 = 1280 /\ Rga!BPP8 = 4864
  BY DEF Rga!BGRA_8888, Rga!RGB_565, Rga!RGBA_5551, Rga!BPP8
<1>2. /\ 768 \div 256 = 3 /\ 1024 \div 256 = 4 /\ 1280 \div 256 = 5 /\ 4864 \div 256 = 19
      /\ 3 % 256 # 0 /\ 4 % 256 # 0 /\ 19 % 256 # 0
  OBVIOUS
<1>3. Rga!Code(768) = 3 /\ Rga!Code(1024) = 4 /\ Rga!Code(4864) = 19
  BY <1>2, CodeIs
<1>4. /\ Rga!bytesPerPixel(768) = 4 /\ Rga!bytesPerPixel(1024) = 2 /\ Rga!bytesPerPixel(4864) = 1
  BY <1>3 DEF Rga!bytesPerPixel, Rga!Group
<1>5. CASE bpp = 8
  <2>1. (8 + 7) \div 8 = 1 /\ 8 \div 8 = 1 /\ Rga!formatFromBpp(8) = 4864
    BY <1>1 DEF Rga!formatFromBpp
  <2> QED BY <1>2, <1>4, <1>5, <2>1 DEF Unit, PixelBytes, Rga!RkRgaCompatibleFormat
<1>6. CASE bpp = 16
  <2>1. (16 + 7) \div 8 = 2 /\ 16 \div 8 = 2 /\ Rga!formatFromBpp(16) = 1024
    BY <1>1 DEF Rga!formatFromBpp
  <2> QED BY <1>2, <1>4, <1>6, <2>1 DEF Unit, PixelBytes, Rga!RkRgaCompatibleFormat
<1>7. CASE bpp = 32
  <2>1. (32 + 7) \div 8 = 4 /\ 32 \div 8 = 4 /\ Rga!formatFromBpp(32) = 768
    BY <1>1 DEF Rga!formatFromBpp
  <2> QED BY <1>2, <1>4, <1>7, <2>1 DEF Unit, PixelBytes, Rga!RkRgaCompatibleFormat
<1>8. CASE bpp = 15
  <2>1. Rga!formatFromBpp(15) = 1280
    BY <1>1 DEF Rga!formatFromBpp
  <2> QED BY <1>2, <1>8, <2>1 DEF Rga!RkRgaCompatibleFormat
<1> QED BY <1>5, <1>6, <1>7, <1>8 DEF Rga!Depths

\* The length of a line in pixels comes back from its length in bytes.
LEMMA LinesAre ==
  ASSUME NEW s \in Screens, NEW bpp \in Rga!Depths, bpp # 15
  PROVE  /\ s.w \in Nat /\ s.h \in Nat /\ s.w + s.pad \in Nat /\ s.w <= s.w + s.pad
         /\ Rga!Stride(s, bpp) = (s.w + s.pad) * Unit(bpp)
         /\ Rga!wstride(Rga!Stride(s, bpp), bpp) = s.w + s.pad
<1>1. s.w \in Nat /\ s.h \in Nat /\ s.pad \in Nat
  BY RgaAssumption
<1> DEFINE n == s.w + s.pad
<1>2. Rga!Stride(s, bpp) = n * Unit(bpp)
  BY DEF Rga!Stride, Unit
<1>3. Rga!wstride(Rga!Stride(s, bpp), bpp) = ((n * Unit(bpp)) * 8) \div bpp
  BY <1>2 DEF Rga!wstride
<1>4. n \in Nat /\ s.w <= n
  BY <1>1
<1> HIDE DEF n
<1>5. ((n * Unit(bpp)) * 8) \div bpp = n
  <2>1. CASE bpp = 8
    <3>1. Unit(bpp) = 1
      BY <2>1, DepthsAre
    <3> QED BY <1>4, <2>1, <3>1
  <2>2. CASE bpp = 16
    <3>1. Unit(bpp) = 2
      BY <2>2, DepthsAre
    <3> QED BY <1>4, <2>2, <3>1
  <2>3. CASE bpp = 32
    <3>1. Unit(bpp) = 4
      BY <2>3, DepthsAre
    <3> QED BY <1>4, <2>3, <3>1
  <2> QED BY <2>1, <2>2, <2>3 DEF Rga!Depths
<1> QED BY <1>1, <1>2, <1>3, <1>4, <1>5 DEF n

LEMMA PlainIs ==
  /\ Rga!NoRect \in Rectangles /\ ~ Sized(Rga!NoRect)
  /\ Rga!NoPicture \in Pictures
  /\ \A sync : Rga!PlainUsage(sync).fill = FALSE /\ Rga!Turn(Rga!PlainUsage(sync)).rotation = "none"
               /\ Rga!PlainUsage(sync).sync = sync
BY DEF Rga!NoRect, Rectangles, Sized, Rga!NoPicture, Rga!wrapbuffer_virtualaddr_t, Pictures, Rga!PlainUsage, Rga!Turn

Whole(at, w, h, ws, bpp) == Rga!rga_info("virtual", at, 0, 0, w, h, ws, h, Rga!formatFromBpp(bpp))

LEMMA CopyDoes ==
  ASSUME NEW v \in Blitters \cup {NoContext}, NEW at \in Nat, NEW w \in Nat, NEW h \in Nat,
         NEW stride, NEW bpp \in Rga!Depths, Rga!wstride(stride, bpp) \in Nat,
         NEW r \in Rga!AdapterCopy(v, at, w, h, stride, bpp), r.ok
  PROVE  /\ v \in Blitters
         /\ Rga!checkRectForRga(Whole(at, w, h, Rga!wstride(stride, bpp), bpp))
         /\ IsBlit(r.sent, v, Whole(at, w, h, Rga!wstride(stride, bpp), bpp),
                   Whole(at, w, h, Rga!wstride(stride, bpp), bpp), "none", FALSE)
<1> DEFINE ws == Rga!wstride(stride, bpp)
           fmt == Rga!formatFromBpp(bpp)
           whole == Whole(at, w, h, ws, bpp)
           picture == Rga!wrapbuffer_virtualaddr_t("virtual", at, w, h, ws, h, fmt)
           usage == Rga!PlainUsage("IM_SYNC")
<1>1. CASE build = "im2d"
  <2>1. picture \in Pictures
    <3>1. fmt \in Nat /\ ws \in Nat
      BY DepthsAre
    <3> HIDE DEF fmt, ws
    <3> QED BY <3>1 DEF Pictures, Rga!wrapbuffer_virtualaddr_t
  <2>2. r \in Rga!imcopy_t(v, picture, picture, "IM_SYNC")
    BY <1>1, Zenon DEF Rga!AdapterCopy
  <2>4. r \in Rga!improcess(v, picture, picture, Rga!NoRect, Rga!NoRect, usage)
    BY <2>2 DEF Rga!imcopy_t
  <2>5. usage.fill = FALSE /\ Rga!Turn(usage).rotation = "none" /\ usage.sync = "IM_SYNC"
    BY PlainIs
  <2>6. picture.addr = "virtual" /\ picture.at = at /\ picture.w = w /\ picture.h = h
        /\ picture.ws = ws /\ picture.hs = h /\ picture.format = fmt
    BY DEF Rga!wrapbuffer_virtualaddr_t
  <2>7. Rga!NoRect.x = 0 /\ Rga!NoRect.y = 0 /\ Rga!NoRect \in Rectangles /\ ~ Sized(Rga!NoRect)
    BY PlainIs DEF Rga!NoRect
  <2> HIDE DEF picture, usage
  <2>8. usage.fill \in BOOLEAN
    BY <2>5
  <2>9. v \in Blitters /\ (~ usage.fill => BlitSent(r.sent, v, picture, Rga!NoRect, picture, Rga!NoRect, usage))
    BY <2>1, <2>4, <2>7, <2>8, ImprocessDoes
  <2>10. Operand(picture, Rga!NoRect) = whole
    <3>1. Rga!RkRgaCompatibleFormat(fmt) = fmt
      BY DepthsAre
    <3> HIDE DEF fmt, ws
    <3> QED BY <2>1, <2>6, <2>7, <3>1, OperandIs DEF Whole, fmt
  <2>11. BlitSent(r.sent, v, picture, Rga!NoRect, picture, Rga!NoRect, usage)
    BY <2>5, <2>9
  <2>12. (usage.sync = "0") = FALSE
    BY <2>5
  <2> HIDE DEF whole
  <2>13. IsBlit(r.sent, v, whole, whole, "none", FALSE) /\ Rga!checkRectForRga(whole)
    BY <2>5, <2>10, <2>11, <2>12 DEF BlitSent
  <2> QED BY <2>9, <2>13 DEF whole
<1>2. CASE build # "im2d"
  <2>1. r \in Rga!RgaBlit(v, whole, whole, Rga!NoTurn, FALSE)
    BY <1>2, Zenon DEF Rga!AdapterCopy, Whole
  <2>2. whole.addr = "virtual" /\ "virtual" # "none"
    BY DEF Whole, Rga!rga_info
  <2>3. Rga!NoTurn.rotation = "none"
    BY DEF Rga!NoTurn
  <2> HIDE DEF whole
  <2>4. /\ v # NoContext /\ IsBlit(r.sent, v, whole, whole, Rga!NoTurn.rotation, FALSE)
        /\ Rga!checkRectForRga(whole)
    BY <2>1, <2>2, BlitDoes
  <2> QED BY <2>3, <2>4 DEF whole
<1> QED BY <1>1, <1>2

FillOf(r, fbHeight, ws, bpp) ==
  Rga!rga_info("virtual", 0, r.x, r.y, r.w, r.h, ws, fbHeight, Rga!formatFromBpp(bpp))

LEMMA AdapterFillDoes ==
  ASSUME NEW v \in Blitters \cup {NoContext}, NEW rect \in Rectangles, Sized(rect),
         NEW fbWidth \in Nat, NEW fbHeight \in Nat,
         NEW stride, NEW bpp \in Rga!Depths, Rga!wstride(stride, bpp) \in Nat,
         NEW r \in Rga!AdapterFill(v, rect, fbWidth, fbHeight, stride, bpp), r.ok
  PROVE  /\ v \in Blitters
         /\ IsFill(r.sent, v, FillOf(rect, fbHeight, Rga!wstride(stride, bpp), bpp), FALSE)
         /\ build = "im2d" => rect.y + rect.h <= fbHeight
<1> DEFINE ws == Rga!wstride(stride, bpp)
           fmt == Rga!formatFromBpp(bpp)
           info == FillOf(rect, fbHeight, ws, bpp)
           picture == Rga!wrapbuffer_virtualaddr_t("virtual", 0, fbWidth, fbHeight, ws, fbHeight, fmt)
           usage == [Rga!PlainUsage("IM_SYNC") EXCEPT !.fill = TRUE]
<1>1. CASE build = "im2d"
  <2>1. picture \in Pictures
    <3>1. fmt \in Nat /\ ws \in Nat /\ 0 \in Nat
      BY DepthsAre
    <3> HIDE DEF fmt, ws
    <3> QED BY <3>1 DEF Pictures, Rga!wrapbuffer_virtualaddr_t
  <2>2. r \in Rga!improcess(v, Rga!NoPicture, picture, Rga!NoRect, rect, usage)
    BY <1>1, Zenon DEF Rga!AdapterFill, Rga!imfill_t
  <2>3. usage.fill = TRUE /\ usage.sync = "IM_SYNC"
    BY DEF Rga!PlainUsage
  <2>4. picture.addr = "virtual" /\ picture.at = 0 /\ picture.ws = ws /\ picture.hs = fbHeight
        /\ picture.format = fmt
    BY DEF Rga!wrapbuffer_virtualaddr_t
  <2>5. Rga!NoPicture \in Pictures /\ Rga!NoRect \in Rectangles
    BY PlainIs
  <2> HIDE DEF picture, usage
  <2>6. usage.fill \in BOOLEAN
    BY <2>3
  <2>7. v \in Blitters /\ (usage.fill => FillSent(r.sent, v, picture, rect, usage))
    BY <2>1, <2>2, <2>5, <2>6, ImprocessDoes
  <2>8. Operand(picture, rect) = info
    <3>1. Rga!RkRgaCompatibleFormat(fmt) = fmt
      BY DepthsAre
    <3> HIDE DEF fmt, ws
    <3> QED BY <2>1, <2>4, <3>1, OperandIs DEF FillOf, fmt
  <2>9. (usage.sync = "0") = FALSE /\ FillSent(r.sent, v, picture, rect, usage)
    BY <2>3, <2>7
  <2>10. rect.y + rect.h <= fbHeight
    <3>1. PICK n : Rga!rga_check_info(Applied(picture, rect), rect, n)
      BY <2>9 DEF FillSent
    <3>2. Applied(picture, rect).hs = fbHeight
      BY <2>1, <2>4, AppliedIs
    <3> QED BY <3>1, <3>2 DEF Rga!rga_check_info
  <2> HIDE DEF info
  <2>11. IsFill(r.sent, v, info, FALSE)
    BY <2>8, <2>9 DEF FillSent
  <2> QED BY <2>7, <2>10, <2>11 DEF info
<1>2. CASE build # "im2d"
  <2>1. r \in Rga!RgaCollorFill(v, info, FALSE)
    BY <1>2, Zenon DEF Rga!AdapterFill, FillOf
  <2>2. info.addr = "virtual" /\ "virtual" # "none"
    BY DEF FillOf, Rga!rga_info
  <2> HIDE DEF info
  <2>3. v # NoContext /\ IsFill(r.sent, v, info, FALSE)
    BY <2>1, <2>2, FillDoes
  <2> QED BY <1>2, <2>3 DEF info
<1> QED BY <1>1, <1>2

\* What Screen means by a rectangle of itself or of its memory.
OnScreen(s, bpp, x, y, w, h) ==
  Rga!Meant(0, x, y, w, h, Rga!Stride(s, bpp), Unit(bpp))

LEMMA StrideIs ==
  ASSUME NEW s \in Screens, NEW bpp \in Rga!Depths
  PROVE  Rga!Stride(s, bpp) \in Nat /\ Rga!wstride(Rga!Stride(s, bpp), bpp) \in Nat
<1>1. s.w + s.pad \in Nat /\ bpp \in Nat \ {0} /\ (bpp + 7) \div 8 \in Nat
  BY RgaAssumption DEF Rga!Depths
<1> DEFINE a == s.w + s.pad
           b == (bpp + 7) \div 8
           n == Rga!Stride(s, bpp)
<1> HIDE DEF a, b
<1>2. n = a * b
  BY DEF Rga!Stride, a, b
<1>3. n \in Nat
  BY <1>1, <1>2 DEF a, b
<1> HIDE DEF n
<1>4. (n * 8) \div bpp \in Nat
  BY <1>1, <1>3
<1> QED BY <1>3, <1>4 DEF Rga!wstride, n

LEMMA WholeMeans ==
  ASSUME NEW s \in Screens, NEW bpp \in Rga!Depths, bpp # 15,
         NEW x \in Nat, NEW y \in Nat, NEW w \in Nat, NEW h \in Nat,
         NEW at \in Nat, at = y * Rga!Stride(s, bpp) + x * Unit(bpp),
         Rga!checkRectForRga(Whole(at, w, h, Rga!wstride(Rga!Stride(s, bpp), bpp), bpp))
  PROVE  InfoMeans(Whole(at, w, h, Rga!wstride(Rga!Stride(s, bpp), bpp), bpp), OnScreen(s, bpp, x, y, w, h))
<1> DEFINE i == Whole(at, w, h, Rga!wstride(Rga!Stride(s, bpp), bpp), bpp)
           m == OnScreen(s, bpp, x, y, w, h)
           n == Rga!Stride(s, bpp)
           u == Unit(bpp)
           ws == s.w + s.pad
<1>0. i.x + i.w <= i.ws /\ i.y + i.h <= i.hs
  BY DEF Rga!checkRectForRga
<1>1. n \in Nat /\ n = ws * u /\ ws \in Nat
  BY StrideIs, LinesAre
<1>2. i.x = 0 /\ i.y = 0 /\ i.w = w /\ i.h = h /\ i.ws = ws /\ i.hs = h /\ i.at = at
      /\ i.format = Rga!formatFromBpp(bpp)
  BY LinesAre DEF Whole, Rga!rga_info
<1>3. m.at = 0 /\ m.x = x /\ m.y = y /\ m.w = w /\ m.h = h /\ m.pitch = n /\ m.bytes = u
  BY DEF OnScreen, Rga!Meant
<1>4. i.format \in Nat /\ PixelBytes(i.format) = u /\ u \in Nat
  BY <1>2, DepthsAre
<1>5. at = y * n + x * u
  OBVIOUS
<1> HIDE DEF i, m, n, u, ws
<1>6. y * n \in Nat /\ x * u \in Nat /\ 0 * n = 0 /\ 0 * u = 0
  BY <1>1, <1>4
<1>7. i.at + i.y * m.pitch + i.x * m.bytes = at
  <2>1. i.y * m.pitch = 0 /\ i.x * m.bytes = 0
    BY <1>2, <1>3, <1>6
  <2> QED BY <1>2, <2>1
<1>8. m.at + m.y * m.pitch + m.x * m.bytes = at
  BY <1>3, <1>5, <1>6
<1>9. i.x + i.w <= i.ws /\ i.y + i.h <= i.hs
  BY <1>0
<1>10. i.ws * PixelBytes(i.format) = m.pitch /\ PixelBytes(i.format) = m.bytes
  BY <1>1, <1>2, <1>3, <1>4
<1>11. i.x \in Nat /\ i.y \in Nat /\ i.w \in Nat /\ i.h \in Nat /\ i.ws \in Nat
       /\ i.w = m.w /\ i.h = m.h
  BY <1>1, <1>2, <1>3
<1>12. InfoMeans(i, m)
  BY <1>4, <1>7, <1>8, <1>9, <1>10, <1>11, Zenon DEF InfoMeans
<1> QED BY <1>12 DEF i, m

LEMMA CopyFulfils ==
  ASSUME NEW v \in Blitters \cup {NoContext}, NEW s \in Screens, NEW bpp \in Rga!Depths,
         NEW x \in Nat, NEW y \in Nat, NEW w \in Nat, NEW h \in Nat,
         NEW at \in Nat,
         bpp # 15 => at = y * Rga!Stride(s, bpp) + x * Unit(bpp),
         NEW call, call.src = {OnScreen(s, bpp, x, y, w, h)},
         call.dst = OnScreen(s, bpp, x, y, w, h), call.addr = "virtual", call.bpp = bpp,
         call.async = FALSE,
         NEW r \in Rga!AdapterCopy(v, at, w, h, Rga!Stride(s, bpp), bpp), r.ok
  PROVE  Fulfils(call, r.sent, v)
<1> DEFINE i == Whole(at, w, h, Rga!wstride(Rga!Stride(s, bpp), bpp), bpp)
           m == OnScreen(s, bpp, x, y, w, h)
<1>1. v \in Blitters /\ Rga!checkRectForRga(i) /\ IsBlit(r.sent, v, i, i, "none", call.async)
  <2>1. Rga!wstride(Rga!Stride(s, bpp), bpp) \in Nat
    BY StrideIs
  <2>2. v \in Blitters /\ Rga!checkRectForRga(i) /\ IsBlit(r.sent, v, i, i, "none", FALSE)
    BY <2>1, CopyDoes, Zenon
  <2> QED BY <2>2
<1>2. v.number \in Nat
  BY <1>1, NumberIs
<1>3. i.addr = call.addr
  BY DEF Whole, Rga!rga_info
<1>4. bpp # 15 => InfoMeans(i, m)
  BY <1>1, WholeMeans
<1> HIDE DEF i, m
<1>5. call.bpp # 15 => InfoMeans(i, m) /\ InfoMeans(i, call.dst)
  BY <1>4 DEF m
<1>6. call.src = {m}
  BY DEF m
<1> QED BY <1>1, <1>2, <1>3, <1>5, <1>6, BlitFulfils

-----------------------------------------------------------------------------
\* The steps.
RgaKept == rgaCtx \in Blitters \cup {NoContext} /\ Rga!DoneAsAsked

LEMMA RgaStarts == Rga!RgaInit => RgaKept
BY DEF Rga!RgaInit, RgaKept, Rga!DoneAsAsked

LEMMA ProbeKept == ASSUME RgaKept, Rga!Probe PROVE RgaKept'
<1>1. wanted' = NoCall
  BY DEF Rga!Probe
<1>2. rgaCtx' \in Blitters \cup {NoContext}
  <2>1. CASE build = "old"
    BY <2>1 DEF Rga!Probe, RgaKept
  <2>2. CASE build # "old"
    <3>1. PICK v \in Rga!Contexts : rgaCtx' = v
      BY <2>2 DEF Rga!Probe
    <3> QED BY <3>1, ContextIs DEF RgaKept
  <2> QED BY <2>1, <2>2
<1> QED BY <1>1, <1>2 DEF RgaKept, Rga!DoneAsAsked

LEMMA ReturnKept == ASSUME RgaKept, Rga!Return PROVE RgaKept'
<1>1. wanted' = NoCall /\ rgaCtx' = rgaCtx
  BY DEF Rga!Return
<1> QED BY <1>1 DEF RgaKept, Rga!DoneAsAsked

LEMMA CallKept ==
  ASSUME RgaKept, NEW call, NEW results, NEW v \in Rga!Contexts, Rga!Called(call, results, v),
         \A r \in results : r.ok => Fulfils(call, r.sent, v)
  PROVE  RgaKept'
<1>1. Rga!DoneAsAsked' /\ rgaCtx' = v
  BY CalledDone
<1>2. v \in Blitters \cup {NoContext}
  BY ContextIs DEF RgaKept
<1> QED BY <1>1, <1>2 DEF RgaKept

LEMMA PlacedIs ==
  ASSUME NEW r \in [x : Places, y : Places, w : Extents, h : Extents]
  PROVE  r.x \in Nat /\ r.y \in Nat /\ r.w \in Nat /\ r.h \in Nat
<1>1. Places \subseteq Nat /\ Extents \subseteq Nat
  BY RgaAssumption
<1>2. r.x \in Places /\ r.y \in Places /\ r.w \in Extents /\ r.h \in Extents
  OBVIOUS
<1> QED BY <1>1, <1>2

LEMMA ScreenIs == ASSUME NEW s \in Screens PROVE s.w \in Nat /\ s.h \in Nat
<1>1. s \in [w : Nat, h : Nat, pad : Nat]
  BY RgaAssumption
<1> QED BY <1>1

LEMMA SidesAre ==
  ASSUME NEW s \in Screens, NEW m \in Rga!SidesOf(s) PROVE m.w \in Nat /\ m.h \in Nat
BY ScreenIs DEF Rga!SidesOf

LEMMA CopyScreenKept == ASSUME RgaKept, Rga!CopyScreen PROVE RgaKept'
<1> DEFINE all(s, bpp, m) == OnScreen(s, bpp, 0, 0, m.w, m.h)
           call(s, bpp, m) == Rga!AdapterCall({all(s, bpp, m)}, all(s, bpp, m), bpp)
<1>1. PICK s \in Screens, bpp \in Rga!Depths, v \in Rga!Contexts : \E m \in Rga!SidesOf(s) :
        Rga!Called(call(s, bpp, m), Rga!AdapterCopy(v, 0, m.w, m.h, Rga!Stride(s, bpp), bpp), v)
  BY Zenon DEF Rga!CopyScreen, OnScreen, Rga!OfScreen, Unit
<1>2. PICK m \in Rga!SidesOf(s) :
        Rga!Called(call(s, bpp, m), Rga!AdapterCopy(v, 0, m.w, m.h, Rga!Stride(s, bpp), bpp), v)
  BY <1>1
<1>3. v \in Blitters \cup {NoContext}
  BY ContextIs DEF RgaKept
<1>4. m.w \in Nat /\ m.h \in Nat
  BY SidesAre
<1>5. 0 = 0 * Rga!Stride(s, bpp) + 0 * Unit(bpp)
  <2>1. Rga!Stride(s, bpp) \in Nat /\ (bpp + 7) \div 8 \in Nat
    BY StrideIs DEF Rga!Depths
  <2> QED BY <2>1 DEF Unit
<1> DEFINE c == call(s, bpp, m)
           results == Rga!AdapterCopy(v, 0, m.w, m.h, Rga!Stride(s, bpp), bpp)
<1>6. c.src = {all(s, bpp, m)} /\ c.dst = all(s, bpp, m) /\ c.addr = "virtual" /\ c.bpp = bpp
      /\ c.async = FALSE
  BY DEF Rga!AdapterCall
<1> HIDE DEF call, c
<1>7. ASSUME NEW r \in results, r.ok PROVE Fulfils(c, r.sent, v)
  BY <1>3, <1>4, <1>5, <1>6, <1>7, CopyFulfils
<1>8. Rga!Called(c, results, v)
  BY <1>2 DEF c
<1> QED BY <1>7, <1>8, CallKept

LEMMA FlushRectKept == ASSUME RgaKept, Rga!FlushRect PROVE RgaKept'
<1> DEFINE place(s, bpp, r) == OnScreen(s, bpp, r.x, r.y, r.w, r.h)
           call(s, bpp, r) == Rga!AdapterCall({place(s, bpp, r)}, place(s, bpp, r), bpp)
<1>1. PICK s \in Screens, bpp \in Rga!Depths, v \in Rga!Contexts,
           r \in [x : Places, y : Places, w : Extents, h : Extents] :
        Rga!Called(call(s, bpp, r),
                   Rga!AdapterCopy(v, Rga!Offset(r, Rga!Stride(s, bpp), bpp), r.w, r.h, Rga!Stride(s, bpp), bpp), v)
  BY Zenon DEF Rga!FlushRect, OnScreen, Rga!OfScreen, Unit
<1> DEFINE at == Rga!Offset(r, Rga!Stride(s, bpp), bpp)
           c == call(s, bpp, r)
           results == Rga!AdapterCopy(v, at, r.w, r.h, Rga!Stride(s, bpp), bpp)
<1>2. v \in Blitters \cup {NoContext}
  BY ContextIs DEF RgaKept
<1>3. r.x \in Nat /\ r.y \in Nat /\ r.w \in Nat /\ r.h \in Nat
  BY PlacedIs
<1>4. at \in Nat /\ (bpp # 15 => at = r.y * Rga!Stride(s, bpp) + r.x * Unit(bpp))
  <2>1. Rga!Stride(s, bpp) \in Nat /\ bpp \div 8 \in Nat /\ (bpp # 15 => bpp \div 8 = Unit(bpp))
    BY StrideIs, DepthsAre DEF Rga!Depths
  <2> DEFINE n == Rga!Stride(s, bpp)
             u == bpp \div 8
  <2>2. at = r.y * n + r.x * u
    BY DEF Rga!Offset
  <2> HIDE DEF n, u, at
  <2>3. at \in Nat
    BY <1>3, <2>1, <2>2 DEF n, u
  <2> QED BY <2>1, <2>2, <2>3 DEF n, u
<1>5. c.src = {place(s, bpp, r)} /\ c.dst = place(s, bpp, r) /\ c.addr = "virtual"
      /\ c.bpp = bpp /\ c.async = FALSE
  BY DEF Rga!AdapterCall
<1> HIDE DEF call, c, at
<1>6. ASSUME NEW res \in results, res.ok PROVE Fulfils(c, res.sent, v)
  BY <1>2, <1>3, <1>4, <1>5, <1>6, CopyFulfils, ZenonT(60)
<1>7. Rga!Called(c, results, v)
  BY <1>1 DEF c, at
<1> QED BY <1>6, <1>7, CallKept

LEMMA FillRectKept == ASSUME RgaKept, Rga!FillRect PROVE RgaKept'
<1> DEFINE to(r, offset) == [r EXCEPT !.y = @ + offset]
           place(s, bpp, rect) == OnScreen(s, bpp, rect.x, rect.y, rect.w, rect.h)
           call(s, bpp, rect) == Rga!AdapterCall({}, place(s, bpp, rect), bpp)
<1>1. PICK s \in Screens, bpp \in Rga!Depths, v \in Rga!Contexts,
           r \in [x : Places, y : Places, w : Extents, h : Extents] :
        \E m \in Rga!SidesOf(s), offset \in {0, s.h, 2 * s.h} :
          /\ r.x + r.w <= s.w /\ r.y + r.h <= s.h
          /\ r.w * r.h > 4096
          /\ Rga!Called(call(s, bpp, to(r, offset)),
                        Rga!AdapterFill(v, to(r, offset), m.w, m.h, Rga!Stride(s, bpp), bpp), v)
  BY ZenonT(60) DEF Rga!FillRect, OnScreen, Rga!OfScreen, Unit
<1>2. PICK m \in Rga!SidesOf(s), offset \in {0, s.h, 2 * s.h} :
          /\ r.x + r.w <= s.w /\ r.y + r.h <= s.h
          /\ r.w * r.h > 4096
          /\ Rga!Called(call(s, bpp, to(r, offset)),
                        Rga!AdapterFill(v, to(r, offset), m.w, m.h, Rga!Stride(s, bpp), bpp), v)
  BY <1>1
<1> DEFINE rect == to(r, offset)
           c == call(s, bpp, rect)
           results == Rga!AdapterFill(v, rect, m.w, m.h, Rga!Stride(s, bpp), bpp)
           info == FillOf(rect, m.h, Rga!wstride(Rga!Stride(s, bpp), bpp), bpp)
           meant == place(s, bpp, rect)
<1>3. v \in Blitters \cup {NoContext}
  BY ContextIs DEF RgaKept
<1>4. r.x \in Nat /\ r.y \in Nat /\ r.w \in Nat /\ r.h \in Nat /\ s.w \in Nat /\ s.h \in Nat
      /\ m.w \in Nat /\ m.h \in Nat
  BY PlacedIs, ScreenIs, SidesAre
<1>5. rect.x = r.x /\ rect.y = r.y + offset /\ rect.w = r.w /\ rect.h = r.h /\ rect \in Rectangles
  <2>1. rect = [x |-> r.x, y |-> r.y + offset, w |-> r.w, h |-> r.h]
    OBVIOUS
  <2>2. r.y + offset \in Nat
    BY <1>4
  <2> QED BY <1>4, <2>1, <2>2 DEF Rectangles
<1>6. c.src = {} /\ c.dst = meant /\ c.addr = "virtual" /\ c.bpp = bpp /\ c.async = FALSE
  BY DEF Rga!AdapterCall
<1>7. Rga!Called(c, results, v)
  BY <1>2
<1> HIDE DEF call, c, rect, to, results
<1>8. Sized(rect)
  <2>1. r.w # 0 /\ r.h # 0
    BY <1>2, <1>4
  <2> QED BY <1>4, <1>5, <2>1 DEF Sized
<1>9. bpp # 15 /\ (build = "im2d" => rect.y + rect.h <= m.h) => InfoMeans(info, meant)
  <2> SUFFICES ASSUME bpp # 15, build = "im2d" => rect.y + rect.h <= m.h
               PROVE  InfoMeans(info, meant)
    OBVIOUS
  <2> DEFINE n == Rga!Stride(s, bpp)
             u == Unit(bpp)
             ws == s.w + s.pad
  <2>1. n \in Nat /\ n = ws * u /\ ws \in Nat /\ s.w <= ws
    BY StrideIs, LinesAre
  <2>2. info.x = rect.x /\ info.y = rect.y /\ info.w = rect.w /\ info.h = rect.h
        /\ info.ws = ws /\ info.hs = m.h /\ info.at = 0 /\ info.format = Rga!formatFromBpp(bpp)
    BY LinesAre DEF FillOf, Rga!rga_info
  <2>3. meant.at = 0 /\ meant.x = rect.x /\ meant.y = rect.y /\ meant.w = rect.w
        /\ meant.h = rect.h /\ meant.pitch = n /\ meant.bytes = u
    BY DEF OnScreen, Rga!Meant
  <2>4. info.format \in Nat /\ PixelBytes(info.format) = u /\ u \in Nat
    BY <2>2, DepthsAre
  <2>5. rect.x \in Nat /\ rect.y \in Nat /\ rect.w \in Nat /\ rect.h \in Nat
        /\ rect.x + rect.w <= s.w
    BY <1>2, <1>4, <1>5 DEF Rectangles
  <2> HIDE DEF info, meant, n, u, ws
  <2>6. info.at + info.y * meant.pitch + info.x * meant.bytes
          = meant.at + meant.y * meant.pitch + meant.x * meant.bytes
    BY <2>2, <2>3
  <2>7. info.x + info.w <= info.ws /\ (build = "im2d" => info.y + info.h <= info.hs)
    BY <1>4, <2>1, <2>2, <2>5
  <2> QED BY <2>1, <2>2, <2>3, <2>4, <2>5, <2>6, <2>7 DEF InfoMeans
<1>10. ASSUME NEW res \in results, res.ok PROVE Fulfils(c, res.sent, v)
  <2>1. /\ v \in Blitters /\ IsFill(res.sent, v, info, c.async)
        /\ build = "im2d" => rect.y + rect.h <= m.h
    <3>1. Rga!wstride(Rga!Stride(s, bpp), bpp) \in Nat
      BY StrideIs
    <3>2. /\ v \in Blitters /\ IsFill(res.sent, v, info, FALSE)
          /\ build = "im2d" => rect.y + rect.h <= m.h
      BY <1>3, <1>4, <1>5, <1>8, <1>10, <3>1, AdapterFillDoes, ZenonT(60) DEF results
    <3> QED BY <1>6, <3>2
  <2>2. info.addr = c.addr
    BY <1>6 DEF FillOf, Rga!rga_info
  <2>3. v.number \in Nat /\ v.number >= 1003
    BY <2>1, NumberIs
  <2>4. c.bpp # 15 => InfoMeans(info, c.dst)
    BY <1>6, <1>9, <2>1
  <2> HIDE DEF info
  <2> QED BY <1>6, <2>1, <2>2, <2>3, <2>4, FillFulfils
<1> QED BY <1>7, <1>10, CallKept

LEMMA Im2dCallKept == ASSUME RgaKept, Rga!Im2dCall PROVE RgaKept'
<1> DEFINE call(src, srect, dst, drect, usage) ==
             [src |-> IF usage.fill THEN {} ELSE {Rga!Means(src, srect)},
              dst |-> Rga!Means(dst, drect), addr |-> dst.addr, bpp |-> 0,
              async |-> usage.sync = "0"]
<1>1. PICK v \in Rga!Contexts, src, dst \in ImPictures, srect, drect \in ImRects, usage \in ImUsages :
        Rga!Called(call(src, srect, dst, drect, usage),
               Rga!improcess(v, src, dst, srect, drect, usage), v)
  BY ZenonT(60) DEF Rga!Im2dCall
<1> DEFINE c == call(src, srect, dst, drect, usage)
           results == Rga!improcess(v, src, dst, srect, drect, usage)
<1>2. v \in Blitters \cup {NoContext}
  BY ContextIs DEF RgaKept
<1>3. c.src = (IF usage.fill THEN {} ELSE {Rga!Means(src, srect)}) /\ c.dst = Rga!Means(dst, drect)
      /\ c.addr = dst.addr /\ c.async = (usage.sync = "0")
  OBVIOUS
<1> HIDE DEF call, c
<1>4. ASSUME NEW r \in results, r.ok PROVE Fulfils(c, r.sent, v)
  BY <1>2, <1>3, <1>4, ImCallFulfils
<1>5. Rga!Called(c, results, v)
  BY <1>1 DEF c
<1> QED BY <1>4, <1>5, CallKept

LEMMA RgaSteps == RgaKept /\ Rga!RgaNext => RgaKept'
BY ProbeKept, CopyScreenKept, FlushRectKept, FillRectKept, Im2dCallKept, ReturnKept DEF Rga!RgaNext

LEMMA RgaStays == ASSUME RgaKept, UNCHANGED Rga!rgaVars PROVE RgaKept'
<1>1. rgaCtx' = rgaCtx /\ wanted' = wanted /\ answer' = answer /\ sent' = sent /\ build' = build
  BY DEF Rga!rgaVars
<1> QED BY <1>1 DEF RgaKept, Rga!DoneAsAsked, Rga!CoversMeant, Rga!Covered, Rga!DeviceField

-----------------------------------------------------------------------------
(* The configuration (Config).                                             *)

LEMMA MinIs ==
  ASSUME NEW T, T \subseteq Nat, T # {}
  PROVE  Min(T) \in T /\ \A k \in T : Min(T) <= k
<1>1. \E m \in T : \A k \in T : m <= k
  BY NatMin
<1> QED BY <1>1 DEF Min

LEMMA MaxIs ==
  ASSUME NEW n \in Nat, NEW T, T \subseteq 0 .. n, T # {}
  PROVE  Max(T) \in T /\ \A k \in T : k <= Max(T)
<1> DEFINE D == {n - x : x \in T}
<1>0. \A x \in T : x \in Nat /\ x <= n
  OBVIOUS
<1>1. D \subseteq Nat /\ D # {}
  <2>1. \A x \in T : n - x \in Nat
    BY <1>0
  <2>2. D \subseteq Nat
    BY <2>1
  <2>3. D # {}
    OBVIOUS
  <2> QED BY <2>2, <2>3
<1>2. PICK d \in D : \A k \in D : d <= k
  BY <1>1, NatMin
<1>3. PICK x \in T : d = n - x
  OBVIOUS
<1>4. \A k \in T : x >= k
  <2> SUFFICES ASSUME NEW k \in T PROVE x >= k
    OBVIOUS
  <2>1. d <= n - k
    BY <1>2
  <2>2. x \in Nat /\ k \in Nat
    BY <1>0
  <2> QED BY <1>3, <2>1, <2>2
<1>5. \E y \in T : \A k \in T : y >= k
  BY <1>4
<1>6. Max(T) \in T /\ \A k \in T : Max(T) >= k
  BY <1>5 DEF Max
<1> HIDE DEF D
<1>7. Max(T) \in Nat
  BY <1>0, <1>6
<1> QED BY <1>0, <1>6, <1>7

Text == Seq(STRING)
Entry == [key : Text, val : Text]

\* A line either sets nothing or gives a key and a value.
LEMMA ParseIs ==
  ASSUME NEW str \in Text
  PROVE  parseOption(str) = NoOption \/ parseOption(str) \in Entry
<1> DEFINE first == {i \in DOMAIN str : str[i] # " "}
           start == IF first = {} THEN 0 ELSE Min(first)
           equals == {i \in DOMAIN str : i >= start /\ str[i] = "="}
           eq == Min(equals)
           last == Max(first)
           e == [key |-> SubSeq(str, start, eq - 1), val |-> SubSeq(str, eq + 1, last)]
           none == first = {} \/ str[start] = "#" \/ equals = {} \/ last <= eq
<1>1. parseOption(str) = IF none THEN NoOption ELSE e
  BY Zenon DEF parseOption
<1>2. Len(str) \in Nat /\ DOMAIN str = 1 .. Len(str) /\ \A i \in 1 .. Len(str) : str[i] \in STRING
  BY DEF Text
<1>a. \A i \in DOMAIN str : i \in Nat /\ i \in 1 .. Len(str) /\ i \in 0 .. Len(str)
  BY <1>2
<1>3. CASE none
  BY <1>1, <1>3
<1>4. CASE ~ none
  <2>1. first # {} /\ equals # {} /\ ~ (last <= eq)
    BY <1>4
  <2>2. start \in 1 .. Len(str)
    <3>1. first \subseteq Nat /\ first \subseteq 1 .. Len(str)
      BY <1>a
    <3>2. Min(first) \in first
      BY <2>1, <3>1, MinIs
    <3> QED BY <2>1, <3>1, <3>2
  <2>3. eq \in 1 .. Len(str) /\ eq >= start
    <3> HIDE DEF start
    <3>1. equals \subseteq Nat
      BY <1>a
    <3>2. eq \in equals
      BY <2>1, <3>1, MinIs
    <3> QED BY <1>2, <3>2
  <2>4. last \in 1 .. Len(str)
    <3>1. first \subseteq 0 .. Len(str) /\ first \subseteq 1 .. Len(str)
      BY <1>a
    <3> HIDE DEF first
    <3>2. last \in first
      BY <1>2, <2>1, <3>1, MaxIs
    <3> QED BY <3>1, <3>2
  <2> HIDE DEF start, eq, last
  <2>5. SubSeq(str, start, eq - 1) \in Text
    <3>1. \A i \in start .. eq - 1 : str[i] \in STRING
      BY <1>2, <2>2, <2>3
    <3>2. start \in Int /\ eq - 1 \in Int
      BY <2>2, <2>3
    <3> QED BY <3>1, <3>2, SubSeqProperties DEF Text
  <2>6. SubSeq(str, eq + 1, last) \in Text
    <3>1. \A i \in eq + 1 .. last : str[i] \in STRING
      BY <1>2, <2>3, <2>4
    <3>2. last \in Int /\ eq + 1 \in Int
      BY <2>3, <2>4
    <3> QED BY <3>1, <3>2, SubSeqProperties DEF Text
  <2>7. e \in Entry
    BY <2>5, <2>6 DEF Entry
  <2> HIDE DEF e, none
  <2> QED BY <1>1, <1>4, <2>7
<1> QED BY <1>3, <1>4

\* Where the entry that counts for a key is.
IsAt(entries, key, g) ==
  \/ g = 0 /\ \A i \in DOMAIN entries : entries[i].key # key
  \/ /\ g \in DOMAIN entries /\ entries[g].key = key
     /\ \A i \in DOMAIN entries : entries[i].key = key => g <= i

LEMMA GetIs ==
  ASSUME NEW entries \in Seq(Entry), NEW key
  PROVE  IsAt(entries, key, getEntry(entries, key))
<1> DEFINE at == {i \in DOMAIN entries : entries[i].key = key}
<1>1. getEntry(entries, key) = IF at = {} THEN 0 ELSE Min(at)
  BY DEF getEntry
<1>2. CASE at = {}
  BY <1>1, <1>2 DEF IsAt
<1>3. CASE at # {}
  <2>1. at \subseteq Nat
    OBVIOUS
  <2>2. Min(at) \in at /\ \A k \in at : Min(at) <= k
    BY <1>3, <2>1, MinIs
  <2> QED BY <1>1, <1>3, <2>2 DEF IsAt
<1> QED BY <1>2, <1>3

LEMMA OneIsAt ==
  ASSUME NEW entries \in Seq(Entry), NEW key, NEW g, IsAt(entries, key, g)
  PROVE  getEntry(entries, key) = g
<1> DEFINE h == getEntry(entries, key)
<1>1. IsAt(entries, key, h)
  BY GetIs
<1>2. DOMAIN entries \subseteq Nat
  OBVIOUS
<1> HIDE DEF h
<1> QED BY <1>1, <1>2 DEF IsAt, h

\* What a list of entries says about a key.
ReadFrom(entries, key) ==
  IF getEntry(entries, key) = 0 THEN << >> ELSE entries[getEntry(entries, key)].val

LEMMA ReadIs ==
  ASSUME NEW entries \in Seq(Entry), NEW key
  PROVE  ReadFrom(entries, key) \in Text
<1>1. CASE getEntry(entries, key) = 0
  BY <1>1 DEF ReadFrom, Text
<1>2. CASE getEntry(entries, key) # 0
  <2>1. getEntry(entries, key) \in DOMAIN entries
    BY <1>2, GetIs DEF IsAt
  <2>2. entries[getEntry(entries, key)] \in Entry
    BY <2>1
  <2> QED BY <1>2, <2>2 DEF ReadFrom, Entry
<1> QED BY <1>1, <1>2

\* One key is said anew and the others are as they were.
Says(entries, e, new) ==
  /\ new \in Seq(Entry)
  /\ ReadFrom(new, e.key) = e.val
  /\ \A key : key # e.key => ReadFrom(new, key) = ReadFrom(entries, key)

LEMMA AddSays ==
  ASSUME NEW entries \in Seq(Entry), NEW e \in Entry
  PROVE  Says(entries, e, addEntry(entries, e))
<1> DEFINE new == addEntry(entries, e)
           n == Len(entries)
<1>1. /\ n \in Nat /\ DOMAIN entries = 1 .. n
      /\ new \in Seq(Entry) /\ DOMAIN new = 1 .. n + 1 /\ new[1] = e
      /\ \A i \in 1 .. n : new[i + 1] = entries[i]
  BY DEF addEntry
<1> HIDE DEF new, n
<1>2. ReadFrom(new, e.key) = e.val
  <2>1. IsAt(new, e.key, 1)
    BY <1>1 DEF IsAt
  <2>2. getEntry(new, e.key) = 1
    BY <1>1, <2>1, OneIsAt
  <2> QED BY <1>1, <2>2 DEF ReadFrom
<1>3. ASSUME NEW key, key # e.key
      PROVE  ReadFrom(new, key) = ReadFrom(entries, key)
  <2> DEFINE g == getEntry(entries, key)
  <2>1. IsAt(entries, key, g)
    BY GetIs
  <2>2. \A i \in 1 .. n + 1 : new[i].key = key => i # 1 /\ i - 1 \in 1 .. n /\ entries[i - 1].key = key
    <3> SUFFICES ASSUME NEW i \in 1 .. n + 1, new[i].key = key
                 PROVE  i # 1 /\ i - 1 \in 1 .. n /\ entries[i - 1].key = key
      OBVIOUS
    <3>1. i # 1
      BY <1>1, <1>3
    <3>2. i - 1 \in 1 .. n /\ (i - 1) + 1 = i
      BY <1>1, <3>1
    <3>3. new[i] = entries[i - 1]
      BY <1>1, <3>2
    <3> QED BY <3>1, <3>2, <3>3
  <2> HIDE DEF g
  <2>3. CASE g = 0
    <3>1. \A i \in 1 .. n : entries[i].key # key
      BY <1>1, <2>1, <2>3 DEF IsAt
    <3>2. IsAt(new, key, 0)
      BY <1>1, <2>2, <3>1 DEF IsAt
    <3>3. getEntry(new, key) = 0
      BY <1>1, <3>2, OneIsAt
    <3> QED BY <2>3, <3>3 DEF ReadFrom, g
  <2>4. CASE g # 0
    <3>1. g \in 1 .. n /\ entries[g].key = key
          /\ \A i \in 1 .. n : entries[i].key = key => g <= i
      BY <1>1, <2>1, <2>4 DEF IsAt
    <3>2. g + 1 \in 1 .. n + 1 /\ new[g + 1] = entries[g] /\ g + 1 # 0
      BY <1>1, <3>1
    <3>3. \A i \in 1 .. n + 1 : new[i].key = key => g + 1 <= i
      <4> SUFFICES ASSUME NEW i \in 1 .. n + 1, new[i].key = key PROVE g + 1 <= i
        OBVIOUS
      <4>1. g <= i - 1
        BY <2>2, <3>1
      <4> QED BY <1>1, <3>1, <4>1
    <3>4. IsAt(new, key, g + 1)
      BY <1>1, <3>1, <3>2, <3>3 DEF IsAt
    <3>5. getEntry(new, key) = g + 1
      BY <1>1, <3>4, OneIsAt
    <3> QED BY <2>4, <3>2, <3>5 DEF ReadFrom, g
  <2> QED BY <2>3, <2>4
<1> QED BY <1>1, <1>2, <1>3 DEF Says, new

LEMMA OverrideSays ==
  ASSUME NEW entries \in Seq(Entry), NEW e \in Entry
  PROVE  Says(entries, e, Overridden(entries, e))
<1> DEFINE g == getEntry(entries, e.key)
           new == [entries EXCEPT ![g].val = e.val]
<1>1. CASE g = 0
  BY <1>1, AddSays DEF Overridden
<1>2. CASE g # 0
  <2>1. g \in DOMAIN entries /\ entries[g].key = e.key
    BY <1>2, GetIs DEF IsAt
  <2>2. Overridden(entries, e) = new
    BY <1>2 DEF Overridden
  <2> HIDE DEF g
  <2> DEFINE v == e.val
             old == entries[g]
             changed == [key |-> old.key, val |-> v]
  <2>a. old \in Entry
    BY <2>1
  <2> HIDE DEF old
  <2>3. v \in Text /\ old \in Entry /\ old = [key |-> old.key, val |-> old.val]
    BY <2>a DEF Entry
  <2>4. [old EXCEPT !.val = v] = changed
    BY <2>3
  <2>5. new = [entries EXCEPT ![g] = changed]
    BY <2>4 DEF old
  <2>6. changed \in Entry /\ changed.key = old.key /\ changed.val = v
    BY <2>3 DEF Entry
  <2> HIDE DEF changed, v, new
  <2>7. new \in Seq(Entry) /\ DOMAIN new = DOMAIN entries /\ new[g] = changed
        /\ \A i \in DOMAIN entries : i # g => new[i] = entries[i]
    BY <2>1, <2>5, <2>6
  <2>8. \A i \in DOMAIN entries : new[i].key = entries[i].key
    BY <2>6, <2>7 DEF old
  <2>9. \A key : getEntry(new, key) = getEntry(entries, key)
    <3> SUFFICES ASSUME NEW key PROVE getEntry(new, key) = getEntry(entries, key)
      OBVIOUS
    <3>1. IsAt(entries, key, getEntry(entries, key))
      BY GetIs
    <3>2. IsAt(new, key, getEntry(entries, key))
      BY <2>7, <2>8, <3>1 DEF IsAt
    <3> QED BY <2>7, <3>2, OneIsAt
  <2>10. ReadFrom(new, e.key) = e.val
    BY <1>2, <2>6, <2>7, <2>9 DEF ReadFrom, g, v
  <2>11. ASSUME NEW key, key # e.key PROVE ReadFrom(new, key) = ReadFrom(entries, key)
    <3>1. CASE getEntry(entries, key) = 0
      BY <2>9, <3>1 DEF ReadFrom
    <3>2. CASE getEntry(entries, key) # 0
      <4>1. getEntry(entries, key) \in DOMAIN entries
            /\ entries[getEntry(entries, key)].key = key
        BY <3>2, GetIs DEF IsAt
      <4>2. getEntry(entries, key) # g
        BY <2>1, <2>11, <4>1
      <4> QED BY <2>7, <2>9, <3>2, <4>1, <4>2 DEF ReadFrom
    <3> QED BY <3>1, <3>2
  <2> QED BY <2>2, <2>7, <2>10, <2>11 DEF Says
<1> QED BY <1>1, <1>2

\* The last word about every key is kept when another one is said.
LEMMA LastWordStays ==
  ASSUME mConfigEntrys \in Seq(Entry), said \in Seq(Entry), LastWordWins,
         NEW e \in Entry, said' = Append(said, e), Says(mConfigEntrys, e, mConfigEntrys')
  PROVE  LastWordWins'
<1> DEFINE n == Len(said)
           new == said'
<1>1. /\ n \in Nat /\ DOMAIN said = 1 .. n /\ Len(new) = n + 1 /\ DOMAIN new = 1 .. n + 1
      /\ new[n + 1] = e /\ \A i \in 1 .. n : new[i] = said[i]
  OBVIOUS
<1>2. \A i \in 1 .. n : (\A m \in i + 1 .. n : said[m].key # said[i].key)
                          => ReadFrom(mConfigEntrys, said[i].key) = said[i].val
  BY <1>1 DEF LastWordWins, Lookup, ReadFrom
<1> HIDE DEF n, new
<1>3. ASSUME NEW i \in 1 .. n + 1, \A m \in i + 1 .. n + 1 : new[m].key # new[i].key
      PROVE  ReadFrom(mConfigEntrys', new[i].key) = new[i].val
  <2>1. CASE i = n + 1
    BY <1>1, <2>1 DEF Says
  <2>2. CASE i # n + 1
    <3>1. i \in 1 .. n /\ new[i] = said[i] /\ n + 1 \in i + 1 .. n + 1
      BY <1>1, <2>2
    <3>2. said[i].key # e.key
      BY <1>1, <1>3, <3>1
    <3>3. \A m \in i + 1 .. n : m \in 1 .. n /\ m \in i + 1 .. n + 1 /\ new[m] = said[m]
      BY <1>1, <3>1
    <3>4. \A m \in i + 1 .. n : said[m].key # said[i].key
      BY <1>3, <3>1, <3>3
    <3>5. ReadFrom(mConfigEntrys, said[i].key) = said[i].val
      BY <1>2, <3>1, <3>4
    <3> QED BY <3>1, <3>2, <3>5 DEF Says
  <2> QED BY <2>1, <2>2
<1>4. \A i \in 1 .. n + 1 : (\A m \in i + 1 .. n + 1 : new[m].key # new[i].key)
                              => ReadFrom(mConfigEntrys', new[i].key) = new[i].val
  BY <1>3
<1> QED BY <1>1, <1>4 DEF LastWordWins, Lookup, ReadFrom, new

\* The number that a set of places of a text gives, from those of smaller sets.
NumberStep(f, s, w) == IF s = {} THEN 0 ELSE 10 * f[s \ {Max(s)}] + Digits[w[Max(s)]]

NumbersBelow(w, n, k) ==
  \E f \in [SUBSET (1 .. n) -> Int] :
     \A s \in SUBSET (1 .. n) : Cardinality(s) < k => f[s] = NumberStep(f, s, w)

LEMMA PlacesCounted ==
  ASSUME NEW n \in Nat, NEW s \in SUBSET (1 .. n)
  PROVE  IsFiniteSet(s) /\ Cardinality(s) \in Nat /\ Cardinality(s) < n + 1
<1>1. IsFiniteSet(1 .. n) /\ Cardinality(1 .. n) = n
  BY FS_Interval
<1>2. IsFiniteSet(s) /\ Cardinality(s) <= Cardinality(1 .. n)
  BY <1>1, FS_Subset
<1>3. Cardinality(s) \in Nat
  BY <1>2, FS_CardinalityType
<1> QED BY <1>1, <1>2, <1>3

LEMMA LastPlace ==
  ASSUME NEW n \in Nat, NEW s, s \subseteq 1 .. n, s # {}
  PROVE  /\ Max(s) \in 1 .. n /\ s \ {Max(s)} \subseteq 1 .. n
         /\ Cardinality(s) \in Nat /\ Cardinality(s) # 0
         /\ Cardinality(s \ {Max(s)}) = Cardinality(s) - 1
<1>1. \A x \in 1 .. n : x \in 0 .. n
  OBVIOUS
<1>2. s \subseteq 0 .. n
  BY <1>1
<1>3. Max(s) \in s
  BY <1>2, MaxIs
<1>4. IsFiniteSet(s) /\ Cardinality(s) \in Nat
  BY PlacesCounted
<1> QED BY <1>3, <1>4, FS_RemoveElement, FS_EmptySet

LEMMA NumbersExist ==
  ASSUME NEW n \in Nat, NEW w, \A i \in 1 .. n : Digits[w[i]] \in Nat
  PROVE  NumbersBelow(w, n, n + 1)
<1> DEFINE Bad == {k \in Nat : k <= n + 1 /\ ~ NumbersBelow(w, n, k)}
<1>1. SUFFICES ASSUME Bad # {} PROVE FALSE
  OBVIOUS
<1>2. PICK m \in Bad : \A j \in Bad : m <= j
  <2>1. Bad \subseteq Nat
    OBVIOUS
  <2> QED BY <1>1, <2>1, NatMin
<1>3. m \in Nat /\ m <= n + 1 /\ ~ NumbersBelow(w, n, m)
  OBVIOUS
<1>4. \A s \in SUBSET (1 .. n) : Cardinality(s) \in Nat
  BY PlacesCounted
<1>5. NumbersBelow(w, n, 0)
  <2> DEFINE f == [s \in SUBSET (1 .. n) |-> 0]
  <2>1. f \in [SUBSET (1 .. n) -> Int]
    OBVIOUS
  <2>2. \A s \in SUBSET (1 .. n) : ~ (Cardinality(s) < 0)
    BY <1>4
  <2> QED BY <2>1, <2>2 DEF NumbersBelow
<1>6. m # 0
  BY <1>3, <1>5
<1> DEFINE k == m - 1
<1>7. k \in Nat /\ k <= n + 1 /\ k < m /\ k + 1 = m
  BY <1>3, <1>6
<1>8. NumbersBelow(w, n, k)
  <2>1. k \notin Bad
    BY <1>2, <1>3, <1>7
  <2> QED BY <1>7, <2>1
<1> HIDE DEF Bad, k
<1>9. PICK f \in [SUBSET (1 .. n) -> Int] :
        \A s \in SUBSET (1 .. n) : Cardinality(s) < k => f[s] = NumberStep(f, s, w)
  BY <1>8 DEF NumbersBelow
<1>10. \A s \in SUBSET (1 .. n) : NumberStep(f, s, w) \in Int
  <2> SUFFICES ASSUME NEW s \in SUBSET (1 .. n) PROVE NumberStep(f, s, w) \in Int
    OBVIOUS
  <2>1. CASE s = {}
    BY <2>1 DEF NumberStep
  <2>2. CASE s # {}
    <3>1. Max(s) \in 1 .. n /\ s \ {Max(s)} \in SUBSET (1 .. n)
      BY <2>2, LastPlace
    <3>2. f[s \ {Max(s)}] \in Int /\ Digits[w[Max(s)]] \in Nat
      BY <3>1
    <3> QED BY <2>2, <3>2 DEF NumberStep
  <2> QED BY <2>1, <2>2
<1> DEFINE g == [s \in SUBSET (1 .. n) |-> IF Cardinality(s) < k THEN f[s] ELSE NumberStep(f, s, w)]
<1>11. g \in [SUBSET (1 .. n) -> Int]
  BY <1>10
<1>12. /\ \A s \in SUBSET (1 .. n) : Cardinality(s) < k => g[s] = f[s]
       /\ \A s \in SUBSET (1 .. n) : ~ (Cardinality(s) < k) => g[s] = NumberStep(f, s, w)
  OBVIOUS
<1> HIDE DEF g
<1>13. ASSUME NEW s \in SUBSET (1 .. n), Cardinality(s) < m PROVE g[s] = NumberStep(g, s, w)
  <2>1. g[s] = NumberStep(f, s, w)
    BY <1>9, <1>12
  <2>2. NumberStep(f, s, w) = NumberStep(g, s, w)
    <3>1. CASE s = {}
      BY <3>1 DEF NumberStep
    <3>2. CASE s # {}
      <4>1. s \ {Max(s)} \in SUBSET (1 .. n) /\ Cardinality(s) \in Nat
            /\ Cardinality(s \ {Max(s)}) = Cardinality(s) - 1
        BY <3>2, LastPlace
      <4>2. Cardinality(s \ {Max(s)}) < k
        BY <1>3, <1>7, <1>13, <4>1
      <4>3. g[s \ {Max(s)}] = f[s \ {Max(s)}]
        BY <1>12, <4>1, <4>2
      <4> QED BY <3>2, <4>3 DEF NumberStep
    <3> QED BY <3>1, <3>2
  <2> QED BY <2>1, <2>2
<1>14. NumbersBelow(w, n, m)
  BY <1>11, <1>13 DEF NumbersBelow
<1> QED BY <1>3, <1>14

\* Digits one after the other make a whole number.
LEMMA DigitsMakeNumber ==
  ASSUME NEW w, NEW n \in Nat, DOMAIN w = 1 .. n, \A i \in 1 .. n : Digits[w[i]] \in Nat
  PROVE  FoldLeft(LAMBDA acc, d : 10 * acc + Digits[d], 0, w) \in Int
<1> DEFINE DigitPlaces == SUBSET (1 .. n)
           Def(h) == h = [s \in DigitPlaces |-> IF s = {} THEN 0
                                           ELSE 10 * h[s \ {Max(s)}] + Digits[w[Max(s)]]]
           h0 == CHOOSE h : Def(h)
<1>1. FoldLeft(LAMBDA acc, d : 10 * acc + Digits[d], 0, w) = h0[1 .. n]
  BY DEF FoldLeft, MapThenFoldSet
<1>2. PICK f \in [DigitPlaces -> Int] :
        \A s \in DigitPlaces : Cardinality(s) < n + 1 => f[s] = NumberStep(f, s, w)
  BY NumbersExist DEF NumbersBelow
<1>3. \A s \in DigitPlaces : IsFiniteSet(s) /\ Cardinality(s) \in Nat /\ Cardinality(s) < n + 1
  BY PlacesCounted
<1>4. Def(f)
  <2>1. \A s \in DigitPlaces : f[s] = NumberStep(f, s, w)
    BY <1>2, <1>3
  <2>2. f = [s \in DigitPlaces |-> f[s]]
    OBVIOUS
  <2> QED BY <2>1, <2>2 DEF NumberStep
<1>5. Def(h0)
  BY <1>4
<1> HIDE DEF h0
<1>6. \A s \in DigitPlaces : h0[s] = NumberStep(h0, s, w)
  BY <1>5 DEF NumberStep
<1> DEFINE Bad == {k \in Nat : \E s \in DigitPlaces : Cardinality(s) = k /\ h0[s] \notin Int}
<1>7. Bad = {}
  <2> SUFFICES ASSUME Bad # {} PROVE FALSE
    OBVIOUS
  <2>1. PICK m \in Bad : \A k \in Bad : m <= k
    <3>1. Bad \subseteq Nat
      OBVIOUS
    <3> QED BY <3>1, NatMin
  <2>2. PICK s \in DigitPlaces : Cardinality(s) = m /\ h0[s] \notin Int
    BY <2>1
  <2>3. s # {}
    <3>0. {} \in DigitPlaces
      OBVIOUS
    <3>1. h0[{}] = 0
      BY <1>6, <3>0 DEF NumberStep
    <3>2. h0[{}] \in Int
      BY <3>1
    <3> QED BY <2>2, <3>2, Zenon
  <2>4. Max(s) \in 1 .. n /\ s \ {Max(s)} \in DigitPlaces /\ m \in Nat /\ m # 0
        /\ Cardinality(s \ {Max(s)}) = m - 1
    BY <2>2, <2>3, LastPlace
  <2>5. m - 1 \notin Bad /\ m - 1 \in Nat
    BY <2>1, <2>4
  <2>6. h0[s \ {Max(s)}] \in Int
    BY <2>4, <2>5
  <2>7. Digits[w[Max(s)]] \in Nat
    BY <2>4
  <2>8. h0[s] = 10 * h0[s \ {Max(s)}] + Digits[w[Max(s)]]
    BY <1>6, <2>3 DEF NumberStep
  <2> QED BY <2>2, <2>6, <2>7, <2>8
<1>8. 1 .. n \in DigitPlaces
  OBVIOUS
<1>9. h0[1 .. n] \in Int
  <2>1. Cardinality(1 .. n) \in Nat /\ Cardinality(1 .. n) \notin Bad
    BY <1>3, <1>7, <1>8
  <2> QED BY <1>8, <2>1
<1> QED BY <1>1, <1>9

\* Without the spaces before it and a sign, a value is still a text.
LEMMA BareIs ==
  ASSUME NEW v \in Text
  PROVE  DOMAIN Bare(v) = 1 .. Len(Bare(v)) /\ Len(Bare(v)) \in Nat
<1> DEFINE lead == {i \in DOMAIN v : v[i] # " "}
           w == IF lead = {} THEN << >> ELSE SubSeq(v, Min(lead), Len(v))
<1>1. Bare(v) = IF Signed(w) THEN Tail(w) ELSE w
  BY DEF Bare
<1>a. Len(v) \in Nat /\ DOMAIN v = 1 .. Len(v) /\ \A i \in 1 .. Len(v) : v[i] \in STRING
  BY DEF Text
<1>b. \A i \in 1 .. Len(v) : i \in Nat
  OBVIOUS
<1>2. w \in Text
  <2>1. CASE lead = {}
    <3>1. w = << >>
      BY <2>1
    <3>2. << >> \in Text
      BY DEF Text
    <3> QED BY <3>1, <3>2
  <2>2. CASE lead # {}
    <3> DEFINE m == Min(lead)
    <3>1. \A i \in lead : i \in 1 .. Len(v) /\ i \in Nat
      BY <1>a, <1>b
    <3> HIDE DEF lead
    <3>2. lead \subseteq Nat
      BY <3>1
    <3>3. m \in 1 .. Len(v)
      BY <2>2, <3>1, <3>2, MinIs
    <3> HIDE DEF m
    <3>4. m \in Int /\ Len(v) \in Int /\ \A i \in m .. Len(v) : i \in 1 .. Len(v)
      BY <1>a, <3>3
    <3>5. SubSeq(v, m, Len(v)) \in Text
      BY <1>a, <3>4, SubSeqProperties DEF Text
    <3> QED BY <2>2, <3>5 DEF m
  <2> QED BY <2>1, <2>2
<1> HIDE DEF w
<1>3. CASE Signed(w)
  <2>1. w # << >>
    BY <1>3 DEF Signed
  <2>2. Tail(w) \in Text
    BY <1>2, <2>1, HeadTailProperties DEF Text
  <2>3. Bare(v) \in Text
    BY <1>1, <1>3, <2>2
  <2> QED BY <2>3 DEF Text
<1>4. CASE ~ Signed(w)
  <2>1. Bare(v) \in Text
    BY <1>1, <1>2, <1>4
  <2> QED BY <2>1 DEF Text
<1> QED BY <1>3, <1>4

LEMMA NumberIsInt ==
  ASSUME NEW v \in Text, IsNumber(v)
  PROVE  Number(v) \in Int
<1> DEFINE w == Bare(v)
           m == FoldLeft(LAMBDA acc, d : 10 * acc + Digits[d], 0, w)
<1>1. Len(w) \in Nat /\ DOMAIN w = 1 .. Len(w)
  BY BareIs
<1>2. \A i \in 1 .. Len(w) : Digits[w[i]] \in Nat
  <2>1. CASE v = << >>
    <3>1. {i \in DOMAIN v : v[i] # " "} = {}
      BY <2>1
    <3>2. w = << >>
      BY <3>1 DEF Bare, Signed
    <3> QED BY <3>2
  <2>2. CASE v # << >>
    BY <1>1, <2>2, ConfigAssumption DEF IsNumber
  <2> QED BY <2>1, <2>2
<1> HIDE DEF w
<1>3. m \in Int
  BY <1>1, <1>2, DigitsMakeNumber
<1>4. Number(v) = IF \E i \in DOMAIN v : v[i] = "-" THEN - m ELSE m
  BY DEF Number, w
<1> HIDE DEF m
<1> QED BY <1>3, <1>4

LEMMA RangeOfHistory == ASSUME NEW n \in Int PROVE HistoryLines(n) \in Nat /\ HistoryLines(n) <= 65535
BY DEF HistoryLines

LEMMA HistoryInRange ==
  ASSUME NEW v \in Text, NEW n, (IsNumber(v) /\ n = Number(v)) \/ n = 1000
  PROVE  HistoryLines(n) \in Nat /\ HistoryLines(n) <= 65535
<1>1. n \in Int
  BY NumberIsInt
<1> QED BY <1>1, RangeOfHistory

\* As many members of a set are less than its n-th as it has before that one.
LEMMA RankTaken ==
  ASSUME NEW T, T \subseteq Nat, IsFiniteSet(T), NEW k \in 0 .. Cardinality(T) - 1
  PROVE  \E c \in T : Cardinality({d \in T : d < c}) = k
<1> DEFINE below(c) == {d \in T : d < c}
           n == Cardinality(T)
           R == 0 .. n - 1
           rank == [c \in T |-> Cardinality(below(c))]
<1>1. n \in Nat
  BY FS_CardinalityType
<1>2. ASSUME NEW c \in T
      PROVE  IsFiniteSet(below(c)) /\ Cardinality(below(c)) \in Nat /\ Cardinality(below(c)) < n
  <2>1. IsFiniteSet(below(c)) /\ Cardinality(below(c)) <= n
        /\ (Cardinality(T) = Cardinality(below(c)) => T = below(c))
    BY FS_Subset
  <2>2. T # below(c)
    <3>1. c \in Nat
      OBVIOUS
    <3> QED BY <3>1
  <2>3. Cardinality(below(c)) \in Nat
    BY <2>1, FS_CardinalityType
  <2> QED BY <1>1, <2>1, <2>2, <2>3
<1>3. ASSUME NEW c \in T, NEW d \in T, c < d
      PROVE  Cardinality(below(c)) # Cardinality(below(d))
  <2>1. c \in Nat /\ d \in Nat
    OBVIOUS
  <2>2. c \in below(d) /\ c \notin below(c)
    BY <1>3, <2>1
  <2>3. below(c) \subseteq below(d)
    <3> SUFFICES ASSUME NEW x \in T, x < c PROVE x < d
      OBVIOUS
    <3>1. x \in Nat
      OBVIOUS
    <3> QED BY <1>3, <2>1, <3>1
  <2>4. Cardinality(below(d)) = Cardinality(below(c)) => below(d) = below(c)
    BY <1>2, <2>3, FS_Subset
  <2> QED BY <2>2, <2>4
<1> HIDE DEF n
<1>4. rank \in [T -> R]
  <2>1. \A c \in T : Cardinality(below(c)) \in R
    BY <1>1, <1>2
  <2> QED BY <2>1
<1>5. \A c, d \in T : rank[c] = rank[d] => c = d
  <2> SUFFICES ASSUME NEW c \in T, NEW d \in T, Cardinality(below(c)) = Cardinality(below(d))
               PROVE  c = d
    OBVIOUS
  <2>1. c \in Nat /\ d \in Nat
    OBVIOUS
  <2> QED BY <1>3, <2>1
<1>6. IsFiniteSet(R) /\ Cardinality(R) = n
  BY <1>1, FS_Interval
<1>7. rank \in Injection(T, R)
  BY <1>4, <1>5 DEF Injection, IsInjective
<1>8. rank \in Surjection(T, R)
  BY <1>6, <1>7, FS_Injection DEF n
<1>9. PICK c \in T : rank[c] = k
  BY <1>8 DEF Surjection, n
<1> QED BY <1>9

\* A name goes up to the next comma and has none.
NoneOf(x, name) == \A i \in DOMAIN name : name[i] # x

LEMMA NoneBetween ==
  ASSUME NEW v \in Text, NEW x, NEW c \in Nat, NEW e \in Nat, e > c, e <= Len(v) + 1,
         \A i \in 1 .. Len(v) : i > c /\ v[i] = x => e <= i
  PROVE  NoneOf(x, SubSeq(v, c + 1, e - 1))
<1> DEFINE Others == {y \in STRING : y # x}
           name == SubSeq(v, c + 1, e - 1)
<1>1. c + 1 \in Int /\ e - 1 \in Int
  OBVIOUS
<1>2. ASSUME NEW i \in c + 1 .. e - 1 PROVE v[i] \in Others
  <2>1. Len(v) \in Nat /\ \A j \in 1 .. Len(v) : v[j] \in STRING
    BY DEF Text
  <2>2. i \in 1 .. Len(v) /\ i > c /\ ~ (e <= i)
    BY <2>1
  <2> QED BY <2>1, <2>2
<1> HIDE DEF Others
<1>3. name \in Seq(Others)
  BY <1>1, <1>2, SubSeqProperties
<1> HIDE DEF name
<1>4. \A i \in DOMAIN name : name[i] \in Others
  BY <1>3
<1> QED BY <1>4 DEF Others, name, NoneOf

\* Between one comma and the next there is none.
LEMMA CodecsAre ==
  ASSUME NEW v \in Text, NEW k \in DOMAIN Codecs(v)
  PROVE  NoneOf(",", Codecs(v)[k])
<1> DEFINE n == Len(v)
           cuts == {0} \union {i \in DOMAIN v : v[i] = ","}
           nth(m) == CHOOSE c \in cuts : Cardinality({d \in cuts : d < c}) = m - 1
           end(c) == Min({j \in cuts \union {Len(v) + 1} : j > c})
           all == [m \in 1 .. Min({Cardinality(cuts), NR_CODECS}) |->
                     SubSeq(v, nth(m) + 1, end(nth(m)) - 1)]
<1>1. n \in Nat /\ DOMAIN v = 1 .. n /\ \A i \in 1 .. n : v[i] \in STRING
  BY DEF Text
<1>2. Codecs(v) = IF v = << >> THEN << >> ELSE all
  BY DEF Codecs
<1>3. v # << >> /\ Codecs(v) = all
  <2>1. DOMAIN << >> = {}
    OBVIOUS
  <2> QED BY <1>2, <2>1
<1>4. cuts \subseteq Nat /\ (\A c \in cuts : c <= n) /\ IsFiniteSet(cuts)
  <2>1. \A i \in 1 .. n : i \in Nat /\ i <= n
    BY <1>1
  <2>2. 0 \in Nat /\ 0 <= n
    BY <1>1
  <2>3. \A c \in cuts : c \in Nat /\ c <= n
    BY <1>1, <2>1, <2>2
  <2> HIDE DEF cuts
  <2>4. cuts \subseteq Nat
    BY <2>3
  <2> QED BY <1>1, <2>3, <2>4, FS_BoundedSetOfNaturals
<1>5. Cardinality(cuts) \in Nat
  BY <1>4, FS_CardinalityType
<1>6. k \in 1 .. Cardinality(cuts) /\ Codecs(v)[k] = SubSeq(v, nth(k) + 1, end(nth(k)) - 1)
  <2> DEFINE both == {Cardinality(cuts), NR_CODECS}
  <2>1. both \subseteq Nat /\ both # {}
    BY <1>5, ConfigAssumption
  <2>2. Min(both) \in both /\ \A x \in both : Min(both) <= x
    BY <2>1, MinIs
  <2>3. Min(both) \in Nat /\ Min(both) <= Cardinality(cuts)
    BY <2>1, <2>2
  <2> HIDE DEF nth, end, cuts
  <2>4. k \in 1 .. Min(both)
    BY <1>3
  <2>5. Codecs(v)[k] = SubSeq(v, nth(k) + 1, end(nth(k)) - 1)
    BY <1>3, <2>4
  <2> HIDE DEF both
  <2> QED BY <1>5, <2>3, <2>4, <2>5
<1> DEFINE c == nth(k)
           e == end(c)
<1>7. c \in cuts
  <2> HIDE DEF cuts
  <2>1. k - 1 \in 0 .. Cardinality(cuts) - 1
    BY <1>5, <1>6
  <2>2. \E d \in cuts : Cardinality({x \in cuts : x < d}) = k - 1
    BY <1>4, <2>1, RankTaken
  <2> QED BY <2>2
<1> HIDE DEF nth
<1>8. c \in Nat /\ c <= n
  BY <1>4, <1>7
<1>9. e \in Nat /\ e > c /\ e <= n + 1 /\ \A i \in 1 .. n : i > c /\ v[i] = "," => e <= i
  <2> DEFINE later == {j \in cuts \union {Len(v) + 1} : j > c}
  <2> HIDE DEF c
  <2>a. n + 1 \in Nat /\ n + 1 > c
    BY <1>1, <1>8
  <2>b. \A j \in cuts \union {Len(v) + 1} : j \in Nat
    BY <1>4, <2>a
  <2>1. later \subseteq Nat /\ n + 1 \in later
    BY <2>a, <2>b
  <2>2. e \in later /\ \A j \in later : e <= j
    BY <2>1, MinIs
  <2>3. \A i \in 1 .. n : i > c /\ v[i] = "," => i \in later
    BY <1>1
  <2> HIDE DEF e
  <2>4. e \in Nat /\ e > c
    BY <2>1, <2>2
  <2> QED BY <2>1, <2>2, <2>3, <2>4
<1>10. Codecs(v)[k] = SubSeq(v, c + 1, e - 1)
  BY <1>6
<1> HIDE DEF c, e
<1> QED BY <1>1, <1>8, <1>9, <1>10, NoneBetween, Zenon

InPalette(n) == n \in 0 .. 255
Is16Bit(n) == n \in Nat /\ n <= 65535

LEMMA LocalIsName == IsName("local")
BY Zenon DEF IsName

LEMMA NoneIsName == ASSUME NEW name, NoneOf(",", name) PROVE IsName(name)
BY Zenon DEF IsName, NoneOf

\* What was read of the file and the command line, and what became of it.
StartedOK ==
  /\ settings = [history |-> settings.history, colour |-> settings.colour,
                 cell |-> settings.cell, ambiguous |-> settings.ambiguous,
                 codec |-> settings.codec]
  /\ Is16Bit(settings.history) /\ InPalette(settings.colour.index) /\ IsName(settings.codec)

ConfigKept ==
  /\ mConfigEntrys \in Seq(Entry) /\ said \in Seq(Entry) /\ LastWordWins
  /\ settings = NotStarted \/ StartedOK

LEMMA ConfigStarts == ConfigInit => ConfigKept
BY DEF ConfigInit, ConfigKept, LastWordWins

\* A word said about one option.
LEMMA SaidKept ==
  ASSUME ConfigKept, NEW e \in Entry, Says(mConfigEntrys, e, mConfigEntrys'),
         said' = Append(said, e), settings' = settings
  PROVE  ConfigKept'
<1>1. mConfigEntrys' \in Seq(Entry)
  BY DEF Says
<1>2. said' \in Seq(Entry)
  BY DEF ConfigKept
<1>3. LastWordWins'
  BY LastWordStays DEF ConfigKept
<1>4. settings' = NotStarted \/ StartedOK'
  BY DEF ConfigKept, StartedOK
<1> QED BY <1>1, <1>2, <1>3, <1>4 DEF ConfigKept

LEMMA NothingSaid ==
  ASSUME ConfigKept, mConfigEntrys' = mConfigEntrys, said' = said
  PROVE  LastWordWins'
BY DEF ConfigKept, LastWordWins, Lookup

LEMMA ReadLineKept == ASSUME ConfigKept, ReadLine PROVE ConfigKept'
<1>1. PICK line \in Lines :
        LET e == parseOption(line)
        IN  /\ mConfigEntrys' = IF e = NoOption THEN mConfigEntrys ELSE addEntry(mConfigEntrys, e)
            /\ said' = IF e = NoOption THEN said ELSE Append(said, e)
            /\ UNCHANGED <<readArgs, settings>>
  BY ZenonT(60) DEF ReadLine
<1> DEFINE e == parseOption(line)
<1>2. line \in Text
  BY ConfigAssumption DEF Text
<1>3. CASE e = NoOption
  <2>1. mConfigEntrys' = mConfigEntrys /\ said' = said /\ settings' = settings
    BY <1>1, <1>3
  <2> QED BY <2>1, NothingSaid DEF ConfigKept, StartedOK
<1>4. CASE e # NoOption
  <2>1. e \in Entry
    BY <1>2, <1>4, ParseIs
  <2>2. mConfigEntrys' = addEntry(mConfigEntrys, e) /\ said' = Append(said, e) /\ settings' = settings
    BY <1>1, <1>4
  <2> HIDE DEF e
  <2>3. Says(mConfigEntrys, e, mConfigEntrys')
    BY <2>1, <2>2, AddSays DEF ConfigKept
  <2> QED BY <2>1, <2>2, <2>3, SaidKept
<1> QED BY <1>3, <1>4

LEMMA ArgsKept == ASSUME ConfigKept, parseArgs PROVE ConfigKept'
<1>1. PICK e \in Arguments : /\ mConfigEntrys' = Overridden(mConfigEntrys, e)
                             /\ said' = Append(said, e) /\ settings' = settings
  BY DEF parseArgs
<1>2. e \in Entry
  BY ConfigAssumption DEF Entry, Text
<1>3. Says(mConfigEntrys, e, mConfigEntrys')
  BY <1>1, <1>2, OverrideSays DEF ConfigKept
<1> QED BY <1>1, <1>2, <1>3, SaidKept

LEMMA ValueIs == ASSUME ConfigKept, NEW option PROVE Value(option) \in Text
<1>1. Value(option) = ReadFrom(mConfigEntrys, OptionKeys[option])
  BY DEF Value, Lookup, ReadFrom
<1> QED BY <1>1, ReadIs DEF ConfigKept

LEMMA StartUpKept == ASSUME ConfigKept, StartUp PROVE ConfigKept'
<1> DEFINE h == init_history_lines
           c == init_default_color
<1>1. /\ mConfigEntrys' = mConfigEntrys /\ said' = said
      /\ settings' = [history |-> h, colour |-> c, cell |-> CellSize,
                      ambiguous |-> getFlag("ambiguous", FALSE), codec |-> "local"]
  BY DEF StartUp
<1>2. Is16Bit(h)
  <2> DEFINE v == Value("history")
             n == getNumber("history", 1000)
  <2>1. (IsNumber(v) /\ n = Number(v)) \/ n = 1000
    BY DEF getNumber
  <2>2. v \in Text
    BY ValueIs
  <2>3. h = HistoryLines(n)
    BY DEF init_history_lines
  <2> HIDE DEF v, n
  <2> QED BY <2>1, <2>2, <2>3, HistoryInRange DEF Is16Bit
<1>3. InPalette(c.index)
  <2> DEFINE v == Value("colour")
             n == getNumber("colour", 7)
             p == IF n \in 0 .. 255 THEN n ELSE 7
             other == [direct |-> FALSE, index |-> p, rgb |-> << >>]
             direct == [direct |-> TRUE, index |-> 0, rgb |-> Tail(v)]
  <2>1. c = direct \/ c = other
    BY DEF init_default_color
  <2>2. InPalette(p) /\ InPalette(0)
    BY DEF InPalette
  <2>3. direct.index = 0 /\ other.index = p
    OBVIOUS
  <2> HIDE DEF p, other, direct
  <2> QED BY <2>1, <2>2, <2>3
<1> HIDE DEF h, c
<1>4. StartedOK'
  BY <1>1, <1>2, <1>3, LocalIsName DEF StartedOK
<1>5. LastWordWins'
  BY <1>1, NothingSaid
<1> QED BY <1>1, <1>4, <1>5 DEF ConfigKept

LEMMA NoneAtZero == ASSUME NEW v PROVE 0 \notin DOMAIN Codecs(v)
<1> DEFINE cuts == {0} \union {i \in DOMAIN v : v[i] = ","}
           m == Min({Cardinality(cuts), NR_CODECS})
           nth(k) == CHOOSE c \in cuts : Cardinality({d \in cuts : d < c}) = k - 1
           end(c) == Min({j \in cuts \union {Len(v) + 1} : j > c})
           all == [k \in 1 .. m |-> SubSeq(v, nth(k) + 1, end(nth(k)) - 1)]
<1>a. Codecs(v) = IF v = << >> THEN << >> ELSE all
  BY DEF Codecs
<1>b. DOMAIN all = 1 .. m
  OBVIOUS
<1> HIDE DEF m
<1>c. 0 \notin 1 .. m /\ DOMAIN << >> = {}
  OBVIOUS
<1> HIDE DEF all
<1> QED BY <1>a, <1>b, <1>c, Zenon

LEMMA SwitchKept == ASSUME ConfigKept, switchCodec PROVE ConfigKept'
<1> DEFINE v == Value("codecs")
           chosen(i) == CASE i = 0 -> "local"
                          [] i \in DOMAIN Codecs(v) -> Codecs(v)[i]
                          [] OTHER -> settings.codec
<1>1. PICK i \in 0 .. NR_CODECS + 1 :
        /\ settings # NotStarted
        /\ settings' = [settings EXCEPT !.codec = chosen(i)]
        /\ mConfigEntrys' = mConfigEntrys /\ said' = said
  BY DEF switchCodec
<1> DEFINE x == chosen(i)
<1>2. v \in Text
  BY ValueIs
<1>3. StartedOK
  BY <1>1 DEF ConfigKept
<1>4. IsName(x)
  <2>1. CASE i = 0
    <3>1. x = "local"
      BY <2>1, NoneAtZero
    <3> HIDE DEF x
    <3> QED BY <3>1, LocalIsName
  <2>2. CASE i # 0 /\ i \in DOMAIN Codecs(v)
    <3>1. x = Codecs(v)[i]
      BY <2>2
    <3> HIDE DEF x, v
    <3>2. NoneOf(",", Codecs(v)[i])
      BY <1>2, <2>2, CodecsAre
    <3> QED BY <3>1, <3>2, NoneIsName
  <2>3. CASE i # 0 /\ i \notin DOMAIN Codecs(v)
    <3>1. x = settings.codec
      BY <2>3
    <3> HIDE DEF x
    <3> QED BY <1>3, <3>1 DEF StartedOK
  <2> QED BY <2>1, <2>2, <2>3
<1>5. settings' = [settings EXCEPT !.codec = x]
  BY <1>1
<1> HIDE DEF x
<1>6. settings' = [history |-> settings.history, colour |-> settings.colour,
                   cell |-> settings.cell, ambiguous |-> settings.ambiguous, codec |-> x]
  BY <1>3, <1>5 DEF StartedOK
<1>7. StartedOK'
  BY <1>3, <1>4, <1>6 DEF StartedOK
<1>8. LastWordWins'
  BY <1>1, NothingSaid
<1> QED BY <1>1, <1>7, <1>8 DEF ConfigKept

LEMMA ConfigSteps == ConfigKept /\ ConfigNext => ConfigKept'
BY ReadLineKept, ArgsKept, StartUpKept, SwitchKept DEF ConfigNext

LEMMA ConfigStays == ASSUME ConfigKept, UNCHANGED configVars PROVE ConfigKept'
<1>1. mConfigEntrys' = mConfigEntrys /\ said' = said /\ settings' = settings
  BY DEF configVars
<1> QED BY <1>1, NothingSaid DEF ConfigKept, StartedOK

LEMMA KeptIsObeyed == ConfigKept => LastWordWins /\ SettingsInRange
BY DEF ConfigKept, StartedOK, Is16Bit, InPalette, SettingsInRange

-----------------------------------------------------------------------------
(* All parts.                                                              *)

VideoKept == ProbeOK /\ BestSoFar /\ SavedOK /\ ConsoleGivenBack

\* Each part keeps what its proofs need.
PartsKept ==
    /\ part = "pan" => PanKept
    /\ part = "font" => FontKept
    /\ part = "keys" => KeysKept
    /\ part = "video" => VideoKept
    /\ part = "session" => SessionKept
    /\ part = "pipe" => PipeKept
    /\ part = "swap" => SwapKept
    /\ part = "rga" => RgaKept
    /\ part = "config" => ConfigKept

LEMMA VideoStarts == VideoInit => VideoKept
<1>1. VideoInit => next = 1 /\ mode_tmp = NoMode
  BY DEF VideoInit
<1>2. VideoInit => SavedOK /\ ConsoleGivenBack
  BY DEF VideoInit, SavedOK, ConsoleGivenBack
<1>3. 1 .. 1 - 1 = {}
  OBVIOUS
<1>4. VideoInit => BestSoFar
  BY <1>1, <1>3 DEF BestSoFar
<1> QED BY <1>2, <1>4, ProbeOKInit DEF VideoKept

LEMMA VideoSteps == VideoKept /\ VideoNext => VideoKept'
BY ProbeStep, SavedStep DEF VideoKept

LEMMA VideoStays == ASSUME VideoKept, UNCHANGED videoVars PROVE VideoKept'
<1>1. ProbeOK' /\ BestSoFar'
  BY DEF VideoKept, videoVars, ProbeOK, BestSoFar
<1>2. SavedOK' /\ ConsoleGivenBack'
  BY DEF VideoKept, videoVars, SavedOK, ConsoleGivenBack
<1> QED BY <1>1, <1>2 DEF VideoKept

LEMMA PartsStart == Init => PartsKept
<1> SUFFICES ASSUME Init PROVE PartsKept
  OBVIOUS
<1>1. part = "font" => FontInit
  BY DEF Init
<1>2. part = "keys" => KeyInit
  BY DEF Init
<1>3. part = "video" => VideoInit
  BY DEF Init
<1>4. part = "session" => SessionInit
  BY DEF Init
<1>5. part = "pan" => PanInit
  BY DEF Init
<1>6. part = "pipe" => PipeInit
  BY DEF Init
<1>7. part = "swap" => SwapInit
  BY DEF Init
<1>8. part = "rga" => Rga!RgaInit
  BY DEF Init
<1>9. part = "config" => ConfigInit
  BY DEF Init
<1> QED BY <1>1, <1>2, <1>3, <1>4, <1>5, <1>6, <1>7, <1>8, <1>9, PanStarts, FontStarts,
           KeysStart, VideoStarts, SessionStarts, PipeStarts, SwapStarts, RgaStarts, ConfigStarts
           DEF PartsKept

\* A step of the composition is one of the part that was chosen.
LEMMA PartStep ==
  ASSUME [Next]_vars
  PROVE  /\ part' = part
         /\ part = "pan" => PanNext \/ UNCHANGED panVars
         /\ part = "font" => FontNext \/ UNCHANGED fontVars
         /\ part = "keys" => KeyNext \/ UNCHANGED keyVars
         /\ part = "video" => VideoNext \/ UNCHANGED videoVars
         /\ part = "session" => SessionNext \/ UNCHANGED sessionVars
         /\ part = "pipe" => PipeNext \/ UNCHANGED pipeVars
         /\ part = "swap" => SwapNext \/ UNCHANGED swapVars
         /\ part = "rga" => Rga!RgaNext \/ UNCHANGED Rga!rgaVars
         /\ part = "config" => ConfigNext \/ UNCHANGED configVars
<1>1. CASE UNCHANGED vars
  <2>1. UNCHANGED Rga!rgaVars
    BY <1>1 DEF vars, requestVars, Rga!rgaVars
  <2> QED BY <1>1, <2>1 DEF vars
<1>2. CASE Next
  <2>1. part' = part
    BY <1>2 DEF Next
  <2>2. part = "font" => FontNext
    BY <1>2 DEF Next
  <2>3. part = "keys" => KeyNext
    BY <1>2 DEF Next
  <2>4. part = "video" => VideoNext
    BY <1>2 DEF Next
  <2>5. part = "session" => SessionNext
    BY <1>2 DEF Next
  <2>6. part = "pan" => PanNext
    BY <1>2 DEF Next
  <2>7. part = "pipe" => PipeNext
    BY <1>2 DEF Next
  <2>8. part = "swap" => SwapNext
    BY <1>2 DEF Next
  <2>9. part = "rga" => Rga!RgaNext
    BY <1>2 DEF Next
  <2>10. part = "config" => ConfigNext
    BY <1>2 DEF Next
  <2> QED BY <2>1, <2>2, <2>3, <2>4, <2>5, <2>6, <2>7, <2>8, <2>9, <2>10
<1> QED BY <1>1, <1>2

LEMMA PartsStep == PartsKept /\ [Next]_vars => PartsKept'
<1> SUFFICES ASSUME PartsKept, [Next]_vars PROVE PartsKept'
  OBVIOUS
<1>1. part' = part
  BY PartStep
<1>2. part = "font" => FontKept'
  BY PartStep, FontSteps, FontStays DEF PartsKept
<1>3. part = "keys" => KeysKept'
  BY PartStep, KeysStep, KeysStay DEF PartsKept
<1>4. part = "video" => VideoKept'
  BY PartStep, VideoSteps, VideoStays DEF PartsKept
<1>5. part = "session" => SessionKept'
  BY PartStep, SessionSteps, SessionStays DEF PartsKept
<1>6. part = "pan" => PanKept'
  BY PartStep, PanSteps, PanStays DEF PartsKept
<1>7. part = "pipe" => PipeKept'
  BY PartStep, PipeSteps, PipeStays DEF PartsKept
<1>8. part = "swap" => SwapKept'
  BY PartStep, SwapSteps, SwapStays DEF PartsKept
<1>9. part = "rga" => RgaKept'
  BY PartStep, RgaSteps, RgaStays DEF PartsKept
<1>10. part = "config" => ConfigKept'
  BY PartStep, ConfigSteps, ConfigStays DEF PartsKept
<1> QED BY <1>1, <1>2, <1>3, <1>4, <1>5, <1>6, <1>7, <1>8, <1>9, <1>10 DEF PartsKept

LEMMA PartsAlwaysKept == Spec => []PartsKept
BY PartsStart, PartsStep, PTL DEF Spec

\* The display shows the rows of the window, each line at its place and black
\* around them, after every sequence of rows written, scrolls, wraps past the end
\* of the video memory and changes of console; for every font height, screen,
\* video memory and device whose steps it fits (Screen::move, eraseMargin,
\* rotateRect, adjustOffset, FbDev::FbDev, VesaDev::initScrollType).
THEOREM WindowStaysShown == Spec => []PannedWindowIsShown
<1>1. PartsKept => PannedWindowIsShown
  BY KeptIsShown DEF PartsKept, PannedWindowIsShown
<1> QED BY <1>1, PartsAlwaysKept, PTL

\* A glyph has its character and exactly the style asked for, whatever was
\* cached and whichever fonts are open; for every list of fonts and every
\* history of requests (Font::getGlyph, fontIndex).
THEOREM GlyphsKeepStyle == Spec => []GlyphsHaveStyle
<1>1. PartsKept => GlyphsHaveStyle
  BY DEF PartsKept, GlyphsHaveStyle, FontKept
<1> QED BY <1>1, PartsAlwaysKept, PTL

\* Neither TtyInput nor the input method's library has a key or a modifier down
\* that is not, a composed number becomes its character, and the kernel gets
\* its keymap back; for every keyboard, keymap and number (processRawKeys,
\* process_raw_key, to_utf8, setupSysKey).
THEOREM KeysKeepSeen == Spec => []KeysAreSeen
<1>1. PartsKept => KeysAreSeen
  BY KeysSeen DEF PartsKept, KeysAreSeen
<1> QED BY <1>1, PartsAlwaysKept, PTL

\* The mode chosen is one of the card that no mode passed is better than;
\* wherever the program ends and whatever failed at its start, mode, palette,
\* keymap, keyboard, terminal and cursor are given back, and nothing deleted on
\* the way is used or left behind; for every list of modes, number of windows
\* and set of palettes (get_mode, setupPalette, FbTerm::init, ~FbTerm,
\* ~FbIoDispatcher, ~TtyInput).
THEOREM AllGivenBack == Spec => []EverythingGivenBack
<1>1. PartsKept => EverythingGivenBack
  BY SessionGivesBack DEF PartsKept, EverythingGivenBack, VideoKept
<1> QED BY <1>1, PartsAlwaysKept, PTL

\* Every byte read is handed on once, in order and converted as if it had come
\* in one piece, however reads cut it and whenever the encoding was changed, and
\* what is typed arrives in order until text is given up; for every size of the
\* buffer and every input (IoPipe::ready, translate, writeIo).
THEOREM BytesKeepPassing == Spec => []BytesPassOnce
<1>1. PartsKept => BytesPassOnce
  BY KeptIsPassed DEF PartsKept, BytesPassOnce
<1> QED BY <1>1, PartsAlwaysKept, PTL

\* Between two handlers the display shows all that was drawn, for every list of
\* dirty rectangles and a blitter that may fail at any of them, where no part of
\* the video memory is beyond the screen; and a call the blitter's library says
\* it did touches the bytes meant and no others, for every screen, device,
\* picture and rectangle (markDirty, addDirtyRect, flushDirtyRects, swapBuffers,
\* RgaAdapter, improcess, RgaBlit, RgaCollorFill).
THEOREM BuffersKeepAgreeing == Spec => []BuffersAgree
<1>1. PartsKept => BuffersAgree
  BY KeptIsCurrent DEF PartsKept, BuffersAgree, RgaKept
<1> QED BY <1>1, PartsAlwaysKept, PTL

\* What was said last about an option, in the file from top to bottom and then
\* on the command line, is what the program reads; and whatever was said, it
\* starts with settings in range and names an encoding the option names; for
\* every file and command line (Config::parseOption, addEntry, getEntry,
\* parseArgs, init_history_lines, init_default_color, switchCodec).
THEOREM OptionsStayObeyed == Spec => []OptionsAreObeyed
<1>1. PartsKept => OptionsAreObeyed
  BY KeptIsObeyed DEF PartsKept, OptionsAreObeyed
<1> QED BY <1>1, PartsAlwaysKept, PTL

=============================================================================
