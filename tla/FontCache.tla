----------------------------- MODULE FontCache -----------------------------
(***************************************************************************)
(* Choice of a font for a character, and the three glyph caches (font.cpp).*)
(* There is a list of regular fonts and, where they are configured, a list *)
(* of bold and one of italic fonts.  A face is opened when it is first     *)
(* wanted; where no configured font has the style, the glyph is emboldened *)
(* or sheared.  A glyph is its font and what was done to its bitmap.       *)
(*                                                                         *)
(* Characters beyond the basic plane are looked up in opened faces instead *)
(* of in fontconfig's charset, and those from 0x30000 on are never cached. *)
(* Bold and italic fonts are taken to open, and their lists to be no       *)
(* longer than the regular one (openFont's failure branch and fontIndex    *)
(* both index the regular list's faces whatever list they are given).      *)
(***************************************************************************)
EXTENDS Naturals, Sequences, SequencesExt

CONSTANTS
    Basic,      \* characters up to 0xffff
    Upper,      \* characters from 0x10000 to 0x2ffff
    Far,        \* characters from 0x30000 on
    Fontsets    \* what fontconfig may find: [plain, bold, italic : sequences
                \* of [family, has, opens, scalable, narrow]]

Styles == {"plain", "bold", "italic"}
Chars == Basic \union Upper \union Far
NoGlyph == [list |-> "none", font |-> 0, heavier |-> FALSE, sheared |-> FALSE]

VARIABLES
    fonts,      \* fontList, fontListBold, fontListItalic
    faces,      \* fontFaces, fontFacesBold, fontFacesItalic
    cache,      \* glyphCache, glyphCacheBold, glyphCacheItalic
    drawn       \* the last request, "cell" or "narrow", and its glyph

fontVars == <<fonts, faces, cache, drawn>>

Request(by, c, bold, italic, glyph) ==
    [by |-> by, char |-> c, bold |-> bold, italic |-> italic, glyph |-> glyph]

-----------------------------------------------------------------------------
(* The fonts in fontconfig's order, the first one of every family.         *)
createFontList(found) ==
    LET first(n) == \A m \in 1 .. n - 1 : found[m].family # found[n].family
        kept == SelectSeq([n \in 1 .. Len(found) |-> n], first)
    IN  [k \in 1 .. Len(kept) |-> found[kept[k]]]

(* Bold and italic fonts open.                                             *)
ASSUME FontsetsAssumption ==
    \A found \in Fontsets, l \in {"bold", "italic"} :
        \A i \in DOMAIN createFontList(found[l]) : createFontList(found[l])[i].opens

(* The face after another attempt to open it.                              *)
Opened(fc, list, i) ==
    IF fonts[list][i].opens THEN [fc EXCEPT ![list][i] = "open"]
    ELSE [fc EXCEPT !["plain"][i] = "bad"]

WantedOpen(fc, list, i) == IF fc[list][i] = "none" THEN Opened(fc, list, i) ELSE fc

unicodeMap == UNION {fonts["plain"][i].has : i \in DOMAIN fonts["plain"]}

(* Does fontIndex settle on font i?  Beyond the basic plane it asks the    *)
(* regular face of that number when it is open, and only else the list's.  *)
Settles(fc, list, i, c) ==
    IF c \in Basic THEN c \in unicodeMap /\ c \in fonts[list][i].has
    ELSE IF fc["plain"][i] = "open" THEN c \in fonts["plain"][i].has
    ELSE fonts[list][i].opens /\ c \in fonts[list][i].has

FirstOf(fit) == IF fit = {} THEN 0 ELSE CHOOSE i \in fit : \A j \in fit : i <= j

fontIndex(fc, list, c) ==
    LET fit == {i \in DOMAIN fonts[list] : Settles(fc, list, i, c)}
    IN  FirstOf(fit)

(* The faces fontIndex opens on its way.                                   *)
Asked(fc, list, found, c) ==
    {i \in DOMAIN fonts[list] :
        c \notin Basic /\ fc["plain"][i] # "open" /\ (found = 0 \/ i <= found)}
FacesAfter(fc, list, asked) ==
    [l \in Styles |-> [i \in DOMAIN fc[l] |->
        IF i \in asked /\ l = list /\ fonts[list][i].opens THEN "open"
        ELSE IF i \in asked /\ l = "plain" /\ ~ fonts[list][i].opens THEN "bad"
        ELSE fc[l][i]]]

Looked(fc, list, found, c) ==
    [font |-> found, faces |-> FacesAfter(fc, list, Asked(fc, list, found, c))]
LookUp(fc, list, c) == Looked(fc, list, fontIndex(fc, list, c), c)

-----------------------------------------------------------------------------
(* Where getGlyph looks first, and what it plans to do to the bitmap.  For *)
(* bold and italic at once: an italic font emboldened, else a bold font    *)
(* sheared, else the regular one with both.                                *)
Planned(list, heavier, sheared, fc) ==
    [list |-> list, heavier |-> heavier, sheared |-> sheared, faces |-> fc, font |-> 0]

BoldSheared(bold, c) ==
    IF bold.font # 0 THEN Planned("bold", FALSE, TRUE, bold.faces)
    ELSE Planned("plain", TRUE, TRUE, LookUp(bold.faces, "plain", c).faces)
ItalicEmboldened(italic, c) ==
    IF italic.font # 0 THEN Planned("italic", TRUE, FALSE, italic.faces)
    ELSE BoldSheared(LookUp(italic.faces, "bold", c), c)

Plan(c, bold, italic) ==
    CASE bold /\ italic -> ItalicEmboldened(LookUp(faces, "italic", c), c)
      [] bold /\ ~ italic ->
           IF fonts["bold"] # << >> THEN Planned("bold", FALSE, FALSE, faces)
           ELSE Planned("plain", TRUE, FALSE, faces)
      [] ~ bold /\ italic ->
           IF fonts["italic"] # << >> THEN Planned("italic", FALSE, FALSE, faces)
           ELSE Planned("plain", FALSE, TRUE, faces)
      [] OTHER -> Planned("plain", FALSE, FALSE, faces)

(* Bold and italic together name the regular cache, but do not use it.     *)
CacheOf(bold, italic) ==
    IF bold = italic THEN "plain" ELSE IF bold THEN "bold" ELSE "italic"
NoCache_FarOnly(c, bold, italic) == c \in Far
NoCache(c, bold, italic) == c \in Far \/ (bold /\ italic)

(* The font that draws the character: one of the planned list, or else a   *)
(* regular one with the styles added.                                      *)
FallBack(p, bold, italic) ==
    [p EXCEPT !.list = "plain", !.heavier = bold \/ @, !.sheared = italic \/ @]

Found(p, look) == [p EXCEPT !.faces = look.faces, !.font = look.font]
Searched(p, first, c, bold, italic) ==
    IF first.font # 0 THEN Found(p, first)
    ELSE Found(FallBack(p, bold, italic), LookUp(first.faces, "plain", c))

WithFace(p) ==
    IF p.font = 0 THEN p ELSE [p EXCEPT !.faces = WantedOpen(@, p.list, p.font)]

Rendered(p, c) ==
    IF p.font = 0 THEN NoGlyph
    ELSE IF p.faces[p.list][p.font] # "open" \/ c \notin fonts[p.list][p.font].has
    THEN NoGlyph
    ELSE [list |-> p.list, font |-> p.font, heavier |-> p.heavier,
          sheared |-> p.sheared /\ fonts[p.list][p.font].scalable]

FromCache(p, shelf, c, bold, italic) ==
    /\ drawn' = Request("cell", c, bold, italic, cache[shelf][c])
    /\ faces' = p.faces
    /\ UNCHANGED <<fonts, cache>>

Render(p, glyph, shelf, c, bold, italic) ==
    /\ drawn' = Request("cell", c, bold, italic, glyph)
    /\ faces' = p.faces
    /\ cache' = IF NoCache(c, bold, italic) \/ glyph = NoGlyph THEN cache
                ELSE [cache EXCEPT ![shelf][c] = glyph]
    /\ UNCHANGED fonts

getGlyph(c, bold, italic) ==
    LET p      == Plan(c, bold, italic)
        styled == LookUp(p.faces, p.list, c)
        face   == WithFace(Searched(p, styled, c, bold, italic))
        shelf  == CacheOf(bold, italic)
    IN  IF ~ NoCache(c, bold, italic) /\ cache[shelf][c] # NoGlyph
        THEN FromCache(p, shelf, c, bold, italic)
        ELSE Render(face, Rendered(face, c), shelf, c, bold, italic)

(* An icon too wide for its cell is looked for in the later regular fonts; *)
(* every font passed over on the way is opened.  It is not cached, and it  *)
(* gets a style only where no list of fonts has it.                        *)
Narrowed(i, bold, italic) ==
    IF i = 0 THEN NoGlyph
    ELSE [list |-> "plain", font |-> i, heavier |-> bold /\ fonts["bold"] = << >>,
          sheared |-> italic /\ fonts["italic"] = << >> /\ fonts["plain"][i].scalable]

getNarrowGlyph(c, bold, italic) ==
    LET first == fontIndex(faces, "plain", c)
        fc == LookUp(faces, "plain", c).faces
        later == {i \in DOMAIN fonts["plain"] : i > first}
        fits == {i \in later : fonts["plain"][i].opens /\ c \in fonts["plain"][i].has
                               /\ c \in fonts["plain"][i].narrow}
        tried == IF fits = {} THEN later
                 ELSE {i \in later : \A j \in fits : i <= j}
    IN  /\ first # 0
        /\ faces' = [fc EXCEPT !["plain"] = [i \in DOMAIN @ |->
               IF i \notin tried \/ @[i] # "none" THEN @[i]
               ELSE IF fonts["plain"][i].opens THEN "open" ELSE "bad"]]
        /\ drawn' = Request("narrow", c, bold, italic, Narrowed(FirstOf(fits), bold, italic))
        /\ UNCHANGED <<fonts, cache>>

-----------------------------------------------------------------------------
(* Font::Font opens the first regular font for the size of a cell.         *)
FontInit ==
    \E found \in Fontsets :
        /\ fonts = [l \in Styles |-> createFontList(found[l])]
        /\ faces = [l \in Styles |-> [i \in DOMAIN fonts[l] |->
                      IF l # "plain" \/ i # 1 THEN "none"
                      ELSE IF fonts[l][i].opens THEN "open" ELSE "bad"]]
        /\ cache = [l \in Styles |-> [c \in Chars |-> NoGlyph]]
        /\ drawn = Request("cell", CHOOSE c \in Chars : TRUE, FALSE, FALSE, NoGlyph)

FontNext ==
    \E c \in Chars, bold, italic \in BOOLEAN :
        getGlyph(c, bold, italic) \/ getNarrowGlyph(c, bold, italic)

FontSpec == FontInit /\ [][FontNext]_fontVars

-----------------------------------------------------------------------------
(* Whatever was drawn and cached before, in whatever order the styles were *)
(* asked for, a glyph has the character, and every style asked for comes   *)
(* either from its font or from what was done to the bitmap, never from    *)
(* both and never unasked (a font without outlines cannot be sheared).  A  *)
(* narrow glyph fits its cell and has no style unasked; one for which there*)
(* is a list of fonts it goes without.                                     *)
StyleIsKept ==
    drawn.glyph # NoGlyph =>
        LET g == drawn.glyph
            font == fonts[g.list][g.font]
        IN  /\ drawn.char \in font.has
            /\ drawn.by = "cell" =>
                 /\ g.heavier = (drawn.bold /\ g.list # "bold")
                 /\ g.sheared = (drawn.italic /\ g.list # "italic" /\ font.scalable)
            /\ drawn.by = "narrow" =>
                 /\ drawn.char \in font.narrow
                 /\ g.heavier => drawn.bold
                 /\ g.sheared => drawn.italic

(* A character of the basic plane that the regular style can show is shown *)
(* in every style, whichever faces are open by then.                       *)
BasicCharsShown ==
    (/\ drawn.by = "cell" /\ drawn.char \in Basic
     /\ \A i \in DOMAIN fonts["plain"] : fonts["plain"][i].opens
     /\ \E i \in DOMAIN fonts["plain"] : drawn.char \in fonts["plain"][i].has
     /\ cache["plain"][drawn.char] # NoGlyph)
        => drawn.glyph # NoGlyph
=============================================================================
