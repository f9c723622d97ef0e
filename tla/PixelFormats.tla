---------------------------- MODULE PixelFormats ----------------------------
(***************************************************************************)
(* Pixel values at 8, 15, 16 and 32 bits per pixel: the colours of palette *)
(* and direct colours (src/src/screen_render.cpp, src/src/screen.cpp), the *)
(* blending of smooth glyphs over a colour or over the background image,   *)
(* the stores that fill a row, and the pixels of an image cell with and    *)
(* without NEON (src/src/screen_sixel.cpp).  A colour is a record of three *)
(* bytes, a pixel a number; bit operations are written as arithmetic.      *)
(***************************************************************************)
EXTENDS Integers, Sequences

CONSTANTS Levels,     \* values of a colour byte tried
          Coverage,   \* values of a glyph's byte tried, from 0 to 255
          MaxWidth    \* bound: pixels of a row

ASSUME PixelAssumption ==
    Levels \subseteq 0 .. 255 /\ Coverage \subseteq 0 .. 255 /\ MaxWidth \in Nat

VARIABLE px   \* what is drawn, and what the code makes of it

Depths == {8, 15, 16, 32}
Colour == [red : Levels, green : Levels, blue : Levels]

\* Bits of red, green and blue, and the width of the stored pixel.
Bits(bpp) == CASE bpp = 15 -> <<5, 5, 5>> [] bpp = 16 -> <<5, 6, 5>> [] OTHER -> <<8, 8, 8>>
StoredBits(bpp) == CASE bpp = 8 -> 8 [] bpp = 32 -> 32 [] OTHER -> 16
Top(byte, bits) == byte \div (2 ^ (8 - bits))

\* The three fields side by side, each cut to its bits.
Packed(bpp, r, g, b) ==
    LET n == Bits(bpp)
    IN  Top(r, n[1]) * 2 ^ (n[2] + n[3]) + Top(g, n[2]) * 2 ^ n[3] + Top(b, n[3])

\* Screen::setPalette: mFillColors (at less than 32 bits the value repeats
\* itself in the upper half, for fillX to store it at once; left out here).
FillColor(bpp, index, c) ==
    IF bpp = 8 THEN index ELSE Packed(bpp, c.red, c.green, c.blue)

\* Screen::resolveColor of a direct colour; at 8 bits its index in the table of
\* direct colours is taken for one of the palette.
DirectPixel(bpp, index, c) ==
    IF bpp = 8 THEN index ELSE Packed(bpp, c.red, c.green, c.blue)

\* Screen::setBackgroundColor: at 8 bits a grey.
BackgroundPixel(bpp, c) ==
    IF bpp = 8 THEN (c.red + c.green + c.blue) \div 3
    ELSE Packed(bpp, c.red, c.green, c.blue)

-----------------------------------------------------------------------------
\* drawX: one byte of the blend; >> of a negative difference rounds down.
Mixed(fg, bg, coverage) == bg + ((fg - bg) * coverage) \div 256

Blend(bpp, fg, bg, coverage) ==
    CASE coverage = 0   -> Packed(bpp, bg.red, bg.green, bg.blue)
      [] coverage = 255 -> Packed(bpp, fg.red, fg.green, fg.blue)
      [] OTHER -> Packed(bpp, Mixed(fg.red, bg.red, coverage),
                         Mixed(fg.green, bg.green, coverage),
                         Mixed(fg.blue, bg.blue, coverage))

\* drawXBg: the same in unsigned arithmetic of 32 bits.  A negative difference
\* wraps around, so that 2^24 is left in the result after the shift.
UnsignedMixed(fg, bg, coverage) ==
    [value |-> Mixed(fg, bg, coverage), wraps |-> fg < bg]

\* A pixel of the background image, and its bytes with the low bits lost.
Unpacked(bpp, pixel) ==
    LET n == Bits(bpp)
    IN  [red   |-> ((pixel \div 2 ^ (n[2] + n[3])) % 2 ^ n[1]) * 2 ^ (8 - n[1]),
         green |-> ((pixel \div 2 ^ n[3]) % 2 ^ n[2]) * 2 ^ (8 - n[2]),
         blue  |-> (pixel % 2 ^ n[3]) * 2 ^ (8 - n[3])]

\* What a wrapped field leaves in the pixel: nothing, if the bit lies beyond the
\* pixel or in the unused byte of 32 bits.
Stray(bpp, mixed, bits, shift) ==
    LET used == IF bpp = 32 THEN 24 ELSE 16
    IN  IF mixed.wraps /\ 16 + bits + shift < used THEN 2 ^ (16 + bits + shift) ELSE 0

ImageBlend(bpp, fg, image, coverage) ==
    LET bg == Unpacked(bpp, image)
        n  == Bits(bpp)
        r  == UnsignedMixed(fg.red, bg.red, coverage)
        g  == UnsignedMixed(fg.green, bg.green, coverage)
        b  == UnsignedMixed(fg.blue, bg.blue, coverage)
    IN  CASE coverage = 0   -> image
          [] coverage = 255 -> Packed(bpp, fg.red, fg.green, fg.blue)
          [] OTHER -> Packed(bpp, r.value, g.value, b.value)
                      + Stray(bpp, r, n[1], n[2] + n[3])
                      + Stray(bpp, g, n[2], n[3]) + Stray(bpp, b, n[3], 0)

-----------------------------------------------------------------------------
\* fillX: whole words, then a half word and a byte; with NEON 16 bytes first.
BytesPerPixel(bpp) == StoredBits(bpp) \div 8
ppl(bpp) == 4 \div BytesPerPixel(bpp)
HasBit(w, bit) == bit # 0 /\ (w \div bit) % 2 = 1

TailBytes(bpp, w) ==
    4 * (w \div ppl(bpp))
    + (IF HasBit(w, ppl(bpp) \div 2) THEN 2 ELSE 0)
    + (IF HasBit(w, ppl(bpp) \div 4) THEN 1 ELSE 0)

FilledBytes(bpp, w, neon) ==
    LET lanes  == 16 \div BytesPerPixel(bpp)
        ncount == IF neon /\ w >= lanes THEN w - (w % lanes) ELSE 0
    IN  ncount * BytesPerPixel(bpp) + TailBytes(bpp, w - ncount)

\* drawSixelCell, one pixel b, g, r, a: all zero is transparent.
SixelPixel(bpp, c, alpha, bg) ==
    IF c.red + c.green + c.blue + alpha = 0 THEN bg
    ELSE IF bpp = 8 THEN (c.red * 77 + c.green * 150 + c.blue * 29) \div 256
    ELSE Packed(bpp, c.red, c.green, c.blue)

\* The bytes of the stored pixel that a mask of one byte is spread over.
Widened(bytes, bpp) == bytes * BytesPerPixel(bpp)

\* The same pixel in a lane of the NEON code; the select takes bg where the mask
\* is set.
NeonPixel(bpp, c, alpha, bg) ==
    LET transp == IF c.red + c.green + c.blue + alpha = 0 THEN 1 ELSE 0
        mask   == Widened(transp, bpp)
        value  == IF bpp = 8 THEN ((c.red * 77 + c.green * 150 + c.blue * 29) % 65536) \div 256
                  ELSE Packed(bpp, c.red, c.green, c.blue)
        low(p) == p % 2 ^ (8 * mask)
    IN  IF mask = BytesPerPixel(bpp) THEN bg ELSE value - low(value) + low(bg)

-----------------------------------------------------------------------------
Paint(bpp, fg, bg, coverage) ==
    [bpp |-> bpp, fg |-> fg, bg |-> bg, coverage |-> coverage,
     blend |-> Blend(bpp, fg, bg, coverage),
     image |-> ImageBlend(bpp, fg, Packed(bpp, bg.red, bg.green, bg.blue), coverage)]

PixelInit == \E bpp \in Depths : px = [bpp |-> bpp]

BlendPixel ==
    \E fg, bg \in Colour, coverage \in Coverage :
        /\ px.bpp # 8
        /\ DOMAIN px = {"bpp"}
        /\ fg.green = fg.blue
        /\ px' = Paint(px.bpp, fg, bg, coverage)

FillRow ==
    \E w \in 1 .. MaxWidth, neon \in BOOLEAN :
        /\ DOMAIN px = {"bpp"}
        /\ px' = [bpp |-> px.bpp, width |-> w, bytes |-> FilledBytes(px.bpp, w, neon)]

ImagePixel ==
    \E c, bg \in Colour, alpha \in {0, 255} :
        /\ DOMAIN px = {"bpp"}
        /\ bg.green = bg.blue
        /\ LET pixel == DirectPixel(px.bpp, 255, bg)
           IN  px' = [bpp |-> px.bpp, plain |-> SixelPixel(px.bpp, c, alpha, pixel),
                      neon |-> NeonPixel(px.bpp, c, alpha, pixel)]

SameColour ==
    \E c \in Colour :
        /\ DOMAIN px = {"bpp"}
        /\ px' = [bpp |-> px.bpp, fill |-> FillColor(px.bpp, 0, c),
                  direct |-> DirectPixel(px.bpp, 0, c),
                  background |-> BackgroundPixel(px.bpp, c)]

PixelNext == BlendPixel \/ FillRow \/ ImagePixel \/ SameColour
PixelSpec == PixelInit /\ [][PixelNext]_px

-----------------------------------------------------------------------------
\* A smooth pixel lies between its two colours in each component, at every
\* depth, and reaches both: no rounding and no sign takes it out of the range.
Between(v, a, b) == (a <= v /\ v <= b) \/ (b <= v /\ v <= a)
BlendStaysBetween ==
    "blend" \in DOMAIN px =>
        LET at   == Unpacked(px.bpp, px.blend)
            from == Unpacked(px.bpp, Packed(px.bpp, px.bg.red, px.bg.green, px.bg.blue))
            to   == Unpacked(px.bpp, Packed(px.bpp, px.fg.red, px.fg.green, px.fg.blue))
        IN  \A f \in {"red", "green", "blue"} : Between(at[f], from[f], to[f])

\* Over the background image the same, although it counts without signs: its
\* wrapped values fall out of the pixel.
ImageBlendStaysBetween ==
    "image" \in DOMAIN px =>
        LET at   == Unpacked(px.bpp, px.image)
            from == Unpacked(px.bpp, Packed(px.bpp, px.bg.red, px.bg.green, px.bg.blue))
            to   == Unpacked(px.bpp, Packed(px.bpp, px.fg.red, px.fg.green, px.fg.blue))
        IN  \A f \in {"red", "green", "blue"} : Between(at[f], from[f], to[f])

\* A row is filled to its last byte and no further.
RowIsCovered == "bytes" \in DOMAIN px => px.bytes = px.width * BytesPerPixel(px.bpp)

\* The NEON code makes the pixels of the plain code.
NeonAgrees == "neon" \in DOMAIN px => px.neon = px.plain

\* A colour has the same pixel in the palette and as a direct colour, and,
\* except at 8 bits, as the background of the screen.
OnePixelPerColour ==
    "fill" \in DOMAIN px =>
        px.direct = px.fill /\ (px.bpp # 8 => px.background = px.fill)
=============================================================================
