--------------------------- MODULE DrawingProofs ---------------------------
(***************************************************************************)
(* What is drawn comes out as meant: text and glyphs, box characters and   *)
(* pixels (GlyphDraw, BoxDraw, PixelFormats), for every size of screen,    *)
(* cell, glyph and row and every colour.  Each of the three parts has an   *)
(* inductive invariant (DrawKept, BoxKept, PixelsKept) that says of the    *)
(* last drawing what it left on the screen.                                *)
(***************************************************************************)
EXTENDS MCDevice, WellFoundedInduction, FiniteSetTheorems, TLAPS

-----------------------------------------------------------------------------
(* Numbers *)

LEMMA NatMin ==
  ASSUME NEW T, T \subseteq Nat, T # {}
  PROVE  \E m \in T : \A k \in T : m <= k
<1>1. PICK x \in T : \A y \in T : ~(<<y, x>> \in OpToRel(<, Nat))
  BY NatLessThanWellFounded, WFMin, Zenon
<1>2. \A y \in T : ~(y < x)
  <2> TAKE y \in T
  <2>1. y \in Nat /\ x \in Nat
    OBVIOUS
  <2>2. y < x => <<y, x>> \in OpToRel(<, Nat)
    BY <2>1 DEF OpToRel
  <2> QED BY <1>1, <2>2
<1> QED BY <1>2

-----------------------------------------------------------------------------
(* Pixels: blending, fills and images (PixelFormats) *)

Wide == {15, 16, 32}

LEMMA Powers == /\ 2 ^ 0 = 1 /\ 2 ^ 2 = 4 /\ 2 ^ 3 = 8 /\ 2 ^ 5 = 32 /\ 2 ^ 6 = 64 /\ 2 ^ 8 = 256
                /\ 2 ^ 10 = 1024 /\ 2 ^ 11 = 2048 /\ 2 ^ 16 = 65536
OBVIOUS

\* Three fields side by side, and the bytes read back from them.
Together(bpp, x, y, z) ==
  IF bpp = 15 THEN x * 1024 + y * 32 + z
  ELSE IF bpp = 16 THEN x * 2048 + y * 32 + z ELSE x * 65536 + y * 256 + z
Split(bpp, x, y, z) ==
  [red |-> IF bpp = 32 THEN x ELSE x * 8,
   green |-> IF bpp = 32 THEN y ELSE IF bpp = 16 THEN y * 4 ELSE y * 8,
   blue |-> IF bpp = 32 THEN z ELSE z * 8]

LEMMA BitsAre ==
  /\ Bits(15)[1] = 5 /\ Bits(15)[2] = 5 /\ Bits(15)[3] = 5
  /\ Bits(16)[1] = 5 /\ Bits(16)[2] = 6 /\ Bits(16)[3] = 5
  /\ Bits(32)[1] = 8 /\ Bits(32)[2] = 8 /\ Bits(32)[3] = 8
BY DEF Bits

LEMMA PackedIs ==
  ASSUME NEW r \in 0 .. 255, NEW g \in 0 .. 255, NEW b \in 0 .. 255
  PROVE  /\ Packed(15, r, g, b) = Together(15, r \div 8, g \div 8, b \div 8)
         /\ Packed(16, r, g, b) = Together(16, r \div 8, g \div 4, b \div 8)
         /\ Packed(32, r, g, b) = Together(32, r, g, b)
<1>1. Top(r, 8) = r /\ Top(g, 8) = g /\ Top(b, 8) = b
  BY DEF Top
<1>2. Top(r, 5) = r \div 8 /\ Top(g, 5) = g \div 8 /\ Top(b, 5) = b \div 8 /\ Top(g, 6) = g \div 4
  BY DEF Top
<1>3. 5 + 5 = 10 /\ 6 + 5 = 11 /\ 8 + 8 = 16
  OBVIOUS
<1>4. Packed(15, r, g, b) = Top(r, 5) * 2 ^ 10 + Top(g, 5) * 2 ^ 5 + Top(b, 5)
  BY BitsAre, <1>3, Zenon DEF Packed
<1>5. Packed(16, r, g, b) = Top(r, 5) * 2 ^ 11 + Top(g, 6) * 2 ^ 5 + Top(b, 5)
  BY BitsAre, <1>3, Zenon DEF Packed
<1>6. Packed(32, r, g, b) = Top(r, 8) * 2 ^ 16 + Top(g, 8) * 2 ^ 8 + Top(b, 8)
  BY BitsAre, <1>3, Zenon DEF Packed
<1>7. Packed(15, r, g, b) = Together(15, r \div 8, g \div 8, b \div 8)
  BY <1>2, <1>4, Powers DEF Together
<1>8. Packed(16, r, g, b) = Together(16, r \div 8, g \div 4, b \div 8)
  BY <1>2, <1>5, Powers DEF Together
<1>9. Packed(32, r, g, b) = Together(32, r, g, b)
  BY <1>1, <1>6, Powers DEF Together
<1> QED BY <1>7, <1>8, <1>9

\* A field has as many bits as its part of the pixel.
Fits(bpp, x, y, z) ==
  /\ x \in 0 .. 255 /\ y \in 0 .. 255 /\ z \in 0 .. 255
  /\ bpp # 32 => x < 32 /\ z < 32 /\ y < 64
  /\ bpp = 15 => y < 32

LEMMA UnpackedIs ==
  ASSUME NEW bpp \in Wide, NEW x, NEW y, NEW z, Fits(bpp, x, y, z)
  PROVE  /\ Together(bpp, x, y, z) \in Nat
         /\ Unpacked(bpp, Together(bpp, x, y, z)) = Split(bpp, x, y, z)
<1> DEFINE p == Together(bpp, x, y, z)
<1>1. x \in Nat /\ y \in Nat /\ z \in Nat
  BY DEF Fits
<1>2. p \in Nat
  BY <1>1 DEF Together
<1>3. 5 + 5 = 10 /\ 6 + 5 = 11 /\ 8 + 8 = 16 /\ 8 - 5 = 3 /\ 8 - 6 = 2 /\ 8 - 8 = 0
  OBVIOUS
<1>4. CASE bpp = 15
  <2>1. x < 32 /\ y < 32 /\ z < 32
    BY <1>4 DEF Fits
  <2>2. p = x * 1024 + y * 32 + z
    BY <1>4 DEF Together
  <2>3. (p \div 1024) % 32 = x
    BY <1>1, <2>1, <2>2
  <2>4. (p \div 32) % 32 = y
    BY <1>1, <2>1, <2>2
  <2>5. p % 32 = z
    BY <1>1, <2>1, <2>2
  <2> HIDE DEF p
  <2>6. Unpacked(15, p) = [red |-> ((p \div 2 ^ 10) % 2 ^ 5) * 2 ^ 3,
                           green |-> ((p \div 2 ^ 5) % 2 ^ 5) * 2 ^ 3, blue |-> (p % 2 ^ 5) * 2 ^ 3]
    BY BitsAre, <1>3, Zenon DEF Unpacked
  <2> QED BY <1>2, <1>4, <2>3, <2>4, <2>5, <2>6, Powers DEF Split, p
<1>5. CASE bpp = 16
  <2>1. x < 32 /\ y < 64 /\ z < 32
    BY <1>5 DEF Fits
  <2>2. p = x * 2048 + y * 32 + z
    BY <1>5 DEF Together
  <2>3. (p \div 2048) % 32 = x
    BY <1>1, <2>1, <2>2
  <2>4. (p \div 32) % 64 = y
    BY <1>1, <2>1, <2>2
  <2>5. p % 32 = z
    BY <1>1, <2>1, <2>2
  <2> HIDE DEF p
  <2>6. Unpacked(16, p) = [red |-> ((p \div 2 ^ 11) % 2 ^ 5) * 2 ^ 3,
                           green |-> ((p \div 2 ^ 5) % 2 ^ 6) * 2 ^ 2, blue |-> (p % 2 ^ 5) * 2 ^ 3]
    BY BitsAre, <1>3, Zenon DEF Unpacked
  <2> QED BY <1>2, <1>5, <2>3, <2>4, <2>5, <2>6, Powers DEF Split, p
<1>6. CASE bpp = 32
  <2>1. x < 256 /\ y < 256 /\ z < 256
    BY DEF Fits
  <2>2. p = x * 65536 + y * 256 + z
    BY <1>6 DEF Together
  <2>3. (p \div 65536) % 256 = x
    BY <1>1, <2>1, <2>2
  <2>4. (p \div 256) % 256 = y
    BY <1>1, <2>1, <2>2
  <2>5. p % 256 = z
    BY <1>1, <2>1, <2>2
  <2> HIDE DEF p
  <2>6. Unpacked(32, p) = [red |-> ((p \div 2 ^ 16) % 2 ^ 8) * 2 ^ 0,
                           green |-> ((p \div 2 ^ 8) % 2 ^ 8) * 2 ^ 0, blue |-> (p % 2 ^ 8) * 2 ^ 0]
    BY BitsAre, <1>3, Zenon DEF Unpacked
  <2> QED BY <1>1, <1>2, <1>6, <2>3, <2>4, <2>5, <2>6, Powers DEF Split, p
<1> QED BY <1>2, <1>4, <1>5, <1>6 DEF Wide

\* What is left of a byte that went through a pixel.
Kept(bpp, f, byte) ==
  IF bpp = 32 THEN byte ELSE IF bpp = 16 /\ f = "green" THEN (byte \div 4) * 4 ELSE (byte \div 8) * 8

LEMMA Returned ==
  ASSUME NEW r \in 0 .. 255, NEW g \in 0 .. 255, NEW b \in 0 .. 255, NEW bpp \in Wide
  PROVE  /\ Packed(bpp, r, g, b) \in Nat
         /\ Unpacked(bpp, Packed(bpp, r, g, b)) =
              [red |-> Kept(bpp, "red", r), green |-> Kept(bpp, "green", g),
               blue |-> Kept(bpp, "blue", b)]
<1>1. PICK x, y, z : /\ Packed(bpp, r, g, b) = Together(bpp, x, y, z) /\ Fits(bpp, x, y, z)
                     /\ Split(bpp, x, y, z) =
                          [red |-> Kept(bpp, "red", r), green |-> Kept(bpp, "green", g),
                           blue |-> Kept(bpp, "blue", b)]
  <2>1. CASE bpp = 15
    <3>1. Packed(15, r, g, b) = Together(15, r \div 8, g \div 8, b \div 8)
      BY PackedIs, Zenon
    <3>2. Fits(15, r \div 8, g \div 8, b \div 8)
      BY DEF Fits
    <3>3. Split(15, r \div 8, g \div 8, b \div 8) =
            [red |-> Kept(15, "red", r), green |-> Kept(15, "green", g), blue |-> Kept(15, "blue", b)]
      BY DEF Split, Kept
    <3> QED BY <2>1, <3>1, <3>2, <3>3, Zenon
  <2>2. CASE bpp = 16
    <3>1. Packed(16, r, g, b) = Together(16, r \div 8, g \div 4, b \div 8)
      BY PackedIs, Zenon
    <3>2. Fits(16, r \div 8, g \div 4, b \div 8)
      BY DEF Fits
    <3>3. Split(16, r \div 8, g \div 4, b \div 8) =
            [red |-> Kept(16, "red", r), green |-> Kept(16, "green", g), blue |-> Kept(16, "blue", b)]
      BY DEF Split, Kept
    <3> QED BY <2>2, <3>1, <3>2, <3>3, Zenon
  <2>3. CASE bpp = 32
    <3>1. Packed(32, r, g, b) = Together(32, r, g, b)
      BY PackedIs, Zenon
    <3>2. Fits(32, r, g, b)
      BY DEF Fits
    <3>3. Split(32, r, g, b) =
            [red |-> Kept(32, "red", r), green |-> Kept(32, "green", g), blue |-> Kept(32, "blue", b)]
      BY DEF Split, Kept
    <3> QED BY <2>3, <3>1, <3>2, <3>3, Zenon
  <2> QED BY <2>1, <2>2, <2>3 DEF Wide
<1> QED BY <1>1, UnpackedIs

LEMMA KeptOrder ==
  ASSUME NEW bpp \in Wide, NEW f, NEW m \in 0 .. 255, NEW n \in 0 .. 255, m <= n
  PROVE  Kept(bpp, f, m) <= Kept(bpp, f, n) /\ Kept(bpp, f, m) \in 0 .. 255
BY DEF Kept

LEMMA KeptTwice ==
  ASSUME NEW bpp \in Wide, NEW f, NEW m \in 0 .. 255
  PROVE  Kept(bpp, f, m) \in 0 .. 255 /\ Kept(bpp, f, Kept(bpp, f, m)) = Kept(bpp, f, m)
BY DEF Kept

LEMMA KeptBetween ==
  ASSUME NEW bpp \in Wide, NEW f, NEW v \in 0 .. 255, NEW a \in 0 .. 255, NEW b \in 0 .. 255,
         Between(v, a, b)
  PROVE  Between(Kept(bpp, f, v), Kept(bpp, f, a), Kept(bpp, f, b))
BY KeptOrder DEF Between

LEMMA MixedBetween ==
  ASSUME NEW fg \in 0 .. 255, NEW bg \in 0 .. 255, NEW coverage \in 0 .. 255
  PROVE  Mixed(fg, bg, coverage) \in 0 .. 255 /\ Between(Mixed(fg, bg, coverage), bg, fg)
<1> DEFINE d == fg - bg
           m == d * coverage
           q == m \div 256
<1>1. CASE d >= 0
  <2>1. 0 <= m /\ m <= d * 255
    BY <1>1
  <2>2. 0 <= q /\ q <= d
    BY <1>1, <2>1
  <2> HIDE DEF q
  <2> QED BY <2>2 DEF Mixed, Between, q
<1>2. CASE d < 0
  <2>1. d * 255 <= m /\ m <= 0
    BY <1>2
  <2>2. d <= q /\ q <= 0
    BY <1>2, <2>1
  <2> HIDE DEF q
  <2> QED BY <2>2 DEF Mixed, Between, q
<1> QED BY <1>1, <1>2

-----------------------------------------------------------------------------
Byte == 0 .. 255
Bytes3 == [red : Byte, green : Byte, blue : Byte]
PixelOf(bpp, c) == Packed(bpp, c.red, c.green, c.blue)
KeptOf(bpp, c) == [red |-> Kept(bpp, "red", c.red), green |-> Kept(bpp, "green", c.green),
                   blue |-> Kept(bpp, "blue", c.blue)]

\* Each component of the pixel is between those of the other two.
AllBetween(bpp, pixel, p, q) ==
  \A f \in {"red", "green", "blue"} :
    Between(Unpacked(bpp, pixel)[f], Unpacked(bpp, p)[f], Unpacked(bpp, q)[f])

LEMMA PixelReturned ==
  ASSUME NEW bpp \in Wide, NEW c \in Bytes3
  PROVE  /\ Unpacked(bpp, PixelOf(bpp, c)) = KeptOf(bpp, c)
         /\ KeptOf(bpp, c) \in Bytes3 /\ KeptOf(bpp, KeptOf(bpp, c)) = KeptOf(bpp, c)
         /\ PixelOf(bpp, c) \in Nat
<1>1. c.red \in Byte /\ c.green \in Byte /\ c.blue \in Byte
  BY DEF Bytes3
<1>2. /\ Kept(bpp, "red", c.red) \in Byte /\ Kept(bpp, "green", c.green) \in Byte
      /\ Kept(bpp, "blue", c.blue) \in Byte
  BY <1>1, KeptTwice DEF Byte
<1>3. /\ Kept(bpp, "red", Kept(bpp, "red", c.red)) = Kept(bpp, "red", c.red)
      /\ Kept(bpp, "green", Kept(bpp, "green", c.green)) = Kept(bpp, "green", c.green)
      /\ Kept(bpp, "blue", Kept(bpp, "blue", c.blue)) = Kept(bpp, "blue", c.blue)
  BY <1>1, KeptTwice DEF Byte
<1>4. /\ KeptOf(bpp, c).red = Kept(bpp, "red", c.red)
      /\ KeptOf(bpp, c).green = Kept(bpp, "green", c.green)
      /\ KeptOf(bpp, c).blue = Kept(bpp, "blue", c.blue)
  BY DEF KeptOf
<1>5. KeptOf(bpp, c) \in Bytes3
  BY <1>2 DEF KeptOf, Bytes3
<1>6. KeptOf(bpp, KeptOf(bpp, c)) = KeptOf(bpp, c)
  BY <1>3, <1>4, Zenon DEF KeptOf
<1>7. PixelOf(bpp, c) \in Nat /\ Unpacked(bpp, PixelOf(bpp, c)) = KeptOf(bpp, c)
  BY <1>1, Returned, Zenon DEF PixelOf, KeptOf, Byte
<1> QED BY <1>5, <1>6, <1>7

\* A colour with each component between those of two others.
LEMMA ColourBetween ==
  ASSUME NEW bpp \in Wide, NEW c \in Bytes3, NEW a \in Bytes3, NEW b \in Bytes3,
         Between(c.red, a.red, b.red), Between(c.green, a.green, b.green),
         Between(c.blue, a.blue, b.blue)
  PROVE  AllBetween(bpp, PixelOf(bpp, c), PixelOf(bpp, a), PixelOf(bpp, b))
<1>1. /\ c.red \in Byte /\ c.green \in Byte /\ c.blue \in Byte
      /\ a.red \in Byte /\ a.green \in Byte /\ a.blue \in Byte
      /\ b.red \in Byte /\ b.green \in Byte /\ b.blue \in Byte
  BY DEF Bytes3
<1>2. Between(Kept(bpp, "red", c.red), Kept(bpp, "red", a.red), Kept(bpp, "red", b.red))
  BY <1>1, KeptBetween DEF Byte
<1>3. Between(Kept(bpp, "green", c.green), Kept(bpp, "green", a.green), Kept(bpp, "green", b.green))
  BY <1>1, KeptBetween DEF Byte
<1>4. Between(Kept(bpp, "blue", c.blue), Kept(bpp, "blue", a.blue), Kept(bpp, "blue", b.blue))
  BY <1>1, KeptBetween DEF Byte
<1>5. /\ Unpacked(bpp, PixelOf(bpp, c)) = KeptOf(bpp, c)
      /\ Unpacked(bpp, PixelOf(bpp, a)) = KeptOf(bpp, a)
      /\ Unpacked(bpp, PixelOf(bpp, b)) = KeptOf(bpp, b)
  BY PixelReturned
<1>6. \A x \in Bytes3 : /\ KeptOf(bpp, x)["red"] = Kept(bpp, "red", x.red)
                         /\ KeptOf(bpp, x)["green"] = Kept(bpp, "green", x.green)
                         /\ KeptOf(bpp, x)["blue"] = Kept(bpp, "blue", x.blue)
  BY DEF KeptOf
<1> QED BY <1>2, <1>3, <1>4, <1>5, <1>6 DEF AllBetween

LEMMA EndsBetween ==
  ASSUME NEW bpp \in Wide, NEW a \in Bytes3, NEW b \in Bytes3
  PROVE  /\ AllBetween(bpp, PixelOf(bpp, a), PixelOf(bpp, a), PixelOf(bpp, b))
         /\ AllBetween(bpp, PixelOf(bpp, b), PixelOf(bpp, a), PixelOf(bpp, b))
<1>1. /\ a.red \in Byte /\ a.green \in Byte /\ a.blue \in Byte
      /\ b.red \in Byte /\ b.green \in Byte /\ b.blue \in Byte
  BY DEF Bytes3
<1>2. \A m, n \in Byte : Between(m, m, n) /\ Between(n, m, n)
  BY DEF Between, Byte
<1> QED BY <1>1, <1>2, ColourBetween

MixedOf(fg, bg, coverage) ==
  [red |-> Mixed(fg.red, bg.red, coverage), green |-> Mixed(fg.green, bg.green, coverage),
   blue |-> Mixed(fg.blue, bg.blue, coverage)]

LEMMA MixedOfBetween ==
  ASSUME NEW bpp \in Wide, NEW fg \in Bytes3, NEW bg \in Bytes3, NEW coverage \in Byte
  PROVE  AllBetween(bpp, PixelOf(bpp, MixedOf(fg, bg, coverage)), PixelOf(bpp, bg), PixelOf(bpp, fg))
<1> DEFINE c == MixedOf(fg, bg, coverage)
<1>1. /\ fg.red \in Byte /\ fg.green \in Byte /\ fg.blue \in Byte
      /\ bg.red \in Byte /\ bg.green \in Byte /\ bg.blue \in Byte
  BY DEF Bytes3
<1>2. /\ c.red = Mixed(fg.red, bg.red, coverage) /\ c.green = Mixed(fg.green, bg.green, coverage)
      /\ c.blue = Mixed(fg.blue, bg.blue, coverage)
  BY DEF MixedOf
<1>3. /\ Mixed(fg.red, bg.red, coverage) \in Byte /\ Mixed(fg.green, bg.green, coverage) \in Byte
      /\ Mixed(fg.blue, bg.blue, coverage) \in Byte
      /\ Between(Mixed(fg.red, bg.red, coverage), bg.red, fg.red)
      /\ Between(Mixed(fg.green, bg.green, coverage), bg.green, fg.green)
      /\ Between(Mixed(fg.blue, bg.blue, coverage), bg.blue, fg.blue)
  BY <1>1, MixedBetween DEF Byte
<1>4. c \in Bytes3
  BY <1>3 DEF MixedOf, Bytes3
<1> HIDE DEF c
<1>5. Between(c.red, bg.red, fg.red) /\ Between(c.green, bg.green, fg.green) /\ Between(c.blue, bg.blue, fg.blue)
  BY <1>2, <1>3
<1>6. AllBetween(bpp, PixelOf(bpp, c), PixelOf(bpp, bg), PixelOf(bpp, fg))
  BY <1>4, <1>5, ColourBetween
<1> QED BY <1>6 DEF c

\* Smooth glyphs over a colour.
LEMMA BlendBetween ==
  ASSUME NEW bpp \in Wide, NEW fg \in Bytes3, NEW bg \in Bytes3, NEW coverage \in Byte
  PROVE  AllBetween(bpp, Blend(bpp, fg, bg, coverage), PixelOf(bpp, bg), PixelOf(bpp, fg))
<1>1. \/ Blend(bpp, fg, bg, coverage) = PixelOf(bpp, bg)
      \/ Blend(bpp, fg, bg, coverage) = PixelOf(bpp, fg)
      \/ Blend(bpp, fg, bg, coverage) = PixelOf(bpp, MixedOf(fg, bg, coverage))
  <2>1. CASE coverage = 0
    BY <2>1 DEF Blend, PixelOf
  <2>2. CASE coverage = 255
    BY <2>2 DEF Blend, PixelOf
  <2>3. CASE coverage # 0 /\ coverage # 255
    BY <2>3 DEF Blend, PixelOf, MixedOf
  <2> QED BY <2>1, <2>2, <2>3
<1> QED BY <1>1, MixedOfBetween, EndsBetween

\* Over an image: no bit is left of what wraps around.
LEMMA NothingStrays ==
  ASSUME NEW bpp \in Wide, NEW mixed
  PROVE  /\ Stray(bpp, mixed, Bits(bpp)[1], Bits(bpp)[2] + Bits(bpp)[3]) = 0
         /\ Stray(bpp, mixed, Bits(bpp)[2], Bits(bpp)[3]) = 0
         /\ Stray(bpp, mixed, Bits(bpp)[3], 0) = 0
BY BitsAre DEF Stray, Wide

LEMMA ImageBlendBetween ==
  ASSUME NEW bpp \in Wide, NEW fg \in Bytes3, NEW bg \in Bytes3, NEW coverage \in Byte
  PROVE  AllBetween(bpp, ImageBlend(bpp, fg, PixelOf(bpp, bg), coverage),
                    PixelOf(bpp, bg), PixelOf(bpp, fg))
<1> DEFINE image == PixelOf(bpp, bg)
           k == KeptOf(bpp, bg)
           r == UnsignedMixed(fg.red, k.red, coverage)
           g == UnsignedMixed(fg.green, k.green, coverage)
           b == UnsignedMixed(fg.blue, k.blue, coverage)
           n == Bits(bpp)
           v == Packed(bpp, r.value, g.value, b.value)
           c == MixedOf(fg, k, coverage)
<1>1. image \in Nat /\ Unpacked(bpp, image) = k /\ k \in Bytes3 /\ KeptOf(bpp, k) = k
  BY PixelReturned
<1>2. v = PixelOf(bpp, c)
  BY DEF UnsignedMixed, PixelOf, MixedOf
<1>3. c \in Bytes3 /\ v \in Nat
  <2>1. /\ fg.red \in Byte /\ fg.green \in Byte /\ fg.blue \in Byte
        /\ k.red \in Byte /\ k.green \in Byte /\ k.blue \in Byte
    BY <1>1 DEF Bytes3
  <2> HIDE DEF k
  <2>2. c \in Bytes3
    BY <2>1, MixedBetween DEF MixedOf, Bytes3, Byte
  <2> HIDE DEF c, v
  <2> QED BY <1>2, <2>2, PixelReturned
<1>4. ImageBlend(bpp, fg, image, coverage) =
        CASE coverage = 0   -> image
          [] coverage = 255 -> PixelOf(bpp, fg)
          [] OTHER -> v + Stray(bpp, r, n[1], n[2] + n[3]) + Stray(bpp, g, n[2], n[3])
                      + Stray(bpp, b, n[3], 0)
  <2> HIDE DEF image, k
  <2> QED BY <1>1, Zenon DEF ImageBlend, PixelOf
<1>5. ImageBlend(bpp, fg, image, coverage) \in {image, PixelOf(bpp, fg), v}
  <2> HIDE DEF image, k, v, r, g, b
  <2>1. v + Stray(bpp, r, n[1], n[2] + n[3]) + Stray(bpp, g, n[2], n[3]) + Stray(bpp, b, n[3], 0) = v
    BY <1>3, NothingStrays
  <2> HIDE DEF n
  <2> QED BY <1>4, <2>1
<1>6. AllBetween(bpp, v, PixelOf(bpp, k), PixelOf(bpp, fg))
  <2> HIDE DEF v, k
  <2> QED BY <1>1, <1>2, MixedOfBetween
<1>7. Unpacked(bpp, PixelOf(bpp, k)) = k
  <2> HIDE DEF k
  <2> QED BY <1>1, PixelReturned
<1>8. AllBetween(bpp, v, image, PixelOf(bpp, fg))
  <2> HIDE DEF v, k, image
  <2> QED BY <1>1, <1>6, <1>7 DEF AllBetween
<1>9. AllBetween(bpp, image, image, PixelOf(bpp, fg)) /\ AllBetween(bpp, PixelOf(bpp, fg), image, PixelOf(bpp, fg))
  BY EndsBetween
<1> HIDE DEF v, image
<1>10. AllBetween(bpp, ImageBlend(bpp, fg, image, coverage), image, PixelOf(bpp, fg))
  BY <1>5, <1>8, <1>9
<1> QED BY <1>10 DEF image

-----------------------------------------------------------------------------
\* Rows: words, half words and bytes.
LEMMA TailIsRest ==
  ASSUME NEW bpp \in Depths, NEW w \in Nat
  PROVE  TailBytes(bpp, w) = w * BytesPerPixel(bpp)
<1>1. CASE bpp = 8
  <2>1. BytesPerPixel(8) = 1 /\ ppl(8) = 4
    BY DEF BytesPerPixel, ppl, StoredBits
  <2>2. TailBytes(8, w) = 4 * (w \div 4) + (IF (w \div 2) % 2 = 1 THEN 2 ELSE 0) + (IF w % 2 = 1 THEN 1 ELSE 0)
    <3>1. (HasBit(w, 2) <=> (w \div 2) % 2 = 1) /\ (HasBit(w, 1) <=> w % 2 = 1)
      BY DEF HasBit
    <3>2. 4 \div 2 = 2 /\ 4 \div 4 = 1
      OBVIOUS
    <3> QED BY <2>1, <3>1, <3>2, Zenon DEF TailBytes
  <2> QED BY <1>1, <2>1, <2>2
<1>2. CASE bpp \in {15, 16}
  <2>1. BytesPerPixel(bpp) = 2 /\ ppl(bpp) = 2
    BY <1>2 DEF BytesPerPixel, ppl, StoredBits
  <2>2. TailBytes(bpp, w) = 4 * (w \div 2) + (IF w % 2 = 1 THEN 2 ELSE 0)
    BY <2>1 DEF TailBytes, HasBit
  <2> QED BY <2>1, <2>2
<1>3. CASE bpp = 32
  <2>1. BytesPerPixel(32) = 4 /\ ppl(32) = 1
    BY DEF BytesPerPixel, ppl, StoredBits
  <2>2. TailBytes(32, w) = 4 * w
    BY <2>1 DEF TailBytes, HasBit
  <2> QED BY <1>3, <2>1, <2>2
<1> QED BY <1>1, <1>2, <1>3 DEF Depths

LEMMA RowFilled ==
  ASSUME NEW bpp \in Depths, NEW w \in Nat, NEW neon \in BOOLEAN
  PROVE  FilledBytes(bpp, w, neon) = w * BytesPerPixel(bpp)
<1> DEFINE lanes == 16 \div BytesPerPixel(bpp)
           n == IF neon /\ w >= lanes THEN w - (w % lanes) ELSE 0
<1>1. BytesPerPixel(bpp) \in {1, 2, 4}
  BY DEF BytesPerPixel, StoredBits, Depths
<1>2. n \in 0 .. w
  <2>1. lanes \in {16, 8, 4}
    BY <1>1
  <2> HIDE DEF lanes
  <2> QED BY <2>1
<1>3. FilledBytes(bpp, w, neon) = n * BytesPerPixel(bpp) + TailBytes(bpp, w - n)
  BY DEF FilledBytes
<1> HIDE DEF n
<1>4. TailBytes(bpp, w - n) = (w - n) * BytesPerPixel(bpp)
  BY <1>2, TailIsRest
<1> QED BY <1>1, <1>2, <1>3, <1>4

\* Images with and without NEON.
Grey(r, g, b) == r * 77 + g * 150 + b * 29

LEMMA GreyIs ==
  ASSUME NEW r \in Byte, NEW g \in Byte, NEW b \in Byte
  PROVE  Grey(r, g, b) \in Nat /\ Grey(r, g, b) <= 65280
BY DEF Grey, Byte

LEMMA NeonIsPlain ==
  ASSUME NEW bpp \in Depths, NEW c \in Bytes3, NEW alpha \in Byte, NEW bg \in Nat
  PROVE  NeonPixel(bpp, c, alpha, bg) = SixelPixel(bpp, c, alpha, bg)
<1> DEFINE none == c.red + c.green + c.blue + alpha = 0
           transp == IF none THEN 1 ELSE 0
           mask == Widened(transp, bpp)
           grey == Grey(c.red, c.green, c.blue)
           value == IF bpp = 8 THEN (grey % 65536) \div 256 ELSE Packed(bpp, c.red, c.green, c.blue)
           low(p) == p % 2 ^ (8 * mask)
<1>1. BytesPerPixel(bpp) \in {1, 2, 4}
  BY DEF BytesPerPixel, StoredBits, Depths
<1>2. c.red \in Byte /\ c.green \in Byte /\ c.blue \in Byte
  BY DEF Bytes3
<1>3. grey \in Nat /\ grey <= 65280
  BY <1>2, GreyIs
<1>4. value = IF bpp = 8 THEN grey \div 256 ELSE Packed(bpp, c.red, c.green, c.blue)
  <2> HIDE DEF grey
  <2> QED BY <1>3
<1>5. value \in Nat
  <2>1. CASE bpp = 8
    <3> HIDE DEF grey
    <3> QED BY <1>3, <1>4, <2>1
  <2>2. CASE bpp # 8
    <3>1. bpp \in Wide
      BY <2>2 DEF Wide, Depths
    <3>2. PixelOf(bpp, c) \in Nat
      BY <3>1, PixelReturned
    <3> QED BY <2>2, <3>2 DEF PixelOf
  <2> QED BY <2>1, <2>2
<1>6. NeonPixel(bpp, c, alpha, bg) = IF mask = BytesPerPixel(bpp) THEN bg ELSE value - low(value) + low(bg)
  BY DEF NeonPixel, Grey
<1> HIDE DEF value, none
<1>7. CASE none
  <2>1. mask = BytesPerPixel(bpp)
    BY <1>1, <1>7 DEF Widened
  <2>2. SixelPixel(bpp, c, alpha, bg) = bg
    BY <1>7 DEF SixelPixel, none
  <2> HIDE DEF mask
  <2> QED BY <1>6, <2>1, <2>2
<1>8. CASE ~ none
  <2>1. mask = 0 /\ mask # BytesPerPixel(bpp)
    BY <1>1, <1>8 DEF Widened
  <2>2. low(value) = 0 /\ low(bg) = 0
    <3> HIDE DEF mask
    <3>1. 8 * mask = 0
      BY <2>1
    <3>2. 2 ^ (8 * mask) = 1
      <4>1. 2 ^ 0 = 1
        OBVIOUS
      <4> QED BY <3>1, <4>1, Zenon
    <3>3. \A p \in Nat : p % 1 = 0
      OBVIOUS
    <3> QED BY <1>5, <3>2, <3>3
  <2>3. SixelPixel(bpp, c, alpha, bg) = value
    BY <1>4, <1>8 DEF SixelPixel, none, Grey
  <2> HIDE DEF mask, low
  <2> QED BY <1>5, <1>6, <2>1, <2>2, <2>3
<1> QED BY <1>7, <1>8

-----------------------------------------------------------------------------
\* What was drawn is what the code makes of it.
RowDrawn(bpp, w, neon) == [bpp |-> bpp, width |-> w, bytes |-> FilledBytes(bpp, w, neon)]
ImageDrawn(bpp, c, alpha, pixel) ==
  [bpp |-> bpp, plain |-> SixelPixel(bpp, c, alpha, pixel), neon |-> NeonPixel(bpp, c, alpha, pixel)]
ColourDrawn(bpp, c) ==
  [bpp |-> bpp, fill |-> FillColor(bpp, 0, c), direct |-> DirectPixel(bpp, 0, c),
   background |-> BackgroundPixel(bpp, c)]

PixelsKept ==
  \/ \E bpp \in Depths : px = [bpp |-> bpp]
  \/ \E bpp \in Wide, fg, bg \in Colour, coverage \in Coverage : px = Paint(bpp, fg, bg, coverage)
  \/ \E bpp \in Depths, w \in 1 .. MaxWidth, neon \in BOOLEAN : px = RowDrawn(bpp, w, neon)
  \/ \E bpp \in Depths, c, bg \in Colour, alpha \in {0, 255} :
       px = ImageDrawn(bpp, c, alpha, DirectPixel(bpp, 255, bg))
  \/ \E bpp \in Depths, c \in Colour : px = ColourDrawn(bpp, c)

LEMMA PixelsStart == PixelInit => PixelsKept
BY DEF PixelInit, PixelsKept

LEMMA StillBlank ==
  ASSUME PixelsKept, DOMAIN px = {"bpp"} PROVE \E bpp \in Depths : px = [bpp |-> bpp]
<1>1. \A bpp, fg, bg, coverage : "blend" \in DOMAIN Paint(bpp, fg, bg, coverage)
  BY DEF Paint
<1>2. \A bpp, w, neon : "width" \in DOMAIN RowDrawn(bpp, w, neon)
  BY DEF RowDrawn
<1>3. \A bpp, c, alpha, pixel : "plain" \in DOMAIN ImageDrawn(bpp, c, alpha, pixel)
  BY DEF ImageDrawn
<1>4. \A bpp, c : "fill" \in DOMAIN ColourDrawn(bpp, c)
  BY DEF ColourDrawn
<1>5. "blend" \notin DOMAIN px /\ "width" \notin DOMAIN px /\ "plain" \notin DOMAIN px /\ "fill" \notin DOMAIN px
  OBVIOUS
<1>6. ~ \E bpp \in Wide, fg, bg \in Colour, coverage \in Coverage : px = Paint(bpp, fg, bg, coverage)
  BY <1>1, <1>5, Zenon
<1>7. ~ \E bpp \in Depths, w \in 1 .. MaxWidth, neon \in BOOLEAN : px = RowDrawn(bpp, w, neon)
  BY <1>2, <1>5, Zenon
<1>8. ~ \E bpp \in Depths, c, bg \in Colour, alpha \in {0, 255} :
        px = ImageDrawn(bpp, c, alpha, DirectPixel(bpp, 255, bg))
  BY <1>3, <1>5, Zenon
<1>9. ~ \E bpp \in Depths, c \in Colour : px = ColourDrawn(bpp, c)
  BY <1>4, <1>5, Zenon
<1> QED BY <1>6, <1>7, <1>8, <1>9 DEF PixelsKept

LEMMA PixelsStep == PixelsKept /\ PixelNext => PixelsKept'
<1> SUFFICES ASSUME PixelsKept, PixelNext PROVE PixelsKept'
  OBVIOUS
<1>1. DOMAIN px = {"bpp"}
  BY DEF PixelNext, BlendPixel, FillRow, ImagePixel, SameColour
<1>2. PICK bpp \in Depths : px = [bpp |-> bpp]
  BY <1>1, StillBlank
<1>3. px.bpp = bpp
  BY <1>2
<1>4. CASE BlendPixel
  <2>1. bpp \in Wide
    BY <1>3, <1>4 DEF BlendPixel, Depths, Wide
  <2>2. \E fg, bg \in Colour, coverage \in Coverage : px' = Paint(bpp, fg, bg, coverage)
    BY <1>3, <1>4, Zenon DEF BlendPixel
  <2> QED BY <2>1, <2>2, Zenon DEF PixelsKept
<1>5. CASE FillRow
  BY <1>3, <1>5, Zenon DEF FillRow, PixelsKept, RowDrawn
<1>6. CASE ImagePixel
  <2>1. \E c, bg \in Colour, alpha \in {0, 255} :
          px' = ImageDrawn(bpp, c, alpha, DirectPixel(bpp, 255, bg))
    BY <1>3, <1>6 DEF ImagePixel, ImageDrawn
  <2> QED BY <2>1 DEF PixelsKept
<1>7. CASE SameColour
  BY <1>3, <1>7, Zenon DEF SameColour, PixelsKept, ColourDrawn
<1> QED BY <1>4, <1>5, <1>6, <1>7 DEF PixelNext

LEMMA PixelsStay == ASSUME PixelsKept, UNCHANGED px PROVE PixelsKept'
BY DEF PixelsKept

LEMMA ColoursAreBytes == Colour \subseteq Bytes3 /\ Coverage \subseteq Byte
BY PixelAssumption DEF Colour, Bytes3, Byte

PixelsRight ==
  BlendStaysBetween /\ ImageBlendStaysBetween /\ RowIsCovered /\ NeonAgrees /\ OnePixelPerColour

LEMMA PixelsAreRight == PixelsKept => PixelsRight
<1>1. ASSUME NEW bpp \in Depths, px = [bpp |-> bpp] PROVE PixelsRight
  BY <1>1 DEF PixelsRight, BlendStaysBetween, ImageBlendStaysBetween, RowIsCovered, NeonAgrees,
              OnePixelPerColour
<1>2. ASSUME NEW bpp \in Wide, NEW fg \in Colour, NEW bg \in Colour, NEW coverage \in Coverage,
             px = Paint(bpp, fg, bg, coverage)
      PROVE  PixelsRight
  <2>1. fg \in Bytes3 /\ bg \in Bytes3 /\ coverage \in Byte
    BY ColoursAreBytes
  <2>2. /\ px.bpp = bpp /\ px.fg = fg /\ px.bg = bg /\ px.blend = Blend(bpp, fg, bg, coverage)
        /\ px.image = ImageBlend(bpp, fg, PixelOf(bpp, bg), coverage)
    BY <1>2 DEF Paint, PixelOf
  <2>3. "bytes" \notin DOMAIN px /\ "neon" \notin DOMAIN px /\ "fill" \notin DOMAIN px
    BY <1>2 DEF Paint
  <2>4. BlendStaysBetween
    <3>1. AllBetween(bpp, px.blend, PixelOf(bpp, bg), PixelOf(bpp, fg))
      BY <2>1, <2>2, BlendBetween
    <3>2. AllBetween(px.bpp, px.blend, PixelOf(px.bpp, px.bg), PixelOf(px.bpp, px.fg))
      BY <2>2, <3>1
    <3> QED BY <3>2 DEF BlendStaysBetween, AllBetween, PixelOf
  <2>5. ImageBlendStaysBetween
    <3>1. AllBetween(bpp, px.image, PixelOf(bpp, bg), PixelOf(bpp, fg))
      BY <2>1, <2>2, ImageBlendBetween
    <3>2. AllBetween(px.bpp, px.image, PixelOf(px.bpp, px.bg), PixelOf(px.bpp, px.fg))
      BY <2>2, <3>1
    <3> QED BY <3>2 DEF ImageBlendStaysBetween, AllBetween, PixelOf
  <2> QED BY <2>3, <2>4, <2>5, Zenon DEF PixelsRight, RowIsCovered, NeonAgrees, OnePixelPerColour
<1>3. ASSUME NEW bpp \in Depths, NEW w \in 1 .. MaxWidth, NEW neon \in BOOLEAN,
             px = RowDrawn(bpp, w, neon)
      PROVE  PixelsRight
  <2>1. px.bpp = bpp /\ px.width = w /\ px.bytes = FilledBytes(bpp, w, neon)
    BY <1>3 DEF RowDrawn
  <2>2. /\ "blend" \notin DOMAIN px /\ "image" \notin DOMAIN px
        /\ "neon" \notin DOMAIN px /\ "fill" \notin DOMAIN px
    BY <1>3 DEF RowDrawn
  <2>3. w \in Nat
    BY PixelAssumption
  <2>4. RowIsCovered
    BY <2>1, <2>3, RowFilled, Zenon DEF RowIsCovered
  <2> QED BY <2>2, <2>4, Zenon DEF PixelsRight, BlendStaysBetween, ImageBlendStaysBetween, NeonAgrees, OnePixelPerColour
<1>4. ASSUME NEW bpp \in Depths, NEW c \in Colour, NEW bg \in Colour, NEW alpha \in {0, 255},
             px = ImageDrawn(bpp, c, alpha, DirectPixel(bpp, 255, bg))
      PROVE  PixelsRight
  <2> DEFINE pixel == DirectPixel(bpp, 255, bg)
  <2>1. px.plain = SixelPixel(bpp, c, alpha, pixel) /\ px.neon = NeonPixel(bpp, c, alpha, pixel)
    BY <1>4 DEF ImageDrawn
  <2>2. /\ "blend" \notin DOMAIN px /\ "image" \notin DOMAIN px
        /\ "bytes" \notin DOMAIN px /\ "fill" \notin DOMAIN px
    BY <1>4 DEF ImageDrawn
  <2>3. c \in Bytes3 /\ bg \in Bytes3 /\ alpha \in Byte
    BY ColoursAreBytes DEF Byte
  <2>4. pixel \in Nat
    <3>1. CASE bpp = 8
      BY <3>1 DEF DirectPixel
    <3>2. CASE bpp # 8
      <4>1. bpp \in Wide
        BY <3>2 DEF Wide, Depths
      <4>2. pixel = PixelOf(bpp, bg)
        BY <3>2 DEF DirectPixel, PixelOf
      <4> QED BY <2>3, <4>1, <4>2, PixelReturned
    <3> QED BY <3>1, <3>2
  <2> HIDE DEF pixel
  <2>5. px.neon = px.plain
    BY <2>1, <2>3, <2>4, NeonIsPlain
  <2> QED BY <2>2, <2>5, Zenon DEF PixelsRight, BlendStaysBetween, ImageBlendStaysBetween, NeonAgrees,
                            RowIsCovered, OnePixelPerColour
<1>5. ASSUME NEW bpp \in Depths, NEW c \in Colour, px = ColourDrawn(bpp, c) PROVE PixelsRight
  <2>1. /\ px.bpp = bpp /\ px.fill = FillColor(bpp, 0, c) /\ px.direct = DirectPixel(bpp, 0, c)
        /\ px.background = BackgroundPixel(bpp, c)
    BY <1>5 DEF ColourDrawn
  <2>2. /\ "blend" \notin DOMAIN px /\ "image" \notin DOMAIN px
        /\ "bytes" \notin DOMAIN px /\ "neon" \notin DOMAIN px
    BY <1>5 DEF ColourDrawn
  <2>3. OnePixelPerColour
    BY <2>1 DEF OnePixelPerColour, FillColor, DirectPixel, BackgroundPixel
  <2> QED BY <2>2, <2>3, Zenon DEF PixelsRight, BlendStaysBetween, ImageBlendStaysBetween, RowIsCovered, NeonAgrees
<1> QED BY <1>1, <1>2, <1>3, <1>4, <1>5 DEF PixelsKept

-----------------------------------------------------------------------------
(* A glyph on a turned screen (GlyphDraw) *)

Point(u, v) == [x |-> u, y |-> v]
Rect(a, b, c, d) == [x |-> a, y |-> b, w |-> c, h |-> d]
Within(a, b, c, d, u, v) == a <= u /\ u < a + c /\ b <= v /\ v < b + d

\* Where the display has a point of the screen.
Spot(rot, u, v) ==
  << rotatePoint(rot, ScreenW, ScreenH, Point(u, v)).x,
     rotatePoint(rot, ScreenW, ScreenH, Point(u, v)).y >>

\* The fields of a turned rectangle.
LEMMA TurnedIs ==
  ASSUME NEW a, NEW b, NEW c, NEW d
  PROVE  /\ rotateRect(0, Rect(a, b, c, d)) = Rect(a, b, c, d)
         /\ rotateRect(90, Rect(a, b, c, d)) = Rect(ScreenH - b - d, a, d, c)
         /\ rotateRect(180, Rect(a, b, c, d)) = Rect(ScreenW - a - c, ScreenH - b - d, c, d)
         /\ rotateRect(270, Rect(a, b, c, d)) = Rect(b, ScreenW - a - c, d, c)
BY DEF rotateRect, Rect

LEMMA SpotIs ==
  ASSUME NEW u, NEW v
  PROVE  /\ Spot(0, u, v) = <<u, v>> /\ Spot(90, u, v) = <<ScreenH - v - 1, u>>
         /\ Spot(180, u, v) = <<ScreenW - u - 1, ScreenH - v - 1>>
         /\ Spot(270, u, v) = <<v, ScreenW - u - 1>>
BY DEF Spot, rotatePoint, Point

LEMMA PointsAre ==
  ASSUME NEW a \in Int, NEW b \in Int, NEW c \in Int, NEW d \in Int, NEW u \in Int, NEW v \in Int
  PROVE  <<u, v>> \in Points(Rect(a, b, c, d)) <=> Within(a, b, c, d, u, v)
<1>1. Points(Rect(a, b, c, d)) = {<<x, y>> : x \in a .. a + c - 1, y \in b .. b + d - 1}
  BY DEF Points, Rect
<1> QED BY <1>1 DEF Within

LEMMA TurnedWithin ==
  ASSUME NEW a \in Int, NEW b \in Int, NEW c \in Int, NEW d \in Int, NEW u \in Int, NEW v \in Int,
         NEW rot \in Rotations
  PROVE  Spot(rot, u, v) \in Points(rotateRect(rot, Rect(a, b, c, d))) <=> Within(a, b, c, d, u, v)
<1>0. ScreenW \in Int /\ ScreenH \in Int
  BY GlyphAssumption
<1>1. CASE rot = 0
  BY <1>1, TurnedIs, SpotIs, PointsAre
<1>2. CASE rot = 90
  <2>1. <<ScreenH - v - 1, u>> \in Points(Rect(ScreenH - b - d, a, d, c)) <=>
          Within(ScreenH - b - d, a, d, c, ScreenH - v - 1, u)
    BY <1>0, PointsAre
  <2>2. Within(ScreenH - b - d, a, d, c, ScreenH - v - 1, u) <=> Within(a, b, c, d, u, v)
    BY <1>0 DEF Within
  <2> QED BY <1>2, <2>1, <2>2, TurnedIs, SpotIs
<1>3. CASE rot = 180
  <2>1. <<ScreenW - u - 1, ScreenH - v - 1>> \in Points(Rect(ScreenW - a - c, ScreenH - b - d, c, d)) <=>
          Within(ScreenW - a - c, ScreenH - b - d, c, d, ScreenW - u - 1, ScreenH - v - 1)
    BY <1>0, PointsAre
  <2>2. Within(ScreenW - a - c, ScreenH - b - d, c, d, ScreenW - u - 1, ScreenH - v - 1) <=>
          Within(a, b, c, d, u, v)
    BY <1>0 DEF Within
  <2> QED BY <1>3, <2>1, <2>2, TurnedIs, SpotIs
<1>4. CASE rot = 270
  <2>1. <<v, ScreenW - u - 1>> \in Points(Rect(b, ScreenW - a - c, d, c)) <=>
          Within(b, ScreenW - a - c, d, c, v, ScreenW - u - 1)
    BY <1>0, PointsAre
  <2>2. Within(b, ScreenW - a - c, d, c, v, ScreenW - u - 1) <=> Within(a, b, c, d, u, v)
    BY <1>0 DEF Within
  <2> QED BY <1>4, <2>1, <2>2, TurnedIs, SpotIs
<1> QED BY <1>1, <1>2, <1>3, <1>4 DEF Rotations

-----------------------------------------------------------------------------
BlankAt(pixels, spot) == spot \in DOMAIN pixels /\ pixels[spot] = <<"bg">>

LEMMA WrittenIs ==
  ASSUME NEW pixels, NEW at, NEW value
  PROVE  /\ \A p \in at : p \in DOMAIN Written(pixels, at, value) /\ Written(pixels, at, value)[p] = value[p]
         /\ \A p \in DOMAIN pixels \ at :
              p \in DOMAIN Written(pixels, at, value) /\ Written(pixels, at, value)[p] = pixels[p]
BY DEF Written

\* A rectangle filled with the background: what it covers of the screen is blank.
LEMMA FillBlanks ==
  ASSUME NEW rot \in Rotations, NEW pixels, NEW x \in Int, NEW y \in Int, NEW w \in Int, NEW h \in Int,
         NEW u \in Int, NEW v \in Int, u < ScreenW, v < ScreenH,
         Within(x, y, w, h, u, v) \/ BlankAt(pixels, Spot(rot, u, v))
  PROVE  BlankAt(fillRectPixel(rot, pixels, x, y, w, h), Spot(rot, u, v))
<1>0. ScreenW \in Int /\ ScreenH \in Int
  BY GlyphAssumption
<1> DEFINE w1 == Min2(w, ScreenW - x)
           h1 == Min2(h, ScreenH - y)
           at == Points(rotateRect(rot, Rect(x, y, w1, h1)))
           value == [p \in at |-> <<"bg">>]
           none == x >= ScreenW \/ y >= ScreenH \/ w <= 0 \/ h <= 0
           spot == Spot(rot, u, v)
<1>1. fillRectPixel(rot, pixels, x, y, w, h) = IF none THEN pixels ELSE Written(pixels, at, value)
  BY DEF fillRectPixel, Rect
<1>2. w1 \in Int /\ h1 \in Int
  BY <1>0 DEF Min2
<1>3. Within(x, y, w, h, u, v) => Within(x, y, w1, h1, u, v) /\ ~ none
  BY <1>0 DEF Within, Min2
<1> HIDE DEF w1, h1, none
<1>4. Within(x, y, w1, h1, u, v) => spot \in at
  BY <1>2, TurnedWithin
<1>5. \A p \in at : value[p] = <<"bg">>
  OBVIOUS
<1> HIDE DEF at, value, spot
<1>6. CASE none
  <2>1. BlankAt(pixels, spot)
    BY <1>3, <1>6 DEF spot
  <2> QED BY <1>1, <1>6, <2>1 DEF spot
<1>7. CASE ~ none /\ spot \in at
  <2>1. BlankAt(Written(pixels, at, value), spot)
    BY <1>5, <1>7, WrittenIs DEF BlankAt
  <2> QED BY <1>1, <1>7, <2>1 DEF spot
<1>8. CASE ~ none /\ spot \notin at
  <2>1. BlankAt(pixels, spot)
    BY <1>3, <1>4, <1>8 DEF spot
  <2>2. BlankAt(Written(pixels, at, value), spot)
    BY <1>8, <2>1, WrittenIs DEF BlankAt
  <2> QED BY <1>1, <1>8, <2>2 DEF spot
<1> QED BY <1>6, <1>7, <1>8

-----------------------------------------------------------------------------
\* The stored bitmap: a pixel's place is a row and a column of it.
LEMMA PlaceInside ==
  ASSUME NEW P \in Nat, NEW Q \in Nat, NEW a \in 0 .. Q - 1, NEW b \in 0 .. P - 1
  PROVE  a * P + b \in 0 .. P * Q - 1
<1>1. a * P + P <= Q * P
  <2>1. Q - (a + 1) \in Nat
    OBVIOUS
  <2>2. (Q - (a + 1)) * P >= 0
    BY <2>1
  <2> QED BY <2>2
<1>2. a * P >= 0 /\ a * P \in Int
  OBVIOUS
<1> QED BY <1>1, <1>2

LEMMA PlaceUnique ==
  ASSUME NEW P \in Nat, NEW a \in Int, NEW c \in Int, NEW b \in 0 .. P - 1, NEW d \in 0 .. P - 1,
         a * P + b = c * P + d
  PROVE  a = c /\ b = d
<1>1. (a - c) * P = d - b
  OBVIOUS
<1>2. CASE a - c >= 1
  <2>1. (a - c - 1) * P >= 0
    BY <1>2
  <2> QED BY <1>1, <2>1
<1>3. CASE a - c <= -1
  <2>1. (c - a - 1) * P >= 0
    BY <1>3
  <2>2. (c - a) * P = b - d
    BY <1>1
  <2> QED BY <2>1, <2>2
<1>4. CASE a = c
  BY <1>4
<1> QED BY <1>2, <1>3, <1>4

\* Width and height of the stored bitmap.
Columns(rot, g) == Pitch(rot, g)
StoredRows(rot, g) == IF rot \in {0, 180} THEN g.height ELSE g.width

StoredAt(rot, g, gx, gy) == rotatePoint(rot, g.width, g.height, Point(gx, gy))

LEMMA StoredInside ==
  ASSUME NEW rot \in Rotations, NEW g, g.width \in Nat, g.height \in Nat,
         NEW gx \in 0 .. g.width - 1, NEW gy \in 0 .. g.height - 1
  PROVE  /\ StoredAt(rot, g, gx, gy).x \in 0 .. Columns(rot, g) - 1
         /\ StoredAt(rot, g, gx, gy).y \in 0 .. StoredRows(rot, g) - 1
BY DEF StoredAt, rotatePoint, Point, Columns, Pitch, StoredRows, Rotations

LEMMA StoredOnce ==
  ASSUME NEW rot \in Rotations, NEW g, g.width \in Nat, g.height \in Nat,
         NEW gx \in Int, NEW gy \in Int, NEW hx \in Int, NEW hy \in Int,
         StoredAt(rot, g, gx, gy).x = StoredAt(rot, g, hx, hy).x,
         StoredAt(rot, g, gx, gy).y = StoredAt(rot, g, hx, hy).y
  PROVE  gx = hx /\ gy = hy
BY DEF StoredAt, rotatePoint, Point, Rotations

PlaceOf(rot, g, gx, gy) ==
  StoredAt(rot, g, gx, gy).y * Columns(rot, g) + StoredAt(rot, g, gx, gy).x

LEMMA BitIs ==
  ASSUME NEW rot \in Rotations, NEW g, g.width \in Nat, g.height \in Nat,
         NEW gx \in 0 .. g.width - 1, NEW gy \in 0 .. g.height - 1
  PROVE  pixmap(rot, g)[PlaceOf(rot, g, gx, gy)] = <<gx, gy>>
<1> DEFINE W == g.width
           H == g.height
           P == Columns(rot, g)
           points == (0 .. W - 1) \X (0 .. H - 1)
           at(p) == PlaceOf(rot, g, p[1], p[2])
           k == PlaceOf(rot, g, gx, gy)
<1>1. P \in Nat /\ StoredRows(rot, g) \in Nat /\ P * StoredRows(rot, g) = W * H
  BY DEF Columns, StoredRows, Pitch
<1>2. k \in 0 .. W * H - 1
  BY <1>1, StoredInside, PlaceInside DEF PlaceOf
<1>3. pixmap(rot, g) = [n \in 0 .. W * H - 1 |-> CHOOSE p \in points : at(p) = n]
  BY DEF pixmap, PlaceOf, StoredAt, Point, Columns
<1>4. <<gx, gy>> \in points /\ at(<<gx, gy>>) = k
  OBVIOUS
<1>5. ASSUME NEW p \in points, at(p) = k PROVE p = <<gx, gy>>
  <2> DEFINE hx == p[1]
             hy == p[2]
  <2>1. p = <<hx, hy>> /\ hx \in 0 .. W - 1 /\ hy \in 0 .. H - 1
    BY <1>5
  <2> HIDE DEF hx, hy
  <2>2. PlaceOf(rot, g, hx, hy) = k
    BY <1>5 DEF hx, hy
  <2>3. /\ StoredAt(rot, g, gx, gy).x \in 0 .. P - 1 /\ StoredAt(rot, g, hx, hy).x \in 0 .. P - 1
        /\ StoredAt(rot, g, gx, gy).y \in Int /\ StoredAt(rot, g, hx, hy).y \in Int
    BY <1>1, <2>1, StoredInside
  <2>4. /\ StoredAt(rot, g, gx, gy).x = StoredAt(rot, g, hx, hy).x
        /\ StoredAt(rot, g, gx, gy).y = StoredAt(rot, g, hx, hy).y
    <3> DEFINE a == StoredAt(rot, g, gx, gy).y
               b == StoredAt(rot, g, gx, gy).x
               c == StoredAt(rot, g, hx, hy).y
               d == StoredAt(rot, g, hx, hy).x
    <3>1. a * P + b = c * P + d
      BY <2>2 DEF PlaceOf
    <3> HIDE DEF a, b, c, d, P
    <3>2. a \in Int /\ c \in Int /\ b \in 0 .. P - 1 /\ d \in 0 .. P - 1
      BY <2>3 DEF a, b, c, d
    <3>3. a = c /\ b = d
      BY <1>1, <3>1, <3>2, PlaceUnique
    <3> QED BY <3>3 DEF a, b, c, d
  <2>5. gx = hx /\ gy = hy
    BY <2>1, <2>4, StoredOnce
  <2> QED BY <2>1, <2>5
<1> HIDE DEF W, H, points, at, k
<1>6. (CHOOSE p \in points : at(p) = k) = <<gx, gy>>
  BY <1>4, <1>5
<1> QED BY <1>2, <1>3, <1>6 DEF k

\* However much is cut off, the pixel taken for a spot is the one that was
\* brought there by the turn.
LEMMA PixelTaken ==
  ASSUME NEW rot \in Rotations, NEW g, g.width \in Nat, g.height \in Nat,
         NEW X \in Int, NEW Y \in Int, NEW w \in Int, NEW h \in Int, NEW u \in Int, NEW v \in Int,
         NEW skip \in Int, skip = 0 \/ rot = 0
  PROVE  FirstPixel(rot, g, skip, g.width - w, g.height - h)
           + (Spot(rot, u, v)[2] - rotateRect(rot, Rect(X, Y, w, h)).y) * Pitch(rot, g)
           + (Spot(rot, u, v)[1] - rotateRect(rot, Rect(X, Y, w, h)).x)
         = PlaceOf(rot, g, u - X + skip, v - Y)
<1>0. ScreenW \in Int /\ ScreenH \in Int
  BY GlyphAssumption
<1> DEFINE W == g.width
           H == g.height
           p == u - X + skip
           q == v - Y
<1>1. W \in Int /\ H \in Int /\ p \in Int /\ q \in Int
  OBVIOUS
<1>2. CASE rot = 0
  <2>1. /\ Spot(0, u, v)[1] = u /\ Spot(0, u, v)[2] = v
        /\ rotateRect(0, Rect(X, Y, w, h)).x = X /\ rotateRect(0, Rect(X, Y, w, h)).y = Y
    BY DEF Rect, rotateRect, Spot, rotatePoint, Point
  <2>2. FirstPixel(0, g, skip, W - w, H - h) = skip /\ Pitch(0, g) = W
    BY DEF FirstPixel, Pitch
  <2>3. PlaceOf(0, g, p, q) = q * W + p
    BY DEF PlaceOf, StoredAt, rotatePoint, Point, Columns, Pitch
  <2> HIDE DEF W, H
  <2>4. skip + (v - Y) * W + (u - X) = q * W + p
    BY <1>1
  <2> QED BY <1>2, <2>1, <2>2, <2>3, <2>4 DEF W, H
<1>3. CASE rot = 90
  <2>0. skip = 0
    BY <1>3
  <2>1. /\ Spot(90, u, v)[1] = ScreenH - v - 1 /\ Spot(90, u, v)[2] = u
        /\ rotateRect(90, Rect(X, Y, w, h)).x = ScreenH - Y - h
        /\ rotateRect(90, Rect(X, Y, w, h)).y = X
    BY DEF Rect, rotateRect, Spot, rotatePoint, Point
  <2>2. FirstPixel(90, g, skip, W - w, H - h) = H - h /\ Pitch(90, g) = H
    BY DEF FirstPixel, Pitch
  <2>3. PlaceOf(90, g, p, q) = p * H + (H - q - 1)
    BY DEF PlaceOf, StoredAt, rotatePoint, Point, Columns, Pitch
  <2> HIDE DEF W, H
  <2>4. (H - h) + (u - X) * H + ((ScreenH - v - 1) - (ScreenH - Y - h)) = p * H + (H - q - 1)
    BY <1>0, <1>1, <2>0
  <2> QED BY <1>3, <2>1, <2>2, <2>3, <2>4 DEF W, H
<1>4. CASE rot = 180
  <2>0. skip = 0
    BY <1>4
  <2>1. /\ Spot(180, u, v)[1] = ScreenW - u - 1 /\ Spot(180, u, v)[2] = ScreenH - v - 1
        /\ rotateRect(180, Rect(X, Y, w, h)).x = ScreenW - X - w
        /\ rotateRect(180, Rect(X, Y, w, h)).y = ScreenH - Y - h
    BY DEF Rect, rotateRect, Spot, rotatePoint, Point
  <2>2. FirstPixel(180, g, skip, W - w, H - h) = (W - w) + (H - h) * W /\ Pitch(180, g) = W
    BY DEF FirstPixel, Pitch
  <2>3. PlaceOf(180, g, p, q) = (H - q - 1) * W + (W - p - 1)
    BY DEF PlaceOf, StoredAt, rotatePoint, Point, Columns, Pitch
  <2> HIDE DEF W, H
  <2>4. ((W - w) + (H - h) * W) + ((ScreenH - v - 1) - (ScreenH - Y - h)) * W
          + ((ScreenW - u - 1) - (ScreenW - X - w)) = (H - q - 1) * W + (W - p - 1)
    BY <1>0, <1>1, <2>0
  <2> QED BY <1>4, <2>1, <2>2, <2>3, <2>4 DEF W, H
<1>5. CASE rot = 270
  <2>0. skip = 0
    BY <1>5
  <2>1. /\ Spot(270, u, v)[1] = v /\ Spot(270, u, v)[2] = ScreenW - u - 1
        /\ rotateRect(270, Rect(X, Y, w, h)).x = Y
        /\ rotateRect(270, Rect(X, Y, w, h)).y = ScreenW - X - w
    BY DEF Rect, rotateRect, Spot, rotatePoint, Point
  <2>2. FirstPixel(270, g, skip, W - w, H - h) = (W - w) * H /\ Pitch(270, g) = H
    BY DEF FirstPixel, Pitch
  <2>3. PlaceOf(270, g, p, q) = (W - p - 1) * H + q
    BY DEF PlaceOf, StoredAt, rotatePoint, Point, Columns, Pitch
  <2> HIDE DEF W, H
  <2>4. (W - w) * H + ((ScreenW - u - 1) - (ScreenW - X - w)) * H + (v - Y) = (W - p - 1) * H + q
    BY <1>0, <1>1, <2>0
  <2> QED BY <1>5, <2>1, <2>2, <2>3, <2>4 DEF W, H
<1> QED BY <1>2, <1>3, <1>4, <1>5 DEF Rotations

-----------------------------------------------------------------------------
\* One glyph: each point of its cell.
LEMMA GlyphPlaced ==
  ASSUME NEW rot \in Rotations, NEW g \in Glyphs, NEW x \in 0 .. ScreenW - 1, NEW y \in 0 .. ScreenH - 1,
         NEW wide \in BOOLEAN, NEW code, g.top >= 0,
         IF LeftSkip(code, g) > 0 THEN rot = 0 ELSE x + g.left >= 0,
         NEW u \in 0 .. ScreenW - 1, NEW v \in 0 .. ScreenH - 1,
         x <= u, u < x + (IF wide THEN 2 * CellW ELSE CellW), y <= v, v < y + CellH
  PROVE  drawGlyph(rot, code, g, x, y, wide)[Spot(rot, u, v)] =
           IF u - x - g.left \in 0 .. g.width - 1 /\ v - y - g.top \in 0 .. g.height - 1
           THEN <<u - x - g.left, v - y - g.top>> ELSE <<"bg">>
<1>0. /\ ScreenW \in Nat /\ ScreenH \in Nat /\ CellW \in Nat /\ CellH \in Nat
      /\ g.left \in Int /\ g.top \in Nat /\ g.width \in Nat /\ g.height \in Nat
  BY GlyphAssumption
<1> DEFINE skip   == LeftSkip(code, g)
           w      == Min2(IF wide THEN 2 * CellW ELSE CellW, ScreenW - x)
           h      == Min2(CellH, ScreenH - y)
           top    == Positive(g.top)
           left   == IF skip > 0 THEN 0 ELSE IF x + g.left < 0 THEN -x ELSE g.left
           width  == Positive(Min2(Min2(g.width - skip, w - left), ScreenW - (x + left)))
           height == Positive(Min2(Min2(g.height, h - top), ScreenH - (y + top)))
           above  == fillRectPixel(rot, [p \in {} |-> p], x, y, w, top)
           before == IF left > 0 THEN fillRectPixel(rot, above, x, y + top, left, height) ELSE above
           behind == fillRectPixel(rot, before, x + (width + left), y + top,
                                   w - (width + left), height)
           below  == fillRectPixel(rot, behind, x, y + top + height, w, h - (top + height))
           r      == rotateRect(rot, Rect(x + left, y + top, width, height))
           first  == FirstPixel(rot, g, skip, g.width - width, g.height - height)
           bits   == pixmap(rot, g)
           stored == [p \in Points(r) |->
                         bits[first + (p[2] - r.y) * Pitch(rot, g) + (p[1] - r.x)]]
           off    == x + left >= ScreenW \/ y + top >= ScreenH \/ width = 0 \/ height = 0
           spot   == Spot(rot, u, v)
           in     == Within(x + left, y + top, width, height, u, v)
           gx     == u - x - g.left
           gy     == v - y - g.top
<1>1. drawGlyph(rot, code, g, x, y, wide) = IF off THEN below ELSE Written(below, Points(r), stored)
  BY Zenon DEF drawGlyph, Rect
<1>2. /\ left = g.left + skip /\ top = g.top /\ left \in Int /\ x + left >= 0 /\ skip \in Nat
      /\ skip = 0 \/ rot = 0
      /\ skip > 0 => left = 0
  BY <1>0 DEF Positive, LeftSkip
<1> HIDE DEF skip
<1>3. u < x + w /\ v < y + h /\ w \in Int /\ h \in Int
  BY <1>0 DEF Min2
<1>4. width \in Nat /\ height \in Nat
  <2> HIDE DEF w, h, left, top
  <2> QED BY <1>0, <1>2, <1>3 DEF Positive, Min2
<1>5. in <=> gx \in 0 .. g.width - 1 /\ gy \in 0 .. g.height - 1
  <2> HIDE DEF w, h, left, top
  <2>1. width > 0 => width <= g.width - skip /\ width <= w - left
    BY <1>0, <1>2, <1>3 DEF Positive, Min2
  <2>2. height > 0 => height <= g.height /\ height <= h - top
    BY <1>0, <1>2, <1>3 DEF Positive, Min2
  <2>3. gx \in 0 .. g.width - 1 => gx - skip < width
    BY <1>0, <1>2, <1>3 DEF Positive, Min2
  <2>4. gy \in 0 .. g.height - 1 => gy < height
    BY <1>0, <1>2, <1>3 DEF Positive, Min2
  <2> HIDE DEF width, height
  <2> QED BY <1>0, <1>2, <1>4, <2>1, <2>2, <2>3, <2>4 DEF Within
<1> HIDE DEF w, h, width, height, left, top
<1>6. CASE in
  <2>1. ~ off
    BY <1>0, <1>2, <1>4, <1>6 DEF Within
  <2>2. spot \in Points(r)
    BY <1>0, <1>2, <1>4, <1>6, TurnedWithin
  <2>3. stored[spot] = bits[first + (spot[2] - r.y) * Pitch(rot, g) + (spot[1] - r.x)]
    <3> HIDE DEF r, bits, first, spot
    <3> QED BY <2>2
  <2>4. first + (spot[2] - r.y) * Pitch(rot, g) + (spot[1] - r.x) = PlaceOf(rot, g, u - (x + left) + skip, v - (y + top))
    BY <1>0, <1>2, <1>4, PixelTaken
  <2>5. u - (x + left) + skip = gx /\ v - (y + top) = gy
    BY <1>0, <1>2
  <2>6. bits[PlaceOf(rot, g, gx, gy)] = <<gx, gy>>
    BY <1>0, <1>5, <1>6, BitIs
  <2> HIDE DEF r, bits, first, spot, gx, gy, stored, off, below
  <2>7. stored[spot] = <<gx, gy>>
    BY <2>3, <2>4, <2>5, <2>6
  <2>8. drawGlyph(rot, code, g, x, y, wide)[spot] = <<gx, gy>>
    BY <1>1, <2>1, <2>2, <2>7, WrittenIs
  <2> QED BY <1>5, <1>6, <2>8 DEF spot, gx, gy
<1>7. CASE ~ in
  <2>1. Within(x, y, w, top, u, v) \/ ~ (v < y + top)
    BY <1>0, <1>2, <1>3 DEF Within
  <2>2. (left > 0 /\ Within(x, y + top, left, height, u, v))
          \/ ~ (y + top <= v /\ v < y + top + height /\ u < x + left)
    BY <1>0, <1>2, <1>3, <1>4 DEF Within
  <2>3. Within(x + (width + left), y + top, w - (width + left), height, u, v)
          \/ ~ (y + top <= v /\ v < y + top + height /\ u >= x + left + width)
    BY <1>0, <1>2, <1>3, <1>4 DEF Within
  <2>4. Within(x, y + top + height, w, h - (top + height), u, v) \/ ~ (v >= y + top + height)
    BY <1>0, <1>2, <1>3, <1>4 DEF Within
  <2>5. \/ v < y + top \/ v >= y + top + height
        \/ y + top <= v /\ v < y + top + height /\ u < x + left
        \/ y + top <= v /\ v < y + top + height /\ u >= x + left + width
    BY <1>0, <1>2, <1>4, <1>7 DEF Within
  <2>6. /\ x \in Int /\ y \in Int /\ u \in Int /\ v \in Int /\ u < ScreenW /\ v < ScreenH
        /\ top \in Int /\ left \in Int /\ y + top \in Int /\ x + (width + left) \in Int
        /\ w - (width + left) \in Int /\ y + top + height \in Int /\ h - (top + height) \in Int
    BY <1>0, <1>2, <1>3, <1>4
  <2> HIDE DEF above, before, behind, below, in, off
  <2>7. v < y + top => BlankAt(above, spot)
    BY <1>3, <2>1, <2>6, FillBlanks DEF above
  <2>8. BlankAt(above, spot) \/ (left > 0 /\ Within(x, y + top, left, height, u, v)) => BlankAt(before, spot)
    <3>1. CASE left > 0
      BY <1>4, <2>6, <3>1, FillBlanks DEF before
    <3>2. CASE ~ (left > 0)
      BY <3>2 DEF before
    <3> QED BY <3>1, <3>2
  <2>9. BlankAt(before, spot) \/ Within(x + (width + left), y + top, w - (width + left), height, u, v)
          => BlankAt(behind, spot)
    BY <1>4, <2>6, FillBlanks DEF behind
  <2>10. BlankAt(behind, spot) \/ Within(x, y + top + height, w, h - (top + height), u, v) => BlankAt(below, spot)
    BY <1>3, <2>6, FillBlanks DEF below
  <2>11. BlankAt(below, spot)
    BY <2>2, <2>3, <2>4, <2>5, <2>7, <2>8, <2>9, <2>10
  <2>12. spot \notin Points(r)
    BY <1>0, <1>2, <1>4, <1>7, TurnedWithin DEF in
  <2>13. BlankAt(Written(below, Points(r), stored), spot)
    <3> HIDE DEF r, stored, spot
    <3> QED BY <2>11, <2>12, WrittenIs DEF BlankAt
  <2> HIDE DEF r, stored, spot
  <2>14. drawGlyph(rot, code, g, x, y, wide)[spot] = <<"bg">>
    BY <1>1, <2>11, <2>13 DEF BlankAt
  <2> QED BY <1>5, <1>7, <2>14 DEF spot
<1> QED BY <1>6, <1>7

-----------------------------------------------------------------------------
(* A run of text (GlyphDraw) *)

\* Where the characters of a run are.
LEMMA CellsAre == ASSUME NEW c PROVE Cells(c) \in {1, 2} /\ (c # "wide" => Cells(c) = 1)
BY DEF Cells

CountsTo(f, run, k) == f = [i \in 0 .. k |-> IF i = 0 THEN 0 ELSE f[i - 1] + Cells(run[i])]

LEMMA CountExists ==
  ASSUME NEW n \in Nat, NEW run PROVE \E f : CountsTo(f, run, n)
<1> DEFINE Bad == {k \in Nat : k <= n /\ ~ \E f : CountsTo(f, run, k)}
<1> SUFFICES ASSUME Bad # {} PROVE FALSE
  OBVIOUS
<1>1. PICK m \in Bad : \A k \in Bad : m <= k
  BY NatMin
<1>2. m \in Nat /\ m <= n /\ ~ \E f : CountsTo(f, run, m)
  OBVIOUS
<1>3. m # 0
  <2>1. [i \in 0 .. 0 |-> 0] = [i \in 0 .. 0 |-> IF i = 0 THEN 0 ELSE [j \in 0 .. 0 |-> 0][i - 1] + Cells(run[i])]
    OBVIOUS
  <2> QED BY <1>2, <2>1 DEF CountsTo
<1>4. m - 1 \in Nat /\ m - 1 \notin Bad /\ m - 1 <= n
  BY <1>1, <1>2, <1>3
<1>5. PICK f : CountsTo(f, run, m - 1)
  BY <1>4
<1> DEFINE g == [i \in 0 .. m |-> IF i = m THEN f[m - 1] + Cells(run[m]) ELSE f[i]]
<1>6. \A i \in 0 .. m - 1 : f[i] = IF i = 0 THEN 0 ELSE f[i - 1] + Cells(run[i])
  BY <1>5 DEF CountsTo
<1>7. \A i \in 0 .. m : i # m => i \in 0 .. m - 1
  BY <1>2
<1>8. \A i \in 0 .. m : g[i] = IF i = 0 THEN 0 ELSE g[i - 1] + Cells(run[i])
  BY <1>2, <1>3, <1>6, <1>7
<1>9. CountsTo(g, run, m)
  <2>1. g = [i \in 0 .. m |-> g[i]]
    OBVIOUS
  <2> HIDE DEF g
  <2> QED BY <1>8, <2>1 DEF CountsTo
<1> QED BY <1>2, <1>9

LEMMA ColumnIs ==
  ASSUME NEW run \in Seq(Kinds)
  PROVE  /\ Column(run, 1) = 0
         /\ \A i \in 1 .. Len(run) + 1 : Column(run, i) \in Nat
         /\ \A i \in 1 .. Len(run) : Column(run, i + 1) = Column(run, i) + Cells(run[i])
<1> DEFINE n == Len(run)
           f == CHOOSE f : CountsTo(f, run, n)
<1>1. n \in Nat
  OBVIOUS
<1>2. CountsTo(f, run, n)
  BY <1>1, CountExists
<1>3. \A i : Column(run, i) = f[i - 1]
  BY Zenon DEF Column, CountsTo
<1> HIDE DEF f
<1>4. \A k \in 0 .. n : f[k] = IF k = 0 THEN 0 ELSE f[k - 1] + Cells(run[k])
  BY <1>2 DEF CountsTo
<1>5. \A k \in 0 .. n : f[k] \in Nat
  <2> DEFINE Bad == {k \in 0 .. n : f[k] \notin Nat}
  <2> SUFFICES ASSUME Bad # {} PROVE FALSE
    OBVIOUS
  <2>1. Bad \subseteq Nat
    BY <1>1
  <2>2. PICK m \in Bad : \A k \in Bad : m <= k
    BY <2>1, NatMin
  <2>3. m \in 0 .. n /\ f[m] \notin Nat
    OBVIOUS
  <2>4. m # 0
    BY <1>4, <2>3
  <2>5. m - 1 \in 0 .. n /\ m - 1 \notin Bad
    BY <1>1, <2>2, <2>3, <2>4
  <2>6. f[m - 1] \in Nat /\ f[m] = f[m - 1] + Cells(run[m])
    BY <1>4, <2>3, <2>4, <2>5
  <2> QED BY <2>3, <2>6, CellsAre
<1>6. \A i \in 1 .. n + 1 : i - 1 \in 0 .. n
  BY <1>1
<1>7. \A i \in 1 .. n : i \in 0 .. n /\ i # 0 /\ (i + 1) - 1 = i
  BY <1>1
<1>8. 0 \in 0 .. n /\ 1 - 1 = 0
  BY <1>1
<1> HIDE DEF n
<1>9. Column(run, 1) = 0
  BY <1>3, <1>4, <1>8
<1>10. \A i \in 1 .. n : Column(run, i + 1) = Column(run, i) + Cells(run[i])
  <2> SUFFICES ASSUME NEW i \in 1 .. n PROVE Column(run, i + 1) = Column(run, i) + Cells(run[i])
    OBVIOUS
  <2>1. Column(run, i + 1) = f[i] /\ Column(run, i) = f[i - 1]
    BY <1>3, <1>7
  <2> QED BY <1>4, <1>7, <2>1
<1> QED BY <1>3, <1>5, <1>6, <1>9, <1>10 DEF n

LEMMA ColumnsGrow ==
  ASSUME NEW run \in Seq(Kinds), NEW i \in 1 .. Len(run), NEW j \in i + 1 .. Len(run) + 1
  PROVE  Column(run, i) + Cells(run[i]) <= Column(run, j)
<1> DEFINE n == Len(run)
           Bad == {k \in i + 1 .. n + 1 : ~ (Column(run, i) + Cells(run[i]) <= Column(run, k))}
<1>0. n \in Nat
  OBVIOUS
<1> SUFFICES ASSUME Bad # {} PROVE FALSE
  OBVIOUS
<1>2. Bad \subseteq Nat
  BY <1>0
<1>3. PICK m \in Bad : \A k \in Bad : m <= k
  BY <1>2, NatMin
<1>4. m \in i + 1 .. n + 1 /\ ~ (Column(run, i) + Cells(run[i]) <= Column(run, m))
  OBVIOUS
<1>5. Column(run, i) \in Nat /\ Column(run, m) \in Nat /\ Cells(run[i]) \in {1, 2}
  BY <1>0, <1>4, ColumnIs, CellsAre
<1>6. m # i + 1
  BY <1>0, <1>4, <1>5, ColumnIs
<1>7. m - 1 \in i + 1 .. n + 1 /\ m - 1 \notin Bad /\ m - 1 \in 1 .. n
  BY <1>0, <1>3, <1>4, <1>6
<1>8. Column(run, i) + Cells(run[i]) <= Column(run, m - 1)
  BY <1>7
<1>9. Column(run, m) = Column(run, m - 1) + Cells(run[m - 1]) /\ Column(run, m - 1) \in Nat
  <2> DEFINE h == m - 1
  <2>1. m = h + 1
    BY <1>4
  <2>2. h \in 1 .. n /\ h \in 1 .. n + 1
    BY <1>0, <1>7
  <2> HIDE DEF h
  <2>3. Column(run, h + 1) = Column(run, h) + Cells(run[h]) /\ Column(run, h) \in Nat
    BY <2>2, ColumnIs
  <2>4. Column(run, m) = Column(run, h) + Cells(run[h]) /\ Column(run, h) \in Nat
    BY <2>1, <2>3
  <2> QED BY <2>4 DEF h
<1>10. Cells(run[m - 1]) \in {1, 2}
  BY CellsAre
<1> QED BY <1>4, <1>5, <1>8, <1>9, <1>10

\* A piece of a run counts from its own start.
LEMMA PartColumns ==
  ASSUME NEW run \in Seq(Kinds), NEW from \in 1 .. Len(run), NEW upto \in from .. Len(run) + 1,
         NEW k \in 1 .. upto - from
  PROVE  Column(SubSeq(run, from, upto - 1), k) + Column(run, from) = Column(run, from + k - 1)
<1> DEFINE n == Len(run)
           piece == SubSeq(run, from, upto - 1)
           Bad == {j \in 1 .. upto - from :
                     Column(piece, j) + Column(run, from) # Column(run, from + j - 1)}
<1>0. n \in Nat /\ from \in Nat /\ upto \in Nat /\ upto <= n + 1
  OBVIOUS
<1> SUFFICES ASSUME Bad # {} PROVE FALSE
  OBVIOUS
<1>2. piece \in Seq(Kinds) /\ Len(piece) = upto - from /\ \A j \in 1 .. upto - from : piece[j] = run[from + j - 1]
  BY <1>0
<1>3. Bad \subseteq Nat
  BY <1>0
<1>4. PICK m \in Bad : \A j \in Bad : m <= j
  BY <1>3, NatMin
<1>5. m \in 1 .. upto - from /\ Column(piece, m) + Column(run, from) # Column(run, from + m - 1)
  OBVIOUS
<1> HIDE DEF piece
<1>6. m # 1
  <2>1. Column(piece, 1) = 0 /\ Column(run, from) \in Nat /\ from + 1 - 1 = from
    BY <1>0, <1>2, ColumnIs
  <2> QED BY <1>5, <2>1
<1> DEFINE j == m - 1
<1>7. j \in 1 .. upto - from /\ j \notin Bad /\ j + 1 = m
  BY <1>0, <1>4, <1>5, <1>6
<1>8. Column(piece, j) + Column(run, from) = Column(run, from + j - 1)
  BY <1>7
<1>9. from + j - 1 \in 1 .. n /\ (from + j - 1) + 1 = from + m - 1
  BY <1>0, <1>5, <1>7
<1> HIDE DEF j
<1>10. Column(piece, m) = Column(piece, j) + Cells(piece[j]) /\ Column(piece, j) \in Nat
  <2>1. j \in 1 .. Len(piece) /\ j \in 1 .. Len(piece) + 1
    BY <1>0, <1>2, <1>7
  <2>2. Column(piece, j + 1) = Column(piece, j) + Cells(piece[j]) /\ Column(piece, j) \in Nat
    BY <1>2, <2>1, ColumnIs
  <2> QED BY <1>7, <2>2
<1>11. Column(run, from + m - 1) = Column(run, from + j - 1) + Cells(run[from + j - 1])
  BY <1>9, ColumnIs
<1>12. piece[j] = run[from + j - 1]
  BY <1>2, <1>7
<1>13. Column(run, from) \in Nat /\ Column(run, from + j - 1) \in Nat /\ Cells(piece[j]) \in {1, 2}
  BY <1>0, <1>9, ColumnIs, CellsAre
<1> QED BY <1>5, <1>8, <1>10, <1>11, <1>12, <1>13

-----------------------------------------------------------------------------
\* Two characters of a run do not share a column.
LEMMA ColumnsApart ==
  ASSUME NEW run \in Seq(Kinds), NEW i \in 1 .. Len(run), NEW j \in 1 .. Len(run)
  PROVE  /\ Column(run, i) \in Nat /\ Column(run, j) \in Nat /\ Cells(run[j]) \in {1, 2}
         /\ Column(run, j) <= Column(run, i) /\ Column(run, i) < Column(run, j) + Cells(run[j]) => i = j
         /\ Column(run, i) = Column(run, j) + Cells(run[j]) => i = j + 1
<1>1. Len(run) \in Nat
  OBVIOUS
<1>2. Column(run, i) \in Nat /\ Column(run, j) \in Nat
  BY <1>1, ColumnIs
<1>3. Cells(run[i]) \in {1, 2} /\ Cells(run[j]) \in {1, 2}
  BY CellsAre
<1>4. i < j => Column(run, i) + Cells(run[i]) <= Column(run, j)
  BY <1>1, ColumnsGrow
<1>5. j < i => Column(run, j) + Cells(run[j]) <= Column(run, i)
  BY <1>1, ColumnsGrow
<1>6. j + 1 < i => Column(run, j + 1) + 1 <= Column(run, i)
  <2> SUFFICES ASSUME j + 1 < i PROVE Column(run, j + 1) + 1 <= Column(run, i)
    OBVIOUS
  <2>1. j + 1 \in 1 .. Len(run) /\ i \in (j + 1) + 1 .. Len(run) + 1
    BY <1>1
  <2>2. Column(run, j + 1) + Cells(run[j + 1]) <= Column(run, i)
    BY <2>1, ColumnsGrow
  <2>3. Column(run, j + 1) \in Nat /\ Cells(run[j + 1]) \in {1, 2}
    BY <1>1, <2>1, ColumnIs, CellsAre
  <2> QED BY <1>2, <2>2, <2>3
<1>7. Column(run, j + 1) = Column(run, j) + Cells(run[j])
  BY ColumnIs
<1>8. ASSUME Column(run, j) <= Column(run, i), Column(run, i) < Column(run, j) + Cells(run[j])
      PROVE  i = j
  BY <1>2, <1>3, <1>4, <1>5, <1>8
<1>9. ASSUME Column(run, i) = Column(run, j) + Cells(run[j])
      PROVE  i = j + 1
  BY <1>2, <1>3, <1>4, <1>6, <1>7, <1>9
<1> QED BY <1>2, <1>3, <1>8, <1>9

Entry == [cell : Int, kind : Kinds, overflows : BOOLEAN]
Covers(e, cell) == \/ e.cell <= cell /\ cell < e.cell + Cells(e.kind)
                   \/ e.overflows /\ cell = e.cell + 1
LastOn(out, k, cell) == /\ k \in DOMAIN out /\ Covers(out[k], cell)
                        /\ \A j \in DOMAIN out : Covers(out[j], cell) => j <= k
Under(run, i) == i > 1 /\ run[i] = "space" /\ run[i - 1] = "icon"
OfRun(e, run, i) == IF Under(run, i) THEN e.overflows ELSE e.cell = Column(run, i) /\ e.kind = run[i]
RightAt(out, run, i) == \E k : LastOn(out, k, Column(run, i)) /\ OfRun(out[k], run, i)
Right(out, run, n) == out \in Seq(Entry) /\ \A i \in 1 .. n : RightAt(out, run, i)

\* What is drawn on no column before it leaves those as they were.
LEMMA Appended ==
  ASSUME NEW run, NEW out \in Seq(Entry), NEW q \in Seq(Entry), NEW n \in Nat, NEW m \in Nat,
         Right(out, run, n),
         \A i \in 1 .. n : \A k \in DOMAIN q : ~Covers(q[k], Column(run, i)),
         \A i \in n + 1 .. m : RightAt(q, run, i)
  PROVE  Right(out \o q, run, m)
<1> DEFINE all == out \o q
<1>1. all \in Seq(Entry) /\ Len(all) = Len(out) + Len(q) /\ Len(out) \in Nat /\ Len(q) \in Nat
  OBVIOUS
<1>2. \A k \in 1 .. Len(out) : all[k] = out[k]
  OBVIOUS
<1>3. \A k \in 1 .. Len(q) : all[Len(out) + k] = q[k]
  OBVIOUS
<1>4. DOMAIN all = 1 .. Len(all) /\ DOMAIN out = 1 .. Len(out) /\ DOMAIN q = 1 .. Len(q)
  OBVIOUS
<1> HIDE DEF all
<1>5. \A k \in DOMAIN all : k \in DOMAIN out \/ (k - Len(out) \in DOMAIN q /\ all[k] = q[k - Len(out)]
                                                  /\ k = Len(out) + (k - Len(out)))
  <2> SUFFICES ASSUME NEW k \in DOMAIN all, k \notin DOMAIN out
               PROVE  k - Len(out) \in DOMAIN q /\ all[k] = q[k - Len(out)] /\ k = Len(out) + (k - Len(out))
    OBVIOUS
  <2> DEFINE j == k - Len(out)
  <2>1. k = Len(out) + j /\ j \in 1 .. Len(q)
    BY <1>1, <1>4
  <2> HIDE DEF j
  <2>2. all[k] = q[j]
    BY <1>3, <2>1
  <2> QED BY <1>4, <2>1, <2>2 DEF j
<1>6. ASSUME NEW i \in 1 .. m PROVE RightAt(all, run, i)
  <2>1. CASE i <= n
    <3>1. i \in 1 .. n
      BY <2>1
    <3>2. PICK k : LastOn(out, k, Column(run, i)) /\ OfRun(out[k], run, i)
      BY <3>1 DEF Right, RightAt
    <3>3. k \in 1 .. Len(out) /\ all[k] = out[k] /\ k \in DOMAIN all
      BY <1>1, <1>2, <1>4, <3>2 DEF LastOn
    <3>4. \A j \in DOMAIN all : Covers(all[j], Column(run, i)) => j <= k
      BY <1>2, <1>4, <1>5, <3>1, <3>2 DEF LastOn
    <3>5. LastOn(all, k, Column(run, i)) /\ OfRun(all[k], run, i)
      BY <3>2, <3>3, <3>4 DEF LastOn
    <3> QED BY <3>5 DEF RightAt
  <2>2. CASE ~(i <= n)
    <3>1. i \in n + 1 .. m
      BY <2>2
    <3>2. PICK k : LastOn(q, k, Column(run, i)) /\ OfRun(q[k], run, i)
      BY <3>1 DEF RightAt
    <3>3. k \in 1 .. Len(q) /\ all[Len(out) + k] = q[k] /\ Len(out) + k \in DOMAIN all
      BY <1>1, <1>3, <1>4, <3>2 DEF LastOn
    <3>4. ASSUME NEW j \in DOMAIN all, Covers(all[j], Column(run, i)) PROVE j <= Len(out) + k
      <4>1. CASE j \in DOMAIN out
        BY <1>1, <1>4, <3>3, <4>1
      <4>2. CASE j \notin DOMAIN out
        <5>1. j - Len(out) \in DOMAIN q /\ all[j] = q[j - Len(out)]
          BY <1>5, <4>2
        <5>2. j - Len(out) <= k
          BY <3>2, <3>4, <5>1 DEF LastOn
        <5> QED BY <1>1, <1>4, <3>3, <5>2
      <4> QED BY <4>1, <4>2
    <3>5. LastOn(all, Len(out) + k, Column(run, i)) /\ OfRun(all[Len(out) + k], run, i)
      BY <3>2, <3>3, <3>4 DEF LastOn
    <3> QED BY <3>5 DEF RightAt
  <2> QED BY <2>1, <2>2
<1> QED BY <1>1, <1>6 DEF Right, all

-----------------------------------------------------------------------------
\* Glyphs or blanks for the characters from s to before upto, each on its own
\* column; only the last, an icon, may overflow.
Piece(q, run, s, upto) ==
    /\ q \in Seq(Entry) /\ Len(q) = upto - s
    /\ \A k \in 1 .. upto - s :
         /\ q[k].cell = Column(run, s + k - 1) /\ q[k].kind = run[s + k - 1]
         /\ q[k].overflows => k = upto - s /\ run[upto - 1] = "icon"

LEMMA GlyphsPiece ==
  ASSUME NEW run \in Seq(Kinds), NEW s \in 1 .. Len(run), NEW upto \in s + 1 .. Len(run) + 1
  PROVE  LET q == drawGlyphs(run, s, upto, Column(run, s))
         IN  /\ Piece(q, run, s, upto)
             /\ run[upto - 1] = "icon" => q[upto - s].overflows
<1> DEFINE q == drawGlyphs(run, s, upto, Column(run, s))
<1>1. Len(run) \in Nat /\ s \in Nat /\ upto \in Nat /\ upto - s \in Nat /\ upto - s >= 1
  OBVIOUS
<1>2. \A k \in 1 .. upto - s : s + k - 1 \in 1 .. Len(run)
  BY <1>1
<1>3. ASSUME NEW k \in 1 .. upto - s
      PROVE  /\ Column(run, s) + Column(SubSeq(run, s, upto - 1), k) = Column(run, s + k - 1)
             /\ Column(run, s + k - 1) \in Nat
  <2>1. upto \in s .. Len(run) + 1
    BY <1>1
  <2>2. Column(SubSeq(run, s, upto - 1), k) + Column(run, s) = Column(run, s + k - 1)
    BY <2>1, PartColumns
  <2>3. SubSeq(run, s, upto - 1) \in Seq(Kinds) /\ Len(SubSeq(run, s, upto - 1)) = upto - s
    BY <1>1
  <2>4. k \in 1 .. Len(SubSeq(run, s, upto - 1)) + 1
    BY <1>1, <2>3
  <2>5. Column(SubSeq(run, s, upto - 1), k) \in Nat
    BY <2>3, <2>4, ColumnIs
  <2>6. s \in 1 .. Len(run) + 1 /\ s + k - 1 \in 1 .. Len(run) + 1
    BY <1>1, <1>2
  <2>7. Column(run, s) \in Nat /\ Column(run, s + k - 1) \in Nat
    BY <2>6, ColumnIs
  <2> QED BY <2>2, <2>5, <2>7
<1>4. q = [k \in 1 .. upto - s |->
            [cell |-> Column(run, s) + Column(SubSeq(run, s, upto - 1), k), kind |-> run[s + k - 1],
             overflows |-> k = upto - s /\ run[s + k - 1] = "icon"]]
  BY Zenon DEF drawGlyphs
<1> HIDE DEF q
<1>5. \A k \in 1 .. upto - s :
         q[k] = [cell |-> Column(run, s + k - 1), kind |-> run[s + k - 1],
                 overflows |-> k = upto - s /\ run[s + k - 1] = "icon"]
  BY <1>3, <1>4
<1>6. \A k \in 1 .. upto - s :
         /\ q[k] \in Entry
         /\ q[k].cell = Column(run, s + k - 1) /\ q[k].kind = run[s + k - 1]
         /\ q[k].overflows <=> k = upto - s /\ run[s + k - 1] = "icon"
  <2> TAKE k \in 1 .. upto - s
  <2> DEFINE c == Column(run, s + k - 1)
             d == run[s + k - 1]
             o == k = upto - s /\ run[s + k - 1] = "icon"
  <2>1. c \in Int /\ d \in Kinds
    BY <1>2, <1>3
  <2>2. q[k] = [cell |-> c, kind |-> d, overflows |-> o]
    BY <1>5, Zenon
  <2>3. o \in BOOLEAN
    BY Zenon
  <2> HIDE DEF c, d, o
  <2>4. [cell |-> c, kind |-> d, overflows |-> o] \in Entry
    BY <2>1, <2>3, Zenon DEF Entry
  <2>5. q[k] \in Entry /\ q[k].cell = c /\ q[k].kind = d /\ (q[k].overflows <=> o)
    BY <2>2, <2>4
  <2> QED BY <2>5, Zenon DEF c, d, o
<1>7. q \in Seq(Entry) /\ Len(q) = upto - s
  <2> DEFINE m == upto - s
  <2>1. m \in Nat /\ q = [k \in 1 .. m |-> q[k]] /\ \A k \in 1 .. m : q[k] \in Entry
    BY <1>1, <1>4, <1>6
  <2> HIDE DEF m
  <2>2. [k \in 1 .. m |-> q[k]] \in Seq(Entry)
    BY <2>1
  <2>3. q \in Seq(Entry) /\ DOMAIN q = 1 .. m
    BY <2>1, <2>2
  <2>4. Len(q) = m
    BY <2>1, <2>3
  <2> QED BY <2>3, <2>4 DEF m
<1>8. \A k \in 1 .. upto - s :
         /\ q[k].cell = Column(run, s + k - 1) /\ q[k].kind = run[s + k - 1]
         /\ q[k].overflows => k = upto - s /\ run[upto - 1] = "icon"
  <2> TAKE k \in 1 .. upto - s
  <2>1. k = upto - s => s + k - 1 = upto - 1
    BY <1>1
  <2> QED BY <1>6, <2>1
<1>9. run[upto - 1] = "icon" => q[upto - s].overflows
  <2>1. upto - s \in 1 .. upto - s /\ s + (upto - s) - 1 = upto - 1
    BY <1>1
  <2> QED BY <1>6, <2>1, Zenon
<1> QED BY <1>7, <1>8, <1>9 DEF Piece, q

LEMMA BlanksPiece ==
  ASSUME NEW run \in Seq(Kinds), NEW s \in 1 .. Len(run), NEW upto \in s + 1 .. Len(run) + 1,
         \A j \in s .. upto - 1 : run[j] = "space"
  PROVE  Piece(Blanks(Column(run, s), Column(run, upto)), run, s, upto)
<1>1. Len(run) \in Nat /\ s \in Nat /\ upto \in Nat /\ upto - s \in Nat /\ upto - s >= 1
  OBVIOUS
<1>2. \A j \in s .. upto : Column(run, j) \in Nat
  BY <1>1, ColumnIs
<1>3. \A j \in s .. upto : Column(run, j) = Column(run, s) + (j - s)
  <2> DEFINE Bad == {j \in s .. upto : Column(run, j) # Column(run, s) + (j - s)}
  <2> SUFFICES ASSUME Bad # {} PROVE FALSE
    OBVIOUS
  <2>1. Bad \subseteq Nat
    BY <1>1
  <2>2. PICK m \in Bad : \A j \in Bad : m <= j
    BY <2>1, NatMin
  <2>3. m \in s .. upto /\ Column(run, m) # Column(run, s) + (m - s)
    OBVIOUS
  <2>4. m # s
    BY <1>1, <1>2, <2>3
  <2> DEFINE j == m - 1
  <2>5. j \in s .. upto - 1 /\ j \notin Bad /\ j + 1 = m /\ j \in s .. upto
    BY <1>1, <2>2, <2>3, <2>4
  <2>6. Column(run, j) = Column(run, s) + (j - s)
    BY <2>5
  <2> HIDE DEF j, Bad
  <2>7. Column(run, j + 1) = Column(run, j) + Cells(run[j])
    BY <1>1, <2>5, ColumnIs
  <2>8. Cells(run[j]) = 1
    BY <2>5, CellsAre
  <2>9. Column(run, s) \in Nat
    BY <1>1, <1>2
  <2>10. Column(run, m) = Column(run, j) + 1
    BY <2>5, <2>7, <2>8
  <2>11. Column(run, m) = Column(run, s) + (j - s) + 1
    BY <2>6, <2>10
  <2> DEFINE cs == Column(run, s)
             cm == Column(run, m)
  <2>12. cm # cs + (m - s) /\ cm = cs + (j - s) + 1 /\ cs \in Nat
    BY <2>3, <2>9, <2>11
  <2> HIDE DEF cs, cm
  <2> QED BY <1>1, <2>5, <2>12
<1> DEFINE a == Column(run, s)
           b == Column(run, upto)
           m == upto - s
           q == Blanks(a, b)
<1>4. a \in Nat /\ b \in Nat /\ b - a = m /\ m \in Nat
  BY <1>1, <1>2, <1>3
<1>5. \A k \in 1 .. m : Column(run, s + k - 1) = a + k - 1 /\ run[s + k - 1] = "space"
  <2> TAKE k \in 1 .. m
  <2> DEFINE j == s + k - 1
  <2>1. j \in s .. upto - 1 /\ j \in s .. upto /\ j - s = k - 1
    BY <1>1
  <2> HIDE DEF j
  <2>2. Column(run, j) = a + (j - s)
    BY <1>3, <2>1
  <2>3. Column(run, j) = a + k - 1 /\ run[j] = "space"
    BY <1>4, <2>1, <2>2
  <2> QED BY <2>3 DEF j
<1>6. q = [k \in 1 .. m |-> [cell |-> a + k - 1, kind |-> "space", overflows |-> FALSE]]
  BY <1>4 DEF Blanks
<1> HIDE DEF q, a, b
<1>7. \A k \in 1 .. m : q[k] = [cell |-> a + k - 1, kind |-> "space", overflows |-> FALSE] /\ q[k] \in Entry
  <2> TAKE k \in 1 .. m
  <2>1. a + k - 1 \in Int
    BY <1>4
  <2>2. q[k] = [cell |-> a + k - 1, kind |-> "space", overflows |-> FALSE]
    BY <1>6
  <2> QED BY <2>1, <2>2 DEF Entry, Kinds
<1>8. q \in Seq(Entry) /\ Len(q) = m
  <2> HIDE DEF m
  <2>1. q = [k \in 1 .. m |-> q[k]]
    BY <1>6
  <2>0. \A k \in 1 .. m : q[k] \in Entry
    BY <1>7, Zenon
  <2>2. [k \in 1 .. m |-> q[k]] \in Seq(Entry)
    BY <1>4, <2>0
  <2>3. q \in Seq(Entry) /\ DOMAIN q = 1 .. m
    BY <2>1, <2>2
  <2>4. Len(q) = m
    BY <1>4, <2>3
  <2> QED BY <2>3, <2>4
<1>9. \A k \in 1 .. m : q[k].cell = Column(run, s + k - 1) /\ q[k].kind = run[s + k - 1] /\ ~q[k].overflows
  <2> TAKE k \in 1 .. m
  <2> DEFINE c == a + k - 1
  <2>1. q[k] = [cell |-> c, kind |-> "space", overflows |-> FALSE]
    BY <1>7, Zenon
  <2>2. Column(run, s + k - 1) = c /\ run[s + k - 1] = "space"
    BY <1>5
  <2> HIDE DEF c, q
  <2> QED BY <2>1, <2>2
<1> QED BY <1>8, <1>9 DEF Piece, q, a, b

\* The columns a piece is drawn on.
LEMMA PieceCovers ==
  ASSUME NEW run \in Seq(Kinds), NEW s \in 1 .. Len(run), NEW upto \in s + 1 .. Len(run) + 1,
         NEW q, Piece(q, run, s, upto), NEW k \in 1 .. upto - s, NEW i \in 1 .. Len(run)
  PROVE  /\ i = s + k - 1 => Covers(q[k], Column(run, i))
         /\ Covers(q[k], Column(run, i)) => i = s + k - 1 \/ (q[k].overflows /\ i = upto /\ k = upto - s)
         /\ q[k].overflows /\ i = upto => Covers(q[k], Column(run, i))
<1> DEFINE j == s + k - 1
<1>1. Len(run) \in Nat /\ s \in Nat /\ upto \in Nat
  OBVIOUS
<1>2. j \in 1 .. Len(run) /\ (k = upto - s => j = upto - 1) /\ (i = upto => i = (upto - 1) + 1)
  BY <1>1
<1>3. q[k].cell = Column(run, j) /\ q[k].kind = run[j] /\ (q[k].overflows => k = upto - s /\ run[upto - 1] = "icon")
  BY DEF Piece
<1> HIDE DEF j
<1>4. /\ Column(run, i) \in Nat /\ Column(run, j) \in Nat /\ Cells(run[j]) \in {1, 2}
      /\ Column(run, j) <= Column(run, i) /\ Column(run, i) < Column(run, j) + Cells(run[j]) => i = j
      /\ Column(run, i) = Column(run, j) + Cells(run[j]) => i = j + 1
  BY <1>2, ColumnsApart
<1>5. Column(run, j + 1) = Column(run, j) + Cells(run[j])
  BY <1>2, ColumnIs
<1>6. q[k].overflows => j = upto - 1 /\ Cells(run[j]) = 1 /\ k = upto - s
  BY <1>2, <1>3, CellsAre
<1>7. q[k].overflows /\ i = upto => Column(run, i) = Column(run, j) + 1
  BY <1>2, <1>5, <1>6
<1>8. i = j => Covers(q[k], Column(run, i))
  <2>1. i = j => q[k].cell = Column(run, i) /\ Cells(q[k].kind) \in {1, 2}
    BY <1>3, <1>4
  <2> QED BY <1>4, <2>1 DEF Covers
<1>9. ASSUME Covers(q[k], Column(run, i)), i # j PROVE q[k].overflows /\ i = upto /\ k = upto - s
  <2>1. q[k].overflows /\ Column(run, i) = Column(run, j) + 1
    BY <1>3, <1>4, <1>9 DEF Covers
  <2>2. i = j + 1
    BY <1>4, <1>6, <2>1
  <2> QED BY <1>1, <1>6, <2>1, <2>2
<1>10. q[k].overflows /\ i = upto => Covers(q[k], Column(run, i))
  BY <1>3, <1>7 DEF Covers
<1> QED BY <1>8, <1>9, <1>10 DEF j

\* A piece draws its characters and leaves what is before it.
LEMMA PieceDraws ==
  ASSUME NEW run \in Seq(Kinds), NEW s \in 1 .. Len(run), NEW upto \in s + 1 .. Len(run) + 1,
         NEW q, Piece(q, run, s, upto), NEW out, NEW n \in 0 .. s - 1
  PROVE  /\ Right(out, run, n) => \A i \in 1 .. n : \A k \in DOMAIN q : ~Covers(q[k], Column(run, i))
         /\ \A i \in s .. upto - 1 : ~Under(run, i) => RightAt(q, run, i)
<1>1. Len(run) \in Nat /\ s \in Nat /\ upto \in Nat /\ upto - s \in Nat /\ n \in Nat
  OBVIOUS
<1>2. DOMAIN q = 1 .. upto - s
  BY <1>1 DEF Piece
<1>3. ASSUME NEW i \in 1 .. n, NEW k \in DOMAIN q PROVE ~Covers(q[k], Column(run, i))
  <2>1. i \in 1 .. Len(run) /\ k \in 1 .. upto - s
    BY <1>1, <1>2
  <2>2. i # s + k - 1 /\ i # upto
    BY <1>1, <2>1
  <2> QED BY <2>1, <2>2, PieceCovers
<1>4. ASSUME NEW i \in s .. upto - 1, ~Under(run, i) PROVE RightAt(q, run, i)
  <2> DEFINE k == i - s + 1
  <2>1. i \in 1 .. Len(run) /\ k \in 1 .. upto - s /\ i = s + k - 1 /\ i # upto
    BY <1>1
  <2> HIDE DEF k
  <2>2. Covers(q[k], Column(run, i))
    BY <2>1, PieceCovers
  <2>3. ASSUME NEW j \in DOMAIN q, Covers(q[j], Column(run, i)) PROVE j <= k
    <3>1. j \in 1 .. upto - s
      BY <1>2
    <3>2. i = s + j - 1
      BY <2>1, <2>3, <3>1, PieceCovers
    <3> QED BY <1>1, <2>1, <3>1, <3>2
  <2>4. LastOn(q, k, Column(run, i))
    BY <1>2, <2>1, <2>2, <2>3 DEF LastOn
  <2>5. q[k].cell = Column(run, i) /\ q[k].kind = run[i]
    BY <2>1 DEF Piece
  <2> QED BY <1>4, <2>4, <2>5 DEF RightAt, OfRun
<1> QED BY <1>3, <1>4

LEMMA PieceAppended ==
  ASSUME NEW run \in Seq(Kinds), NEW s \in 1 .. Len(run), NEW upto \in s + 1 .. Len(run) + 1,
         NEW q, Piece(q, run, s, upto), NEW out, Right(out, run, s - 1),
         \A i \in s .. upto - 1 : ~Under(run, i)
  PROVE  Right(out \o q, run, upto - 1)
<1> DEFINE n == s - 1
           m == upto - 1
<1>1. Len(run) \in Nat /\ s \in Nat /\ upto \in Nat /\ n \in Nat /\ m \in Nat /\ n \in 0 .. s - 1 /\ n + 1 = s
  OBVIOUS
<1>2. q \in Seq(Entry) /\ out \in Seq(Entry)
  BY DEF Piece, Right
<1>3. Right(out, run, n)
  OBVIOUS
<1>4. \A i \in n + 1 .. m : RightAt(q, run, i)
  BY <1>1, PieceDraws
<1> HIDE DEF n, m
<1>5. \A i \in 1 .. n : \A k \in DOMAIN q : ~Covers(q[k], Column(run, i))
  BY <1>1, <1>3, PieceDraws
<1>6. Right(out \o q, run, m)
  BY <1>1, <1>2, <1>3, <1>4, <1>5, Appended
<1> QED BY <1>6 DEF m

\* A blank behind an icon is drawn first, the icon overflows on top of it.
LEMMA IconOnBlank ==
  ASSUME NEW run \in Seq(Kinds), NEW s \in 1 .. Len(run), NEW i \in s + 1 .. Len(run),
         NEW b, Piece(b, run, i, i + 1), NEW q, Piece(q, run, s, i), q[i - s].overflows,
         NEW out, Right(out, run, s - 1), \A j \in s .. i - 1 : run[j] # "space",
         run[i - 1] = "icon", run[i] = "space"
  PROVE  Right((out \o b) \o q, run, i)
<1> DEFINE n == s - 1
<1>1. Len(run) \in Nat /\ s \in Nat /\ i \in Nat /\ n \in Nat /\ n \in 0 .. i - 1 /\ n \in 0 .. s - 1 /\ n + 1 = s
  OBVIOUS
<1>2. q \in Seq(Entry) /\ out \in Seq(Entry) /\ b \in Seq(Entry)
  BY DEF Piece, Right
<1>3. Right(out, run, n)
  OBVIOUS
<1>4. i \in 1 .. Len(run) /\ i + 1 \in i + 1 .. Len(run) + 1 /\ i \in s + 1 .. Len(run) + 1
  BY <1>1
<1> HIDE DEF n
<1>5. \A j \in 1 .. n : \A k \in DOMAIN b : ~Covers(b[k], Column(run, j))
  BY <1>1, <1>3, <1>4, PieceDraws
<1>6. Right(out \o b, run, n)
  <2>1. \A j \in n + 1 .. n : RightAt(b, run, j)
    BY <1>1
  <2> QED BY <1>1, <1>2, <1>3, <1>5, <2>1, Appended
<1>7. \A j \in 1 .. n : \A k \in DOMAIN q : ~Covers(q[k], Column(run, j))
  BY <1>1, <1>4, <1>6, PieceDraws
<1>8. ASSUME NEW j \in n + 1 .. i PROVE RightAt(q, run, j)
  <2>1. CASE j # i
    <3>1. j \in s .. i - 1 /\ ~Under(run, j)
      BY <1>1, <2>1 DEF Under
    <3> QED BY <1>1, <1>4, <1>6, <3>1, PieceDraws
  <2>2. CASE j = i
    <3> DEFINE k == i - s
    <3>1. k \in 1 .. i - s /\ DOMAIN q = 1 .. i - s
      BY <1>1 DEF Piece
    <3>2. Covers(q[k], Column(run, i))
      BY <1>4, <3>1, PieceCovers
    <3>3. \A h \in DOMAIN q : h <= k
      BY <1>1, <3>1
    <3> HIDE DEF k
    <3>4. LastOn(q, k, Column(run, i))
      BY <3>1, <3>2, <3>3 DEF LastOn
    <3>5. Under(run, i)
      BY <1>1 DEF Under
    <3>6. q[k].overflows
      BY DEF k
    <3> QED BY <2>2, <3>4, <3>5, <3>6 DEF RightAt, OfRun
  <2> QED BY <2>1, <2>2
<1>9. out \o b \in Seq(Entry)
  BY <1>2
<1> QED BY <1>1, <1>2, <1>6, <1>7, <1>8, <1>9, Appended

-----------------------------------------------------------------------------
\* The state of drawText before character i + 1.
TextState == [x : Int, text : BOOLEAN, space : BOOLEAN, startx : Int, start : Int, out : Seq(Entry)]

St(x, text, space, startx, start, out) ==
    [x |-> x, text |-> text, space |-> space, startx |-> startx, start |-> start, out |-> out]

InGlyphs(start, startx, out, run, i) ==
    /\ start \in 1 .. i /\ startx = Column(run, start) /\ Right(out, run, start - 1)
    /\ \A j \in start .. i : run[j] # "space"
InBlanks(startx, out, run, i) ==
    \E s \in 1 .. i :
        /\ startx = Column(run, s) /\ Right(out, run, s - 1)
        /\ \A j \in s .. i : run[j] = "space"
        /\ s > 1 => run[s - 1] # "icon"
UpTo(out, run, i) == Right(out, run, i) /\ (i > 0 => run[i] = "space")

DrawnTo(t, run, i) ==
    \E x, startx, start, out :
        /\ x = Column(run, i + 1)
        /\ \/ /\ t = St(x, TRUE, FALSE, startx, start, out)
              /\ InGlyphs(start, startx, out, run, i)
           \/ /\ t = St(x, FALSE, TRUE, startx, start, out)
              /\ InBlanks(startx, out, run, i)
           \/ /\ t = St(x, FALSE, FALSE, startx, start, out)
              /\ UpTo(out, run, i)

FromGlyphs(u, run, i, x, startx, start, out) ==
    LET y == x + Cells(run[i])
        q == drawGlyphs(run, start, i, startx)
    IN  /\ run[i] # "space" => u = St(y, TRUE, FALSE, startx, start, out)
        /\ run[i] = "space" /\ run[i - 1] # "icon" => u = St(y, FALSE, TRUE, x, start, out \o q)
        /\ run[i] = "space" /\ run[i - 1] = "icon" =>
               u = St(y, FALSE, FALSE, startx, start, (out \o Blanks(x, x + 1)) \o q)

LEMMA StepWithGlyphs ==
  ASSUME NEW run, NEW i, NEW x, NEW startx, NEW start, NEW out
  PROVE  FromGlyphs(TextStep(St(x, TRUE, FALSE, startx, start, out), run, i), run, i, x, startx, start, out)
<1> DEFINE y == x + Cells(run[i])
           q == drawGlyphs(run, start, i, startx)
           b == Blanks(x, x + 1)
           t == St(x, TRUE, FALSE, startx, start, out)
           u == TextStep(t, run, i)
<1>1. /\ t.x = x /\ t.text = TRUE /\ t.space = FALSE /\ t.startx = startx /\ t.start = start /\ t.out = out
  BY DEF St
<1>2. CASE run[i] # "space"
  <2>1. u = [t EXCEPT !.x = y]
    BY <1>1, <1>2, Zenon DEF TextStep
  <2>2. u = St(y, TRUE, FALSE, startx, start, out)
    BY <2>1 DEF St
  <2> QED BY <1>2, <2>2, Zenon DEF FromGlyphs
<1>3. CASE run[i] = "space" /\ run[i - 1] # "icon"
  <2>1. u = [SpaceAfterText(t, run, i, x) EXCEPT !.x = y]
    BY <1>1, <1>3, Zenon DEF TextStep
  <2>2. SpaceAfterText(t, run, i, x) = [t EXCEPT !.out = @ \o q, !.text = FALSE, !.space = TRUE, !.startx = x]
    BY <1>1, <1>3, Zenon DEF SpaceAfterText
  <2> DEFINE rest == out \o q
  <2>3. SpaceAfterText(t, run, i, x) = [t EXCEPT !.out = rest, !.text = FALSE, !.space = TRUE, !.startx = x]
    BY <1>1, <2>2, Zenon
  <2> HIDE DEF rest, y
  <2>4. SpaceAfterText(t, run, i, x) = St(x, FALSE, TRUE, x, start, rest)
    <3>1. SpaceAfterText(t, run, i, x)
            = [[[[t EXCEPT !.out = rest] EXCEPT !.text = FALSE] EXCEPT !.space = TRUE] EXCEPT !.startx = x]
      BY <2>3
    <3> DEFINE yes == TRUE
               no == FALSE
    <3> HIDE DEF yes, no
    <3>2. [St(x, yes, no, startx, start, out) EXCEPT !.out = rest] = St(x, yes, no, startx, start, rest)
      BY DEF St
    <3>3. [St(x, yes, no, startx, start, rest) EXCEPT !.text = no] = St(x, no, no, startx, start, rest)
      BY DEF St
    <3>4. [St(x, no, no, startx, start, rest) EXCEPT !.space = yes] = St(x, no, yes, startx, start, rest)
      BY DEF St
    <3>5. [St(x, no, yes, startx, start, rest) EXCEPT !.startx = x] = St(x, no, yes, x, start, rest)
      BY DEF St
    <3> QED BY <3>1, <3>2, <3>3, <3>4, <3>5, Zenon DEF yes, no
  <2>5. u = St(y, FALSE, TRUE, x, start, rest)
    <3> DEFINE yes == TRUE
               no == FALSE
    <3> HIDE DEF yes, no
    <3>1. [St(x, no, yes, x, start, rest) EXCEPT !.x = y] = St(y, no, yes, x, start, rest)
      BY DEF St
    <3> QED BY <2>1, <2>4, <3>1, Zenon DEF yes, no
  <2> QED BY <1>3, <2>5, Zenon DEF rest, y, FromGlyphs
<1>4. CASE run[i] = "space" /\ run[i - 1] = "icon"
  <2>1. u = [SpaceAfterText(t, run, i, x) EXCEPT !.x = y]
    BY <1>1, <1>4, Zenon DEF TextStep
  <2>2. SpaceAfterText(t, run, i, x) = [t EXCEPT !.out = @ \o b \o q, !.text = FALSE]
    BY <1>1, <1>4, Zenon DEF SpaceAfterText
  <2> DEFINE rest == (out \o b) \o q
  <2>3. SpaceAfterText(t, run, i, x) = [t EXCEPT !.out = rest, !.text = FALSE]
    BY <1>1, <2>2, Zenon
  <2> HIDE DEF rest, y
  <2>4. SpaceAfterText(t, run, i, x) = St(x, FALSE, FALSE, startx, start, rest)
    <3>1. SpaceAfterText(t, run, i, x) = [[t EXCEPT !.out = rest] EXCEPT !.text = FALSE]
      BY <2>3
    <3> DEFINE yes == TRUE
               no == FALSE
    <3> HIDE DEF yes, no
    <3>2. [St(x, yes, no, startx, start, out) EXCEPT !.out = rest] = St(x, yes, no, startx, start, rest)
      BY DEF St
    <3>3. [St(x, yes, no, startx, start, rest) EXCEPT !.text = no] = St(x, no, no, startx, start, rest)
      BY DEF St
    <3> QED BY <3>1, <3>2, <3>3, Zenon DEF yes, no
  <2>5. u = St(y, FALSE, FALSE, startx, start, rest)
    <3> DEFINE yes == TRUE
               no == FALSE
    <3> HIDE DEF yes, no
    <3>1. [St(x, no, no, startx, start, rest) EXCEPT !.x = y] = St(y, no, no, startx, start, rest)
      BY DEF St
    <3> QED BY <2>1, <2>4, <3>1, Zenon DEF yes, no
  <2> QED BY <1>4, <2>5, Zenon DEF rest, y, FromGlyphs
<1> QED BY <1>2, <1>3, <1>4, Zenon DEF FromGlyphs

FromBlanks(u, run, i, x, startx, start, out) ==
    LET y == x + Cells(run[i])
    IN  /\ run[i] # "space" => u = St(y, TRUE, FALSE, x, i, out \o Blanks(startx, x))
        /\ run[i] = "space" => u = St(y, FALSE, TRUE, startx, start, out)

LEMMA StepWithBlanks ==
  ASSUME NEW run, NEW i, NEW x, NEW startx, NEW start, NEW out
  PROVE  FromBlanks(TextStep(St(x, FALSE, TRUE, startx, start, out), run, i), run, i, x, startx, start, out)
<1> DEFINE y == x + Cells(run[i])
           b == Blanks(startx, x)
           t == St(x, FALSE, TRUE, startx, start, out)
           u == TextStep(t, run, i)
<1>1. /\ t.x = x /\ t.text = FALSE /\ t.space = TRUE /\ t.startx = startx /\ t.start = start /\ t.out = out
  BY DEF St
<1>2. CASE run[i] # "space"
  <2> DEFINE rest == out \o b
             filled == [t EXCEPT !.space = FALSE, !.out = rest]
  <2>1. u = [[filled EXCEPT !.text = TRUE, !.start = i, !.startx = x] EXCEPT !.x = y]
    BY <1>1, <1>2, Zenon DEF TextStep
  <2> HIDE DEF rest, y
  <2>2. filled = St(x, FALSE, FALSE, startx, start, rest)
    <3>1. filled = [[t EXCEPT !.space = FALSE] EXCEPT !.out = rest]
      OBVIOUS
    <3> DEFINE yes == TRUE
               no == FALSE
    <3> HIDE DEF yes, no
    <3>2. [St(x, no, yes, startx, start, out) EXCEPT !.space = no] = St(x, no, no, startx, start, out)
      BY DEF St
    <3>3. [St(x, no, no, startx, start, out) EXCEPT !.out = rest] = St(x, no, no, startx, start, rest)
      BY DEF St
    <3> QED BY <3>1, <3>2, <3>3, Zenon DEF yes, no
  <2> HIDE DEF filled
  <2>3. [filled EXCEPT !.text = TRUE, !.start = i, !.startx = x] = St(x, TRUE, FALSE, x, i, rest)
    <3>1. [filled EXCEPT !.text = TRUE, !.start = i, !.startx = x]
            = [[[filled EXCEPT !.text = TRUE] EXCEPT !.start = i] EXCEPT !.startx = x]
      OBVIOUS
    <3> DEFINE yes == TRUE
               no == FALSE
    <3> HIDE DEF yes, no
    <3>2. [St(x, no, no, startx, start, rest) EXCEPT !.text = yes] = St(x, yes, no, startx, start, rest)
      BY DEF St
    <3>3. [St(x, yes, no, startx, start, rest) EXCEPT !.start = i] = St(x, yes, no, startx, i, rest)
      BY DEF St
    <3>4. [St(x, yes, no, startx, i, rest) EXCEPT !.startx = x] = St(x, yes, no, x, i, rest)
      BY DEF St
    <3> QED BY <2>2, <3>1, <3>2, <3>3, <3>4, Zenon DEF yes, no
  <2>4. u = St(y, TRUE, FALSE, x, i, rest)
    BY <2>1, <2>3 DEF St
  <2> QED BY <1>2, <2>4, Zenon DEF rest, y, FromBlanks
<1>3. CASE run[i] = "space"
  <2>1. u = [t EXCEPT !.x = y]
    BY <1>1, <1>3, Zenon DEF TextStep
  <2> HIDE DEF y
  <2>2. u = St(y, FALSE, TRUE, startx, start, out)
    BY <2>1 DEF St
  <2> QED BY <1>3, <2>2, Zenon DEF y, FromBlanks
<1> QED BY <1>2, <1>3, Zenon DEF FromBlanks

FromNothing(u, run, i, x, startx, start, out) ==
    LET y == x + Cells(run[i])
    IN  /\ run[i] # "space" => u = St(y, TRUE, FALSE, x, i, out)
        /\ run[i] = "space" => u = St(y, FALSE, TRUE, x, start, out)

LEMMA StepWithNothing ==
  ASSUME NEW run, NEW i, NEW x, NEW startx, NEW start, NEW out
  PROVE  FromNothing(TextStep(St(x, FALSE, FALSE, startx, start, out), run, i), run, i, x, startx, start, out)
<1> DEFINE y == x + Cells(run[i])
           t == St(x, FALSE, FALSE, startx, start, out)
           u == TextStep(t, run, i)
<1>1. /\ t.x = x /\ t.text = FALSE /\ t.space = FALSE /\ t.startx = startx /\ t.start = start /\ t.out = out
  BY DEF St
<1>2. CASE run[i] # "space"
  <2>1. u = [[t EXCEPT !.text = TRUE, !.start = i, !.startx = x] EXCEPT !.x = y]
    BY <1>1, <1>2, Zenon DEF TextStep
  <2> HIDE DEF y
  <2>2. u = St(y, TRUE, FALSE, x, i, out)
    BY <2>1 DEF St
  <2> QED BY <1>2, <2>2, Zenon DEF y, FromNothing
<1>3. CASE run[i] = "space"
  <2>1. u = [[t EXCEPT !.space = TRUE, !.startx = x] EXCEPT !.x = y]
    BY <1>1, <1>3, Zenon DEF TextStep
  <2> HIDE DEF y
  <2>2. u = St(y, FALSE, TRUE, x, start, out)
    BY <2>1 DEF St
  <2> QED BY <1>3, <2>2, Zenon DEF y, FromNothing
<1> QED BY <1>2, <1>3, Zenon DEF FromNothing

\* Each character keeps what is before it right.
LEMMA StepDraws ==
  ASSUME NEW run \in Seq(Kinds), NEW i \in 1 .. Len(run), NEW t, DrawnTo(t, run, i - 1)
  PROVE  DrawnTo(TextStep(t, run, i), run, i)
<1>0. Len(run) \in Nat /\ i \in Nat /\ (i - 1) + 1 = i
  OBVIOUS
<1>1. PICK x, startx, start, out :
        /\ x = Column(run, (i - 1) + 1)
        /\ \/ /\ t = St(x, TRUE, FALSE, startx, start, out)
              /\ InGlyphs(start, startx, out, run, i - 1)
           \/ /\ t = St(x, FALSE, TRUE, startx, start, out)
              /\ InBlanks(startx, out, run, i - 1)
           \/ /\ t = St(x, FALSE, FALSE, startx, start, out)
              /\ UpTo(out, run, i - 1)
  BY Zenon DEF DrawnTo
<1> DEFINE u == TextStep(t, run, i)
           y == x + Cells(run[i])
           q == drawGlyphs(run, start, i, startx)
           b == Blanks(x, x + 1)
           c == Blanks(startx, x)
<1>2. x = Column(run, i) /\ y = Column(run, i + 1)
  BY <1>0, <1>1, ColumnIs
<1>3. i \in i .. Len(run) + 1 /\ i + 1 \in i + 1 .. Len(run) + 1
  BY <1>0
<1>4. CASE t = St(x, TRUE, FALSE, startx, start, out) /\ InGlyphs(start, startx, out, run, i - 1)
  <2>1. /\ start \in 1 .. i - 1 /\ startx = Column(run, start) /\ Right(out, run, start - 1)
        /\ \A j \in start .. i - 1 : run[j] # "space"
    BY <1>4 DEF InGlyphs
  <2>2. /\ run[i] # "space" => u = St(y, TRUE, FALSE, startx, start, out)
        /\ run[i] = "space" /\ run[i - 1] # "icon" => u = St(y, FALSE, TRUE, x, start, out \o q)
        /\ run[i] = "space" /\ run[i - 1] = "icon" =>
              u = St(y, FALSE, FALSE, startx, start, (out \o b) \o q)
    <3>1. FromGlyphs(TextStep(St(x, TRUE, FALSE, startx, start, out), run, i), run, i, x, startx, start, out)
      BY StepWithGlyphs, Zenon
    <3>2. FromGlyphs(u, run, i, x, startx, start, out)
      BY <1>4, <3>1, Zenon
    <3> QED BY <3>2, Zenon DEF FromGlyphs
  <2>3. /\ start \in 1 .. Len(run) /\ i \in start + 1 .. Len(run) /\ i \in start + 1 .. Len(run) + 1
        /\ start \in 1 .. i
    BY <1>0, <2>1
  <2>4. Piece(q, run, start, i) /\ (run[i - 1] = "icon" => q[i - start].overflows)
    BY <2>1, <2>3, GlyphsPiece
  <2> HIDE DEF u, y, q, b
  <2>5. CASE run[i] # "space"
    <3>1. \A j \in start .. i : run[j] # "space"
      BY <1>0, <2>1, <2>5
    <3>2. InGlyphs(start, startx, out, run, i)
      BY <2>1, <2>3, <3>1 DEF InGlyphs
    <3> QED BY <1>2, <2>2, <2>5, <3>2, Zenon DEF DrawnTo, u
  <2>6. CASE run[i] = "space" /\ run[i - 1] # "icon"
    <3>1. \A j \in start .. i - 1 : ~Under(run, j)
      BY <2>1 DEF Under
    <3>2. Right(out \o q, run, i - 1)
      BY <2>1, <2>3, <2>4, <3>1, PieceAppended
    <3>3. InBlanks(x, out \o q, run, i)
      <4>1. i \in 1 .. i /\ \A j \in i .. i : run[j] = "space"
        BY <1>0, <2>6
      <4> QED BY <1>2, <2>6, <3>2, <4>1, Zenon DEF InBlanks
    <3> QED BY <1>2, <2>2, <2>6, <3>3, Zenon DEF DrawnTo, u
  <2>7. CASE run[i] = "space" /\ run[i - 1] = "icon"
    <3>1. Cells(run[i]) = 1
      BY <2>7, CellsAre
    <3>2. b = Blanks(Column(run, i), Column(run, i + 1))
      BY <1>2, <3>1 DEF y, b
    <3>3. \A j \in i .. (i + 1) - 1 : run[j] = "space"
      BY <1>0, <2>7
    <3>4. Piece(b, run, i, i + 1)
      BY <1>3, <3>2, <3>3, BlanksPiece
    <3>5. Right((out \o b) \o q, run, i)
      BY <2>1, <2>3, <2>4, <2>7, <3>4, IconOnBlank
    <3>6. UpTo((out \o b) \o q, run, i)
      BY <2>7, <3>5 DEF UpTo
    <3> QED BY <1>2, <2>2, <2>7, <3>6, Zenon DEF DrawnTo, u
  <2> QED BY <2>5, <2>6, <2>7
<1>5. CASE t = St(x, FALSE, TRUE, startx, start, out) /\ InBlanks(startx, out, run, i - 1)
  <2>1. PICK s \in 1 .. i - 1 : /\ startx = Column(run, s) /\ Right(out, run, s - 1)
                                /\ \A j \in s .. i - 1 : run[j] = "space"
                                /\ s > 1 => run[s - 1] # "icon"
    BY <1>5 DEF InBlanks
  <2>2. /\ run[i] # "space" => u = St(y, TRUE, FALSE, x, i, out \o c)
        /\ run[i] = "space" => u = St(y, FALSE, TRUE, startx, start, out)
    <3>1. FromBlanks(TextStep(St(x, FALSE, TRUE, startx, start, out), run, i), run, i, x, startx, start, out)
      BY StepWithBlanks, Zenon
    <3>2. FromBlanks(u, run, i, x, startx, start, out)
      BY <1>5, <3>1, Zenon
    <3> QED BY <3>2, Zenon DEF FromBlanks
  <2>3. s \in 1 .. Len(run) /\ i \in s + 1 .. Len(run) + 1 /\ s \in 1 .. i
    BY <1>0
  <2>4. Piece(c, run, s, i)
    BY <1>2, <2>1, <2>3, BlanksPiece
  <2> HIDE DEF u, y, c
  <2>5. CASE run[i] # "space"
    <3>1. \A j \in s .. i - 1 : ~Under(run, j)
      <4> TAKE j \in s .. i - 1
      <4>1. j > s => j - 1 \in s .. i - 1
        BY <1>0
      <4>2. j > s => run[j - 1] = "space"
        BY <2>1, <4>1
      <4>3. j = s \/ j > s
        BY <1>0
      <4> QED BY <2>1, <4>2, <4>3 DEF Under
    <3>2. Right(out \o c, run, i - 1)
      BY <2>1, <2>3, <2>4, <3>1, PieceAppended
    <3>3. i \in 1 .. i /\ \A j \in i .. i : run[j] # "space"
      BY <1>0, <2>5
    <3>4. InGlyphs(i, x, out \o c, run, i)
      BY <1>2, <3>2, <3>3, Zenon DEF InGlyphs
    <3> QED BY <1>2, <2>2, <2>5, <3>4, Zenon DEF DrawnTo, u
  <2>6. CASE run[i] = "space"
    <3>1. \A j \in s .. i : run[j] = "space"
      BY <1>0, <2>1, <2>6
    <3>2. InBlanks(startx, out, run, i)
      BY <2>1, <2>3, <3>1, Zenon DEF InBlanks
    <3> QED BY <1>2, <2>2, <2>6, <3>2, Zenon DEF DrawnTo, u
  <2> QED BY <2>5, <2>6
<1>6. CASE t = St(x, FALSE, FALSE, startx, start, out) /\ UpTo(out, run, i - 1)
  <2>1. Right(out, run, i - 1) /\ (i - 1 > 0 => run[i - 1] = "space")
    BY <1>6 DEF UpTo
  <2>2. /\ run[i] # "space" => u = St(y, TRUE, FALSE, x, i, out)
        /\ run[i] = "space" => u = St(y, FALSE, TRUE, x, start, out)
    <3>1. FromNothing(TextStep(St(x, FALSE, FALSE, startx, start, out), run, i), run, i, x, startx, start, out)
      BY StepWithNothing, Zenon
    <3>2. FromNothing(u, run, i, x, startx, start, out)
      BY <1>6, <3>1, Zenon
    <3> QED BY <3>2, Zenon DEF FromNothing
  <2>3. i \in 1 .. i /\ (i > 1 => run[i - 1] # "icon")
    BY <1>0, <2>1
  <2> HIDE DEF u, y
  <2>4. CASE run[i] # "space"
    <3>1. \A j \in i .. i : run[j] # "space"
      BY <1>0, <2>4
    <3>2. InGlyphs(i, x, out, run, i)
      BY <1>2, <2>1, <2>3, <3>1, Zenon DEF InGlyphs
    <3> QED BY <1>2, <2>2, <2>4, <3>2, Zenon DEF DrawnTo, u
  <2>5. CASE run[i] = "space"
    <3>1. \A j \in i .. i : run[j] = "space"
      BY <1>0, <2>5
    <3>2. InBlanks(x, out, run, i)
      BY <1>2, <2>1, <2>3, <3>1, Zenon DEF InBlanks
    <3> QED BY <1>2, <2>2, <2>5, <3>2, Zenon DEF DrawnTo, u
  <2> QED BY <2>4, <2>5
<1> QED BY <1>1, <1>4, <1>5, <1>6

-----------------------------------------------------------------------------
\* drawText from its first to its last character.
TextStart == St(0, FALSE, FALSE, 0, 0, <<>>)
DrawsTo(f, run, k) == f = [i \in 0 .. k |-> IF i = 0 THEN TextStart ELSE TextStep(f[i - 1], run, i)]

LEMMA DrawsExist ==
  ASSUME NEW n \in Nat, NEW run PROVE \E f : DrawsTo(f, run, n)
<1> DEFINE Bad == {k \in Nat : k <= n /\ ~ \E f : DrawsTo(f, run, k)}
<1> SUFFICES ASSUME Bad # {} PROVE FALSE
  OBVIOUS
<1>1. PICK m \in Bad : \A k \in Bad : m <= k
  BY NatMin
<1>2. m \in Nat /\ m <= n /\ ~ \E f : DrawsTo(f, run, m)
  OBVIOUS
<1>3. m # 0
  <2>1. [i \in 0 .. 0 |-> TextStart]
          = [i \in 0 .. 0 |-> IF i = 0 THEN TextStart ELSE TextStep([j \in 0 .. 0 |-> TextStart][i - 1], run, i)]
    OBVIOUS
  <2> QED BY <1>2, <2>1 DEF DrawsTo
<1>4. m - 1 \in Nat /\ m - 1 \notin Bad /\ m - 1 <= n
  BY <1>1, <1>2, <1>3
<1>5. PICK f : DrawsTo(f, run, m - 1)
  BY <1>4
<1> DEFINE g == [i \in 0 .. m |-> IF i = m THEN TextStep(f[m - 1], run, m) ELSE f[i]]
<1>6. \A i \in 0 .. m - 1 : f[i] = IF i = 0 THEN TextStart ELSE TextStep(f[i - 1], run, i)
  BY <1>5 DEF DrawsTo
<1>7. \A i \in 0 .. m : i # m => i \in 0 .. m - 1
  BY <1>2
<1>8. \A i \in 0 .. m : g[i] = IF i = 0 THEN TextStart ELSE TextStep(g[i - 1], run, i)
  BY <1>2, <1>3, <1>6, <1>7
<1>9. DrawsTo(g, run, m)
  <2>1. g = [i \in 0 .. m |-> g[i]]
    OBVIOUS
  <2> HIDE DEF g
  <2> QED BY <1>8, <2>1 DEF DrawsTo
<1> QED BY <1>2, <1>9

LEMMA DrawnToEnd ==
  ASSUME NEW run \in Seq(Kinds)
  PROVE  \E t : /\ DrawnTo(t, run, Len(run))
                /\ drawText(run) = IF t.text THEN t.out \o drawGlyphs(run, t.start, Len(run) + 1, t.startx)
                                   ELSE IF t.space THEN t.out \o Blanks(t.startx, t.x) ELSE t.out
<1> DEFINE n == Len(run)
           f == CHOOSE f : DrawsTo(f, run, n)
<1>1. n \in Nat
  OBVIOUS
<1>2. DrawsTo(f, run, n)
  BY <1>1, DrawsExist
<1>3. drawText(run) = IF f[n].text THEN f[n].out \o drawGlyphs(run, f[n].start, n + 1, f[n].startx)
                      ELSE IF f[n].space THEN f[n].out \o Blanks(f[n].startx, f[n].x) ELSE f[n].out
  BY Zenon DEF drawText, DrawsTo, TextStart, St
<1> HIDE DEF f
<1>4. \A k \in 0 .. n : f[k] = IF k = 0 THEN TextStart ELSE TextStep(f[k - 1], run, k)
  BY <1>2 DEF DrawsTo
<1>5. DrawnTo(TextStart, run, 0)
  <2>1. 0 = Column(run, 0 + 1)
    BY ColumnIs
  <2>2. UpTo(<<>>, run, 0)
    BY DEF UpTo, Right
  <2> QED BY <2>1, <2>2, Zenon DEF DrawnTo, TextStart
<1>6. \A k \in 0 .. n : DrawnTo(f[k], run, k)
  <2> DEFINE Bad == {k \in 0 .. n : ~DrawnTo(f[k], run, k)}
  <2> SUFFICES ASSUME Bad # {} PROVE FALSE
    OBVIOUS
  <2>1. Bad \subseteq Nat
    BY <1>1
  <2>2. PICK m \in Bad : \A k \in Bad : m <= k
    BY <2>1, NatMin
  <2>3. m \in 0 .. n /\ ~DrawnTo(f[m], run, m)
    OBVIOUS
  <2>4. m # 0
    <3>1. 0 \in 0 .. n
      BY <1>1
    <3>2. f[0] = TextStart
      BY <1>4, <3>1
    <3> QED BY <1>5, <2>3, <3>2
  <2>5. m - 1 \in 0 .. n /\ m - 1 \notin Bad /\ m \in 1 .. n
    BY <1>1, <2>2, <2>3, <2>4
  <2>6. DrawnTo(f[m - 1], run, m - 1)
    BY <2>5
  <2>7. DrawnTo(TextStep(f[m - 1], run, m), run, m)
    BY <2>5, <2>6, StepDraws, Zenon
  <2> QED BY <1>4, <2>3, <2>4, <2>7
<1>7. DrawnTo(f[n], run, n)
  BY <1>1, <1>6
<1> QED BY <1>3, <1>7, Zenon DEF n

LEMMA TextWhole ==
  ASSUME NEW run \in Seq(Kinds) PROVE Right(drawText(run), run, Len(run))
<1> DEFINE n == Len(run)
<1>0. n \in Nat /\ (n + 1) - 1 = n
  OBVIOUS
<1>1. PICK t : /\ DrawnTo(t, run, n)
               /\ drawText(run) = IF t.text THEN t.out \o drawGlyphs(run, t.start, n + 1, t.startx)
                                  ELSE IF t.space THEN t.out \o Blanks(t.startx, t.x) ELSE t.out
  BY DrawnToEnd
<1>2. PICK x, startx, start, out :
        /\ x = Column(run, n + 1)
        /\ \/ /\ t = St(x, TRUE, FALSE, startx, start, out)
              /\ InGlyphs(start, startx, out, run, n)
           \/ /\ t = St(x, FALSE, TRUE, startx, start, out)
              /\ InBlanks(startx, out, run, n)
           \/ /\ t = St(x, FALSE, FALSE, startx, start, out)
              /\ UpTo(out, run, n)
  BY <1>1, Zenon DEF DrawnTo
<1>3. CASE t = St(x, TRUE, FALSE, startx, start, out) /\ InGlyphs(start, startx, out, run, n)
  <2> DEFINE q == drawGlyphs(run, start, n + 1, startx)
  <2>1. t.text /\ t.out = out /\ t.start = start /\ t.startx = startx
    BY <1>3, Zenon DEF St
  <2>2. drawText(run) = out \o q
    BY <1>1, <2>1, Zenon
  <2>3. /\ start \in 1 .. n /\ startx = Column(run, start) /\ Right(out, run, start - 1)
        /\ \A j \in start .. n : run[j] # "space"
    BY <1>3 DEF InGlyphs
  <2>4. n + 1 \in start + 1 .. n + 1
    BY <1>0, <2>3
  <2>5. Piece(q, run, start, n + 1)
    BY <2>3, <2>4, GlyphsPiece
  <2>6. \A j \in start .. (n + 1) - 1 : ~Under(run, j)
    BY <1>0, <2>3 DEF Under
  <2> HIDE DEF q
  <2>7. Right(out \o q, run, (n + 1) - 1)
    BY <2>3, <2>4, <2>5, <2>6, PieceAppended
  <2> QED BY <1>0, <2>2, <2>7
<1>4. CASE t = St(x, FALSE, TRUE, startx, start, out) /\ InBlanks(startx, out, run, n)
  <2> DEFINE q == Blanks(startx, x)
  <2>1. ~t.text /\ t.space /\ t.out = out /\ t.x = x /\ t.startx = startx
    BY <1>4, Zenon DEF St
  <2>2. drawText(run) = out \o q
    BY <1>1, <2>1, Zenon
  <2>3. PICK s \in 1 .. n : /\ startx = Column(run, s) /\ Right(out, run, s - 1)
                            /\ \A j \in s .. n : run[j] = "space"
                            /\ s > 1 => run[s - 1] # "icon"
    BY <1>4 DEF InBlanks
  <2>4. n + 1 \in s + 1 .. n + 1 /\ \A j \in s .. (n + 1) - 1 : run[j] = "space"
    BY <1>0, <2>3
  <2>5. Piece(q, run, s, n + 1)
    BY <1>2, <2>3, <2>4, BlanksPiece
  <2>6. \A j \in s .. (n + 1) - 1 : ~Under(run, j)
    <3> TAKE j \in s .. (n + 1) - 1
    <3>1. j > s => j - 1 \in s .. n
      BY <1>0
    <3>2. j > s => run[j - 1] = "space"
      BY <2>3, <3>1
    <3>3. j = s \/ j > s
      BY <1>0
    <3> QED BY <2>3, <3>2, <3>3 DEF Under
  <2> HIDE DEF q
  <2>7. Right(out \o q, run, (n + 1) - 1)
    BY <2>3, <2>4, <2>5, <2>6, PieceAppended
  <2> QED BY <1>0, <2>2, <2>7
<1>5. CASE t = St(x, FALSE, FALSE, startx, start, out) /\ UpTo(out, run, n)
  <2>1. ~t.text /\ ~t.space /\ t.out = out
    BY <1>5, Zenon DEF St
  <2>2. drawText(run) = out
    BY <1>1, <2>1, Zenon
  <2> QED BY <1>5, <2>2 DEF UpTo
<1> QED BY <1>2, <1>3, <1>4, <1>5

\* A run that drawText drew is whole.
TextKept == DOMAIN drawing = {"text"} =>
    /\ drawing.text.run \in Seq(Kinds)
    /\ Right(drawing.text.out, drawing.text.run, Len(drawing.text.run))

LEMMA TextIsWhole == TextKept => TextRunsWhole
<1> SUFFICES ASSUME TextKept, DOMAIN drawing = {"text"} PROVE TextRunsWhole
  BY DEF TextRunsWhole
<1> DEFINE run == drawing.text.run
           out == drawing.text.out
           covers(k, cell) == \/ out[k].cell <= cell /\ cell < out[k].cell + Cells(out[k].kind)
                              \/ out[k].overflows /\ cell = out[k].cell + 1
           last(cell) == CHOOSE k \in DOMAIN out :
                             covers(k, cell) /\ \A j \in DOMAIN out : covers(j, cell) => j <= k
<1>1. run \in Seq(Kinds) /\ out \in Seq(Entry) /\ \A i \in 1 .. Len(run) : RightAt(out, run, i)
  BY DEF TextKept, Right
<1>2. \A k, cell : covers(k, cell) <=> Covers(out[k], cell)
  BY Zenon DEF Covers
<1>3. DOMAIN run = 1 .. Len(run) /\ DOMAIN out \subseteq Int
  BY <1>1
<1> HIDE DEF run, out, covers
<1>4. ASSUME NEW i \in DOMAIN run
      PROVE  LET cell == Column(run, i)
                 under == i > 1 /\ run[i] = "space" /\ run[i - 1] = "icon"
             IN  /\ \E k \in DOMAIN out : covers(k, cell)
                 /\ IF under THEN out[last(cell)].overflows
                    ELSE out[last(cell)].cell = cell /\ out[last(cell)].kind = run[i]
  <2> DEFINE cell == Column(run, i)
  <2>1. PICK k : LastOn(out, k, cell) /\ OfRun(out[k], run, i)
    BY <1>1, <1>3, <1>4 DEF RightAt
  <2>2. k \in DOMAIN out /\ covers(k, cell) /\ \A j \in DOMAIN out : covers(j, cell) => j <= k
    BY <1>2, <2>1, Zenon DEF LastOn
  <2> HIDE DEF cell
  <2>3. last(cell) = k
    <3> DEFINE P(c) == c \in DOMAIN out /\ covers(c, cell) /\ \A j \in DOMAIN out : covers(j, cell) => j <= c
    <3>1. P(k)
      BY <2>2
    <3>2. P(last(cell))
      BY <3>1, Zenon
    <3> HIDE DEF last
    <3> QED BY <1>3, <2>2, <3>2
  <2> HIDE DEF last
  <2>4. IF Under(run, i) THEN out[last(cell)].overflows
        ELSE out[last(cell)].cell = cell /\ out[last(cell)].kind = run[i]
    BY <2>1, <2>3, Zenon DEF OfRun, cell
  <2> QED BY <2>2, <2>4, Zenon DEF Under, cell
<1> QED BY <1>4, Zenon DEF TextRunsWhole, run, out, covers

-----------------------------------------------------------------------------
(* What is being drawn *)

DrawKept ==
    \/ drawing = [text |-> NoText]
    \/ \E run \in Seq(Kinds) : drawing = [text |-> [run |-> run, out |-> drawText(run)]]
    \/ \E c \in GlyphCases : drawing = [case |-> c, pixels |-> drawGlyph(c.rot, c.code, c.g, c.x, c.y, c.wide)]

LEMMA DrawingStarts == DrawInit => DrawKept
BY DEF DrawInit, DrawKept

LEMMA DrawingTyped ==
  ASSUME DrawKept, DOMAIN drawing = {"text"} PROVE drawing.text.run \in Seq(Kinds)
<1>1. ASSUME drawing = [text |-> NoText] PROVE drawing.text.run \in Seq(Kinds)
  <2>1. drawing.text = NoText
    BY <1>1
  <2>2. drawing.text.run = <<>>
    BY <2>1 DEF NoText
  <2> QED BY <2>2
<1>2. ASSUME NEW run \in Seq(Kinds), NEW out, drawing = [text |-> [run |-> run, out |-> out]]
      PROVE  drawing.text.run \in Seq(Kinds)
  BY <1>2
<1>3. ASSUME NEW c, NEW pixels, drawing = [case |-> c, pixels |-> pixels] PROVE FALSE
  <2>1. DOMAIN drawing = {"case", "pixels"}
    BY <1>3
  <2>2. "case" \in DOMAIN drawing
    BY <2>1
  <2> QED BY <2>2
<1> QED BY <1>1, <1>2, <1>3, Zenon DEF DrawKept

LEMMA DrawingSteps == DrawKept /\ DrawNext => DrawKept'
<1> SUFFICES ASSUME DrawKept, DrawNext PROVE DrawKept'
  OBVIOUS
<1>1. CASE TypeText
  <2>1. PICK c \in Kinds : /\ DOMAIN drawing = {"text"}
                           /\ drawing' = [text |-> [run |-> Append(drawing.text.run, c),
                                                    out |-> drawText(Append(drawing.text.run, c))]]
    BY <1>1, Zenon DEF TypeText
  <2> DEFINE run == Append(drawing.text.run, c)
  <2>2. run \in Seq(Kinds)
    <3>1. drawing.text.run \in Seq(Kinds)
      BY <2>1, DrawingTyped
    <3> QED BY <3>1
  <2>3. drawing' = [text |-> [run |-> run, out |-> drawText(run)]]
    BY <2>1
  <2> HIDE DEF run
  <2> QED BY <2>2, <2>3, Zenon DEF DrawKept
<1>2. CASE PlaceGlyph
  BY <1>2, Zenon DEF PlaceGlyph, DrawKept
<1> QED BY <1>1, <1>2 DEF DrawNext

LEMMA DrawingStays == ASSUME DrawKept, UNCHANGED drawing PROVE DrawKept'
BY Zenon DEF DrawKept

CellOf(c) == {p \in (0 .. ScreenW - 1) \X (0 .. ScreenH - 1) :
                /\ c.x <= p[1] /\ p[1] < c.x + (IF c.wide THEN 2 * CellW ELSE CellW)
                /\ c.y <= p[2] /\ p[2] < c.y + CellH}
SeenAt(c, pixels, p) == LET q == rotatePoint(c.rot, ScreenW, ScreenH, [x |-> p[1], y |-> p[2]])
                        IN  pixels[<<q.x, q.y>>]
MeantAt(c, p) == LET gx == p[1] - c.x - c.g.left
                     gy == p[2] - c.y - c.g.top
                 IN  IF gx \in 0 .. c.g.width - 1 /\ gy \in 0 .. c.g.height - 1
                     THEN <<gx, gy>> ELSE <<"bg">>
MovedOff(c) == \/ c.g.top < 0
               \/ IF LeftSkip(c.code, c.g) > 0 THEN c.rot # 0 ELSE c.x + c.g.left < 0
UprightFor(c, pixels) ==
    ~MovedOff(c) => \A p \in CellOf(c) : SeenAt(c, pixels, p) = MeantAt(c, p)

LEMMA GlyphsUpright ==
  ASSUME NEW c \in GlyphCases, drawing = [case |-> c, pixels |-> drawGlyph(c.rot, c.code, c.g, c.x, c.y, c.wide)]
  PROVE  GlyphIsUpright
<1>1. PICK rot \in Rotations, code \in {"powerline", "other"}, g \in Glyphs, x \in 0 .. ScreenW - 1, y \in 0 .. ScreenH - 1, wide \in BOOLEAN :
        c = [rot |-> rot, code |-> code, g |-> g, x |-> x, y |-> y, wide |-> wide]
  BY DEF GlyphCases
<1> DEFINE pixels == drawGlyph(c.rot, c.code, c.g, c.x, c.y, c.wide)
<1>2. c.rot = rot /\ c.code = code /\ c.g = g /\ c.x = x /\ c.y = y /\ c.wide = wide
  BY <1>1, Zenon
<1>3. pixels = drawGlyph(rot, code, g, x, y, wide)
  BY <1>2, Zenon
<1> HIDE DEF pixels
<1>4. drawing.case = c /\ drawing.pixels = pixels
  <2>1. drawing = [case |-> c, pixels |-> pixels]
    BY Zenon DEF pixels
  <2> QED BY <2>1
<1>5. ASSUME ~MovedOff(c), NEW p \in CellOf(c)
      PROVE  SeenAt(c, pixels, p) = MeantAt(c, p)
  <2> DEFINE u == p[1]
             v == p[2]
  <2>0. /\ u \in 0 .. ScreenW - 1 /\ v \in 0 .. ScreenH - 1
        /\ c.x <= u /\ u < c.x + (IF c.wide THEN 2 * CellW ELSE CellW) /\ c.y <= v /\ v < c.y + CellH
    BY DEF CellOf
  <2> HIDE DEF u, v
  <2>1. /\ u \in 0 .. ScreenW - 1 /\ v \in 0 .. ScreenH - 1
        /\ x <= u /\ u < x + (IF wide THEN 2 * CellW ELSE CellW) /\ y <= v /\ v < y + CellH
    BY <1>2, <2>0, Zenon
  <2>4. ~(g.top < 0) /\ ~(IF LeftSkip(code, g) > 0 THEN rot # 0 ELSE x + g.left < 0)
    BY <1>2, <1>5, Zenon DEF MovedOff
  <2>5. g.top >= 0 /\ IF LeftSkip(code, g) > 0 THEN rot = 0 ELSE x + g.left >= 0
    <3>1. g.top \in Int /\ g.left \in Int /\ x \in Int
      BY GlyphAssumption
    <3> QED BY <2>4, <3>1
  <2>2. drawGlyph(rot, code, g, x, y, wide)[Spot(rot, u, v)] =
           IF u - x - g.left \in 0 .. g.width - 1 /\ v - y - g.top \in 0 .. g.height - 1
           THEN <<u - x - g.left, v - y - g.top>> ELSE <<"bg">>
    BY <2>1, <2>5, GlyphPlaced
  <2>3. pixels[Spot(c.rot, u, v)] =
           IF u - c.x - c.g.left \in 0 .. c.g.width - 1 /\ v - c.y - c.g.top \in 0 .. c.g.height - 1
           THEN <<u - c.x - c.g.left, v - c.y - c.g.top>> ELSE <<"bg">>
    BY <1>2, <1>3, <2>2, Zenon
  <2> QED BY <2>3, Zenon DEF SeenAt, MeantAt, Spot, Point, u, v
<1>6. UprightFor(c, pixels)
  BY <1>5, Zenon DEF UprightFor
<1>7. UprightFor(drawing.case, drawing.pixels)
  BY <1>4, <1>6, Zenon
<1> QED BY <1>7, Zenon DEF GlyphIsUpright, UprightFor, MovedOff, CellOf, SeenAt, MeantAt

LEMMA DrawingIsRight == DrawKept => GlyphIsUpright /\ TextRunsWhole
<1>1. ASSUME drawing = [text |-> NoText] PROVE GlyphIsUpright /\ TextRunsWhole
  <2>1. DOMAIN drawing = {"text"} /\ drawing.text = NoText
    BY <1>1
  <2>2. "case" \notin DOMAIN drawing
    BY <2>1
  <2>3. GlyphIsUpright
    <3>1. DOMAIN drawing # {"case", "pixels"}
      BY <2>2
    <3> QED BY <3>1, Zenon DEF GlyphIsUpright
  <2>4. TextKept
    <3>1. drawing.text.run = <<>> /\ drawing.text.out = <<>>
      BY <2>1 DEF NoText
    <3>2. Right(<<>>, <<>>, Len(<<>>))
      BY DEF Right
    <3>3. <<>> \in Seq(Kinds)
      OBVIOUS
    <3> QED BY <3>1, <3>2, <3>3, Zenon DEF TextKept
  <2> QED BY <2>3, <2>4, TextIsWhole
<1>2. ASSUME NEW run \in Seq(Kinds), drawing = [text |-> [run |-> run, out |-> drawText(run)]]
      PROVE  GlyphIsUpright /\ TextRunsWhole
  <2> DEFINE out == drawText(run)
  <2>0. Right(out, run, Len(run))
    BY TextWhole
  <2> HIDE DEF out
  <2>1. drawing = [text |-> [run |-> run, out |-> out]]
    BY <1>2, Zenon DEF out
  <2>2. DOMAIN drawing = {"text"} /\ drawing.text.run = run /\ drawing.text.out = out
    BY <2>1
  <2>3. GlyphIsUpright
    <3>1. "case" \notin DOMAIN drawing
      BY <2>2
    <3>2. DOMAIN drawing # {"case", "pixels"}
      BY <3>1
    <3> QED BY <3>2, Zenon DEF GlyphIsUpright
  <2>4. TextKept
    BY <2>0, <2>2, Zenon DEF TextKept
  <2> QED BY <2>3, <2>4, TextIsWhole
<1>3. ASSUME NEW c \in GlyphCases, drawing = [case |-> c, pixels |-> drawGlyph(c.rot, c.code, c.g, c.x, c.y, c.wide)]
      PROVE  GlyphIsUpright /\ TextRunsWhole
  <2>1. GlyphIsUpright
    BY <1>3, GlyphsUpright
  <2> DEFINE pixels == drawGlyph(c.rot, c.code, c.g, c.x, c.y, c.wide)
  <2>2. drawing = [case |-> c, pixels |-> pixels]
    BY <1>3, Zenon
  <2> HIDE DEF pixels
  <2>3. "case" \in DOMAIN drawing
    BY <2>2
  <2>4. DOMAIN drawing # {"text"}
    BY <2>3
  <2>5. TextRunsWhole
    BY <2>4, Zenon DEF TextRunsWhole
  <2> QED BY <2>1, <2>5
<1> QED BY <1>1, <1>2, <1>3, Zenon DEF DrawKept

-----------------------------------------------------------------------------
(* Box characters (BoxDraw) *)

Over(b, x) == b[1] <= x /\ x < b[1] + b[2]

LEMMA AxisIs ==
  ASSUME NEW a, NEW b, a # b, NEW s \in SUBSET {a, b}, s # {}
  PROVE  /\ Cardinality(s) = 2 <=> a \in s /\ b \in s
         /\ s = {a} <=> b \notin s
<1>1. s = {a} \/ s = {b} \/ s = {a, b}
  OBVIOUS
<1>2. Cardinality({a}) = 1 /\ Cardinality({b}) = 1 /\ IsFiniteSet({a})
  BY FS_Singleton
<1>3. Cardinality({a} \cup {b}) = Cardinality({a}) + 1
  BY <1>2, FS_AddElement
<1>4. {a} \cup {b} = {a, b}
  OBVIOUS
<1>5. Cardinality({a, b}) = 2
  BY <1>2, <1>3, <1>4
<1> QED BY <1>1, <1>2, <1>5

\* A line's stretch reaches exactly the ends it runs towards, and the middle.
Reaches(t, s, a, b, n) ==
    /\ t[1] \in Nat /\ t[2] \in Nat /\ t[1] + t[2] <= n
    /\ Over(t, 0) <=> a \in s
    /\ Over(t, n - 1) <=> b \in s
    /\ \E m \in {n \div 2 - 1, n \div 2} : Over(t, m)

LEMMA StretchIs ==
  ASSUME NEW a, NEW b, a # b, NEW s \in SUBSET {a, b}, s # {}, NEW n \in Nat, n >= 6
  PROVE  Reaches(Stretch(s, a, n), s, a, b, n)
<1> DEFINE c == n \div 2
           t == Stretch(s, a, n)
<1>1. c \in Nat /\ 2 * c <= n /\ n <= 2 * c + 1 /\ c >= 3
  OBVIOUS
<1>2. t = IF a \in s /\ b \in s THEN <<0, n>> ELSE IF b \notin s THEN <<0, c>> ELSE <<c, n - c>>
  BY AxisIs, Zenon DEF Stretch
<1>3. a \in s \/ b \in s
  OBVIOUS
<1> HIDE DEF c, t
<1>4. CASE a \in s /\ b \in s
  <2>1. t[1] = 0 /\ t[2] = n
    BY <1>2, <1>4
  <2> QED BY <1>1, <1>4, <2>1 DEF Reaches, Over, t, c
<1>5. CASE b \notin s
  <2>1. t[1] = 0 /\ t[2] = c
    BY <1>2, <1>5
  <2>2. Over(t, c - 1) /\ Over(t, 0) /\ ~Over(t, n - 1) /\ t[1] + t[2] <= n
    BY <1>1, <2>1 DEF Over
  <2> QED BY <1>1, <1>3, <1>5, <2>1, <2>2 DEF Reaches, t, c
<1>6. CASE a \notin s
  <2>1. t[1] = c /\ t[2] = n - c
    BY <1>2, <1>3, <1>6
  <2>2. Over(t, c) /\ ~Over(t, 0) /\ Over(t, n - 1) /\ t[1] + t[2] <= n /\ n - c \in Nat
    BY <1>1, <2>1 DEF Over
  <2> QED BY <1>1, <1>3, <1>6, <2>1, <2>2 DEF Reaches, t, c
<1> QED BY <1>4, <1>5, <1>6 DEF t, c

\* The bands of a style: inside the cell, around its middle, and of no other style.
Lane(style, centre) == {y \in 0 .. 2 * centre : \E b \in Bands(style, centre) : Over(b, y)}

LEMMA BandsIs ==
  ASSUME NEW style \in LineStyles, NEW c \in Nat, c >= 3
  PROVE  /\ \A b \in Bands(style, c) :
              b[1] \in Nat /\ b[2] \in Nat /\ 1 <= b[1] /\ b[1] + b[2] <= 2 * c - 1
         /\ style = "light" => Lane(style, c) = {c - 1, c}
         /\ style = "double" => Lane(style, c) = {c - 2, c + 1}
         /\ style = "heavy" => Lane(style, c) = {c - 2, c - 1, c, c + 1}
         /\ style # "double" => \A b \in Bands(style, c) :
              Over(b, c - 1) /\ Over(b, c) /\ \A d \in Bands(style, c) : d = b
<1>1. CASE style = "light"
  <2>1. Bands(style, c) = {<<c - 1, 2>>}
    BY <1>1 DEF Bands
  <2>2. \A b \in Bands(style, c) :
          /\ b[1] \in Nat /\ b[2] \in Nat /\ 1 <= b[1] /\ b[1] + b[2] <= 2 * c - 1
    BY <2>1
  <2>3. \A y : (\E b \in Bands(style, c) : Over(b, y)) <=> (c - 1 <= y /\ y < c - 1 + 2)
    BY <2>1 DEF Over
  <2>4. Lane(style, c) = {c - 1, c}
    <3>1. \A y \in 0 .. 2 * c : (\E b \in Bands(style, c) : Over(b, y)) <=> y \in {c - 1, c}
      <4>1. \A y \in 0 .. 2 * c : (c - 1 <= y /\ y < c - 1 + 2) <=> (y = c - 1 \/ y = c)
        OBVIOUS
      <4> QED BY <2>3, <4>1, Zenon
    <3>2. {c - 1, c} \subseteq 0 .. 2 * c
      OBVIOUS
    <3> QED BY <3>1, <3>2, Zenon DEF Lane
  <2>5. \A b \in Bands(style, c) : Over(b, c - 1) /\ Over(b, c) /\ \A d \in Bands(style, c) : d = b
    BY <2>1 DEF Over
  <2> QED BY <1>1, <2>2, <2>4, <2>5
<1>2. CASE style = "double"
  <2>1. Bands(style, c) = {<<c - 2, 1>>, <<c + 1, 1>>}
    BY <1>2 DEF Bands
  <2>2. \A b \in Bands(style, c) :
          /\ b[1] \in Nat /\ b[2] \in Nat /\ 1 <= b[1] /\ b[1] + b[2] <= 2 * c - 1
    BY <2>1
  <2>3. \A y : (\E b \in Bands(style, c) : Over(b, y)) <=> (c - 2 <= y /\ y < c - 2 + 1) \/ (c + 1 <= y /\ y < c + 1 + 1)
    BY <2>1 DEF Over
  <2>4. Lane(style, c) = {c - 2, c + 1}
    <3>1. \A y \in 0 .. 2 * c : (\E b \in Bands(style, c) : Over(b, y)) <=> y \in {c - 2, c + 1}
      BY <2>3
    <3>2. {c - 2, c + 1} \subseteq 0 .. 2 * c
      OBVIOUS
    <3> QED BY <3>1, <3>2, Zenon DEF Lane
  <2> QED BY <1>2, <2>2, <2>4
<1>3. CASE style = "heavy"
  <2>1. Bands(style, c) = {<<c - 2, 4>>}
    BY <1>3 DEF Bands
  <2>2. \A b \in Bands(style, c) :
          /\ b[1] \in Nat /\ b[2] \in Nat /\ 1 <= b[1] /\ b[1] + b[2] <= 2 * c - 1
    BY <2>1
  <2>3. \A y : (\E b \in Bands(style, c) : Over(b, y)) <=> (c - 2 <= y /\ y < c - 2 + 4)
    BY <2>1 DEF Over
  <2>4. Lane(style, c) = {c - 2, c - 1, c, c + 1}
    <3>1. \A y \in 0 .. 2 * c : (\E b \in Bands(style, c) : Over(b, y)) <=> y \in {c - 2, c - 1, c, c + 1}
      BY <2>3
    <3>2. {c - 2, c - 1, c, c + 1} \subseteq 0 .. 2 * c
      OBVIOUS
    <3> QED BY <3>1, <3>2, Zenon DEF Lane
  <2>5. \A b \in Bands(style, c) : Over(b, c - 1) /\ Over(b, c) /\ \A d \in Bands(style, c) : d = b
    BY <2>1 DEF Over
  <2> QED BY <1>3, <2>2, <2>4, <2>5
<1> QED BY <1>1, <1>2, <1>3 DEF LineStyles

-----------------------------------------------------------------------------
(* The strokes of a character, point by point *)

InStrokes(c, w, h, x, y) ==
    \E r \in Strokes(c, w, h) : r.x <= x /\ x < r.x + r.w /\ r.y <= y /\ y < r.y + r.h

LEMMA CharIs ==
  ASSUME NEW c \in BoxChars
  PROVE  /\ c.style \in LineStyles /\ c.arms \in SUBSET Sides
         /\ Painted(c) \in SUBSET Sides
         /\ ~HalfUpright(c) => Painted(c) = c.arms
         /\ \A axis : StyleOn(c, axis) \in LineStyles /\ (c.style # "double" => StyleOn(c, axis) # "double")
<1>1. c.style \in LineStyles /\ c.arms \in SUBSET Sides
  BY DEF BoxChars, LineStyles
<1>2. Painted(c) \in SUBSET Sides /\ (~HalfUpright(c) => Painted(c) = c.arms)
  BY <1>1 DEF Painted, HalfUpright, Sides
<1>3. \A axis : StyleOn(c, axis) \in {c.style, "light"}
  BY Zenon DEF StyleOn
<1> QED BY <1>1, <1>2, <1>3 DEF LineStyles

LEMMA StrokesAre ==
  ASSUME NEW c, NEW w, NEW h, NEW x, NEW y
  PROVE  LET across == Painted(c) \cap Across
             upright == Painted(c) \cap Upright
         IN  InStrokes(c, w, h, x, y) <=>
               \/ /\ across # {} /\ Over(Stretch(across, "left", w), x)
                  /\ \E b \in Bands(StyleOn(c, Across), h \div 2) : Over(b, y)
               \/ /\ upright # {} /\ Over(Stretch(upright, "up", h), y)
                  /\ \E b \in Bands(StyleOn(c, Upright), w \div 2) : Over(b, x)
<1> DEFINE across == Painted(c) \cap Across
           upright == Painted(c) \cap Upright
           sa == Stretch(across, "left", w)
           su == Stretch(upright, "up", h)
           ba == IF across = {} THEN {} ELSE Bands(StyleOn(c, Across), h \div 2)
           bu == IF upright = {} THEN {} ELSE Bands(StyleOn(c, Upright), w \div 2)
           In(r) == r.x <= x /\ x < r.x + r.w /\ r.y <= y /\ y < r.y + r.h
<1>1. Strokes(c, w, h) = {Rectangle(sa, b) : b \in ba} \cup {Rectangle(b, su) : b \in bu}
  BY Zenon DEF Strokes
<1>2. \A b : In(Rectangle(sa, b)) <=> Over(sa, x) /\ Over(b, y)
  BY DEF Rectangle, Over
<1>3. \A b : In(Rectangle(b, su)) <=> Over(b, x) /\ Over(su, y)
  BY DEF Rectangle, Over
<1>4. InStrokes(c, w, h, x, y) <=> \E r \in Strokes(c, w, h) : In(r)
  BY Zenon DEF InStrokes
<1> HIDE DEF In, sa, su
<1>5. InStrokes(c, w, h, x, y) <=> (\E b \in ba : Over(sa, x) /\ Over(b, y)) \/ (\E b \in bu : Over(b, x) /\ Over(su, y))
  <2> HIDE DEF ba, bu
  <2>1. (\E r \in Strokes(c, w, h) : In(r)) <=> (\E b \in ba : In(Rectangle(sa, b))) \/ (\E b \in bu : In(Rectangle(b, su)))
    BY <1>1
  <2> QED BY <1>2, <1>3, <1>4, <2>1, Zenon
<1>6. \A b : b \in ba <=> across # {} /\ b \in Bands(StyleOn(c, Across), h \div 2)
  BY Zenon
<1>7. \A b : b \in bu <=> upright # {} /\ b \in Bands(StyleOn(c, Upright), w \div 2)
  BY Zenon
<1> HIDE DEF ba, bu, across, upright
<1>8. InStrokes(c, w, h, x, y) <=>
               \/ /\ across # {} /\ Over(sa, x)
                  /\ \E b \in Bands(StyleOn(c, Across), h \div 2) : Over(b, y)
               \/ /\ upright # {} /\ Over(su, y)
                  /\ \E b \in Bands(StyleOn(c, Upright), w \div 2) : Over(b, x)
  BY <1>5, <1>6, <1>7, Zenon
<1> QED BY <1>8, Zenon DEF sa, su, across, upright

\* The lines of a character: none, or along its stretch and its bands.
LEMMA LinesAre ==
  ASSUME NEW c \in BoxChars, NEW w \in Nat, w >= 6, NEW h \in Nat, h >= 6
  PROVE  LET across == Painted(c) \cap Across
             upright == Painted(c) \cap Upright
             sa == Stretch(across, "left", w)
             su == Stretch(upright, "up", h)
         IN  /\ across # {} => /\ sa[1] \in Nat /\ sa[2] \in Nat /\ sa[1] + sa[2] <= w
                               /\ Over(sa, 0) <=> "left" \in Painted(c)
                               /\ Over(sa, w - 1) <=> "right" \in Painted(c)
                               /\ \E m \in {w \div 2 - 1, w \div 2} : Over(sa, m)
             /\ upright # {} => /\ su[1] \in Nat /\ su[2] \in Nat /\ su[1] + su[2] <= h
                                /\ Over(su, 0) <=> "up" \in Painted(c)
                                /\ Over(su, h - 1) <=> "down" \in Painted(c)
                                /\ \E m \in {h \div 2 - 1, h \div 2} : Over(su, m)
<1> DEFINE across == Painted(c) \cap Across
           upright == Painted(c) \cap Upright
           sa == Stretch(across, "left", w)
           su == Stretch(upright, "up", h)
<1>1. across \in SUBSET {"left", "right"} /\ upright \in SUBSET {"up", "down"}
  BY DEF Across, Upright
<1>2. /\ "left" \in across <=> "left" \in Painted(c)
      /\ "right" \in across <=> "right" \in Painted(c)
      /\ "up" \in upright <=> "up" \in Painted(c)
      /\ "down" \in upright <=> "down" \in Painted(c)
  BY DEF Across, Upright
<1>3. "left" # "right" /\ "up" # "down"
  OBVIOUS
<1> HIDE DEF across, upright
<1>4. across # {} => Reaches(sa, across, "left", "right", w)
  BY <1>1, <1>3, StretchIs, Zenon
<1>5. upright # {} => Reaches(su, upright, "up", "down", h)
  BY <1>1, <1>3, StretchIs, Zenon
<1> HIDE DEF sa, su
<1>6. /\ across # {} => /\ sa[1] \in Nat /\ sa[2] \in Nat /\ sa[1] + sa[2] <= w
                        /\ Over(sa, 0) <=> "left" \in Painted(c)
                        /\ Over(sa, w - 1) <=> "right" \in Painted(c)
                        /\ \E m \in {w \div 2 - 1, w \div 2} : Over(sa, m)
      /\ upright # {} => /\ su[1] \in Nat /\ su[2] \in Nat /\ su[1] + su[2] <= h
                         /\ Over(su, 0) <=> "up" \in Painted(c)
                         /\ Over(su, h - 1) <=> "down" \in Painted(c)
                         /\ \E m \in {h \div 2 - 1, h \div 2} : Over(su, m)
  BY <1>2, <1>4, <1>5, Zenon DEF Reaches
<1> QED BY <1>6, Zenon DEF sa, su, across, upright

LEMMA RectsAre ==
  ASSUME NEW c \in BoxChars, NEW w \in Nat, w >= 6, NEW h \in Nat, h >= 6, NEW r \in Strokes(c, w, h)
  PROVE  /\ r.x \in Nat /\ r.y \in Nat /\ r.w \in Nat /\ r.h \in Nat
         /\ r.x + r.w <= w /\ r.y + r.h <= h
<1> DEFINE across == Painted(c) \cap Across
           upright == Painted(c) \cap Upright
           sa == Stretch(across, "left", w)
           su == Stretch(upright, "up", h)
           ba == Bands(StyleOn(c, Across), h \div 2)
           bu == Bands(StyleOn(c, Upright), w \div 2)
<1>1. \/ across # {} /\ \E b \in ba : r = Rectangle(sa, b)
      \/ upright # {} /\ \E b \in bu : r = Rectangle(b, su)
  BY Zenon DEF Strokes
<1>2. /\ across # {} => sa[1] \in Nat /\ sa[2] \in Nat /\ sa[1] + sa[2] <= w
      /\ upright # {} => su[1] \in Nat /\ su[2] \in Nat /\ su[1] + su[2] <= h
  BY LinesAre, Zenon
<1>3. w \div 2 \in Nat /\ w \div 2 >= 3 /\ 2 * (w \div 2) <= w /\ h \div 2 \in Nat /\ h \div 2 >= 3 /\ 2 * (h \div 2) <= h
  OBVIOUS
<1>4. StyleOn(c, Across) \in LineStyles /\ StyleOn(c, Upright) \in LineStyles
  BY CharIs
<1>5. \A b \in ba : b[1] \in Nat /\ b[2] \in Nat /\ b[1] + b[2] <= 2 * (h \div 2) - 1
  BY <1>3, <1>4, BandsIs
<1>6. \A b \in bu : b[1] \in Nat /\ b[2] \in Nat /\ b[1] + b[2] <= 2 * (w \div 2) - 1
  BY <1>3, <1>4, BandsIs
<1> HIDE DEF sa, su, ba, bu, across, upright
<1>7. ASSUME across # {}, NEW b \in ba, r = Rectangle(sa, b)
      PROVE  /\ r.x \in Nat /\ r.y \in Nat /\ r.w \in Nat /\ r.h \in Nat
             /\ r.x + r.w <= w /\ r.y + r.h <= h
  <2>1. r.x = sa[1] /\ r.y = b[1] /\ r.w = sa[2] /\ r.h = b[2]
    BY <1>7 DEF Rectangle
  <2> QED BY <1>2, <1>3, <1>5, <1>7, <2>1
<1>8. ASSUME upright # {}, NEW b \in bu, r = Rectangle(b, su)
      PROVE  /\ r.x \in Nat /\ r.y \in Nat /\ r.w \in Nat /\ r.h \in Nat
             /\ r.x + r.w <= w /\ r.y + r.h <= h
  <2>1. r.x = b[1] /\ r.y = su[1] /\ r.w = b[2] /\ r.h = su[2]
    BY <1>8 DEF Rectangle
  <2> QED BY <1>2, <1>3, <1>6, <1>8, <2>1
<1> QED BY <1>1, <1>7, <1>8

\* The points a character lights, seen from a corner of its cell.
Ink(c, w, h, left, top) == UNION {PointsOf(r, left, top) : r \in Strokes(c, w, h)}

InkedAs(ink, c, w, h, left, top) ==
    /\ \A x, y \in Int : <<left + x, top + y>> \in ink <=> InStrokes(c, w, h, x, y)
    /\ \A p \in ink : \E x \in 0 .. w - 1, y \in 0 .. h - 1 : p = <<left + x, top + y>>

LEMMA InkIs ==
  ASSUME NEW c \in BoxChars, NEW w \in Nat, w >= 6, NEW h \in Nat, h >= 6,
         NEW left \in Int, NEW top \in Int
  PROVE  InkedAs(Ink(c, w, h, left, top), c, w, h, left, top)
<1>1. ASSUME NEW x \in Int, NEW y \in Int
      PROVE  <<left + x, top + y>> \in Ink(c, w, h, left, top) <=> InStrokes(c, w, h, x, y)
  <2>1. \A r \in Strokes(c, w, h) : <<left + x, top + y>> \in PointsOf(r, left, top)
           <=> r.x <= x /\ x < r.x + r.w /\ r.y <= y /\ y < r.y + r.h
    BY RectsAre DEF PointsOf
  <2>2. <<left + x, top + y>> \in Ink(c, w, h, left, top)
          <=> \E r \in Strokes(c, w, h) : <<left + x, top + y>> \in PointsOf(r, left, top)
    BY DEF Ink
  <2> QED BY <2>1, <2>2, Zenon DEF InStrokes
<1>2. ASSUME NEW p \in Ink(c, w, h, left, top)
      PROVE  \E x \in 0 .. w - 1, y \in 0 .. h - 1 : p = <<left + x, top + y>>
  <2>1. PICK r \in Strokes(c, w, h) : p \in PointsOf(r, left, top)
    BY DEF Ink
  <2>2. /\ r.x \in Nat /\ r.y \in Nat /\ r.w \in Nat /\ r.h \in Nat
        /\ r.x + r.w <= w /\ r.y + r.h <= h
    BY RectsAre
  <2>3. PICK a \in left + r.x .. left + r.x + r.w - 1, b \in top + r.y .. top + r.y + r.h - 1 : p = <<a, b>>
    BY <2>1 DEF PointsOf
  <2> DEFINE x == a - left
             y == b - top
  <2>4. x \in 0 .. w - 1 /\ y \in 0 .. h - 1 /\ a = left + x /\ b = top + y
    BY <2>2, <2>3
  <2> HIDE DEF x, y
  <2> QED BY <2>3, <2>4
<1> QED BY <1>1, <1>2 DEF InkedAs

LEMMA EdgesAre ==
  ASSUME NEW c \in BoxChars, ~HalfUpright(c), NEW w \in Nat, w >= 6, NEW h \in Nat, h >= 6
  PROVE  /\ \A y \in 0 .. h - 1 :
              /\ InStrokes(c, w, h, 0, y) <=> "left" \in c.arms /\ y \in Lane(StyleOn(c, Across), h \div 2)
              /\ InStrokes(c, w, h, w - 1, y) <=> "right" \in c.arms /\ y \in Lane(StyleOn(c, Across), h \div 2)
         /\ \A x \in 0 .. w - 1 :
              /\ InStrokes(c, w, h, x, 0) <=> "up" \in c.arms /\ x \in Lane(StyleOn(c, Upright), w \div 2)
              /\ InStrokes(c, w, h, x, h - 1) <=> "down" \in c.arms /\ x \in Lane(StyleOn(c, Upright), w \div 2)
<1> DEFINE across == Painted(c) \cap Across
           upright == Painted(c) \cap Upright
           sa == Stretch(across, "left", w)
           su == Stretch(upright, "up", h)
           ba == Bands(StyleOn(c, Across), h \div 2)
           bu == Bands(StyleOn(c, Upright), w \div 2)
<1>0. Painted(c) = c.arms
  BY CharIs
<1>1. /\ across # {} => /\ Over(sa, 0) <=> "left" \in c.arms
                        /\ Over(sa, w - 1) <=> "right" \in c.arms
      /\ upright # {} => /\ Over(su, 0) <=> "up" \in c.arms
                         /\ Over(su, h - 1) <=> "down" \in c.arms
  BY <1>0, LinesAre, Zenon
<1>2. /\ "left" \in c.arms => across # {}
      /\ "right" \in c.arms => across # {}
      /\ "up" \in c.arms => upright # {}
      /\ "down" \in c.arms => upright # {}
  BY <1>0 DEF Across, Upright
<1>3. /\ w \div 2 \in Nat /\ w \div 2 >= 3 /\ 2 * (w \div 2) <= w /\ w <= 2 * (w \div 2) + 1
      /\ h \div 2 \in Nat /\ h \div 2 >= 3 /\ 2 * (h \div 2) <= h /\ h <= 2 * (h \div 2) + 1
  OBVIOUS
<1>4. StyleOn(c, Across) \in LineStyles /\ StyleOn(c, Upright) \in LineStyles
  BY CharIs
<1>5. \A b \in ba : ~Over(b, 0) /\ ~Over(b, h - 1)
  <2>1. \A b \in ba : b[1] \in Nat /\ b[2] \in Nat /\ 1 <= b[1] /\ b[1] + b[2] <= 2 * (h \div 2) - 1
    BY <1>3, <1>4, BandsIs
  <2> HIDE DEF ba
  <2> QED BY <1>3, <2>1 DEF Over
<1>6. \A b \in bu : ~Over(b, 0) /\ ~Over(b, w - 1)
  <2>1. \A b \in bu : b[1] \in Nat /\ b[2] \in Nat /\ 1 <= b[1] /\ b[1] + b[2] <= 2 * (w \div 2) - 1
    BY <1>3, <1>4, BandsIs
  <2> HIDE DEF bu
  <2> QED BY <1>3, <2>1 DEF Over
<1>7. \A x, y : InStrokes(c, w, h, x, y) <=>
               \/ across # {} /\ Over(sa, x) /\ \E b \in ba : Over(b, y)
               \/ upright # {} /\ Over(su, y) /\ \E b \in bu : Over(b, x)
  BY StrokesAre, Zenon
<1>8. \A y \in 0 .. h - 1 : y \in Lane(StyleOn(c, Across), h \div 2) <=> \E b \in ba : Over(b, y)
  <2>1. \A y \in 0 .. h - 1 : y \in 0 .. 2 * (h \div 2)
    BY <1>3
  <2> QED BY <2>1, Zenon DEF Lane
<1>9. \A x \in 0 .. w - 1 : x \in Lane(StyleOn(c, Upright), w \div 2) <=> \E b \in bu : Over(b, x)
  <2>1. \A x \in 0 .. w - 1 : x \in 0 .. 2 * (w \div 2)
    BY <1>3
  <2> QED BY <2>1, Zenon DEF Lane
<1> HIDE DEF sa, su, ba, bu, across, upright
<1> QED BY <1>1, <1>2, <1>5, <1>6, <1>7, <1>8, <1>9, Zenon

-----------------------------------------------------------------------------
(* Two cells, drawn one after the other *)

BoxesAt(w, h, beside, shown, lit) ==
    [w |-> w, h |-> h, beside |-> beside, shown |-> shown, lit |-> lit]
CornerAt(w, h, beside, i) == IF i = 1 THEN <<0, 0>> ELSE IF beside THEN <<w, 0>> ELSE <<0, h>>
Lights(w, h, beside, lit, i, x, y) ==
    <<CornerAt(w, h, beside, i)[1] + x, CornerAt(w, h, beside, i)[2] + y>> \in lit

\* What a drawn cell shows is its character.
ShownIs(w, h, beside, c, lit, i) ==
    \A x \in 0 .. w - 1, y \in 0 .. h - 1 : Lights(w, h, beside, lit, i, x, y) <=> InStrokes(c, w, h, x, y)
CellsShown(w, h, beside, shown, lit) ==
    \A i \in 1 .. 2 : shown[i] # NoBox => ShownIs(w, h, beside, shown[i], lit, i)

BoxKept ==
    \E s \in CellSizes, beside \in BOOLEAN, shown \in [1 .. 2 -> BoxChars \cup {NoBox}] :
        \E lit : boxes = BoxesAt(s.w, s.h, beside, shown, lit) /\ CellsShown(s.w, s.h, beside, shown, lit)

LEMMA SizesAre == \A s \in CellSizes : s.w \in Nat /\ s.w >= 6 /\ s.h \in Nat /\ s.h >= 6
BY BoxAssumption

LEMMA CornersAre ==
  ASSUME NEW w \in Nat, NEW h \in Nat, NEW beside \in BOOLEAN, NEW i \in 1 .. 2
  PROVE  CornerAt(w, h, beside, i)[1] \in Nat /\ CornerAt(w, h, beside, i)[2] \in Nat
BY DEF CornerAt

LEMMA CornersApart ==
  ASSUME NEW w \in Nat, NEW h \in Nat, NEW beside \in BOOLEAN, NEW i \in 1 .. 2, NEW j \in 1 .. 2, j # i,
         NEW x \in 0 .. w - 1, NEW y \in 0 .. h - 1, NEW u \in 0 .. w - 1, NEW v \in 0 .. h - 1
  PROVE  \/ CornerAt(w, h, beside, j)[1] + x # CornerAt(w, h, beside, i)[1] + u
         \/ CornerAt(w, h, beside, j)[2] + y # CornerAt(w, h, beside, i)[2] + v
<1>1. /\ CornerAt(w, h, beside, 1) = <<0, 0>>
      /\ beside => CornerAt(w, h, beside, 2) = <<w, 0>>
      /\ ~beside => CornerAt(w, h, beside, 2) = <<0, h>>
  BY DEF CornerAt
<1>2. (i = 1 /\ j = 2) \/ (i = 2 /\ j = 1)
  OBVIOUS
<1> QED BY <1>1, <1>2

LEMMA BoxesStart == BoxInit => BoxKept
<1> SUFFICES ASSUME BoxInit PROVE BoxKept
  OBVIOUS
<1>1. PICK s \in CellSizes, d \in BOOLEAN, full \in BOOLEAN :
        LET b == [w |-> s.w, h |-> s.h, beside |-> d, shown |-> <<NoBox, NoBox>>, lit |-> {}]
        IN  boxes = [b EXCEPT !.lit = IF full THEN CellPoints(b, 1) \cup CellPoints(b, 2) ELSE {}]
  BY DEF BoxInit
<1> DEFINE b == [w |-> s.w, h |-> s.h, beside |-> d, shown |-> <<NoBox, NoBox>>, lit |-> {}]
           lit == IF full THEN CellPoints(b, 1) \cup CellPoints(b, 2) ELSE {}
           shown == <<NoBox, NoBox>>
<1>2. boxes = [b EXCEPT !.lit = lit]
  BY <1>1, Zenon
<1> HIDE DEF lit
<1>3. boxes = BoxesAt(s.w, s.h, d, shown, lit)
  <2> DEFINE w == s.w
             h == s.h
  <2>1. boxes = [[w |-> w, h |-> h, beside |-> d, shown |-> shown, lit |-> {}] EXCEPT !.lit = lit]
    BY <1>2, Zenon
  <2> HIDE DEF shown, w, h
  <2>2. boxes = BoxesAt(w, h, d, shown, lit)
    BY <2>1 DEF BoxesAt
  <2> QED BY <2>2, Zenon DEF w, h
<1>4. shown \in [1 .. 2 -> BoxChars \cup {NoBox}] /\ \A i \in 1 .. 2 : shown[i] = NoBox
  OBVIOUS
<1> HIDE DEF shown
<1>5. CellsShown(s.w, s.h, d, shown, lit)
  BY <1>4, Zenon DEF CellsShown
<1> QED BY <1>3, <1>4, <1>5, Zenon DEF BoxKept

\* A cell drawn shows its character, and its neighbour what it showed.
LEMMA CellDrawn ==
  ASSUME NEW w \in Nat, w >= 6, NEW h \in Nat, h >= 6, NEW beside \in BOOLEAN,
         NEW shown \in [1 .. 2 -> BoxChars \cup {NoBox}], NEW lit, CellsShown(w, h, beside, shown, lit),
         NEW i \in 1 .. 2, NEW c \in BoxChars, NEW points,
         points = PointsOf([x |-> 0, y |-> 0, w |-> w, h |-> h],
                           CornerAt(w, h, beside, i)[1], CornerAt(w, h, beside, i)[2])
  PROVE  CellsShown(w, h, beside, [shown EXCEPT ![i] = c],
                    (lit \ points) \cup Ink(c, w, h, CornerAt(w, h, beside, i)[1], CornerAt(w, h, beside, i)[2]))
<1> DEFINE left == CornerAt(w, h, beside, i)[1]
           top == CornerAt(w, h, beside, i)[2]
           ink == Ink(c, w, h, left, top)
           new == (lit \ points) \cup ink
           both == [shown EXCEPT ![i] = c]
<1>1. left \in Nat /\ top \in Nat
  BY CornersAre
<1>2. points = (left .. left + w - 1) \X (top .. top + h - 1)
  <2>1. points = (left + 0 .. left + 0 + w - 1) \X (top + 0 .. top + 0 + h - 1)
    BY DEF PointsOf
  <2>2. left + 0 = left /\ top + 0 = top
    BY <1>1
  <2> QED BY <2>1, <2>2
<1>3. /\ \A x, y \in Int : <<left + x, top + y>> \in ink <=> InStrokes(c, w, h, x, y)
      /\ \A p \in ink : \E x \in 0 .. w - 1, y \in 0 .. h - 1 : p = <<left + x, top + y>>
  <2>1. left \in Int /\ top \in Int
    BY <1>1
  <2> HIDE DEF left, top
  <2>2. InkedAs(ink, c, w, h, left, top)
    BY <2>1, InkIs
  <2> HIDE DEF ink
  <2> QED BY <2>2, Zenon DEF InkedAs
<1> HIDE DEF ink
<1>4. ShownIs(w, h, beside, c, new, i)
  <2> SUFFICES ASSUME NEW x \in 0 .. w - 1, NEW y \in 0 .. h - 1
               PROVE  <<left + x, top + y>> \in new <=> InStrokes(c, w, h, x, y)
    BY DEF ShownIs, Lights
  <2>1. <<left + x, top + y>> \in points
    <3> HIDE DEF left, top
    <3>1. left + x \in left .. left + w - 1 /\ top + y \in top .. top + h - 1
      BY <1>1
    <3> QED BY <1>2, <3>1
  <2>2. x \in Int /\ y \in Int
    OBVIOUS
  <2> HIDE DEF left, top
  <2> QED BY <1>3, <2>1, <2>2
<1>5. ASSUME NEW j \in 1 .. 2, j # i, ShownIs(w, h, beside, shown[j], lit, j)
      PROVE  ShownIs(w, h, beside, shown[j], new, j)
  <2> SUFFICES ASSUME NEW x \in 0 .. w - 1, NEW y \in 0 .. h - 1
               PROVE  Lights(w, h, beside, new, j, x, y) <=> Lights(w, h, beside, lit, j, x, y)
    BY <1>5, Zenon DEF ShownIs
  <2> DEFINE a == CornerAt(w, h, beside, j)[1] + x
             b == CornerAt(w, h, beside, j)[2] + y
  <2>1. \A u \in 0 .. w - 1, v \in 0 .. h - 1 : a # left + u \/ b # top + v
    <3> TAKE u \in 0 .. w - 1, v \in 0 .. h - 1
    <3> HIDE DEF new, both
    <3> QED BY <1>5, CornersApart, SMTT(30)
  <2>2. a \in Int /\ b \in Int
    <3>1. CornerAt(w, h, beside, j)[1] \in Nat /\ CornerAt(w, h, beside, j)[2] \in Nat
      BY CornersAre
    <3> QED BY <3>1
  <2> HIDE DEF a, b, left, top
  <2>3. <<a, b>> \notin ink
    BY <1>3, <2>1
  <2>4. <<a, b>> \notin points
    <3> SUFFICES ASSUME <<a, b>> \in points PROVE FALSE
      OBVIOUS
    <3>1. a \in left .. left + w - 1 /\ b \in top .. top + h - 1
      BY <1>2
    <3> DEFINE u == a - left
               v == b - top
    <3>2. u \in 0 .. w - 1 /\ v \in 0 .. h - 1 /\ a = left + u /\ b = top + v
      BY <1>1, <2>2, <3>1
    <3> HIDE DEF u, v
    <3> QED BY <2>1, <3>2
  <2>5. <<a, b>> \in new <=> <<a, b>> \in lit
    BY <2>3, <2>4
  <2> QED BY <2>5, Zenon DEF Lights, a, b
<1>6. both[i] = c /\ \A j \in 1 .. 2 : j # i => both[j] = shown[j]
  OBVIOUS
<1> HIDE DEF new, both
<1>7. CellsShown(w, h, beside, both, new)
  BY <1>4, <1>5, <1>6, Zenon DEF CellsShown
<1> QED BY <1>7, Zenon DEF new, both, ink, left, top

LEMMA BoxesStep == BoxKept /\ BoxNext => BoxKept'
<1> SUFFICES ASSUME BoxKept, BoxNext PROVE BoxKept'
  OBVIOUS
<1>1. PICK s \in CellSizes, beside \in BOOLEAN, shown \in [1 .. 2 -> BoxChars \cup {NoBox}] :
        \E lit : boxes = BoxesAt(s.w, s.h, beside, shown, lit) /\ CellsShown(s.w, s.h, beside, shown, lit)
  BY Zenon DEF BoxKept
<1>2. PICK lit : boxes = BoxesAt(s.w, s.h, beside, shown, lit) /\ CellsShown(s.w, s.h, beside, shown, lit)
  BY <1>1
<1>3. PICK i \in 1 .. 2, c \in BoxChars : drawBoxChar(i, c)
  BY Zenon DEF BoxNext
<1> DEFINE w == s.w
           h == s.h
           at == CornerAt(w, h, beside, i)
           points == PointsOf([x |-> 0, y |-> 0, w |-> w, h |-> h], at[1], at[2])
           ink == Ink(c, w, h, at[1], at[2])
           new == (lit \ points) \cup ink
           both == [shown EXCEPT ![i] = c]
<1>4. w \in Nat /\ w >= 6 /\ h \in Nat /\ h >= 6
  BY SizesAre
<1>5. boxes.w = w /\ boxes.h = h /\ boxes.beside = beside /\ boxes.shown = shown /\ boxes.lit = lit
  <2> HIDE DEF w, h
  <2>1. boxes = BoxesAt(w, h, beside, shown, lit)
    BY <1>2, Zenon DEF w, h
  <2> QED BY <2>1, Zenon DEF BoxesAt
<1>6. Corner(boxes, i) = at
  BY <1>5, Zenon DEF Corner, CornerAt
<1>7. CellPoints(boxes, i) = points
  BY <1>5, <1>6, Zenon DEF CellPoints
<1>8. boxes' = [boxes EXCEPT !.shown[i] = c, !.lit = (@ \ CellPoints(boxes, i)) \cup ink]
  BY <1>3, <1>5, <1>6, Zenon DEF drawBoxChar, Ink
<1>9. boxes' = BoxesAt(w, h, beside, both, new)
  <2>1. boxes' = [[boxes EXCEPT !.shown = [@ EXCEPT ![i] = c]] EXCEPT !.lit = (@ \ CellPoints(boxes, i)) \cup ink]
    BY <1>8
  <2> HIDE DEF w, h, ink, points, both, new
  <2>2. boxes = BoxesAt(w, h, beside, shown, lit)
    BY <1>2, Zenon DEF w, h
  <2>3. [boxes EXCEPT !.shown = both] = BoxesAt(w, h, beside, both, lit)
    BY <2>2 DEF BoxesAt
  <2>4. [BoxesAt(w, h, beside, both, lit) EXCEPT !.lit = new] = BoxesAt(w, h, beside, both, new)
    BY DEF BoxesAt
  <2>5. boxes' = [[boxes EXCEPT !.shown = both] EXCEPT !.lit = new]
    BY <1>5, <1>7, <2>1, Zenon DEF both, new
  <2> QED BY <2>3, <2>4, <2>5, Zenon
<1>10. CellsShown(w, h, beside, both, new)
  <2>1. CellsShown(w, h, beside, shown, lit)
    BY <1>2, Zenon
  <2> HIDE DEF w, h
  <2> QED BY <1>4, <2>1, CellDrawn, Zenon
<1>11. both \in [1 .. 2 -> BoxChars \cup {NoBox}]
  OBVIOUS
<1> HIDE DEF both, new
<1> QED BY <1>9, <1>10, <1>11, Zenon DEF BoxKept

LEMMA BoxesStay == ASSUME BoxKept, UNCHANGED boxes PROVE BoxKept'
BY Zenon DEF BoxKept

-----------------------------------------------------------------------------
(* What the cells show joins *)

LEMMA LanesAre ==
  ASSUME NEW a \in LineStyles, NEW b \in LineStyles, NEW n \in Nat, n >= 6
  PROVE  /\ Lane(a, n \div 2) \subseteq 0 .. n - 1 /\ Lane(a, n \div 2) # {}
         /\ Lane(a, n \div 2) = Lane(b, n \div 2) <=> a = b
<1> DEFINE c == n \div 2
<1>1. c \in Nat /\ c >= 3 /\ 2 * c <= n
  OBVIOUS
<1> HIDE DEF c
<1>2. \A s \in LineStyles :
        /\ s = "light" => Lane(s, c) = {c - 1, c}
        /\ s = "double" => Lane(s, c) = {c - 2, c + 1}
        /\ s = "heavy" => Lane(s, c) = {c - 2, c - 1, c, c + 1}
  <2> TAKE s \in LineStyles
  <2> QED BY <1>1, BandsIs
<1>3. \A s \in LineStyles : Lane(s, c) \subseteq c - 2 .. c + 1 /\ Lane(s, c) # {}
  <2> TAKE s \in LineStyles
  <2>1. s = "light" \/ s = "double" \/ s = "heavy"
    BY DEF LineStyles
  <2> QED BY <1>1, <1>2, <2>1
<1>4. \A s \in LineStyles : /\ s = "light" => c - 2 \notin Lane(s, c) /\ c \in Lane(s, c)
                            /\ s = "double" => c - 2 \in Lane(s, c) /\ c \notin Lane(s, c)
                            /\ s = "heavy" => c - 2 \in Lane(s, c) /\ c \in Lane(s, c)
  <2> TAKE s \in LineStyles
  <2> QED BY <1>1, <1>2
<1>5. (a = "light" \/ a = "double" \/ a = "heavy") /\ (b = "light" \/ b = "double" \/ b = "heavy")
  BY DEF LineStyles
<1>6. Lane(a, c) = Lane(b, c) <=> a = b
  <2>1. Lane(a, c) = Lane(b, c) => (c \in Lane(a, c) <=> c \in Lane(b, c)) /\ (c - 2 \in Lane(a, c) <=> c - 2 \in Lane(b, c))
    OBVIOUS
  <2> QED BY <1>4, <1>5, <2>1, Zenon
<1>7. Lane(a, c) \subseteq 0 .. n - 1
  BY <1>1, <1>3
<1> QED BY <1>3, <1>6, <1>7 DEF c

\* The edge of a drawn cell.
EdgeOf(c, w, h, side) ==
    CASE side = "left" -> {y \in 0 .. h - 1 : "left" \in c.arms /\ y \in Lane(StyleOn(c, Across), h \div 2)}
      [] side = "right" -> {y \in 0 .. h - 1 : "right" \in c.arms /\ y \in Lane(StyleOn(c, Across), h \div 2)}
      [] side = "up" -> {x \in 0 .. w - 1 : "up" \in c.arms /\ x \in Lane(StyleOn(c, Upright), w \div 2)}
      [] side = "down" -> {x \in 0 .. w - 1 : "down" \in c.arms /\ x \in Lane(StyleOn(c, Upright), w \div 2)}

LEMMA EdgeIs ==
  ASSUME NEW w \in Nat, w >= 6, NEW h \in Nat, h >= 6, NEW beside \in BOOLEAN, NEW shown, NEW lit,
         boxes = BoxesAt(w, h, beside, shown, lit), CellsShown(w, h, beside, shown, lit),
         NEW i \in 1 .. 2, shown[i] # NoBox, shown[i] \in BoxChars, ~HalfUpright(shown[i]), NEW side \in Sides
  PROVE  Edge(boxes, i, side) = EdgeOf(shown[i], w, h, side)
<1> DEFINE c == shown[i]
           left == CornerAt(w, h, beside, i)[1]
           top == CornerAt(w, h, beside, i)[2]
<1>1. boxes.w = w /\ boxes.h = h /\ boxes.beside = beside /\ boxes.lit = lit
  BY Zenon DEF BoxesAt
<1>2. Corner(boxes, i) = CornerAt(w, h, beside, i)
  BY <1>1, Zenon DEF Corner, CornerAt
<1>3. left \in Nat /\ top \in Nat
  BY CornersAre
<1>4. \A x \in 0 .. w - 1, y \in 0 .. h - 1 : <<left + x, top + y>> \in lit <=> InStrokes(c, w, h, x, y)
  BY Zenon DEF CellsShown, ShownIs, Lights
<1> HIDE DEF left, top, c
<1>5. /\ \A y \in 0 .. h - 1 :
           /\ InStrokes(c, w, h, 0, y) <=> "left" \in c.arms /\ y \in Lane(StyleOn(c, Across), h \div 2)
           /\ InStrokes(c, w, h, w - 1, y) <=> "right" \in c.arms /\ y \in Lane(StyleOn(c, Across), h \div 2)
      /\ \A x \in 0 .. w - 1 :
           /\ InStrokes(c, w, h, x, 0) <=> "up" \in c.arms /\ x \in Lane(StyleOn(c, Upright), w \div 2)
           /\ InStrokes(c, w, h, x, h - 1) <=> "down" \in c.arms /\ x \in Lane(StyleOn(c, Upright), w \div 2)
  <2>1. c \in BoxChars /\ ~HalfUpright(c)
    BY DEF c
  <2> QED BY <2>1, EdgesAre, Zenon
<1>6. /\ 0 \in 0 .. w - 1 /\ w - 1 \in 0 .. w - 1 /\ 0 \in 0 .. h - 1 /\ h - 1 \in 0 .. h - 1
      /\ left = left + 0 /\ left + w - 1 = left + (w - 1) /\ top = top + 0 /\ top + h - 1 = top + (h - 1)
  BY <1>3
<1>7. \A y \in 0 .. h - 1 : /\ <<left, top + y>> \in lit <=> InStrokes(c, w, h, 0, y)
                            /\ <<left + w - 1, top + y>> \in lit <=> InStrokes(c, w, h, w - 1, y)
  <2> TAKE y \in 0 .. h - 1
  <2>1. <<left + 0, top + y>> \in lit <=> InStrokes(c, w, h, 0, y)
    BY <1>4, <1>6, Zenon
  <2>2. <<left + (w - 1), top + y>> \in lit <=> InStrokes(c, w, h, w - 1, y)
    BY <1>4, <1>6, Zenon
  <2>3. <<left, top + y>> \in lit <=> <<left + 0, top + y>> \in lit
    BY <1>6
  <2>4. <<left + w - 1, top + y>> \in lit <=> <<left + (w - 1), top + y>> \in lit
    BY <1>6
  <2> QED BY <2>1, <2>2, <2>3, <2>4, Zenon
<1>8. \A x \in 0 .. w - 1 : /\ <<left + x, top>> \in lit <=> InStrokes(c, w, h, x, 0)
                            /\ <<left + x, top + h - 1>> \in lit <=> InStrokes(c, w, h, x, h - 1)
  <2> TAKE x \in 0 .. w - 1
  <2>1. <<left + x, top + 0>> \in lit <=> InStrokes(c, w, h, x, 0)
    BY <1>4, <1>6, Zenon
  <2>2. <<left + x, top + (h - 1)>> \in lit <=> InStrokes(c, w, h, x, h - 1)
    BY <1>4, <1>6, Zenon
  <2>3. <<left + x, top>> \in lit <=> <<left + x, top + 0>> \in lit
    BY <1>6
  <2>4. <<left + x, top + h - 1>> \in lit <=> <<left + x, top + (h - 1)>> \in lit
    BY <1>6
  <2> QED BY <2>1, <2>2, <2>3, <2>4, Zenon
<1>9. CASE side = "left"
  <2>1. Edge(boxes, i, side) = {y \in 0 .. h - 1 : <<left, top + y>> \in lit}
    BY <1>1, <1>2, <1>9, Zenon DEF Edge, left, top
  <2>2. EdgeOf(c, w, h, side) = {y \in 0 .. h - 1 : "left" \in c.arms /\ y \in Lane(StyleOn(c, Across), h \div 2)}
    BY <1>9 DEF EdgeOf
  <2> QED BY <1>5, <1>7, <2>1, <2>2, Zenon DEF c
<1>10. CASE side = "right"
  <2>1. Edge(boxes, i, side) = {y \in 0 .. h - 1 : <<left + w - 1, top + y>> \in lit}
    BY <1>1, <1>2, <1>10 DEF Edge, left, top
  <2>2. EdgeOf(c, w, h, side) = {y \in 0 .. h - 1 : "right" \in c.arms /\ y \in Lane(StyleOn(c, Across), h \div 2)}
    BY <1>10 DEF EdgeOf
  <2> QED BY <1>5, <1>7, <2>1, <2>2, Zenon DEF c
<1>11. CASE side = "up"
  <2>1. Edge(boxes, i, side) = {x \in 0 .. w - 1 : <<left + x, top>> \in lit}
    BY <1>1, <1>2, <1>11 DEF Edge, left, top
  <2>2. EdgeOf(c, w, h, side) = {x \in 0 .. w - 1 : "up" \in c.arms /\ x \in Lane(StyleOn(c, Upright), w \div 2)}
    BY <1>11 DEF EdgeOf
  <2> QED BY <1>5, <1>8, <2>1, <2>2, Zenon DEF c
<1>12. CASE side = "down"
  <2>1. Edge(boxes, i, side) = {x \in 0 .. w - 1 : <<left + x, top + h - 1>> \in lit}
    BY <1>1, <1>2, <1>12 DEF Edge, left, top
  <2>2. EdgeOf(c, w, h, side) = {x \in 0 .. w - 1 : "down" \in c.arms /\ x \in Lane(StyleOn(c, Upright), w \div 2)}
    BY <1>12 DEF EdgeOf
  <2> QED BY <1>5, <1>8, <2>1, <2>2, Zenon DEF c
<1> QED BY <1>9, <1>10, <1>11, <1>12 DEF Sides

LEMMA EdgesLit ==
  ASSUME NEW c \in BoxChars, NEW w \in Nat, w >= 6, NEW h \in Nat, h >= 6
  PROVE  /\ "left" \in c.arms => EdgeOf(c, w, h, "left") = Lane(StyleOn(c, Across), h \div 2)
         /\ "right" \in c.arms => EdgeOf(c, w, h, "right") = Lane(StyleOn(c, Across), h \div 2)
         /\ "up" \in c.arms => EdgeOf(c, w, h, "up") = Lane(StyleOn(c, Upright), w \div 2)
         /\ "down" \in c.arms => EdgeOf(c, w, h, "down") = Lane(StyleOn(c, Upright), w \div 2)
         /\ \A s \in Sides : s \in c.arms <=> EdgeOf(c, w, h, s) # {}
<1>1. StyleOn(c, Across) \in LineStyles /\ StyleOn(c, Upright) \in LineStyles
  BY CharIs
<1>2. Lane(StyleOn(c, Across), h \div 2) \subseteq 0 .. h - 1 /\ Lane(StyleOn(c, Across), h \div 2) # {}
  BY <1>1, LanesAre, Zenon
<1>3. Lane(StyleOn(c, Upright), w \div 2) \subseteq 0 .. w - 1 /\ Lane(StyleOn(c, Upright), w \div 2) # {}
  BY <1>1, LanesAre, Zenon
<1> DEFINE la == Lane(StyleOn(c, Across), h \div 2)
           lu == Lane(StyleOn(c, Upright), w \div 2)
<1>4. /\ EdgeOf(c, w, h, "left") = {y \in 0 .. h - 1 : "left" \in c.arms /\ y \in la}
      /\ EdgeOf(c, w, h, "right") = {y \in 0 .. h - 1 : "right" \in c.arms /\ y \in la}
      /\ EdgeOf(c, w, h, "up") = {x \in 0 .. w - 1 : "up" \in c.arms /\ x \in lu}
      /\ EdgeOf(c, w, h, "down") = {x \in 0 .. w - 1 : "down" \in c.arms /\ x \in lu}
  <2> HIDE DEF la, lu
  <2> QED BY DEF EdgeOf, la, lu
<1> HIDE DEF la, lu
<1>5. la \subseteq 0 .. h - 1 /\ la # {} /\ lu \subseteq 0 .. w - 1 /\ lu # {}
  BY <1>2, <1>3 DEF la, lu
<1>6. /\ "left" \in c.arms => EdgeOf(c, w, h, "left") = la
      /\ "right" \in c.arms => EdgeOf(c, w, h, "right") = la
      /\ "up" \in c.arms => EdgeOf(c, w, h, "up") = lu
      /\ "down" \in c.arms => EdgeOf(c, w, h, "down") = lu
  BY <1>4, <1>5, Zenon
<1>7. /\ "left" \notin c.arms => EdgeOf(c, w, h, "left") = {}
      /\ "right" \notin c.arms => EdgeOf(c, w, h, "right") = {}
      /\ "up" \notin c.arms => EdgeOf(c, w, h, "up") = {}
      /\ "down" \notin c.arms => EdgeOf(c, w, h, "down") = {}
  BY <1>4, Zenon
<1>8. \A s \in Sides : s \in c.arms <=> EdgeOf(c, w, h, s) # {}
  BY <1>5, <1>6, <1>7, Zenon DEF Sides
<1> QED BY <1>6, <1>8 DEF la, lu

\* Every stroke of a light or heavy character covers one point in the middle.
LEMMA Middle ==
  ASSUME NEW c \in BoxChars, c.style # "double", NEW w \in Nat, w >= 6, NEW h \in Nat, h >= 6
  PROVE  \E m, k \in Nat : \A r \in Strokes(c, w, h) : <<m, k>> \in PointsOf(r, 0, 0)
<1> DEFINE across == Painted(c) \cap Across
           upright == Painted(c) \cap Upright
           sa == Stretch(across, "left", w)
           su == Stretch(upright, "up", h)
           ba == Bands(StyleOn(c, Across), h \div 2)
           bu == Bands(StyleOn(c, Upright), w \div 2)
<1>1. /\ across # {} => \E m \in {w \div 2 - 1, w \div 2} : Over(sa, m)
      /\ upright # {} => \E m \in {h \div 2 - 1, h \div 2} : Over(su, m)
  BY LinesAre, Zenon
<1>2. \E m \in {w \div 2 - 1, w \div 2} : across # {} => Over(sa, m)
  BY <1>1, Zenon
<1>3. \E m \in {h \div 2 - 1, h \div 2} : upright # {} => Over(su, m)
  BY <1>1, Zenon
<1>4. PICK m \in {w \div 2 - 1, w \div 2} : across # {} => Over(sa, m)
  BY <1>2
<1>5. PICK k \in {h \div 2 - 1, h \div 2} : upright # {} => Over(su, k)
  BY <1>3
<1>6. /\ StyleOn(c, Across) \in LineStyles /\ StyleOn(c, Across) # "double"
      /\ StyleOn(c, Upright) \in LineStyles /\ StyleOn(c, Upright) # "double"
  BY CharIs
<1>7. w \div 2 \in Nat /\ w \div 2 >= 3 /\ h \div 2 \in Nat /\ h \div 2 >= 3
  OBVIOUS
<1>8. \A b \in ba : Over(b, k)
  <2>1. \A b \in ba : Over(b, h \div 2 - 1) /\ Over(b, h \div 2)
    BY <1>6, <1>7, BandsIs
  <2> QED BY <1>5, <2>1, Zenon
<1>9. \A b \in bu : Over(b, m)
  <2>1. \A b \in bu : Over(b, w \div 2 - 1) /\ Over(b, w \div 2)
    BY <1>6, <1>7, BandsIs
  <2> QED BY <1>4, <2>1, Zenon
<1>10. m \in Nat /\ k \in Nat
  BY <1>7
<1>11. ASSUME NEW r \in Strokes(c, w, h) PROVE <<m, k>> \in PointsOf(r, 0, 0)
  <2>1. \/ across # {} /\ \E b \in ba : r = Rectangle(sa, b)
        \/ upright # {} /\ \E b \in bu : r = Rectangle(b, su)
    BY Zenon DEF Strokes
  <2> HIDE DEF sa, su, ba, bu, across, upright
  <2>2. r.x <= m /\ m < r.x + r.w /\ r.y <= k /\ k < r.y + r.h
    <3>1. ASSUME across # {}, NEW b \in ba, r = Rectangle(sa, b)
          PROVE  r.x <= m /\ m < r.x + r.w /\ r.y <= k /\ k < r.y + r.h
      <4>1. r.x = sa[1] /\ r.y = b[1] /\ r.w = sa[2] /\ r.h = b[2]
        BY <3>1 DEF Rectangle
      <4> QED BY <1>4, <1>8, <3>1, <4>1 DEF Over
    <3>2. ASSUME upright # {}, NEW b \in bu, r = Rectangle(b, su)
          PROVE  r.x <= m /\ m < r.x + r.w /\ r.y <= k /\ k < r.y + r.h
      <4>1. r.x = b[1] /\ r.y = su[1] /\ r.w = b[2] /\ r.h = su[2]
        BY <3>2 DEF Rectangle
      <4> QED BY <1>5, <1>9, <3>2, <4>1 DEF Over
    <3> QED BY <2>1, <3>1, <3>2
  <2>3. r.x \in Nat /\ r.y \in Nat /\ r.w \in Nat /\ r.h \in Nat
    BY RectsAre
  <2> QED BY <1>10, <2>2, <2>3 DEF PointsOf
<1> HIDE DEF sa, su, ba, bu, across, upright
<1> QED BY <1>10, <1>11

LEMMA BoxesAreJoined == BoxKept => BoxesJoin
<1> SUFFICES ASSUME BoxKept PROVE BoxesJoin
  OBVIOUS
<1>1. PICK s \in CellSizes, beside \in BOOLEAN, shown \in [1 .. 2 -> BoxChars \cup {NoBox}] :
        \E lit : boxes = BoxesAt(s.w, s.h, beside, shown, lit) /\ CellsShown(s.w, s.h, beside, shown, lit)
  BY Zenon DEF BoxKept
<1>2. PICK lit : boxes = BoxesAt(s.w, s.h, beside, shown, lit) /\ CellsShown(s.w, s.h, beside, shown, lit)
  BY <1>1
<1> DEFINE w == s.w
           h == s.h
<1>3. w \in Nat /\ w >= 6 /\ h \in Nat /\ h >= 6
  BY SizesAre
<1>4. boxes = BoxesAt(w, h, beside, shown, lit) /\ CellsShown(w, h, beside, shown, lit)
  BY <1>2
<1> HIDE DEF w, h
<1>5. boxes.w = w /\ boxes.h = h /\ boxes.beside = beside /\ boxes.shown = shown
  BY <1>4, Zenon DEF BoxesAt
<1>6. \A i \in 1 .. 2 : shown[i] # NoBox => shown[i] \in BoxChars
  OBVIOUS
<1>7. ASSUME NEW i \in 1 .. 2, shown[i] # NoBox, ~HalfUpright(shown[i]), NEW side \in Sides
      PROVE  Edge(boxes, i, side) = EdgeOf(shown[i], w, h, side)
  BY <1>3, <1>4, <1>6, <1>7, EdgeIs
<1>8. LinesReachTheirSides
  <2> SUFFICES ASSUME NEW i \in 1 .. 2, shown[i] # NoBox, ~HalfUpright(shown[i]), NEW side \in Sides
               PROVE  side \in shown[i].arms <=> Edge(boxes, i, side) # {}
    BY <1>5, Zenon DEF LinesReachTheirSides
  <2>1. side \in shown[i].arms <=> EdgeOf(shown[i], w, h, side) # {}
    BY <1>3, <1>6, EdgesLit
  <2> QED BY <1>7, <2>1, Zenon
<1>9. LinesMeet
  <2> DEFINE a == shown[1]
             b == shown[2]
  <2>1. 1 \in 1 .. 2 /\ 2 \in 1 .. 2
    OBVIOUS
  <2>2. ASSUME a # NoBox, b # NoBox, ~HalfUpright(a), ~HalfUpright(b), beside,
               StyleOn(a, Across) = a.style, StyleOn(b, Across) = b.style,
               "right" \in a.arms, "left" \in b.arms
        PROVE  a.style = b.style <=> Edge(boxes, 1, "right") = Edge(boxes, 2, "left")
    <3>1. a \in BoxChars /\ b \in BoxChars
      BY <1>6, <2>1, <2>2, Zenon
    <3>2. EdgeOf(a, w, h, "right") = Lane(a.style, h \div 2) /\ EdgeOf(b, w, h, "left") = Lane(b.style, h \div 2)
      BY <1>3, <2>2, <3>1, EdgesLit
    <3>3. a.style \in LineStyles /\ b.style \in LineStyles
      BY <3>1, CharIs
    <3>4. Lane(a.style, h \div 2) = Lane(b.style, h \div 2) <=> a.style = b.style
      BY <1>3, <3>3, LanesAre
    <3>5. Edge(boxes, 1, "right") = EdgeOf(a, w, h, "right") /\ Edge(boxes, 2, "left") = EdgeOf(b, w, h, "left")
      BY <1>7, <2>1, <2>2, Zenon DEF Sides
    <3> QED BY <3>2, <3>4, <3>5, Zenon
  <2>3. ASSUME a # NoBox, b # NoBox, ~HalfUpright(a), ~HalfUpright(b), ~beside,
               StyleOn(a, Upright) = a.style, StyleOn(b, Upright) = b.style,
               "down" \in a.arms, "up" \in b.arms
        PROVE  a.style = b.style <=> Edge(boxes, 1, "down") = Edge(boxes, 2, "up")
    <3>1. a \in BoxChars /\ b \in BoxChars
      BY <1>6, <2>1, <2>3, Zenon
    <3>2. EdgeOf(a, w, h, "down") = Lane(a.style, w \div 2) /\ EdgeOf(b, w, h, "up") = Lane(b.style, w \div 2)
      BY <1>3, <2>3, <3>1, EdgesLit
    <3>3. a.style \in LineStyles /\ b.style \in LineStyles
      BY <3>1, CharIs
    <3>4. Lane(a.style, w \div 2) = Lane(b.style, w \div 2) <=> a.style = b.style
      BY <1>3, <3>3, LanesAre
    <3>5. Edge(boxes, 1, "down") = EdgeOf(a, w, h, "down") /\ Edge(boxes, 2, "up") = EdgeOf(b, w, h, "up")
      BY <1>7, <2>1, <2>3, Zenon DEF Sides
    <3> QED BY <3>2, <3>4, <3>5, Zenon
  <2> HIDE DEF a, b
  <2>4. CASE beside
    <3>1. LinesMeet <=> (a # NoBox /\ b # NoBox /\ ~HalfUpright(a) /\ ~HalfUpright(b)
                         /\ StyleOn(a, Across) = a.style /\ StyleOn(b, Across) = b.style
                         /\ "right" \in a.arms /\ "left" \in b.arms =>
                           (a.style = b.style <=> Edge(boxes, 1, "right") = Edge(boxes, 2, "left")))
      BY <1>5, <2>4 DEF LinesMeet, a, b
    <3> QED BY <2>2, <2>4, <3>1, Zenon
  <2>5. CASE ~beside
    <3>1. LinesMeet <=> (a # NoBox /\ b # NoBox /\ ~HalfUpright(a) /\ ~HalfUpright(b)
                         /\ StyleOn(a, Upright) = a.style /\ StyleOn(b, Upright) = b.style
                         /\ "down" \in a.arms /\ "up" \in b.arms =>
                           (a.style = b.style <=> Edge(boxes, 1, "down") = Edge(boxes, 2, "up")))
      BY <1>5, <2>5 DEF LinesMeet, a, b
    <3> QED BY <2>3, <2>5, <3>1, Zenon
  <2> QED BY <2>4, <2>5
<1>10. LinesJoin
  <2> SUFFICES ASSUME NEW i \in 1 .. 2, shown[i] # NoBox, shown[i].style # "double",
                      NEW p \in Strokes(shown[i], w, h), NEW q \in Strokes(shown[i], w, h)
               PROVE  PointsOf(p, 0, 0) \cap PointsOf(q, 0, 0) # {}
    BY <1>5, Zenon DEF LinesJoin
  <2>1. shown[i] \in BoxChars
    BY <1>6
  <2>2. PICK m, k \in Nat : \A r \in Strokes(shown[i], w, h) : <<m, k>> \in PointsOf(r, 0, 0)
    BY <1>3, <2>1, Middle, Zenon
  <2> QED BY <2>2
<1> QED BY <1>8, <1>9, <1>10 DEF BoxesJoin

-----------------------------------------------------------------------------
(* The parts of MCDevice that draw *)

DrawingKept ==
    /\ part = "glyph" => DrawKept
    /\ part = "box" => BoxKept
    /\ part = "pixel" => PixelsKept

LEMMA DrawingStart == Init => DrawingKept
<1> SUFFICES ASSUME Init PROVE DrawingKept
  OBVIOUS
<1>1. /\ part = "glyph" => DrawInit
      /\ part = "box" => BoxInit
      /\ part = "pixel" => PixelInit
  BY DEF Init
<1> QED BY <1>1, DrawingStarts, BoxesStart, PixelsStart DEF DrawingKept

LEMMA DrawingStep == DrawingKept /\ [Next]_vars => DrawingKept'
<1> SUFFICES ASSUME DrawingKept, [Next]_vars PROVE DrawingKept'
  OBVIOUS
<1>1. /\ UNCHANGED part
      /\ part = "glyph" => DrawNext \/ UNCHANGED drawing
      /\ part = "box" => BoxNext \/ UNCHANGED boxes
      /\ part = "pixel" => PixelNext \/ UNCHANGED px
  <2>1. CASE Next
    BY <2>1 DEF Next
  <2>2. CASE UNCHANGED vars
    BY <2>2 DEF vars
  <2> QED BY <2>1, <2>2
<1>2. part = "glyph" => DrawKept'
  BY <1>1, DrawingSteps, DrawingStays DEF DrawingKept
<1>3. part = "box" => BoxKept'
  BY <1>1, BoxesStep, BoxesStay DEF DrawingKept
<1>4. part = "pixel" => PixelsKept'
  BY <1>1, PixelsStep, PixelsStay DEF DrawingKept
<1> QED BY <1>1, <1>2, <1>3, <1>4 DEF DrawingKept

LEMMA DrawingAlwaysKept == Spec => []DrawingKept
<1> QED BY DrawingStart, DrawingStep, PTL DEF Spec

\* Text and glyphs come out whole and upright, frames of box characters have no
\* gaps, and blending keeps each component of a pixel between its two colours,
\* on screens, cells (from six by six pixels on, for box characters), glyphs,
\* runs and rows of every size and for every colour (Screen::drawText,
\* drawGlyph, drawBoxChar, screen_render.cpp, screen_sixel.cpp).
THEOREM TextStaysDrawn == Spec => []TextIsDrawn
<1>1. DrawingKept => TextIsDrawn
  BY DrawingIsRight, BoxesAreJoined, PixelsAreRight DEF DrawingKept, TextIsDrawn, PixelsRight
<1> QED BY <1>1, DrawingAlwaysKept, PTL

=============================================================================
