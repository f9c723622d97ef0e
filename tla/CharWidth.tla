------------------------------ MODULE CharWidth ------------------------------
(***************************************************************************)
(* The columns a character takes (src/src/lib/wcwidth.cpp): a binary search *)
(* in two tables, ranges of wide characters, and the width of its glyph.    *)
(***************************************************************************)
EXTENDS Integers, Sequences, FiniteSetsExt

CONSTANT Fonts      \* pairs <<Font::width(), glyphWidth>> of a font and a glyph
ASSUME FontsAssumption == Fonts \subseteq Nat \X Nat

VARIABLES ucs,      \* the character asked for, an element of Samples
          metric    \* and the font's metrics for it
widthVars == <<ucs, metric>>

combining == <<
    <<\h300, \h36F>>, <<\h483, \h486>>, <<\h488, \h489>>, <<\h591, \h5BD>>, <<\h5BF, \h5BF>>,
    <<\h5C1, \h5C2>>, <<\h5C4, \h5C5>>, <<\h5C7, \h5C7>>, <<\h600, \h603>>, <<\h610, \h615>>,
    <<\h64B, \h65E>>, <<\h670, \h670>>, <<\h6D6, \h6E4>>, <<\h6E7, \h6E8>>, <<\h6EA, \h6ED>>,
    <<\h70F, \h70F>>, <<\h711, \h711>>, <<\h730, \h74A>>, <<\h7A6, \h7B0>>, <<\h7EB, \h7F3>>,
    <<\h901, \h902>>, <<\h93C, \h93C>>, <<\h941, \h948>>, <<\h94D, \h94D>>, <<\h951, \h954>>,
    <<\h962, \h963>>, <<\h981, \h981>>, <<\h9BC, \h9BC>>, <<\h9C1, \h9C4>>, <<\h9CD, \h9CD>>,
    <<\h9E2, \h9E3>>, <<\hA01, \hA02>>, <<\hA3C, \hA3C>>, <<\hA41, \hA42>>, <<\hA47, \hA48>>,
    <<\hA4B, \hA4D>>, <<\hA70, \hA71>>, <<\hA81, \hA82>>, <<\hABC, \hABC>>, <<\hAC1, \hAC5>>,
    <<\hAC7, \hAC8>>, <<\hACD, \hACD>>, <<\hAE2, \hAE3>>, <<\hB01, \hB01>>, <<\hB3C, \hB3C>>,
    <<\hB3F, \hB3F>>, <<\hB41, \hB43>>, <<\hB4D, \hB4D>>, <<\hB56, \hB56>>, <<\hB82, \hB82>>,
    <<\hBC0, \hBC0>>, <<\hBCD, \hBCD>>, <<\hC3E, \hC40>>, <<\hC46, \hC48>>, <<\hC4A, \hC4D>>,
    <<\hC55, \hC56>>, <<\hCBC, \hCBC>>, <<\hCBF, \hCBF>>, <<\hCC6, \hCC6>>, <<\hCCC, \hCCD>>,
    <<\hCE2, \hCE3>>, <<\hD41, \hD43>>, <<\hD4D, \hD4D>>, <<\hDCA, \hDCA>>, <<\hDD2, \hDD4>>,
    <<\hDD6, \hDD6>>, <<\hE31, \hE31>>, <<\hE34, \hE3A>>, <<\hE47, \hE4E>>, <<\hEB1, \hEB1>>,
    <<\hEB4, \hEB9>>, <<\hEBB, \hEBC>>, <<\hEC8, \hECD>>, <<\hF18, \hF19>>, <<\hF35, \hF35>>,
    <<\hF37, \hF37>>, <<\hF39, \hF39>>, <<\hF71, \hF7E>>, <<\hF80, \hF84>>, <<\hF86, \hF87>>,
    <<\hF90, \hF97>>, <<\hF99, \hFBC>>, <<\hFC6, \hFC6>>, <<\h102D, \h1030>>, <<\h1032, \h1032>>,
    <<\h1036, \h1037>>, <<\h1039, \h1039>>, <<\h1058, \h1059>>, <<\h1160, \h11FF>>, <<\h135F, \h135F>>,
    <<\h1712, \h1714>>, <<\h1732, \h1734>>, <<\h1752, \h1753>>, <<\h1772, \h1773>>, <<\h17B4, \h17B5>>,
    <<\h17B7, \h17BD>>, <<\h17C6, \h17C6>>, <<\h17C9, \h17D3>>, <<\h17DD, \h17DD>>, <<\h180B, \h180D>>,
    <<\h18A9, \h18A9>>, <<\h1920, \h1922>>, <<\h1927, \h1928>>, <<\h1932, \h1932>>, <<\h1939, \h193B>>,
    <<\h1A17, \h1A18>>, <<\h1B00, \h1B03>>, <<\h1B34, \h1B34>>, <<\h1B36, \h1B3A>>, <<\h1B3C, \h1B3C>>,
    <<\h1B42, \h1B42>>, <<\h1B6B, \h1B73>>, <<\h1DC0, \h1DCA>>, <<\h1DFE, \h1DFF>>, <<\h200B, \h200F>>,
    <<\h202A, \h202E>>, <<\h2060, \h2063>>, <<\h206A, \h206F>>, <<\h20D0, \h20EF>>, <<\h302A, \h302F>>,
    <<\h3099, \h309A>>, <<\hA806, \hA806>>, <<\hA80B, \hA80B>>, <<\hA825, \hA826>>, <<\hFB1E, \hFB1E>>,
    <<\hFE00, \hFE0F>>, <<\hFE20, \hFE23>>, <<\hFEFF, \hFEFF>>, <<\hFFF9, \hFFFB>>, <<\h10A01, \h10A03>>,
    <<\h10A05, \h10A06>>, <<\h10A0C, \h10A0F>>, <<\h10A38, \h10A3A>>, <<\h10A3F, \h10A3F>>,
    <<\h1D167, \h1D169>>, <<\h1D173, \h1D182>>, <<\h1D185, \h1D18B>>, <<\h1D1AA, \h1D1AD>>,
    <<\h1D242, \h1D244>>, <<\hE0001, \hE0001>>, <<\hE0020, \hE007F>>, <<\hE0100, \hE01EF>> >>

ambiguous == <<
    <<\hA1, \hA1>>, <<\hA4, \hA4>>, <<\hA7, \hA8>>, <<\hAA, \hAA>>, <<\hAE, \hAE>>, <<\hB0, \hB4>>,
    <<\hB6, \hBA>>, <<\hBC, \hBF>>, <<\hC6, \hC6>>, <<\hD0, \hD0>>, <<\hD7, \hD8>>, <<\hDE, \hE1>>,
    <<\hE6, \hE6>>, <<\hE8, \hEA>>, <<\hEC, \hED>>, <<\hF0, \hF0>>, <<\hF2, \hF3>>, <<\hF7, \hFA>>,
    <<\hFC, \hFC>>, <<\hFE, \hFE>>, <<\h101, \h101>>, <<\h111, \h111>>, <<\h113, \h113>>, <<\h11B, \h11B>>,
    <<\h126, \h127>>, <<\h12B, \h12B>>, <<\h131, \h133>>, <<\h138, \h138>>, <<\h13F, \h142>>,
    <<\h144, \h144>>, <<\h148, \h14B>>, <<\h14D, \h14D>>, <<\h152, \h153>>, <<\h166, \h167>>,
    <<\h16B, \h16B>>, <<\h1CE, \h1CE>>, <<\h1D0, \h1D0>>, <<\h1D2, \h1D2>>, <<\h1D4, \h1D4>>,
    <<\h1D6, \h1D6>>, <<\h1D8, \h1D8>>, <<\h1DA, \h1DA>>, <<\h1DC, \h1DC>>, <<\h251, \h251>>,
    <<\h261, \h261>>, <<\h2C4, \h2C4>>, <<\h2C7, \h2C7>>, <<\h2C9, \h2CB>>, <<\h2CD, \h2CD>>,
    <<\h2D0, \h2D0>>, <<\h2D8, \h2DB>>, <<\h2DD, \h2DD>>, <<\h2DF, \h2DF>>, <<\h391, \h3A1>>,
    <<\h3A3, \h3A9>>, <<\h3B1, \h3C1>>, <<\h3C3, \h3C9>>, <<\h401, \h401>>, <<\h410, \h44F>>,
    <<\h451, \h451>>, <<\h2010, \h2010>>, <<\h2013, \h2016>>, <<\h2018, \h2019>>, <<\h201C, \h201D>>,
    <<\h2020, \h2022>>, <<\h2024, \h2027>>, <<\h2030, \h2030>>, <<\h2032, \h2033>>, <<\h2035, \h2035>>,
    <<\h203B, \h203B>>, <<\h203E, \h203E>>, <<\h2074, \h2074>>, <<\h207F, \h207F>>, <<\h2081, \h2084>>,
    <<\h20AC, \h20AC>>, <<\h2103, \h2103>>, <<\h2105, \h2105>>, <<\h2109, \h2109>>, <<\h2113, \h2113>>,
    <<\h2116, \h2116>>, <<\h2121, \h2122>>, <<\h2126, \h2126>>, <<\h212B, \h212B>>, <<\h2153, \h2154>>,
    <<\h215B, \h215E>>, <<\h2160, \h216B>>, <<\h2170, \h2179>>, <<\h2190, \h2199>>, <<\h21B8, \h21B9>>,
    <<\h21D2, \h21D2>>, <<\h21D4, \h21D4>>, <<\h21E7, \h21E7>>, <<\h2200, \h2200>>, <<\h2202, \h2203>>,
    <<\h2207, \h2208>>, <<\h220B, \h220B>>, <<\h220F, \h220F>>, <<\h2211, \h2211>>, <<\h2215, \h2215>>,
    <<\h221A, \h221A>>, <<\h221D, \h2220>>, <<\h2223, \h2223>>, <<\h2225, \h2225>>, <<\h2227, \h222C>>,
    <<\h222E, \h222E>>, <<\h2234, \h2237>>, <<\h223C, \h223D>>, <<\h2248, \h2248>>, <<\h224C, \h224C>>,
    <<\h2252, \h2252>>, <<\h2260, \h2261>>, <<\h2264, \h2267>>, <<\h226A, \h226B>>, <<\h226E, \h226F>>,
    <<\h2282, \h2283>>, <<\h2286, \h2287>>, <<\h2295, \h2295>>, <<\h2299, \h2299>>, <<\h22A5, \h22A5>>,
    <<\h22BF, \h22BF>>, <<\h2312, \h2312>>, <<\h2460, \h24E9>>, <<\h24EB, \h254B>>, <<\h2550, \h2573>>,
    <<\h2580, \h258F>>, <<\h2592, \h2595>>, <<\h25A0, \h25A1>>, <<\h25A3, \h25A9>>, <<\h25B2, \h25B3>>,
    <<\h25B6, \h25B7>>, <<\h25BC, \h25BD>>, <<\h25C0, \h25C1>>, <<\h25C6, \h25C8>>, <<\h25CB, \h25CB>>,
    <<\h25CE, \h25D1>>, <<\h25E2, \h25E5>>, <<\h25EF, \h25EF>>, <<\h2605, \h2606>>, <<\h2609, \h2609>>,
    <<\h260E, \h260F>>, <<\h2614, \h2615>>, <<\h261C, \h261C>>, <<\h261E, \h261E>>, <<\h2640, \h2640>>,
    <<\h2642, \h2642>>, <<\h2660, \h2661>>, <<\h2663, \h2665>>, <<\h2667, \h266A>>, <<\h266C, \h266D>>,
    <<\h266F, \h266F>>, <<\h273D, \h273D>>, <<\h2776, \h277F>>, <<\hE000, \hF8FF>>, <<\hFFFD, \hFFFD>>,
    <<\hF0000, \hFFFFD>>, <<\h100000, \h10FFFD>> >>

\* bisearch: the interval [min, max] of the code is [lo - 1, hi - 1] here.
bisearch(u, table) ==
    LET look[lo \in 1 .. Len(table) + 1, hi \in 0 .. Len(table)] ==
          LET mid == (lo + hi - 2) \div 2
          IN  IF hi < lo THEN FALSE
              ELSE IF u > table[mid + 1][2] THEN look[mid + 2, hi]
              ELSE IF u < table[mid + 1][1] THEN look[lo, mid]
              ELSE TRUE
    IN  /\ table[1][1] <= u /\ u <= table[Len(table)][2]
        /\ look[1, Len(table)]

\* The condition at the end of mk_wcwidth, as the ranges it accepts.
WideRanges ==
    { <<\h1100, \h115F>>, <<\h2329, \h232A>>, <<\h2E80, \h303E>>, <<\h3040, \hA4CF>>,
      <<\hAC00, \hD7A3>>, <<\hF900, \hFAFF>>, <<\hFE10, \hFE19>>, <<\hFE30, \hFE6F>>,
      <<\hFF00, \hFF60>>, <<\hFFE0, \hFFE6>>, <<\h20000, \h2FFFD>>, <<\h30000, \h3FFFD>> }

In(u, ranges) == \E r \in ranges : r[1] <= u /\ u <= r[2]

mk_wcwidth(u) ==
    IF u = 0 THEN 0
    ELSE IF u < 32 \/ (\h7F <= u /\ u < \hA0) THEN -1
    ELSE IF bisearch(u, combining) THEN 0
    ELSE IF In(u, WideRanges) THEN 2 ELSE 1

mk_wcwidth_cjk(u) == IF bisearch(u, ambiguous) THEN 2 ELSE mk_wcwidth(u)

PrivateUse == {<<\hE000, \hF8FF>>, <<\hF0000, \hFFFFD>>, <<\h100000, \h10FFFD>>}

\* charWidth: a glyph more than three tenths wider than a cell takes two.
charWidth(u, ambiguous_wide, m) ==
    LET w == IF ambiguous_wide THEN mk_wcwidth_cjk(u) ELSE mk_wcwidth(u)
    IN  IF w = 1 /\ ~In(u, PrivateUse) /\ m[2] > 0 /\ m[2] > (m[1] * 13) \div 10
        THEN 2 ELSE w

-----------------------------------------------------------------------------
RangeSet(table) == {table[i] : i \in DOMAIN table}
Around(r) == {r[1] - 1, r[1], r[2], r[2] + 1}

\* Every edge of every range, and both sides of it.
Samples ==
    (UNION {Around(r) : r \in RangeSet(combining) \cup RangeSet(ambiguous)
                              \cup WideRanges \cup PrivateUse
                              \cup {<<0, 31>>, <<\h7F, \h9F>>, <<\hAD, \hAD>>, <<\h303F, \h303F>>}})
    \ {-1}

WidthInit == ucs = Min(Samples) /\ metric \in Fonts

\* The next sample.
WidthNext ==
    LET later == {s \in Samples : s > ucs}
    IN  later # {} /\ ucs' = Min(later) /\ UNCHANGED metric

WidthSpec == WidthInit /\ [][WidthNext]_widthVars

-----------------------------------------------------------------------------
\* The binary search finds exactly the members of its table, at both ends and
\* between any two neighbours.
SearchIsMembership ==
    /\ bisearch(ucs, combining) = In(ucs, RangeSet(combining))
    /\ bisearch(ucs, ambiguous) = In(ucs, RangeSet(ambiguous))

\* Widening is one way and for printable characters of one column: the option
\* ambiguous-wide gives columns to ambiguous characters, a wide glyph to any but
\* the icons of the private use area; control and combining characters get none.
WideningIsOneWay ==
    \A ambiguous_wide \in BOOLEAN :
        LET narrow == mk_wcwidth(ucs)
            table  == IF ambiguous_wide THEN mk_wcwidth_cjk(ucs) ELSE narrow
            w == charWidth(ucs, ambiguous_wide, metric)
        IN  /\ table # narrow => narrow = 1 /\ In(ucs, RangeSet(ambiguous))
            /\ w # table => table = 1 /\ w = 2 /\ ~In(ucs, PrivateUse)
            /\ narrow <= 0 => w = narrow
=============================================================================
