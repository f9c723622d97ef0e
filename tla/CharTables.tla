----------------------------- MODULE CharTables -----------------------------
(***************************************************************************)
(* The tables that turn an 8-bit code into a character                     *)
(* (src/src/lib/charsetmap.cpp): Latin-1, VT100 graphics, the IBM PC code  *)
(* page and the direct mapping of fonts.                                   *)
(***************************************************************************)
EXTENDS Naturals, Sequences

Charsets == {"Lat1Map", "GrafMap", "IbmpcMap", "UserMap"}

\* Where the two irregular tables differ from Latin-1: from the code in
\* front, the characters of the codes that follow it.
GrafRuns ==
  { <<43, <<8594, 8592, 8593, 8595, 47, 9608>> >>,
     <<95,
       <<160, 9670, 9618, 9225, 9228, 9229, 9226, 176, 177, 9617, 9227,
       9496, 9488, 9484, 9492, 9532, 9146, 9147, 9472, 9148, 9149,
       9500, 9508, 9524, 9516, 9474, 8804, 8805, 960, 8800, 163, 183>> >> }
IbmpcRuns ==
  { <<0,
       <<0, 9786, 9787, 9829, 9830, 9827, 9824, 8226, 9688, 9675, 9689,
       9794, 9792, 9834, 9835, 9788, 9654, 9664, 8597, 8252, 182, 167,
       9644, 8616, 8593, 8595, 8594, 8592, 8735, 8596, 9650, 9660>> >>,
     <<127,
       <<8962, 199, 252, 233, 226, 228, 224, 229, 231, 234, 235, 232,
       239, 238, 236, 196, 197, 201, 230, 198, 244, 246, 242, 251,
       249, 255, 214, 220, 162, 163, 165, 8359, 402, 225, 237, 243,
       250, 241, 209, 170, 186, 191, 8976, 172, 189, 188, 161, 171,
       187, 9617, 9618, 9619, 9474, 9508, 9569, 9570, 9558, 9557,
       9571, 9553, 9559, 9565, 9564, 9563, 9488, 9492, 9524, 9516,
       9500, 9472, 9532, 9566, 9567, 9562, 9556, 9577, 9574, 9568,
       9552, 9580, 9575, 9576, 9572, 9573, 9561, 9560, 9554, 9555,
       9579, 9578, 9496, 9484, 9608, 9604, 9612, 9616, 9600, 945, 223,
       915, 960, 931, 963, 181, 964, 934, 920, 937, 948, 8734, 966,
       949, 8745, 8801, 177, 8805, 8804, 8992, 8993, 247, 8776, 176,
       8729, 183, 8730, 8319, 178, 9632, 160>> >> }

Patched(runs, c) ==
  IF \E r \in runs : c \in r[1] .. r[1] + Len(r[2]) - 1
  THEN LET r == CHOOSE r \in runs : c \in r[1] .. r[1] + Len(r[2]) - 1
       IN  r[2][c - r[1] + 1]
  ELSE c

translations ==
  [ Lat1Map  |-> [c \in 0 .. 255 |-> c],
    GrafMap  |-> [c \in 0 .. 255 |-> Patched(GrafRuns, c)],
    IbmpcMap |-> [c \in 0 .. 255 |-> Patched(IbmpcRuns, c)],
    UserMap  |-> [c \in 0 .. 255 |-> 61440 + c] ]

translate_char(charset, c) ==
  IF c >= 256 THEN c ELSE translations[charset][c]
=============================================================================
