---------------------------- MODULE EscapeParser ----------------------------
(***************************************************************************)
(* How VTerm::input takes bytes apart (src/src/lib/vterm.cpp,              *)
(* vterm_states.cpp): UTF-8 decoding, the character sets, the state table  *)
(* of control sequences, their parameters, and the collection of device    *)
(* control strings.                                                        *)
(*                                                                         *)
(* What the handlers do to rows, attributes and the cursor is the matter   *)
(* of other modules; here each of them is an event that carries the        *)
(* parameters it is called with.  Handlers that change how later bytes are *)
(* read (character sets, UTF-8 mode, SGR 10 to 12, palette digits, reset)  *)
(* are complete.                                                           *)
(***************************************************************************)
EXTENDS Integers, FiniteSetsExt, TermParams, CharTables

CONSTANTS
  InputBytes,     \* the bytes a program may print
  NPAR,           \* number of parameters kept
  Word,           \* number of values of a u16 parameter
  DcsUnit,        \* first capacity of the DCS buffer
  AllocFails,     \* whether realloc may fail
  MaxSequence,    \* bound: bytes of one character or sequence
  MaxDcs          \* bound: bytes of a device control string

ASSUME ParserAssumption ==
  /\ InputBytes \subseteq 0 .. 255
  /\ NPAR \in Nat /\ NPAR >= 8        \* set_palette counts to seven
  /\ DcsUnit \in Nat /\ DcsUnit >= 2
  /\ Word \in Nat \ {0}
  /\ AllocFails \in BOOLEAN
  /\ MaxSequence \in Nat /\ MaxDcs \in Nat

VARIABLES
  parser,    \* the fields of VTerm that decide how a byte is read
  taken,     \* the bytes of the character or sequence being received
  emitted    \* what the last byte set off: characters and handler calls

parserVars == <<parser, taken, emitted>>

BEL == 7   CAN == 24   ESC == 27   DEL == 127   CSI == 155
Replacement == 65533

EscapeStates == {"normal", "esc", "square", "nonstd", "percent", "charset",
                 "hash", "dcs", "funckey"}

-----------------------------------------------------------------------------
(* The transition tables.  A handler "none" is no call; next state "keep". *)

Row(codes, action, next) == [codes |-> codes, action |-> action, next |-> next]

control_sequences ==
  { Row({7}, "bell", "keep"), Row({8}, "bs", "keep"), Row({9}, "tab", "keep"),
    Row(10 .. 12, "lf", "keep"), Row({13}, "cr", "keep"),
    Row({14}, "active_g1", "keep"), Row({15}, "active_g0", "keep"),
    Row({24, 26}, "none", "normal"), Row({27}, "none", "esc"),
    Row({127}, "none", "keep"), Row({155}, "none", "square") }

\* The letters of the code are written as their numbers.
escape_sequences ==
  [ normal  |-> {},
    esc     |-> { Row({91}, "clear_param", "square"),
                  Row({93}, "clear_param", "nonstd"),
                  Row({37}, "none", "percent"), Row({35}, "none", "hash"),
                  Row({40}, "current_is_g0", "charset"),
                  Row({41}, "current_is_g1", "charset"),
                  Row({99}, "reset", "normal"),
                  Row({68}, "index_down", "normal"),
                  Row({69}, "next_line", "normal"),
                  Row({72}, "set_tab", "normal"),
                  Row({77}, "index_up", "normal"),
                  Row({90}, "respond_id", "normal"),
                  Row({55}, "save_cursor", "normal"),
                  Row({56}, "restore_cursor", "normal"),
                  Row({62}, "keypad_numeric", "normal"),
                  Row({61}, "keypad_application", "normal"),
                  Row({80}, "enter_dcs", "dcs") },
    square  |-> { Row({91}, "none", "funckey"),
                  Row({63}, "set_q_mode", "keep"),
                  Row(48 .. 57, "param_digit", "keep"),
                  Row({59}, "next_param", "keep"),
                  Row({64}, "insert_char", "normal"),
                  Row({65}, "cursor_up", "normal"),
                  Row({66, 101}, "cursor_down", "normal"),
                  Row({67, 97}, "cursor_right", "normal"),
                  Row({68}, "cursor_left", "normal"),
                  Row({69}, "cursor_down_cr", "normal"),
                  Row({70}, "cursor_up_cr", "normal"),
                  Row({71, 96}, "cursor_position_col", "normal"),
                  Row({72, 102}, "cursor_position", "normal"),
                  Row({74}, "erase_display", "normal"),
                  Row({75}, "erase_line", "normal"),
                  Row({76}, "insert_line", "normal"),
                  Row({77}, "delete_line", "normal"),
                  Row({80}, "delete_char", "normal"),
                  Row({88}, "erase_char", "normal"),
                  Row({99}, "set_cursor_type", "normal"),
                  Row({100}, "cursor_position_row", "normal"),
                  Row({103}, "clear_tab", "normal"),
                  Row({104}, "set_mode", "normal"),
                  Row({108}, "clear_mode", "normal"),
                  Row({109}, "set_display_attr", "normal"),
                  Row({110}, "status_report", "normal"),
                  Row({113}, "set_led", "normal"),
                  Row({114}, "set_margins", "normal"),
                  Row({115}, "save_cursor", "normal"),
                  Row({117}, "restore_cursor", "normal"),
                  Row({93}, "linux_specific", "normal"),
                  Row({125}, "fbterm_specific", "normal") },
    nonstd  |-> { Row((48 .. 57) \cup (65 .. 70) \cup (97 .. 102),
                      "set_palette", "keep"),
                  Row({80}, "begin_set_palette", "keep"),
                  Row({82}, "reset_palette", "normal") },
    percent |-> { Row({64}, "clear_utf8", "normal"),
                  Row({71, 56}, "set_utf8", "normal") },
    charset |-> { Row({48, 66, 85, 75}, "set_charset", "normal") },
    hash    |-> { Row({56}, "screen_align", "normal") },
    dcs     |-> {},
    funckey |-> {} ]

\* The table row of code c, or the one a missing entry falls back to.
Entry(table, c, default) ==
  IF \E r \in table : c \in r.codes
  THEN CHOOSE r \in table : c \in r.codes
  ELSE Row({}, "none", default)

-----------------------------------------------------------------------------
(* The handlers that change how later bytes are read *)

NoParams == [i \in 0 .. NPAR - 1 |-> 0]

clear_param(p) ==
  [p EXCEPT !.q_mode = FALSE, !.palette_mode = FALSE, !.npar = 0,
            !.param = NoParams]

param_digit(p, c) ==
  [p EXCEPT !.param[p.npar] = (p.param[p.npar] * 10 + c - 48) % Word]

next_param(p) == IF p.npar < NPAR - 1 THEN [p EXCEPT !.npar = @ + 1] ELSE p

HexDigit(c) ==
  IF c >= 97 THEN c - 87 ELSE IF c >= 65 THEN c - 55 ELSE c - 48

set_palette(p, c) ==
  IF ~p.palette_mode THEN [p EXCEPT !.esc_state = "normal"]
  ELSE [p EXCEPT !.param[p.npar] = HexDigit(c), !.npar = @ + 1,
                 !.esc_state = IF p.npar = 6 THEN "normal" ELSE @]

begin_set_palette(p) ==
  IF p.palette_mode \/ p.npar > 0 THEN [p EXCEPT !.esc_state = "normal"]
  ELSE [p EXCEPT !.palette_mode = TRUE]

reset(p) ==
  [p EXCEPT !.utf8 = TRUE, !.utf8_count = 0, !.esc_state = "normal",
            !.g0_is_active = TRUE, !.charset = "Lat1Map",
            !.g0_charset = "Lat1Map", !.g1_charset = "GrafMap",
            !.display_ctrl = FALSE, !.toggle_meta = FALSE]

set_charset(p, c) ==
  LET m == CASE c = 48 -> "Lat1Map" [] c = 66 -> "GrafMap"
             [] c = 85 -> "IbmpcMap" [] c = 75 -> "UserMap"
  IN  IF p.g0_is_current THEN [p EXCEPT !.g0_charset = m]
                         ELSE [p EXCEPT !.g1_charset = m]

active_g0(p) ==
  [p EXCEPT !.charset = p.g0_charset, !.g0_is_active = TRUE,
            !.display_ctrl = FALSE]
active_g1(p) ==
  [p EXCEPT !.charset = p.g1_charset, !.g0_is_active = FALSE,
            !.display_ctrl = TRUE]

save_charsets(p) ==
  [p EXCEPT !.saved = {[g0 |-> p.g0_charset, g1 |-> p.g1_charset,
                        g0_is_active |-> p.g0_is_active]}]

\* Before the first save_cursor (saved is empty) the saved fields were never
\* written: they hold what the memory held, some s (see SavedCharsets).
restore_charsets(p, s) ==
  [p EXCEPT !.g0_charset = s.g0, !.g1_charset = s.g1,
            !.g0_is_active = s.g0_is_active, !.saved = {s},
            !.charset = IF s.g0_is_active THEN s.g0 ELSE s.g1]

display_ctrl_mode(p, enable) ==
  IF p.param[0] = 3 /\ ~p.q_mode THEN [p EXCEPT !.display_ctrl = enable] ELSE p

\* SGR 10, 11 and 12 select how bytes become characters; the last one counts.
sgr_charset(p) ==
  LET items == SelectSeq(SgrItems(p.param, p.npar),
                         LAMBDA i : i[1] \in 10 .. 12)
      last  == items[Len(items)][1]
  IN  IF items = << >> THEN p
      ELSE [p EXCEPT
              !.charset = IF last # 10 THEN "IbmpcMap"
                          ELSE IF p.g0_is_active THEN p.g0_charset
                          ELSE p.g1_charset,
              !.display_ctrl = last # 10,
              !.toggle_meta = last = 12]

enter_dcs(p) == [p EXCEPT !.dcs = << >>, !.dcs_in_esc = FALSE]

\* The state after handler `action`, called for code c.
Handled(p, action, c, saved) ==
  CASE action = "clear_param"    -> clear_param(p)
    [] action = "set_q_mode"     -> [p EXCEPT !.q_mode = TRUE]
    [] action = "param_digit"    -> param_digit(p, c)
    [] action = "next_param"     -> next_param(p)
    [] action = "set_palette"    -> set_palette(p, c)
    [] action = "begin_set_palette" -> begin_set_palette(p)
    [] action = "reset"          -> reset(p)
    [] action = "set_charset"    -> set_charset(p, c)
    [] action = "active_g0"      -> active_g0(p)
    [] action = "active_g1"      -> active_g1(p)
    [] action = "current_is_g0"  -> [p EXCEPT !.g0_is_current = TRUE]
    [] action = "current_is_g1"  -> [p EXCEPT !.g0_is_current = FALSE]
    [] action = "set_utf8"       -> [p EXCEPT !.utf8 = TRUE]
    [] action = "clear_utf8"     -> [p EXCEPT !.utf8 = FALSE]
    [] action = "save_cursor"    -> save_charsets(p)
    [] action = "restore_cursor" -> restore_charsets(p, saved)
    [] action = "set_mode"       -> display_ctrl_mode(p, TRUE)
    [] action = "clear_mode"     -> display_ctrl_mode(p, FALSE)
    [] action = "set_display_attr" -> sgr_charset(p)
    [] action = "enter_dcs"      -> enter_dcs(p)
    [] OTHER                     -> p

-----------------------------------------------------------------------------
(* Device control strings.  mDcsCap is doubled before realloc is asked;    *)
(* room is the size of the memory there really is.                         *)

\* The buffer after n more bytes were asked for.
Grown(p, n, fails) ==
  IF Len(p.dcs) + n <= p.dcs_cap THEN p
  ELSE LET cap == IF p.dcs_cap = 0 THEN DcsUnit ELSE 2 * p.dcs_cap
       IN  [p EXCEPT !.dcs_cap = cap, !.room = IF fails THEN @ ELSE cap]

Buffered(p, bytes, fails) ==
  LET q == Grown(p, Len(bytes), fails)
  IN  IF fails /\ q # p THEN q ELSE [q EXCEPT !.dcs = @ \o bytes]

\* The type of a DCS string is its first letter; only sixel is known.
dcs_dispatch(p) ==
  LET letters == SelectSeq(p.dcs, LAMBDA b : b \in 64 .. 126)
  IN  IF letters # << >> /\ letters[1] = 113
      THEN << [do |-> "sixel_parse_header", data |-> p.dcs] >>
      ELSE << >>

do_dcs_char(p, c, fails) ==
  LET q == [p EXCEPT !.dcs_in_esc = FALSE]
      Ended == [p |-> [q EXCEPT !.esc_state = "normal"], out |-> dcs_dispatch(p)]
  IN  CASE p.dcs_in_esc /\ c = 92  -> Ended
        [] p.dcs_in_esc /\ c # 92  ->
             [p |-> Buffered(q, <<ESC, c>>, fails), out |-> << >>]
        [] ~p.dcs_in_esc /\ c = BEL -> Ended
        [] ~p.dcs_in_esc /\ c = ESC ->
             [p |-> [p EXCEPT !.dcs_in_esc = TRUE], out |-> << >>]
        [] OTHER -> [p |-> Buffered(p, <<c>>, fails), out |-> << >>]

-----------------------------------------------------------------------------
(* One byte *)

\* What a handler is seen to do: the call, and what it finds in param[].
Call(p, action) ==
  IF action = "none" THEN << >>
  ELSE << [do |-> action, npar |-> p.npar, param |-> p.param] >>

do_control_char(p, c, fails, saved) ==
  IF p.esc_state = "dcs" THEN do_dcs_char(p, c, fails)
  ELSE LET control == Entry(control_sequences, c, "keep")
           seq == IF p.esc_state = "normal" \/ control.codes # {} \/ c = 0
                  THEN control
                  ELSE Entry(escape_sequences[p.esc_state], c, "normal")
           q == Handled(p, seq.action, c, saved)
       IN  [p   |-> IF seq.next = "keep" THEN q
                    ELSE [q EXCEPT !.esc_state = seq.next],
            out |-> Call(p, seq.action)]

CTRL_ACTION == {0, 24, 26, 27} \cup 7 .. 15
CTRL_ALWAYS == {0, 8, 10, 27} \cup 12 .. 15

\* Whether code c, translated to tc, is shown in the ground state.
Shown(p, c, tc) ==
  /\ tc # 0
  /\ c < 32 => IF p.display_ctrl THEN c \notin CTRL_ALWAYS
               ELSE ~p.utf8 /\ c \notin CTRL_ACTION
  /\ c = DEL => p.display_ctrl
  /\ c # CSI

Give(p, c, tc, fails, saved) ==
  IF p.esc_state = "normal" /\ Shown(p, c, tc)
  THEN [p |-> p, out |-> << [do |-> "do_normal_char", code |-> tc] >>]
  ELSE do_control_char(p, tc, fails, saved)

\* The largest code of a sequence with n continuation bytes.
utf8_length_changes(n) ==
  <<127, 2047, 65535, 2097151, 67108863, 2147483647>>[n + 1]

Filtered(c) ==
  IF c \in 55296 .. 57343 \/ c \in {65534, 65535} THEN Replacement ELSE c

\* Continuation bytes that lead byte b announces.
Announced(b) ==
  CASE b \in 192 .. 223 -> 1 [] b \in 224 .. 239 -> 2 [] b \in 240 .. 247 -> 3
    [] b \in 248 .. 251 -> 4 [] b \in 252 .. 253 -> 5 [] OTHER -> 0

\* mutant: overlong forms and codes of shorter sequences pass
Continuation_Overlong(p, b) ==
  LET char == p.cur_char * 64 + (b % 64)
      q    == [p EXCEPT !.npar = @ + 1, !.utf8_count = @ - 1, !.cur_char = char]
  IN  IF p.utf8_count = 0
      THEN [p |-> p, code |-> <<Replacement>>, rescan |-> FALSE]
      ELSE IF p.utf8_count > 1
      THEN [p |-> q, code |-> << >>, rescan |-> FALSE]
      ELSE [p |-> [q EXCEPT !.cur_char = 0], rescan |-> FALSE, code |-> <<Filtered(char)>>]

\* The UTF-8 decoder; it counts continuation bytes in npar.  cur_char is kept
\* here only while a character is incomplete.
Continuation(p, b) ==
  LET char == p.cur_char * 64 + (b % 64)
      n    == p.npar + 1
      q    == [p EXCEPT !.npar = n, !.utf8_count = @ - 1, !.cur_char = char]
  IN  IF p.utf8_count = 0
      THEN [p |-> p, code |-> <<Replacement>>, rescan |-> FALSE]
      ELSE IF p.utf8_count > 1
      THEN [p |-> q, code |-> << >>, rescan |-> FALSE]
      ELSE [p |-> [q EXCEPT !.cur_char = 0], rescan |-> FALSE,
            code |-> << IF \/ char <= utf8_length_changes(n - 1)
                           \/ char > utf8_length_changes(n)
                        THEN Replacement ELSE Filtered(char) >>]

Decode(p, b) ==
  IF b \in 128 .. 191 THEN Continuation(p, b)
  ELSE IF p.utf8_count > 0
  THEN [p |-> [p EXCEPT !.utf8_count = 0, !.cur_char = 0],
        code |-> <<Replacement>>, rescan |-> TRUE]
  ELSE IF b < 128 THEN [p |-> p, code |-> <<b>>, rescan |-> FALSE]
  ELSE LET n == Announced(b)
       IN  [p |-> [p EXCEPT !.npar = 0, !.utf8_count = n,
                            !.cur_char = IF n = 0 THEN 0 ELSE b % (2 ^ (6 - n))],
            code |-> IF n = 0 THEN <<Replacement>> ELSE << >>,
            rescan |-> FALSE]

\* Decode b and pass on what it completes.
Decoded(p, b, fails, saved) ==
  LET d == Decode(p, b)
  IN  IF d.code = << >> THEN [p |-> d.p, out |-> << >>]
      ELSE Give(d.p, d.code[1], d.code[1], fails, saved)

\* A byte that cuts a character short is read again after U+FFFD was shown.
Interpreted(p, b, fails, saved) ==
  IF p.esc_state # "normal" THEN Give(p, b, b, fails, saved)
  ELSE IF p.utf8 /\ (~p.display_ctrl \/ b < 32)
  THEN LET first  == Decoded(p, b, fails, saved)
           second == Decoded(first.p, b, fails, saved)
       IN  IF Decode(p, b).rescan
           THEN [p |-> second.p, out |-> first.out \o second.out]
           ELSE first
  ELSE LET meta == IF p.toggle_meta /\ b < 128 THEN b + 128 ELSE b
       IN  Give(p, b, translate_char(p.charset, meta), fails, saved)

-----------------------------------------------------------------------------
ParserInit ==
  /\ parser = [esc_state |-> "normal", utf8 |-> TRUE, utf8_count |-> 0,
               cur_char |-> 0, npar |-> 0, param |-> NoParams,
               q_mode |-> FALSE, palette_mode |-> FALSE,
               display_ctrl |-> FALSE, toggle_meta |-> FALSE,
               charset |-> "Lat1Map", g0_charset |-> "Lat1Map",
               g1_charset |-> "GrafMap", g0_is_active |-> TRUE,
               g0_is_current |-> TRUE, saved |-> {},
               dcs |-> << >>, dcs_cap |-> 0, room |-> 0, dcs_in_esc |-> FALSE]
  /\ taken = << >>
  /\ emitted = << >>

\* Between two characters or sequences.
Ground(p) == p.esc_state = "normal" /\ p.utf8_count = 0

\* What restore_cursor may find; the four tables stand for what is read when
\* unwritten memory is not even the number of a table.
SavedCharsets(p, b) ==
  CASE p.saved # {} -> p.saved
    [] p.saved = {} /\ b \in {56, 117} ->
         [g0 : Charsets, g1 : Charsets, g0_is_active : BOOLEAN]
    [] OTHER -> {"not read"}

\* VTerm::input for one byte.  At the bounds only a byte that ends is read.
InputByte(b) ==
  /\ \/ Len(taken) < MaxSequence /\ Len(parser.dcs) < MaxDcs
     \/ b = (IF parser.esc_state = "dcs" THEN BEL ELSE CAN)
  /\ \E fails \in (IF parser.esc_state = "dcs" /\ AllocFails
                   THEN BOOLEAN ELSE {FALSE}) :
     \E s \in SavedCharsets(parser, b) :
       LET r == Interpreted(parser, b, fails, s)
       IN  parser' = r.p /\ emitted' = r.out
  /\ taken' = IF Ground(parser) \/ (parser.utf8_count > 0 /\ b \notin 128 .. 191)
                 \/ (parser.esc_state # "dcs" /\ b = ESC)
              THEN <<b>> ELSE Append(taken, b)

ParserNext == \E b \in InputBytes : InputByte(b)

ParserSpec == ParserInit /\ [][ParserNext]_parserVars
-----------------------------------------------------------------------------
(* Properties *)

\* Type correctness: states, parameter index and counters stay in range, and
\* a character is incomplete only between sequences, with a continuation
\* count in npar that no sequence has disturbed (input shares npar).
ParserTypeOK ==
  /\ parser.esc_state \in EscapeStates
  /\ parser.npar \in 0 .. NPAR - 1 \/ (parser.palette_mode /\ parser.npar = 7)
  /\ parser.param \in [0 .. NPAR - 1 -> 0 .. Word - 1]
  /\ parser.utf8_count > 0 =>
       /\ parser.esc_state = "normal" /\ ~parser.display_ctrl
       /\ parser.npar + parser.utf8_count \in 1 .. 5
       /\ parser.npar + 1 = Len(taken)
  /\ {parser.charset, parser.g0_charset, parser.g1_charset} \subseteq Charsets

\* The bytes that encode character c, in the original UTF-8 of 31 bits.
ContinuationBytes(c) ==
  CASE c < 128 -> 0 [] c \in 128 .. 2047 -> 1 [] c \in 2048 .. 65535 -> 2
    [] c \in 65536 .. 2097151 -> 3 [] c \in 2097152 .. 67108863 -> 4
    [] OTHER -> 5
LeadMark == <<0, 192, 224, 240, 248, 252>>
Encoding(c) ==
  LET n == ContinuationBytes(c)
  IN  [i \in 1 .. n + 1 |->
        LET bits == c \div (64 ^ (n + 1 - i))
        IN  IF i = 1 THEN LeadMark[n + 1] + bits ELSE 128 + (bits % 64)]

\* In UTF-8 mode the character shown for a byte is the one the bytes since
\* the last character encode, or U+FFFD where they encode none (overlong
\* forms, surrogates, stray continuation bytes): input decodes right.
CharactersAreDecoded ==
  \A i \in DOMAIN emitted :
    (emitted[i].do = "do_normal_char" /\ parser.utf8 /\ ~parser.display_ctrl) =>
      \/ emitted[i].code = Replacement
      \/ /\ taken = Encoding(emitted[i].code)
         /\ i = Len(emitted)

\* No complete character is lost: when the bytes taken encode one that may be
\* shown, that very character has been passed on.
CompleteCharsAreShown ==
  \A c \in {65, 233, 8364, 128512} :
    (taken = Encoding(c) /\ parser.utf8 /\ Ground(parser) /\ emitted # << >>
       /\ ~parser.display_ctrl) =>
      emitted[Len(emitted)] = [do |-> "do_normal_char", code |-> c]

\* The parameters of the sequence in bytes s: digits in front of the k-th
\* semicolon as a decimal number; from the last one kept on all digits join it.
ParamOf(s, k) ==
  LET Separators(i) == Cardinality({j \in 1 .. i - 1 : s[j] = 59})
      Index(i) == IF Separators(i) > NPAR - 1 THEN NPAR - 1 ELSE Separators(i)
      Digits == {i \in DOMAIN s : s[i] \in 48 .. 57 /\ Index(i) = k}
      Value(i) == (s[i] - 48)
                    * 10 ^ Cardinality({j \in Digits : j > i})
  IN  MapThenSumSet(Value, Digits) % Word

Dispatched(e) ==
  \E r \in escape_sequences.square : r.next = "normal" /\ r.action = e.do

\* A handler of a CSI sequence finds in param[] the numbers of its own
\* sequence and zeros behind them, whatever was received before it, with
\* control characters inside it and with more parameters than are kept.
ParametersAreRead ==
  \A i \in DOMAIN emitted :
    (Len(taken) > 2 /\ SubSeq(taken, 1, 2) = <<ESC, 91>>
       /\ Dispatched(emitted[i])) =>
      LET digits == SubSeq(taken, 3, Len(taken) - 1)
      IN  \A k \in 0 .. NPAR - 1 : emitted[i].param[k] = ParamOf(digits, k)

\* A sixel image is parsed from every byte that came between "ESC P" and the
\* terminator (do_dcs_char, dcs_dispatch).
DcsDataComplete ==
  \A i \in DOMAIN emitted :
    (emitted[i].do = "sixel_parse_header" /\ taken[2] = 80) =>
      /\ emitted[i].data = SubSeq(taken, 3, 2 + Len(emitted[i].data))
      /\ Len(taken) - Len(emitted[i].data)
           = (IF taken[Len(taken)] = BEL THEN 3 ELSE 4)

\* The bytes collected fit into the memory there is for them.
DcsFits == Len(parser.dcs) <= parser.room
=============================================================================
