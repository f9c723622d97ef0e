------------------------------ MODULE KeyInput ------------------------------
(***************************************************************************)
(* Keys on their way to an input method: raw key codes from the kernel     *)
(* through TtyInput (input.cpp), which keeps its own idea of the keys and  *)
(* modifiers that are down to recognise its shortcuts, to the client       *)
(* library of the input method (im/keycode.c), which keeps another one to  *)
(* translate them to text.  Raw mode starts and ends at any moment, also   *)
(* while keys are held down.  The kernel's keymap, which FbTerm changes    *)
(* while it owns the console, is here too.                                 *)
(*                                                                         *)
(* A read delivers whole key codes.  A modifier key is taken to be the     *)
(* same modifier in every table of the keymap, as in the kernel's own.     *)
(***************************************************************************)
EXTENDS Integers, Sequences, FiniteSets, FiniteSetsExt

CONSTANTS
    Keys,           \* key codes below NR_KEYS
    Modifiers,      \* the modifier numbers, "shift" among them
    Sym(_, _),      \* keymap: key, set of modifiers |-> [type, value],
                    \*   of a digit for composing [type, value, digit, base]
    SysKeys,        \* keys whose kernel keymap entries sysKeyTable names
    ImKeys,         \* those of them used for the input method only
    HasIm,          \* whether option "input-method" is set
    MaxPad          \* bound: the highest character number composed

VARIABLES
    held,           \* the keys that are really down (external)
    raw,            \* mRawMode
    key_down, down_num, shift_down,     \* TtyInput's view
    im,             \* the client library's: [key_down, shift_down, caps,
                    \*   num, applic, npadch]
    typed,          \* the library's last text: [keys, bytes, code]
    keymap, old_val,    \* kernel entries of SysKeys, and what was saved of them
    keysBound       \* FbTerm owns the console

keyVars == <<held, raw, key_down, down_num, shift_down, im, typed, keymap, old_val, keysBound>>
consoleVars == <<keymap, old_val, keysBound>>

NoShifts == [v \in Modifiers |-> 0]
shift_state(counts) == {v \in Modifiers : counts[v] > 0}
Toggled(S, v) == (S \ {v}) \union ({v} \ S)

(* Left and right keys share a modifier; "capsshift" counts as "shift".    *)
Modifier(sym) == IF sym.value = "capsshift" THEN "shift" ELSE sym.value

ASSUME KeymapAssumption ==
    /\ IsFiniteSet(Keys)
    /\ "shift" \in Modifiers
    /\ \A k \in Keys, S, T \in SUBSET Modifiers :
          Sym(k, S).type = "shift" =>
              /\ Sym(k, T).type = "shift"
              /\ Modifier(Sym(k, S)) \in Modifiers
              /\ Modifier(Sym(k, T)) = Modifier(Sym(k, S))
    /\ \A k \in Keys, S \in SUBSET Modifiers :
          Sym(k, S).type = "ascii" => Sym(k, S).digit \in Nat /\ Sym(k, S).base \in Nat

Counted_Repeats(counts, sym, down, rep) ==
    IF sym.type # "shift" THEN counts
    ELSE [counts EXCEPT ![Modifier(sym)] = IF down THEN @ + 1 ELSE IF @ > 0 THEN @ - 1 ELSE 0]

(* A modifier that is pressed once counts once: auto-repeat does not.      *)
Counted(counts, sym, down, rep) ==
    IF sym.type # "shift" \/ rep THEN counts
    ELSE [counts EXCEPT ![Modifier(sym)] = IF down THEN @ + 1 ELSE IF @ > 0 THEN @ - 1 ELSE 0]

-----------------------------------------------------------------------------
(* A character's UTF-8 bytes; nothing for surrogates, 0xffff and numbers   *)
(* too high.                                                               *)
Trailing(c, shift) == 128 + ((c \div shift) % 64)
to_utf8(c) ==
    IF c < 128 THEN <<c>>
    ELSE IF c < 2048 THEN <<192 + c \div 64, Trailing(c, 1)>>
    ELSE IF (55296 <= c /\ c <= 57343) \/ c = 65535 \/ c >= 2097152 THEN << >>
    ELSE IF c < 65536
    THEN <<224 + c \div 4096, Trailing(c, 64), Trailing(c, 1)>>
    ELSE <<240 + c \div 262144, Trailing(c, 4096), Trailing(c, 64), Trailing(c, 1)>>

(* The symbol a code means, from the library's own modifiers; caps lock    *)
(* turns the shift of a letter around.                                     *)
LookedUp(lib, k) ==
    LET state == shift_state(lib.shift_down)
        plain == Sym(k, state)
    IN  IF plain.type = "letter" /\ lib.caps THEN Sym(k, Toggled(state, "shift")) ELSE plain

(* The lock keys act on the press, not on its repetition; caps-shift ends  *)
(* caps lock.                                                              *)
Locked(lib, sym, down, rep) ==
    CASE sym.type = "spec" /\ down /\ ~ rep ->
           (CASE sym.value = "caps" -> [lib EXCEPT !.caps = ~ @]
              [] sym.value = "capson" -> [lib EXCEPT !.caps = TRUE]
              [] sym.value = "num" /\ ~ lib.applic -> [lib EXCEPT !.num = ~ @]
              [] sym.value = "barenum" -> [lib EXCEPT !.num = ~ @]
              [] OTHER -> lib)
      [] sym.type = "shift" /\ sym.value = "capsshift" /\ down /\ ~ rep ->
           [lib EXCEPT !.caps = FALSE]
      [] OTHER -> lib

keycode_to_keysym(lib, k, down) ==
    LET rep == down /\ k \in lib.key_down
        sym == LookedUp(lib, k)
        locked == Locked(lib, sym, down, rep)
    IN  [locked EXCEPT !.key_down = IF down THEN @ \union {k} ELSE @ \ {k},
                       !.shift_down = Counted(@, sym, down, rep)]

(* Keypad keys stand for digits or cursor keys, unless they are to be seen *)
(* as themselves.                                                          *)
keypad_keysym_redirect(lib, sym) ==
    IF sym.type # "pad" \/ lib.applic THEN sym
    ELSE IF lib.num THEN [type |-> "latin", value |-> sym.value]
    ELSE [type |-> "cur", value |-> sym.value]

(* The text of a symbol: a number made of the digits typed with the        *)
(* composing key comes when a modifier is let go.                          *)
keysym_to_term_string(lib, keysym, down) ==
    LET sym == keypad_keysym_redirect(lib, keysym)
        text(b) == [lib |-> lib, typed |-> [keys |-> b, bytes |-> << >>, code |-> -1]]
    IN  CASE sym.type = "shift" /\ ~ down /\ lib.npadch # -1 ->
               [lib |-> [lib EXCEPT !.npadch = -1],
                typed |-> [keys |-> << >>, bytes |-> to_utf8(lib.npadch),
                          code |-> lib.npadch]]
          [] sym.type = "ascii" /\ down ->
               [lib |-> [lib EXCEPT !.npadch = IF @ = -1 THEN sym.digit
                                               ELSE @ * sym.base + sym.digit],
                typed |-> [keys |-> << >>, bytes |-> << >>, code |-> -1]]
          [] sym.type \in {"latin", "letter"} /\ down -> text(<<sym.value>>)
          [] sym.type = "cur" /\ down ->
               text(<<"esc", IF lib.applic THEN "O" ELSE "[", sym.value>>)
          [] sym.type = "pad" /\ down /\ "shift" \notin shift_state(lib.shift_down) ->
               text(<<"esc", "O", sym.value>>)
          [] OTHER -> text(<< >>)

-----------------------------------------------------------------------------
FreshIm(lib) == [lib EXCEPT !.npadch = -1, !.key_down = {}, !.shift_down = NoShifts]

(* setRawMode, and the input method told so: both forget every key.        *)
StartRaw ==
    /\ ~ raw
    /\ raw' = TRUE
    /\ key_down' = {} /\ down_num' = 0 /\ shift_down' = NoShifts
    /\ im' = FreshIm(im)
    /\ UNCHANGED <<held, typed, consoleVars>>

EndRaw ==
    /\ raw /\ raw' = FALSE
    /\ UNCHANGED <<held, key_down, down_num, shift_down, im, typed, consoleVars>>

(* The release of a key that was already down when raw mode began is not   *)
(* passed on; everything else is, a shortcut and a repetition too.         *)
PassedOn(k, down) == down \/ k \in key_down
(* processRawKeys for one code, and process_raw_key of the input method.   *)
KeyReport(k, down) ==
    LET known == k \in key_down
        sym == Sym(k, shift_state(shift_down))
        after == keycode_to_keysym(im, k, down)
        said == keysym_to_term_string(after, LookedUp(im, k), down)
    IN  /\ key_down' = IF down THEN key_down \union {k} ELSE key_down \ {k}
        /\ down_num' = IF down = known THEN down_num
                       ELSE IF down THEN down_num + 1 ELSE down_num - 1
        /\ shift_down' = Counted(shift_down, sym, down, down /\ known)
        /\ IF PassedOn(k, down)
           THEN im' = said.lib /\ typed' = said.typed
           ELSE UNCHANGED <<im, typed>>
        /\ im'.npadch <= MaxPad

(* A key goes down, is repeated or comes up.  Without raw mode the kernel  *)
(* translates keys itself.                                                 *)
KeyMoves(k, down) ==
    /\ down \/ k \in held
    /\ held' = IF down THEN held \union {k} ELSE held \ {k}
    /\ IF raw THEN KeyReport(k, down)
       ELSE UNCHANGED <<key_down, down_num, shift_down, im, typed>>
    /\ UNCHANGED <<raw, consoleVars>>

(* The terminal's keypad mode reaches the input method.                    *)
update_term_mode ==
    /\ raw /\ im' = [im EXCEPT !.applic = ~ @]
    /\ UNCHANGED <<held, raw, key_down, down_num, shift_down, typed, consoleVars>>

(* setupSysKey: the old entries are read the first time only, and those of *)
(* the input method's keys are left alone when there is none.              *)
Bound == IF HasIm THEN SysKeys ELSE SysKeys \ ImKeys
Unsaved == \A k \in SysKeys : old_val[k] = "none"

Saved == IF Unsaved THEN [k \in SysKeys |-> IF k \in Bound THEN keymap[k] ELSE "none"]
         ELSE old_val
setupSysKey(restore) ==
    /\ keysBound' = ~ restore
    /\ IF Unsaved /\ restore THEN UNCHANGED <<keymap, old_val>>
       ELSE /\ old_val' = Saved
            /\ keymap' = [k \in SysKeys |-> IF k \notin Bound THEN keymap[k]
                                            ELSE IF restore THEN old_val[k] ELSE "fbterm"]
    /\ UNCHANGED <<held, raw, key_down, down_num, shift_down, im, typed>>

-----------------------------------------------------------------------------
KeyInit ==
    /\ held = {} /\ raw = FALSE
    /\ key_down = {} /\ down_num = 0 /\ shift_down = NoShifts
    /\ im = [key_down |-> {}, shift_down |-> NoShifts, caps |-> FALSE, num |-> FALSE,
             applic |-> FALSE, npadch |-> -1]
    /\ typed = [keys |-> << >>, bytes |-> << >>, code |-> -1]
    /\ keymap = [k \in SysKeys |-> "own"]
    /\ old_val = [k \in SysKeys |-> "none"]
    /\ keysBound = FALSE

KeyNext ==
    \/ StartRaw \/ EndRaw \/ update_term_mode
    \/ \E k \in Keys, down \in BOOLEAN : KeyMoves(k, down)
    \/ \E restore \in BOOLEAN : setupSysKey(restore)

KeySpec == KeyInit /\ [][KeyNext]_keyVars

-----------------------------------------------------------------------------
(* The counter of TtyInput counts the keys it takes to be down, and those  *)
(* are keys that really are.                                               *)
KeysTypeOK ==
    /\ down_num = Cardinality(key_down)
    /\ raw => key_down \subseteq held
    /\ shift_down \in [Modifiers -> 0 .. Cardinality(Keys)]

HeldModifiers(down, v) ==
    Cardinality({k \in down : LET s == Sym(k, {}) IN s.type = "shift" /\ Modifier(s) = v})

(* No modifier gets stuck: whatever keys were down when raw mode began,    *)
(* however keys repeat, a modifier is on for the shortcuts only while one  *)
(* of its keys is down.                                                    *)
NoStuckModifier ==
    \A v \in Modifiers : shift_down[v] <= HeldModifiers(key_down, v)

(* The input method sees the same keys down as TtyInput, and its modifiers *)
(* are exactly those of the keys it has seen pressed.                      *)
ImSeesTheKeys ==
    raw => /\ im.key_down = key_down
           /\ \A v \in Modifiers : im.shift_down[v] = HeldModifiers(im.key_down, v)

(* The text of a composed number is that character, in UTF-8.              *)
Decoded(b) ==
    CASE Len(b) = 1 -> b[1]
      [] Len(b) = 2 -> 64 * (b[1] % 32) + (b[2] % 64)
      [] Len(b) = 3 -> 64 * (64 * (b[1] % 16) + (b[2] % 64)) + (b[3] % 64)
      [] Len(b) = 4 -> 64 * (64 * (64 * (b[1] % 8) + (b[2] % 64)) + (b[3] % 64)) + (b[4] % 64)

ComposedIsCharacter ==
    (typed.code # -1 /\ typed.bytes # << >>)
        => /\ Decoded(typed.bytes) = typed.code
           /\ typed.code >= <<0, 128, 2048, 65536>>[Len(typed.bytes)]
           /\ \A i \in 2 .. Len(typed.bytes) : typed.bytes[i] \in 128 .. 191

(* Leaving the console gives the kernel its own keymap back, also after    *)
(* coming and going several times.                                         *)
KeymapGivenBack == ~ keysBound => keymap = [k \in SysKeys |-> "own"]
=============================================================================
