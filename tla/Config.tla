------------------------------- MODULE Config -------------------------------
(***************************************************************************)
(* Options from the configuration file and the command line                *)
(* (fbconfig.cpp), and how their readers take them (fbshell.cpp, font.cpp).*)
(* A line is a sequence of characters: " ", "#", "=", and others.  Every   *)
(* line that sets an option adds an entry at the head of a list, and the   *)
(* head-most entry of a key is the one that counts; an argument overwrites *)
(* that entry in place.                                                    *)
(***************************************************************************)
EXTENDS Integers, Sequences, SequencesExt, FiniteSets, FiniteSetsExt

CONSTANTS
    Lines,          \* lines a configuration file may have
    Arguments,      \* [key, val] a command line may have
    OptionKeys,           \* the options read |-> their keys
    Digits,         \* digit characters |-> their numbers
    HexDigits,
    NaturalCell, ScreenSize,    \* pixels of the font's cell and the screen
    MaxLines, MaxArguments,     \* bounds on both
    NR_CODECS       \* 5

\* Characters are strings, and a digit is a number.
ASSUME ConfigAssumption ==
    /\ Lines \subseteq Seq(STRING)
    /\ Arguments \subseteq [key : Seq(STRING), val : Seq(STRING)]
    /\ \A d \in DOMAIN Digits : Digits[d] \in Nat
    /\ NR_CODECS \in Nat

VARIABLES
    mConfigEntrys,  \* the list of entries, head first
    readLines, readArgs,        \* how much has been read
    said,           \* what the file and then the user said, in order
    settings        \* what the program started with, [history, colour,
                    \*   cell, ambiguous, codec], or NotStarted

configVars == <<mConfigEntrys, readLines, readArgs, said, settings>>

NotStarted == [history |-> -1]

NoOption == [key |-> << >>, val |-> << >>]

-----------------------------------------------------------------------------
(* parseOption: the key starts at the first character that is not a space  *)
(* and ends before the first "="; the value is the rest without the spaces *)
(* at its end.  A comment, a line without "=" and an empty value set       *)
(* nothing.                                                                *)
parseOption(str) ==
    LET first == {i \in DOMAIN str : str[i] # " "}
        from == IF first = {} THEN 0 ELSE Min(first)
        equals == {i \in DOMAIN str : i >= from /\ str[i] = "="}
        eq == Min(equals)
        last == Max(first)
    IN  IF first = {} \/ str[from] = "#" \/ equals = {} \/ last <= eq THEN NoOption
        ELSE [key |-> SubSeq(str, from, eq - 1), val |-> SubSeq(str, eq + 1, last)]

addEntry_AtEnd(entries, e) == Append(entries, e)
addEntry(entries, e) == <<e>> \o entries

getEntry(entries, key) ==
    LET at == {i \in DOMAIN entries : entries[i].key = key}
    IN  IF at = {} THEN 0 ELSE Min(at)

(* parseArgs for one option.                                               *)
Overridden(entries, e) ==
    IF getEntry(entries, e.key) = 0 THEN addEntry(entries, e)
    ELSE [entries EXCEPT ![getEntry(entries, e.key)].val = e.val]

-----------------------------------------------------------------------------
(* The readers.  A number has to be one from the first character to the    *)
(* last (strtol skips spaces before it, and makes 0 of nothing at all).    *)
Lookup(key) ==
    IF getEntry(mConfigEntrys, key) = 0 THEN << >>
    ELSE mConfigEntrys[getEntry(mConfigEntrys, key)].val
Value(option) == Lookup(OptionKeys[option])

Signed(v) == v # << >> /\ v[1] \in {"+", "-"}
Bare(v) == LET lead == {i \in DOMAIN v : v[i] # " "}
               w == IF lead = {} THEN << >> ELSE SubSeq(v, Min(lead), Len(v))
           IN  IF Signed(w) THEN Tail(w) ELSE w
IsNumber(v) == v = << >> \/ (Bare(v) # << >> /\ \A i \in DOMAIN Bare(v) : Bare(v)[i] \in DOMAIN Digits)
Number(v) ==
    LET n == FoldLeft(LAMBDA acc, d : 10 * acc + Digits[d], 0, Bare(v))
    IN  IF \E i \in DOMAIN v : v[i] = "-" THEN - n ELSE n

getNumber(option, default) ==
    IF getEntry(mConfigEntrys, OptionKeys[option]) = 0 \/ ~ IsNumber(Value(option)) THEN default
    ELSE Number(Value(option))

getFlag(option, default) ==
    CASE Value(option) = <<"y", "e", "s">> -> TRUE
      [] Value(option) = <<"n", "o">> -> FALSE
      [] OTHER -> default

(* init_history_lines: a negative number is a huge one as unsigned.        *)
HistoryLines(n) == IF n < 0 \/ n > 65535 THEN 65535 ELSE n
init_history_lines == HistoryLines(getNumber("history", 1000))

(* init_default_color: "#RRGGBB" is a colour of its own, a number a place  *)
(* in the palette.                                                         *)
init_default_color ==
    LET v == Value("colour")
        n == getNumber("colour", 7)
    IN  IF Len(v) = 7 /\ v[1] = "#" /\ \A i \in 2 .. 7 : v[i] \in HexDigits
        THEN [direct |-> TRUE, index |-> 0, rgb |-> Tail(v)]
        ELSE [direct |-> FALSE, index |-> IF n \in 0 .. 255 THEN n ELSE 7, rgb |-> << >>]

(* Font::Font: the size of a cell may be forced, or corrected with a sign; *)
(* Screen::createInstance refuses a cell larger than the screen, and one   *)
(* less than nothing is very large as unsigned.                            *)
CellSize ==
    LET n == getNumber("width", 0)
    IN  IF n = 0 THEN NaturalCell
        ELSE IF Signed(Value("width")) THEN NaturalCell + n ELSE n

(* switchCodec: the names between the commas, at most NR_CODECS of them;   *)
(* number 0 is the locale's own, one past the list changes nothing.        *)
Codecs(v) ==
    LET cuts == {0} \union {i \in DOMAIN v : v[i] = ","}
        nth(n) == CHOOSE c \in cuts : Cardinality({d \in cuts : d < c}) = n - 1
        end(c) == Min({j \in cuts \union {Len(v) + 1} : j > c})
    IN  IF v = << >> THEN << >>
        ELSE [n \in 1 .. Min({Cardinality(cuts), NR_CODECS}) |->
                SubSeq(v, nth(n) + 1, end(nth(n)) - 1)]

-----------------------------------------------------------------------------
ReadLine ==
    \E line \in Lines :
        LET e == parseOption(line)
        IN  /\ readArgs = 0 /\ readLines < MaxLines
            /\ readLines' = readLines + 1
            /\ mConfigEntrys' = IF e = NoOption THEN mConfigEntrys
                                ELSE addEntry(mConfigEntrys, e)
            /\ said' = IF e = NoOption THEN said ELSE Append(said, e)
            /\ UNCHANGED <<readArgs, settings>>

parseArgs ==
    \E e \in Arguments :
        /\ readArgs < MaxArguments
        /\ readArgs' = readArgs + 1
        /\ mConfigEntrys' = Overridden(mConfigEntrys, e)
        /\ said' = Append(said, e)
        /\ UNCHANGED <<readLines, settings>>

(* The options are read once, when the program starts.                     *)
StartUp ==
    /\ settings = NotStarted
    /\ readLines' = MaxLines /\ readArgs' = MaxArguments
    /\ CellSize \in 1 .. ScreenSize
    /\ settings' = [history |-> init_history_lines, colour |-> init_default_color,
                    cell |-> CellSize, ambiguous |-> getFlag("ambiguous", FALSE),
                    codec |-> "local"]
    /\ UNCHANGED <<mConfigEntrys, said>>

switchCodec ==
    \E index \in 0 .. NR_CODECS + 1 :
        /\ settings # NotStarted
        /\ settings' = [settings EXCEPT !.codec =
              CASE index = 0 -> "local"
                [] index \in DOMAIN Codecs(Value("codecs")) -> Codecs(Value("codecs"))[index]
                [] OTHER -> @]
        /\ UNCHANGED <<mConfigEntrys, readLines, readArgs, said>>

ConfigInit ==
    mConfigEntrys = << >> /\ readLines = 0 /\ readArgs = 0 /\ said = << >> /\ settings = NotStarted
ConfigNext == ReadLine \/ parseArgs \/ StartUp \/ switchCodec
ConfigSpec == ConfigInit /\ [][ConfigNext]_configVars

-----------------------------------------------------------------------------
(* The last word wins: what the program reads for an option is what was    *)
(* said last, in the file from top to bottom and then on the command line. *)
LastWordWins ==
    \A n \in DOMAIN said :
        (\A m \in n + 1 .. Len(said) : said[m].key # said[n].key)
            => Lookup(said[n].key) = said[n].val

IsName(codec) == codec = "local" \/ \A i \in DOMAIN codec : codec[i] # ","

(* Whatever is written there, the program starts with settings in range,   *)
(* and a window's encoding is the locale's or one name of the option.      *)
SettingsInRange ==
    settings # NotStarted =>
        /\ settings.history \in Nat /\ settings.history <= 65535
        /\ settings.colour.index \in 0 .. 255
        /\ IsName(settings.codec)
=============================================================================
