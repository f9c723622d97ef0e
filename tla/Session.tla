------------------------------- MODULE Session -------------------------------
(***************************************************************************)
(* A whole life of the program: what main, FbTerm::init and run create,    *)
(* whatever of it fails, what a visit to the console changes in the        *)
(* terminal, and in which order everything is taken down (fbterm.cpp,      *)
(* instance.h, the createInstance functions and the destructors).          *)
(*                                                                         *)
(* The dispatcher owns what it watches and deletes it highest descriptor   *)
(* first, so the order of the destructors is an order of descriptors, and  *)
(* those are the lowest free ones at the time of every open.  Here the     *)
(* user waits with the next console switch until one is done.              *)
(***************************************************************************)
EXTENDS Integers, FiniteSets, FiniteSetsExt

CONSTANTS
    Windows,        \* addresses of FbShell objects
    ImOf,           \* window |-> the address of its ImProxy object
    NR_FDS,         \* descriptors the dispatcher can watch
    MaxVisits       \* bound: arrivals at the console

Ims == {ImOf[s] : s \in Windows}

(* What has one instance.                                                  *)
Instances == {"tty", "dispatcher", "font", "fb", "screen", "signal", "mouse", "manager"}

(* Every window has an input method of its own.  The table of descriptors  *)
(* has room for all of them (NR_SHELLS is 10), the five other descriptors  *)
(* and the program's own three.                                            *)
ASSUME WindowsAssumption ==
    /\ IsFiniteSet(Windows)
    /\ \A s, t \in Windows : ImOf[s] = ImOf[t] => s = t
    /\ Windows \intersect Ims = {}
    /\ (Windows \union Ims) \intersect Instances = {}
    /\ NR_FDS \in Nat /\ Cardinality(Windows \union Ims) + 8 <= NR_FDS

VARIABLES
    stage,          \* "init", "run" before the first window, "loop", "ending" once
                    \*   mRun is cleared, "delete", "gone"
    machine,        \* what there is: terminal, font, frame buffer, device, gpm
    step,           \* the next thing init creates
    fds,            \* object |-> its open descriptor
    watched,        \* ioPipeMap: descriptor |-> object
    alive,          \* objects and instances that exist
    misused,        \* something was used after its deletion
    term,           \* the state of the console's terminal
    inited,         \* TtyInput's first visit is over
    atConsole,      \* our console is shown and we have entered it
    visits

sessionVars == <<stage, machine, step, fds, watched, alive, misused, term, inited, atConsole, visits>>

Own == [tm |-> "own", kbMode |-> "own", keymap |-> "own", kd |-> "text",
        cursor |-> TRUE, blank |-> TRUE]

(* Descriptors 0 to 2 are the program's own from the start.                *)
Lowest(open) == CHOOSE n \in 3 .. Cardinality(DOMAIN open) + 3 :
                    /\ \A o \in DOMAIN open : open[o] # n
                    /\ \A k \in 3 .. n - 1 : \E o \in DOMAIN open : open[o] = k
WithFd(open, o) == [p \in DOMAIN open \union {o} |-> IF p = o THEN Lowest(open) ELSE open[p]]
Closed(open, S) == [p \in DOMAIN open \ S |-> open[p]]

(* addIoSource: a descriptor too high for ioPipeMap is not watched.        *)
Watching(map, open, o) ==
    IF open[o] >= NR_FDS THEN map
    ELSE [n \in DOMAIN map \union {open[o]} |-> IF n = open[o] THEN o ELSE map[n]]
Unwatched(map, S) == [n \in {k \in DOMAIN map : map[k] \notin S} |-> map[n]]

-----------------------------------------------------------------------------
(* init creates its instances one after the other and stops at the first   *)
(* that cannot be had.  setFd creates the dispatcher on the way, after the *)
(* terminal's descriptor and before every other one.                       *)
visitVars == <<machine, misused, inited, atConsole, visits>>
Created(objects, open) ==
    alive' = alive \union objects /\ fds' = open /\ UNCHANGED visitVars
GivesUp == stage' = "delete" /\ UNCHANGED <<step, fds, watched, alive, term, visitVars>>

CreateTtyInput ==
    /\ stage = "init" /\ step = "tty"
    /\ IF ~ machine.tty THEN GivesUp
       ELSE LET open == WithFd(WithFd(fds, "tty"), "dispatcher")
            IN  /\ Created({"tty", "dispatcher"}, open)
                /\ watched' = Watching(watched, open, "tty")
                /\ step' = "font" /\ UNCHANGED <<stage, term>>

CreateFont ==
    /\ stage = "init" /\ step = "font"
    /\ IF ~ machine.font THEN GivesUp
       ELSE /\ Created({"font"}, fds)
            /\ step' = "screen" /\ UNCHANGED <<stage, term, watched>>

(* A frame buffer that does not suit stays open; a screen that is too      *)
(* small for one character is deleted again, and the font with it.         *)
FrameBuffer == IF machine.opens THEN WithFd(fds, "fb") ELSE fds
CreateScreen ==
    /\ stage = "init" /\ step = "screen"
    /\ \/ /\ machine.device = "none"
          /\ stage' = "delete" /\ fds' = FrameBuffer
          /\ UNCHANGED <<step, watched, alive, term, visitVars>>
       \/ /\ machine.device # "none" /\ ~ machine.fits
          /\ stage' = "delete" /\ alive' = alive \ {"font"}
          /\ fds' = IF machine.device = "fb" THEN fds ELSE FrameBuffer
          /\ UNCHANGED <<step, watched, term, visitVars>>
       \/ /\ machine.device # "none" /\ machine.fits
          /\ Created({"screen"}, FrameBuffer)
          /\ term' = [term EXCEPT !.cursor = FALSE, !.blank = FALSE]
          /\ step' = "signal" /\ UNCHANGED <<stage, watched>>

CreateSignalIo ==
    /\ stage = "init" /\ step = "signal"
    /\ Created({"signal"}, WithFd(fds, "signal"))
    /\ watched' = Watching(watched, WithFd(fds, "signal"), "signal")
    /\ step' = "mouse" /\ UNCHANGED <<stage, term>>

(* Without gpm the mouse has no descriptor; with it, it may not connect.   *)
CreateMouse ==
    /\ stage = "init" /\ step = "mouse"
    /\ step' = "done" /\ stage' = "run"
    /\ IF machine.gpm
       THEN /\ Created({"mouse"}, WithFd(fds, "mouse"))
            /\ watched' = Watching(watched, WithFd(fds, "mouse"), "mouse")
       ELSE Created({"mouse"}, fds) /\ UNCHANGED watched
    /\ UNCHANGED term

-----------------------------------------------------------------------------
(* A visit: keymap, keyboard mode, terminal attributes and, without gpm,   *)
(* the display mode change; what a departure leaves is only used here.     *)
Keyboard(t) == [t EXCEPT !.keymap = "new", !.tm = "raw", !.kbMode = "unicode"]
DisplayMode(t, mode) == IF machine.gpm THEN t ELSE [t EXCEPT !.kd = mode]
Entered == DisplayMode(Keyboard(term), "graphics")
Left == DisplayMode(IF inited THEN [term EXCEPT !.keymap = "own"] ELSE term, "text")

InLoop == stage \in {"loop", "ending"}

(* Before the first window only if the console is shown at the start.      *)
EnterTerminal ==
    /\ stage = "run" \/ InLoop
    /\ ~ atConsole /\ visits < MaxVisits
    /\ atConsole' = TRUE /\ visits' = visits + 1 /\ inited' = TRUE
    /\ alive' = alive \union {"manager"} /\ term' = Entered
    /\ UNCHANGED <<stage, machine, step, fds, watched, misused>>

LeaveTerminal ==
    /\ InLoop /\ atConsole
    /\ atConsole' = FALSE /\ term' = Left
    /\ UNCHANGED <<stage, machine, step, fds, watched, alive, misused, inited, visits>>

(* When forkpty fails the window has no descriptor.                        *)
OpenWindow(s, forked) ==
    /\ stage = "run" \/ InLoop
    /\ s \notin alive
    /\ alive' = alive \union {s, "manager"}
    /\ fds' = IF forked THEN WithFd(fds, s) ELSE fds
    /\ watched' = IF forked THEN Watching(watched, fds', s) ELSE watched
    /\ stage' = IF stage = "run" THEN "loop" ELSE stage
    /\ UNCHANGED <<step, term, visitVars>>

(* toggleIm on the active window.                                          *)
StartIm(s) ==
    /\ InLoop /\ s \in alive /\ ImOf[s] \notin alive /\ atConsole
    /\ alive' = alive \union {ImOf[s]}
    /\ fds' = WithFd(fds, ImOf[s]) /\ watched' = Watching(watched, fds', ImOf[s])
    /\ UNCHANGED <<stage, step, term, visitVars>>

(* What a destructor calls.  A window takes its input method along.        *)
Gone(o) == {o} \union {ImOf[s] : s \in {w \in Windows : w = o /\ ImOf[w] \in alive}}
Calls(o) ==
    CASE o \in Windows -> {"dispatcher", "manager", "screen"} \union
                          (IF Gone(o) = {o} THEN {} ELSE {"tty"})
      [] o \in Ims -> {"dispatcher", "manager", "screen", "tty"} \union
                      {s \in Windows : ImOf[s] = o}
      [] OTHER -> {"dispatcher"}

Deletes(o) ==
    /\ alive' = alive \ Gone(o)
    /\ fds' = Closed(fds, Gone(o)) /\ watched' = Unwatched(watched, Gone(o))
    /\ misused' = (misused \/ ~ (Calls(o) \subseteq alive))

(* A hang-up, an exit or a shortcut; the last window ends the program.     *)
CloseWindow(o) ==
    /\ InLoop /\ o \in alive \intersect (Windows \union Ims)
    /\ Deletes(o)
    /\ stage' = IF o \in Windows /\ alive' \intersect Windows = {} THEN "ending" ELSE stage
    /\ UNCHANGED <<machine, step, term, inited, atConsole, visits>>

(* SIGTERM, SIGHUP or the shortcut.                                        *)
Exits ==
    /\ stage = "loop" /\ stage' = "ending"
    /\ UNCHANGED <<step, fds, watched, alive, term, visitVars>>

(* run ends after its batch of events, and leaves the console if it is     *)
(* shown.                                                                  *)
LeaveLoop ==
    /\ stage = "ending" /\ stage' = "delete" /\ atConsole' = FALSE
    /\ term' = IF atConsole THEN Left ELSE term
    /\ UNCHANGED <<machine, step, fds, watched, alive, misused, inited, visits>>

-----------------------------------------------------------------------------
(* The keyboard's destructor gives back what the first visit saved.        *)
Restored(t) == [t EXCEPT !.keymap = "own", !.kbMode = "own", !.tm = "own"]
TtyGivenBack == IF inited THEN Restored(term) ELSE term

NextDeleted == watched[Max(DOMAIN watched)]

(* ~FbTerm: the dispatcher with all that it watches, then the manager,     *)
(* then the screen, which takes the font along.                            *)
DeleteWatched ==
    /\ stage = "delete" /\ "dispatcher" \in alive /\ DOMAIN watched # {}
    /\ Deletes(NextDeleted)
    /\ term' = IF NextDeleted = "tty" THEN TtyGivenBack ELSE term
    /\ UNCHANGED <<stage, machine, step, inited, atConsole, visits>>

DeleteInstances ==
    /\ stage = "delete" /\ DOMAIN watched = {}
    /\ stage' = "gone"
    /\ alive' = alive \ ({"dispatcher", "manager"} \union
                        (IF "screen" \in alive THEN {"screen", "font"} ELSE {}))
    /\ fds' = Closed(fds, {"dispatcher"} \union
                         (IF "screen" \in alive /\ machine.device = "fb" THEN {"fb"} ELSE {}))
    /\ term' = IF "screen" \in alive THEN [term EXCEPT !.cursor = TRUE, !.blank = TRUE] ELSE term
    /\ UNCHANGED <<step, watched, visitVars>>

-----------------------------------------------------------------------------
SessionInit ==
    /\ machine \in {m \in [tty : BOOLEAN, font : BOOLEAN, opens : BOOLEAN, gpm : BOOLEAN,
                            device : {"none", "fb", "vesa"}, fits : BOOLEAN] :
                       m.device = "fb" => m.opens}
    /\ stage = "init" /\ step = "tty" /\ fds = << >> /\ watched = << >> /\ alive = {}
    /\ misused = FALSE /\ term = Own /\ inited = FALSE /\ atConsole = FALSE /\ visits = 0

SessionNext ==
    \/ CreateTtyInput \/ CreateFont \/ CreateScreen \/ CreateSignalIo \/ CreateMouse
    \/ EnterTerminal \/ LeaveTerminal \/ Exits \/ LeaveLoop \/ DeleteWatched \/ DeleteInstances
    \/ \E s \in Windows : StartIm(s) \/ \E forked \in BOOLEAN : OpenWindow(s, forked)
    \/ \E o \in Windows \union Ims : CloseWindow(o)

(* Whoever uses the terminal after the program finds it as it was, however *)
(* far the start came and wherever the program ended; another console gets *)
(* the keymap and, in text, the display while FbTerm is away.              *)
TerminalGivenBack ==
    /\ stage = "gone" => term = Own
    /\ ~ atConsole => term.keymap = "own" /\ term.kd = "text"

(* No destructor calls what is deleted already, in whatever order windows  *)
(* and input methods came and went and took each other's descriptors.      *)
NothingUsedAfterDelete == ~ misused

(* At the end no window with a program and no input method is left behind. *)
NothingLeftBehind ==
    stage = "gone" => DOMAIN fds \intersect (Windows \union Ims) = {}
=============================================================================
