----------------------------- MODULE VideoDevice ----------------------------
(***************************************************************************)
(* The display hardware: which one is taken and in which mode, and what    *)
(* becomes of the console's own mode and palette (Screen::createInstance,  *)
(* fbdev.cpp, vesadev.cpp).  The frame buffer device is tried first; the   *)
(* VESA bios is asked for its modes one after the other.  On every arrival *)
(* at the console the mode and the palette are set, on every departure     *)
(* they are given back; what to give back is saved on the first arrival.   *)
(***************************************************************************)
EXTENDS Integers, Sequences

CONSTANTS
    Modes,          \* video modes: records [x, y, bpp, usable]
    ModeLists,      \* the lists the bios may give: sequences of modes
    FrameBuffers,   \* [type, bpp, visual] of a frame buffer, or NoFb
    NoFb, NoMode,
    Palettes        \* palettes of FbTerm's windows

ASSUME ModesAssumption ==
    /\ \A m \in Modes : m.x \in Nat /\ m.y \in Nat /\ m.bpp \in Nat /\ m.usable \in BOOLEAN
    /\ NoMode \notin Modes
    /\ ModeLists \subseteq Seq(Modes)

VARIABLES
    mode_list,      \* the bios's modes
    fb,             \* the frame buffer of the machine
    phase,          \* "probe", "found", "failed"
    asked,          \* option vesa-mode: NoMode to choose one
    next, mode_tmp, \* get_mode's place in the list and choice so far
    device,         \* "fb" or "vesa", once found
    hwMode, hwPalette,  \* what the hardware shows (external)
    saved_mode, saved_palette,
    onConsole

probeVars == <<mode_list, fb, asked>>
videoVars == <<mode_list, fb, phase, asked, next, mode_tmp, device,
               hwMode, hwPalette, saved_mode, saved_palette, onConsole>>

-----------------------------------------------------------------------------
(* initFbDev takes a packed frame buffer of a depth it can draw.           *)
Supported(f) ==
    /\ f # NoFb /\ f.type = "packed"
    /\ \/ f.bpp = 8 /\ f.visual = "pseudo"
       \/ f.bpp \in {15, 16, 32} /\ f.visual \in {"true", "direct"}

(* A mode is taken for a better one when it is larger both ways, or as     *)
(* large and deeper.                                                       *)
Better(m, n) ==
    \/ m.x > n.x /\ m.y > n.y
    \/ m.x = n.x /\ m.y = n.y /\ m.bpp > n.bpp
(* createInstance: the frame buffer, unless a VESA mode is asked for.      *)
OpenFrameBuffer ==
    /\ phase = "probe" /\ next = 1
    /\ asked = NoMode /\ Supported(fb)
    /\ phase' = "found" /\ device' = "fb"
    /\ UNCHANGED <<probeVars, next, mode_tmp, hwMode, hwPalette, saved_mode, saved_palette,
                   onConsole>>

(* One turn of get_mode's loop.                                            *)
ProbeMode ==
    LET m == mode_list[next]
        chosen == IF ~ m.usable THEN mode_tmp
                  ELSE IF asked # NoMode THEN IF m = asked THEN m ELSE mode_tmp
                  ELSE IF mode_tmp = NoMode THEN m
                  ELSE IF Better(m, mode_tmp) THEN m ELSE mode_tmp
        done == asked # NoMode /\ m = asked /\ m.usable
    IN  /\ phase = "probe" /\ next \in DOMAIN mode_list
        /\ ~ (asked = NoMode /\ Supported(fb))
        /\ next' = next + 1
        /\ mode_tmp' = chosen
        /\ phase' = IF done THEN "found" ELSE phase
        /\ device' = IF done THEN "vesa" ELSE device
        /\ UNCHANGED <<probeVars, hwMode, hwPalette, saved_mode, saved_palette, onConsole>>

ProbeEnd ==
    /\ phase = "probe" /\ next = Len(mode_list) + 1
    /\ ~ (asked = NoMode /\ Supported(fb))
    /\ phase' = IF mode_tmp = NoMode THEN "failed" ELSE "found"
    /\ device' = IF mode_tmp = NoMode THEN device ELSE "vesa"
    /\ UNCHANGED <<probeVars, next, mode_tmp, hwMode, hwPalette, saved_mode, saved_palette,
                   onConsole>>

-----------------------------------------------------------------------------
Saves_Always(old, now) == now

(* What is saved is saved once.  A true-colour frame buffer has no palette *)
(* to set, and a VESA palette comes back with the saved state.             *)
Saves(old, now) == IF old = "unsaved" THEN now ELSE old
HasPalette ==
    \/ device = "fb" /\ fb.visual # "true"
    \/ device = "vesa" /\ mode_tmp.bpp = 8

EnterConsole(p) ==
    /\ phase = "found" /\ ~ onConsole
    /\ onConsole' = TRUE
    /\ saved_mode' = IF device = "vesa" THEN Saves(saved_mode, hwMode) ELSE saved_mode
    /\ hwMode' = IF device = "vesa" THEN "graphics" ELSE hwMode
    /\ saved_palette' = IF device = "vesa" \/ HasPalette THEN Saves(saved_palette, hwPalette)
                        ELSE saved_palette
    /\ hwPalette' = IF HasPalette THEN p ELSE hwPalette
    /\ UNCHANGED <<probeVars, phase, next, mode_tmp, device>>

(* setPalette of another window while on the console.                      *)
setupPalette(p) ==
    /\ onConsole /\ HasPalette
    /\ hwPalette' = p
    /\ saved_palette' = Saves(saved_palette, hwPalette)
    /\ UNCHANGED <<probeVars, phase, next, mode_tmp, device, hwMode, saved_mode, onConsole>>

LeaveConsole ==
    /\ onConsole /\ onConsole' = FALSE
    /\ hwMode' = IF saved_mode = "unsaved" THEN hwMode ELSE saved_mode
    /\ hwPalette' = IF saved_palette = "unsaved" THEN hwPalette ELSE saved_palette
    /\ UNCHANGED <<probeVars, phase, next, mode_tmp, device, saved_mode, saved_palette>>

-----------------------------------------------------------------------------
VideoInit ==
    /\ mode_list \in ModeLists /\ fb \in FrameBuffers
    /\ asked \in Modes \union {NoMode}
    /\ phase = "probe" /\ next = 1 /\ mode_tmp = NoMode /\ device = "none"
    /\ hwMode = "text" /\ hwPalette = "own"
    /\ saved_mode = "unsaved" /\ saved_palette = "unsaved"
    /\ onConsole = FALSE

VideoNext ==
    \/ OpenFrameBuffer \/ ProbeMode \/ ProbeEnd
    \/ \E p \in Palettes : EnterConsole(p) \/ setupPalette(p)
    \/ LeaveConsole

VideoSpec == VideoInit /\ [][VideoNext]_videoVars

-----------------------------------------------------------------------------
(* Left to itself the scan keeps a mode that none it has passed is better  *)
(* than, and one that was asked for is taken only if the card has it.      *)
BestSoFar ==
    /\ mode_tmp # NoMode => \E i \in 1 .. next - 1 : mode_list[i] = mode_tmp /\ mode_tmp.usable
    /\ (asked = NoMode /\ mode_tmp # NoMode) =>
         \A i \in 1 .. next - 1 : mode_list[i].usable =>
             /\ mode_list[i].x <= mode_tmp.x \/ mode_list[i].y <= mode_tmp.y
             /\ (mode_list[i].x = mode_tmp.x /\ mode_list[i].y = mode_tmp.y)
                    => mode_list[i].bpp <= mode_tmp.bpp
    /\ (asked = NoMode /\ mode_tmp = NoMode) =>
         \A i \in 1 .. next - 1 : ~ mode_list[i].usable

(* Whoever owns the console afterwards finds its mode and its palette as   *)
(* they were, however often FbTerm came back and changed its own.          *)
ConsoleGivenBack == ~ onConsole => hwMode = "text" /\ hwPalette = "own"
=============================================================================
