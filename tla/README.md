# FbTerm: models, checks and proofs

This directory holds TLA+ modules for FbTerm (fbterm-mod), the terminal emulator
that draws on the Linux frame buffer. The modules are translated from the sources
under `src/src`, `src/im` and `src/librga`; comments name the functions. TLC checks them on small
instances, TLAPS proves part of what TLC checks for every size.

## 1. The program and its parts

FbTerm is one thread: `FbTerm::run` calls `FbIoDispatcher::poll`, which waits with
epoll and hands each event to the `IoPipe` that is registered for the descriptor.
Pipes are the signal descriptor, the keyboard, the mouse, the pseudo terminal of
every window and the socket of every input method. Concurrency comes from outside:
programs write, exit and share signals, the user types and switches consoles, input
methods answer late or never.

| part | state | operations | what makes it correct |
|---|---|---|---|
| terminal lines (`lib/vterm.cpp`, `vterm_action.cpp`, `vterm_sixel.cpp`) | line store, row renumbering, history ring, view, margins, dirty areas, postponed scroll | control functions, `scroll_region`, `history_scroll`, `update`, `expose`, `historyDisplay` | no line is shown twice, the screen shows the stored text, the history is what scrolled out |
| cell rows (same files) | characters, wide pairs, cursor, insert mode, dirty columns; painted cursor and its timer | `do_normal_char`, `insert_char`, `delete_char`, `erase_*`, `update`, `updateCursor` | between two inputs the screen shows the row, and the cursor once |
| escape parser (`lib/vterm_states.cpp`, `vterm.cpp`) | state, parameters, UTF-8 and DCS buffers, character sets | one call per byte | every character and every parameter is the one that was sent, however sequences break each other off |
| attributes (`vterm_action.cpp`, `vterm.cpp`) | pen, saved pen, table of direct colours | SGR items, allocation | a cell keeps the colour its program asked for |
| sixel images (`vterm_sixel.cpp`) | canvas, registers, bounds | drawing commands, cut into cells | the cells show the image and nothing older |
| pixmaps (`vterm_sixel.cpp`, `vterm.cpp`) | one block per image cell | place, overwrite, free | each block has one owner |
| selection (`lib/shell.cpp`, `mouse.cpp`) | start, end, reversed cells, text | mouse events, keys, output | what is highlighted is what is kept |
| window table (`fbshellman.cpp`) | slots, current slot, active window, count, console flag | create, close, switch, console switch | active window, screen and count agree |
| window front end (`fbshell.cpp`) | modes, palette, cursor timer, input method | mode changes, colours, `switchVt`, toggling the input method | the console is set as the active window wants it |
| cursor (`vterm_action.cpp`, `vterm.cpp`) | position, margins, tab stops, saved position | positioning, tabs, line feeds, reports, reset | it stays on the screen, and what is reported leads back |
| main loop (`fbterm.cpp`, `fbio.cpp`, `input.cpp`) | registrations, batch, key buffer | poll, signals, keys, teardown | events reach the window they are for; nothing left behind |
| pipes (`lib/io.cpp`) | converter, unfinished tail, text being written | read, write, convert | no byte lost, doubled or out of order |
| raw keys (`input.cpp`, `im/keycode.c`) | keys and modifiers believed down, on both sides; the kernel's keymap | start and end of raw mode, key codes | no stuck modifier, the keymap is given back |
| input method proxy and library (`improxy.cpp`, `im/imapi.c`) | connection, waits, windows, pending messages | message handlers on both sides | no lost acknowledgement, scrolling enabled exactly without windows |
| screen (`screen.cpp`) | display start in a larger memory, margins | `move`, `switchVc`, `setupOffset`, `eraseMargin` | the display shows the window |
| double buffer (`screen.cpp`, `rga_adapter.cpp`) | dirty rectangles, overflow flag | draw, `swapBuffers` | between two handlers nothing drawn is missing |
| drawing (`screen.cpp`, `screen_render.cpp`, `screen_sixel.cpp`) | – | runs of text, glyph clipping and turning, box characters, blending, fills | a glyph is whole and upright, a frame has no gaps, a blend lies between its colours |
| RGA library (`librga`, below `rga_adapter.cpp`) | device context | checks of im2d, `RgaBlit`, `RgaCollorFill` | the request covers the pixels meant |
| session (`fbterm.cpp`, `instance.h`, destructors) | instances, descriptors, terminal | `init`, `run`, visits of the console, deletion | everything is given back, nothing is used after its deletion |
| fonts (`font.cpp`) | font lists, opened faces, three caches | `getGlyph`, `getNarrowGlyph` | each glyph has the character and exactly the style |
| devices (`fbdev.cpp`, `vesadev.cpp`) | saved mode and palette | choose a mode, switch consoles | the console gets back what it had |
| configuration (`fbconfig.cpp`) | list of entries | file, arguments, readers | the last word counts, in range |
| tables (`charsetmap.cpp`, `wcwidth.cpp`) | – | look-ups | the binary search is membership |

The hard behaviours, listed line by line under `hazards` in `PROJECT.json`: scrolls
that are postponed and then combined, 16 bit line numbers, a view into a ring that
moves; wide characters half overwritten; sequences broken off inside characters and
strings; SIGCHLDs that stand for several exits; descriptors that are reused inside one
batch of events; a window pointer kept across a shortcut that deletes the window;
console signals out of order; modes and palettes that belong to a window but live in
the console; keys held while raw mode starts or ends; time-outs of the input method
protocol; reads and writes cut anywhere.

## 2. Modules

Three groups compose parts that interact, two collect parts that do not.

| module | models | checked in |
|---|---|---|
| `VTermLines` | the lines of one `VTerm`, with what the frame buffer shows | `MCLines`, `lines_*.cfg` |
| `Scrollback` | the abstract promise: a page, and a log of what scrolled out of it | refined by `VTermLines` |
| `ShellManager` | `FbShellManager`: the table of windows | extended by the next two |
| `FrontEnd` | `FbShell`: what a window installs in the console while it is active | `front.cfg` |
| `FbTerm` | the main loop, the kernel's side of it, the user | `MCLoop`, `loop_*.cfg` |
| `ImMessage` | the messages of `immessage.h` and the socket pair | the next three |
| `ImProxy` | `ImProxy`: FbTerm's end, with what drives it in `FbShell` | `ImProtocol` |
| `ImApi` | `im/imapi.c`: the server's end, used as `im/example.c` does | `ImProtocol` |
| `ImProtocol` | both ends, starting, killing and losing the server | `im_*.cfg` |
| `EscapeParser` | `VTerm::input`: UTF-8, state table, parameters, strings | `MCTerm`, `term_parts.cfg` |
| `CharTables` | character sets | `EscapeParser` |
| `TermParams` | what handlers read out of parameters | `EscapeParser`, `TermAttrs` |
| `VTermRow` | the columns of one row and the flashing cursor | `MCTerm` |
| `TermAttrs` | SGR, direct colours, what is drawn of a cell's colours | `MCTerm` |
| `SixelCanvas` | decoding an image and cutting it into cells | `MCTerm` |
| `PixmapStore` | who owns the pixmap of a cell | `MCTerm` |
| `CursorMotion` | the cursor in both directions, tabs, margins, the saved position | `MCTerm` |
| `TextSelection` | selection and mouse reports | `MCTerm` |
| `CharWidth` | `wcwidth.cpp` | `MCTerm` |
| `ScreenPan` | scrolling by moving the display start | `MCDevice`, `device_parts.cfg` |
| `DisplaySwap` | double buffer, dirty rectangles, a blitter that may fail | `MCDevice` |
| `GlyphDraw` | runs of text, clipping and turning of glyphs and fills | `MCDevice` |
| `BoxDraw` | box characters painted as rectangles | `MCDevice` |
| `PixelFormats` | pixel values, blending, filling of rows, image cells | `MCDevice` |
| `FontCache` | choice of a font, faces, glyph caches | `MCDevice` |
| `IoPipe` | conversion and portions of reads and writes | `MCDevice` |
| `Config` | options from file and command line | `MCDevice` |
| `KeyInput` | raw keys, shortcuts, the library's translation, the keymap | `MCDevice` |
| `VideoDevice` | choice of device and mode, what is given back | `MCDevice` |
| `Session` | start, visits and end of the program: instances, descriptors, terminal | `MCDevice` |
| `RgaRequest` | `RgaAdapter`, im2d and the core of librga: from a call to a request | `MCDevice` |
| `VTermScreenProofs`, `ShellManagerProofs`, `FrontEndProofs`, `FbTermProofs`, `ImProtocolProofs`, `TermProofs`, `DeviceProofs`, `DrawingProofs` | theorems | tlapm |

**VTermLines.** The variable `vt` is a record with the fields of `VTerm`
(`linenumbers`, `history_save_line`, `history_full`, `visual_start_line`,
`pending_scroll`, margins, cursor row, dirty zones) plus the text of the store and
the rows `shown` on the screen. Handlers are operators on that record (they call
each other), actions apply them. `phase` is "input" while `VTerm::input` consumes
bytes; `update` runs at its end. `active` says whether the window is the manager's
active one. Columns are abstracted to `Zones` of adjacent columns and cell contents to
tokens; exact columns are the business of `VTermRow`. `TallImages` says whether images
can be taller than the scrolling region: then `sixel_copy_to_cells` postpones a scroll of
the whole region without moving a line (`ScrollsAll`). `history_scroll` copies `num`
lines one by one into the ring; the closed form in the module keeps the last
`HistoryLines` of them, which is what is left of them in the ring. The terminal never
changes its size (`FbShell` resizes once).

**ShellManager.** `man` is a record with the fields of `FbShellManager`, `mRun` of
`FbTerm`, the window that `/dev/tty0` is redirected to and the window the screen
shows. Windows are addresses, reused after deletion. `getIndex` is a closed form: the
first of the probed slots that holds a wanted pointer, the last probed one if none does.

**FrontEnd.** `front` holds of each window what its `FbShell` keeps for the console
(modes, palette, input method), `con` what is installed there, with the statics of
`fbshell.cpp`. A handler of the manager changes the active window at most once, so
`Handover` applies `switchVt` of the old and the new window around it. `mFillColors`
are the pixel values the screen computed from the palette it was given last.

**FbTerm.** `Poll` fetches everything that is ready, in any order (epoll returns up
to ten events, more than an instance here has); `evs`, `sigs` and `tty.buf` are the
loops of `poll`, `SignalIo::readyRead` and `TtyInput::readyRead` in progress, one
iteration per step, so that exits, keys and console switches happen between
iterations. `tty.shell` is the local variable `shell` of `readyRead`. `proc`, `held`,
`pending`, `vt` are the kernel's: zombies, who has a terminal open, pending signals,
the visible console. Signals are delivered lowest number first. `waitChildProcessExit`
is one step: it always ends with the child reaped. `LeaveLoop`, `Teardown` and `Stop`
are the end of `run` and the destructors. Raw keyboard mode is in `KeyInput`, SIGALRM
in `VTermRow`; SIGHUP is handled like SIGTERM; a window's output does not touch the
table.

**ImProtocol.** `proxy` is the `ImProxy` of one window with its fields, `active`
whether the window is the manager's active one, `mScrollEnable` and `mRawMode` the
switches of `Screen` and `TtyInput` it sets; `im` is the server process, and `toIM`
and `toFb` the two directions of the socket. FbTerm handles one message per step; a
handler that waits (`waitImMessage`) is cut there, and until the wait ends only this
connection is served. The server reads any prefix of what has been written: a longer
queue would have been read in the same pieces by a faster server. Its state has the
batch in progress, what `wait_message` has put aside (`pending`) and the calls that
the current callback still makes. Closing the connection ends the server, so no
message outlives a proxy. The server asks for raw keys, as the example does.

**Parts of a terminal (`MCTerm`) and of the machine (`MCDevice`).** These modules share
no state that could be interleaved to any effect: the parser hands an event to a
handler before it takes the next byte, pixels are computed by calls that return. Each
of the two MC modules is therefore the disjoint sum of its parts: `part` is chosen at
the start, the other parts' variables keep the value `Idle` or `Unused`, and each
property speaks of its own part. Pure functions (glyphs, pixels, widths) are checked
against a reference definition in behaviours that set up an input, compute, and start
over.

- `EscapeParser`: `parser` is the parsing state of `VTerm`, `emitted` the handlers the
  last byte called, with parameters and data, `taken` the bytes since the last
  character or sequence ended. The table `escape_sequences` is a set of records. Four
  alphabets: UTF-8 lead and continuation bytes around every boundary; digits and
  separators; sequences of every kind broken off by control characters; strings.
- `VTermRow`: one row, with what `FbShell` has painted of it and the cursor it painted.
  Leaving the row for another is coming back to column 0.
- `TermAttrs`: each colour carries, beside its index, the 24 bit value asked for and the
  round of the table it was allocated in, so that a property can compare them.
- `SixelCanvas`: `image` is the set of pixels drawn by the commands, independent of the
  canvas; after `EndImage` the cells are compared with it. A raster attribute changes the
  width of the canvas and leaves its memory alone, as `sixel_attr` does, so a column past a
  line is `Address`ed in a later one or behind the last; `strayed` remembers that.
- `PixmapStore`: pointers of a row and of the history line it goes to, and the heap.
- `CursorMotion`: `motion` keeps the last action and where it began, so that properties
  compare before and after; of the text only the right halves of wide characters matter.
- `TextSelection`: offsets into the view, which may be scrolled back. Output into the
  row of a selection, keys and buttons come in any order.
- `ScreenPan`: the unit is a pixel line of the memory; devices differ in step, size and
  in whether they pan or wrap.
- `DisplaySwap`: what counts is `stale`, the places of the memory where display and back
  buffer differ. What is drawn (`PlacesOf`) and what is noted as dirty (`NotedFor`) are two
  things: drawings are clipped, turned, panned and wrapped as each kind of drawing in the code
  does it (`drawSixelCell` clips and pans only, and notes what it was called with). `unnoted`
  are the places drawn with another rectangle noted, `waiting` those drawn without a swap
  since, `Unreached` those past a copy of the whole screen, whose sides are `mWidth` and
  `mHeight` of the screen as it is seen.
- `GlyphDraw`: a glyph is clipped and its background filled as on the upright screen, then
  turned; a Powerline symbol (`code`) that begins left of its cell is cut off there.
- `PixelFormats`: all four rotations of text (cells of images are never turned, in the
  code neither), all four depths, with and without
  NEON and a background image; fills are runs of stores of 8 to 32 bits.
- `BoxDraw`: two neighbouring cells over any old contents, `lit` is the set of their lit
  points; a character is its style and the sides it reaches by its Unicode name.
- `FontCache`: fonts differ in what they have, whether they open, have outlines and fit. A
  narrow icon is asked for with a style as well; it gets one, made by drawing, only where there
  is no list of bold or italic fonts (`getNarrowGlyph`).
- `IoPipe`: "lead" and "trail" make a character together, "bad" never is one; reads and
  writes take any portion, `Retries` is the five waits of `writeIo`.
- `Config`: lines are sequences of characters; the readers of options clamp and default.
- `KeyInput`: both sides' tables of keys, and `held`, the keys really down.
- `VideoDevice`: the bios gives any list of modes; the console's own mode and palette are
  saved on the first arrival.
- `Session`: `machine` says what of terminal, font, device and gpm there is; every object
  that is watched has the lowest descriptor that was free, because the dispatcher deletes
  by descriptor. Windows are opened with and without a successful fork and closed in any
  order; the user waits with a console switch until the last one is done.
- `RgaRequest`: a call of `RgaAdapter` (or of im2d, as another program would use it) is one
  step: checks, conversion to the driver's request, `ioctl`. `sent` is the request,
  `wanted` what the caller means. Versions of the device are the numbers and svn strings
  `rga_get_info` distinguishes; formats are the driver's numbers. The screen may be turned,
  which exchanges the sides of what `swapBuffers` copies, and a rectangle may reach past the
  memory. Of the request, what decides which bytes are touched is kept; how colours are scaled,
  blended, converted and dithered there is not. What a device covers for a
  given active area and rotation, and where each version looks for an address, is external.

Some properties excuse states in which the code is known not to keep them. The
excuse is a variable of the model that says exactly when, not a bound that avoids it:

| module | excused | because |
|---|---|---|
| `VTermRow` | `spoiled` | a wide character that wraps blanks the last column without marking it dirty (`vterm.cpp:512`); an input that ends inside a character; an alarm read after the cursor was hidden |
| `VTermRow` | stage "hung" | insert mode in column 0: the index is unsigned and never below 0 (`vterm.cpp:530`) |
| `PixmapStore` | `shifted` | `shift_text` frees the pixmaps it has moved (`vterm.cpp:836`) |
| `TextSelection` | `astray` | the view moved under a selection (`shell.cpp:337`) |
| `TermAttrs` | reversed video | hiding the block cursor adjusts the attributes a second time |
| `TermAttrs` | an earlier round of the table | 64 colours are used round robin (`vterm.cpp:1072`) |
| `IoPipe` | `stuck`, `cut` | a write is given up after one second (`io.cpp:234`); an outgoing tail is stored and not sent (`io.cpp:218`) |
| `CursorMotion` | relative mode | the reported position does not count from the margin that positions count from (`vterm_action.cpp`, `status_report`) |
| `CursorMotion` | sums over 65535, a tab next to a right half | columns and rows are added as 16 bit words; `move_cursor` steps back off the right half |
| `Session` | a window whose `forkpty` failed | it has no descriptor, so the dispatcher never deletes it |
| `BoxDraw` | `HalfUpright`, stems of heavy tees, double corners | `drawBoxChar` paints ╵ and ╷ each in the other's half, the stem of ┣ ┫ ┳ ┻ light although the list is headed heavy, and leaves the outer corner of ╔ ╗ ╚ ╝ open |
| `RgaRequest` | 15 bits per pixel | `RgaAdapter` divides the length of a line by 15 instead of 16 and moves one byte per pixel (`formatFromBpp`, `copy`) |
| `SixelCanvas` | `strayed` | a raster attribute may declare any width and the memory keeps its size (`vterm_sixel.cpp:304`): what is drawn past a line goes into later ones, or behind the last (`vterm_sixel.cpp:188`). "rows" excuses that image, "memory" everything after it |
| `GlyphDraw` | `moved` | the cut columns of a Powerline symbol are passed over on an upright screen only (`screen.cpp:575`); a glyph that begins left of the screen is cut at its other end, one above its cell is moved down |
| `DisplaySwap` | `waiting` | marking text and moving the pointer draw without a swap |
| `DisplaySwap` | `unnoted` | the cell of an image is noted where it would be before panning (`screen_sixel.cpp:265`); rows that wrap are noted past the end of the memory (`screen.cpp:363`, `screen.cpp:591`); at 15 bits the blitter goes elsewhere |
| `DisplaySwap` | `Unreached` | the copy of everything takes `mWidth` times `mHeight` pixels from the start of the memory (`screen.cpp:747`): lines further down on a panned screen, and on a screen turned by 90 or 270 degrees, whose sides are exchanged (`screen.cpp:82`), what lies outside |

`FontCache` takes bold and italic fonts to open: `openFont`'s failure branch indexes
the regular list whatever list it is given. `EscapeParser` can let a reallocation fail
(`AllocFails`); the run does not, because the capacity is doubled before it
(`vterm.cpp:587`) and `DcsFits` then fails. `ScreenPan` takes the memory to be a
multiple of the pan step.

## 3. Runs

All bounds are CONSTANTs of the cfg, or definitions of the MC module it names.

| run | instance | shows |
|---|---|---|
| `lines_display` | 3 rows, no history, images up to 3 rows, up to 2 lines of scrolling postponed | rows and lines stay one-to-one; the screen shows the stored text at the end of every input, for moves that succeed and fail and a window that comes and goes; postponed scrolls and dirty rows agree in between; a scroll shifts exactly its region; an image that fits stays between the margins |
| `lines_history` | 2 rows, ring of 3 lines, wide characters, images | types; new output returns the view to the bottom; `VTermLines` implements `Scrollback` |
| `front` | 3 slots, 3 windows, 2 requests of programs or server | active window, count and table agree; keyboard, timer, palette and raw mode in the console are those of the active window; a closed window's neighbour takes over |
| `loop_windows` | 2 slots, 3 addresses, 1 unread key, all signals | pipes and windows match; nothing draws on another console; the loop implements `ShellManager` |
| `loop_ends` | 2 slots, 2 addresses, one console | every hung-up window is closed, the program ends after its last window |
| `im_protocol` | 2 windows of the server, 2 cursor positions, 3 messages under way before the user acts again | acknowledgements match, windows and drawings are kept, the keyboard is given back, both waits end by an answer |
| `term_parts` | one part of a terminal per behaviour | characters and parameters are read right; row and cursor are shown and the cursor goes where it is sent; colours are kept; images reach their cells and pixmaps one owner; the selection is what is highlighted; widths |
| `device_parts` | one part between windows and machine per behaviour | panning, double buffer, blitter requests, glyphs, box characters and pixels, fonts, pipes, options, keys, video modes, and everything given back at the end |

Why the bounds are enough. Three rows are the least with a row inside, at the edge of
and outside a scrolled region; a ring of three lines is longer than the screen, wraps,
and is filled by one scroll of both rows and another. Three slots give the cyclic search
a neighbour on either side, and all can be full. Two windows are enough in the loop for
two exits in one SIGCHLD (a third child, an input method's, may share it), for a
descriptor to be reused, and for a window to be left and come back to. A row of three
columns has a wide character at either end, and two side by side do not fit. A table of
three direct colours has the two default ones and one that is used over and over. Four
cells hold an image between two others that moves both ways. Two dirty rectangles are
the whole list (`MAX_DIRTY_RECTS`), so the third overflows; `MCDrawings` are one rectangle
inside, one over a corner, a fill and a cell of an image, whose areas lie on both sides of the
threshold of 60 percent. `MCDisplays` has a screen upright, upside down and on either side, one
that pans, one that wraps and one of 15 bits, with lines as wide as the screen, wider, and
narrower than the turned screen (then the blitter refuses the whole copy).
`MCWidths` are narrower and wider than the canvas, by a line and by more than the memory, and
`Counts` reach as far. A pan memory of 11 lines has none to
spare, one of 15 lines two rows; five rows of two lines leave one line of margin.
Four bytes cover a character cut by a read limit of three (`BUF_SIZE`) with a byte in
front and behind. Cells of `BoxDraw` have even and odd sides from six pixels up: in
smaller ones heavy and double lines touch the edge they run along. `Extents` are the sides
around every limit of the blitter (2 pixels, 64 × 64 for a fill through it, 2048 for the
oldest device). `NR_FDS` is the dispatcher's own bound. Parser sequences run to the lengths in `Longest`, enough for one
parameter more than `NPAR` keeps.

`loop_windows` takes permutations of the addresses as symmetric. The console is used
by a user who does not leave again before his return has been handled
(`SwitchesFast = FALSE`). With `TRUE`, SIGUSR1 and SIGUSR2 can be pending together and
are handled in the order of their numbers: the console is released and then entered,
and `DrawsOnOwnConsole` fails. No text of the repository promises otherwise, so this
is recorded as a hazard and not as a finding.

In `ImProtocol`, `MaxUnread` and `MaxValid` bound what is under way when the user or
the program acts: three messages are enough for one to be handled, one to be put aside
and one to be read next. `MaxValid` stops the count of windows, which grows each time a
window is emptied while its shell is away. `Timeouts` lets every wait time out.

`term_parts` does not check for deadlock: `VTermRow` ends in the stage "hung", which
stands for the loop of insert mode that does not end.

Runs that are expected to fail, each one property that a text of the repository
states (quoted under `findings`):

| run | disagreement |
|---|---|
| `lines_longhistory` | the documented maximum of `history-lines` overflows the line numbers |
| `loop_keys` | text behind a shortcut in the same read goes to the old, perhaps deleted, window |
| `loop_hangup` | a stale hang-up closes a new window that got the same descriptor |
| `im_order` | the server handles a cursor report after the later HideUI, and draws on the screen it has given up |

More defects show with other constants or without the excuses of section 2, and have no
run of their own because no text of the repository speaks of them:

- `WideChars = TRUE` in `lines_display`: the cell before a wrapped wide character is
  blanked but not repainted (`vterm.cpp:512`);
- `TallImages = TRUE` and `MaxImage = 3` with two zones there: a scroll by the whole
  region for a tall image
  loses a postponed one (`vterm_sixel.cpp:424`);
- `Screen::setPalette` compares pointers (`screen_render.cpp:42`): the second colour
  change of the window that is shown is not seen until another window has been. So
  `ScreenHasWindowPalette` speaks of which palette the screen has, not of the pixel
  values computed from it;
- the highest VESA resolution is not always chosen (`vesadev.cpp:190`: a
  mode replaces another only if it is larger in both directions); `BestSoFar` says what is guaranteed;
- those of the table of excuses.

**Fairness.** Two runs assume any. In `loop_ends`: weak fairness of the main loop as a
whole (`WF_vars(Loop)`): the single thread goes on while it has something to do, and
none of its handlers blocks for ever. Users and programs are not fair. That a hung-up
window is closed needs no fairness between events, because every batch takes all that
is ready. In `im_protocol`: FbTerm handles what the connection has sent (the main loop
comes back to every ready descriptor, a wait reads only this one), ends a wait whose
message has come, and deletes the proxy of a server that is gone; the server goes on
with what it is doing. Time-outs are not fair: that waits end does not rest on them.

## 4. Proofs

The first part of `VTermScreenProofs` (assumption `NoOverflow`: history and screen fit in a
16 bit number; `lines_longhistory` shows why) is about the ring of lines. `Inv` is type correctness plus `Permutation`:
`linenumbers` maps the rows one-to-one onto the lines behind the ring. The plain type
invariant is not inductive: `takey` rotates `linenumbers` with indices taken from
margins and counts, and that a line number is in range and none is lost depends on
the map being a permutation. One lemma per operator shows that it preserves `WF`; the
theorems `TypeCorrect` and `RowsStayDistinct` follow.

The second part (same assumption) is about what the screen shows. An output
leaves the screen behind: cells are marked dirty, and one scroll is postponed until
`update` or until a second one cannot be joined to it. Its invariant `ScreenInv` says, while
output is read, `Good`: the view is at the bottom (`Bottom`), and of the active window's
screen, every cell that is not dirty shows the line `Due` to it (`Synced`): the row
`pending_scroll` lines further while a scroll is postponed. Between outputs nothing is
postponed and every cell is shown (`Fresh`). One lemma per
operator says that it keeps this; the argument is in `ShiftedSynced` (a scroll joined to
the postponed one moves what is due by exactly what the screen will be moved by) and in
`Marked` (the rows a scroll vacates are dirty as a whole). Wide characters are the one
place that changes cells without marking them: with them only the zones left of the last
one are exact (`Exact`). Theorems: `ScreenShowsView` (no wide
characters, no image taller than the region), `ExactColumnsShowView` (with wide characters),
`ViewStaysAtBottom`, `PostponedScrollIsTracked`, `ImagesStayInMargins`, `ScrollsShift`, for
any number of rows, history lines, texts and parameters.

`HistoryImplemented`, at its end, is the refinement: every step of the terminal is a
`Write`, a `Look` or a stutter of `Scrollback`. `ScrollsIntoLog` is its core: the log read
from the ring after `history_scroll` is the old log followed by the rows that leave,
cut to the last `HistoryLines` (`After`). It needs that two numbers less than a ring
apart have the same slot only if they are equal (`ModWindow`), so that a copied row
overwrites exactly the oldest lines, and of more rows than slots only the last
(`AfterIs` compares the two sequences place by place). `SameLog` and one lemma per
operator say that nothing else touches the lines of the ring; that the view is at the
end after a write is `ScreenInv`; what a wide character may cut from the last row to
leave is `LastColumnGivenUp`.

`ShellManagerProofs`. `Inv` is `Base` (screen and console redirection are the active
window's, no window is active without the console), `ActiveOK` (it is the one of the
current slot) and `CountOK` (the count is the number of occupied slots, no window is
in two). Inside a handler only `Base` holds, `switchShell` restores `ActiveOK`
(`SwitchShellBase`), and `shellExited` restores the count last. The work is in
`getIndex`: `ProbeCovers` shows that the probes reach every slot, `GetIndexFinds` that
the search finds a wanted pointer if there is one; hence `createShell` finds a free
slot (counting: an occupied table has `NR_SHELLS` windows), `shellExited` the window's
own, `prevShell` a neighbour. Theorems: `ManagerTypeCorrect`, `ActiveAndScreenAgree`,
`CountIsRight`, `WindowsAreKept`, `NeighbourFound`, for every `NR_SHELLS` and `Shells`.
They also give what no run lists any more: that the program runs only with windows and
that screen and redirection follow the active one.

`FrontEndProofs` (assumption: `MaxRequests` is a natural number). The invariant adds to
the manager's that the console suits the active window (`ConsoleFor`: modes, palette, raw
keyboard, what the input method was told) and that an input method that is on is
connected (`Linked`): without it `~ImProxy` of an unconnected proxy could leave the
keyboard raw. `ConsoleFor` is stated of any console, windows and owner, because a handler
passes through states that are nobody's: `HandoverOK` shows that `setActive` takes a
console that suits the old owner, or nobody, to one that suits the new one, or nobody;
`Followed` lifts that to every handler of the manager, and `Requested` treats all
requests of one window, active or not. Theorems: `ConsoleFollowsWindow`,
`ScreenFollowsPalette`, `InputMethodFollows`, `FrontKeepsManager`, for every number of
slots, windows, palette entries and requests.

`FbTermProofs`. `LoopImplementsManager`: every step of the loop is a step of
`ShellManager` or leaves the manager alone, so `LoopKeepsWindows` carries the
manager's invariants over to the whole program, for every number of keys, windows and
descriptors. `PipesMatchWindows` is inductive next to the manager's invariant
(assumption: finitely many addresses): a created window is in the table afterwards
(`CreateShellWF`) and finds a free descriptor, because the others have at most one each
(`FreeFdFound`, by the pigeonhole principle); a deleted one loses descriptor, registration
and process together (`DestroyKeepsPipes`). `DrawsOnOwnConsole` holds for a user who waits
until his return is noticed (`~SwitchesFast`) and needs three more facts (`ConsoleInv`):
orders to leave and to return are never pending together, an order is pending only
while the console is FbTerm's, and the order to leave is obeyed once (`LeaveOnce`,
because a read delivers a signal once, `LeaveIsFirst`). Theorems:
`LoopImplementsManager`, `LoopKeepsWindows`, `PipesStayMatched`, `OwnConsoleOnly`.

`ImProtocolProofs` (assumptions: a server has at least one window, a natural number of
drawings is kept, `NoRect` is no cursor position). `Inv` is `ProxyOK` and `ServerOK`.
That the loops of `addWinMsg` and `redrawImWin` reach every window is not inductive:
it follows (`VisitedAll`, by the cardinality of the windows before one) from
`CountedIn`, the count is at least the number of windows, which `TakeAwayOK` and
`PutToOK` show `setImWin` to keep. The raw mode of the keyboard needs `Standing`: an
active input method is connected, a wait is for the window on the screen, and no
state of a proxy outlives it. `ServerStep` has one case per action of the server and
shows that only messages of the right direction are sent. What both ends know of a window
is `Dialogue`: while the server waits, its request or the answer is under way, and only one
of them (`Asks`, `IsAnswered`); otherwise neither is, and a drawing that comes next is in a
window FbTerm has (`Idle`, `FillReady`); every drawing left in a callback follows the request
for its window (`CallsOK`), and in the socket no drawing is behind a request (`FillsOK`).
One lemma per way to change a queue says what it does to the only request or answer in it.
Theorems: `ImTypeCorrect`, `WindowsAreRedrawn`, `KeyboardIsGivenBack`, `DrawnWhereAsked`,
`DrawingsKept`, for any number of windows, cursors and messages under way, with and without
`Timeouts` and `Crashes`.

`TermProofs` is about the parts of `MCTerm`; `PartStep` says that a step is one of the part
chosen at the start. For `ImagesAreKept` (assumptions: `SixelAssumption`; a canvas is no
wider than the largest repeat count, for `RepeatSixel` stops there) there are two invariants.
`HeapKept`: as long as no cells were shifted, the heap is what the cells point to, each block
from one cell; `StoreSteps` goes through writing, erasing, aligning and scrolling out.
`Imaged`: during an image the canvas `Shows` exactly what can be seen of the drawing, inside
the bounds kept next to it. That bounds and drawing go together is what makes it inductive:
`img_height` must reach below the band drawn next before anything is drawn there
(`NextBand`), and a column off the canvas is one that could not be seen (`OneColumn`). Nothing
is assumed of the widths that images declare: `Imaged` holds while `strayed` is "no", and what a
stray image leaves behind is gone with the next `reset_sixel`, unless it was behind the memory.
`ImagedByEnd` is the cut into cells, a pixel being its quotient and remainder by the cell's
size (`PartsOf`, `PartCovered`). `ColoursAreKept` (assumption `AttrAssumption`: parameters are
numbers, what follows a 2 is a colour) rests on `Coloured`: every direct colour that the pen
or a cell holds is `Backed`, its entry of the table is one in use and has the colour that was
asked for, unless the table started over since, and the entries of the default colours
(`Reserved`) are so in every round. `Grows` is what a step may do to the table without
disturbing any of them (`GrowsPaints`).
`RowAndCursorShown` has two invariants. `RowKept` (assumption `RowAssumption`: at least three
columns) says that between two calls the screen is `Settled`, the cursor's colours lie where
FbShell's cursor is and that is where the terminal's is, and that within a call every column
that is not right yet is dirty (`Behind`). An edit `Follows` the row when it marks what it
changes; `EditKeeps` is all that erasing, shifting, moving and writing have to show. `expose`
paints runs from the column their first cell is in: in a stretch of a row that cuts no double
width character each run goes on where its next cell is (`RunsAre`), so that every column is
painted by its own cell (`ExposeShows`). `CursorKept` (assumption `MotionAssumption`: the window
is one that 16 bit words measure) adds to the ranges of the cursor's state that a row has at
most one right half (as in `CursorMotion`, where a line of text ends with its only one) and the cursor is not on it, which `ScrollPlaced` shows to
survive scrolling between margins that need not enclose a line; `MoveIs` says where
`move_cursor` goes, `CutKeeps` that taking words changes nothing on the screen.
`SgrItems`, `set_display_attr`, `sixel_repeat` and the runs of `expose` recurse over their data;
what is needed of them is proved by a least counterexample (`NatMin`), because the library's
induction theorems take an operator. Theorems: `ColoursKept`, `ImagesKept`, `RowAndCursorKept`.

`DeviceProofs` is about `VideoDevice` by itself and about the parts of `MCDevice`, of which
one is chosen at the start and takes all the steps (`PartStep`). Each part has an inductive
invariant of its own, and `PartsKept` says that the chosen one's holds; what the properties of
a part say follows from it. Only the drawing part has none.

*Video* (assumption: modes are records of naturals, none of them `NoMode`).
`Better` orders the modes only in part (two modes of different shapes are not compared),
so the mode held need not be better than the ones passed: what is proved is that none of
them is better than it. `StillNoneBetter` carries that over a change of the choice,
`NotBetter` over a turn without one, with `ProbeOK` for the types. `SavedOK` says that
what was never saved was never changed. Theorems: `ModeIsBestSoFar`,
`DisplayIsGivenBack`, for any list of modes, frame buffer and palettes.

*Panning* (`ScreenAssumption`: the rows fit on the screen and the screen in the memory, as
`mRows` and `yres_virtual` are defined). `IsScreen` and `IsDevice` say what makes a start
line good: it is between 0 and `max`, and from any such line the memory holds the whole
screen; that it is a multiple of the step too, while FbTerm has the console, is the first
part of `Shows`. `PlaceIs`: whatever the rotation, and with a memory that wraps around,
every line of the screen has a place of its own, so that drawing a line disturbs no other.
`StartMoves` and `MoveShows` are the core: after a pan by n rows, or after the offset
starts over and everything is drawn again, a line shows the row that belongs there, or it
is among the lines `move` erases or has drawn. `ChangedDrawn` shows that drawing the rows
that changed is enough, `AllDrawn` that a redraw needs nothing of what the memory held when
the console came back. The remainders are lemmas about a modulus that is not a number but
a constant. Theorem: `WindowStaysShown`.

*Fonts* (`FontsetsAssumption`: a bold or italic font that is found can be opened; the other
case is a hazard). `FontKept` needs of each of the three caches that its glyphs have the
cache's own style (`CachesOK`) and that faces are open only of fonts that open
(`FacesOK`); `HasStyle` is how a glyph was made: heavier or sheared exactly when the list
it comes from is not already so; of narrow icons, which come from the regular list whatever is
asked for, exactly when there is no list of that style. Theorem: `GlyphsKeepStyle`.

*Keys* (`KeymapAssumption`: a key is a modifier whatever else is held). The counters of
`processRawKeys` are right because each is the number of held keys that count for it
(`HeldModifiers`, a cardinality), for the terminal and the library separately; `TextOK`
follows a composed number through its bytes, and `KeymapOK` says that what was never saved
was never changed. Theorem: `KeysKeepSeen`.

*Session* (`WindowsAssumption`: windows and input methods are different objects, as many as
the dispatcher has descriptors for). `Wiring` is between the dispatcher's table, the open
descriptors and the objects alive: a registered descriptor is that of one living object.
`OwnersKept` and `TermKept` say who still has to give what back; the loop of
`~FbIoDispatcher` deletes an object together with what it owns, so that no entry is met
whose object is gone. Theorem: `AllGivenBack`, together with the video part's invariant.

*Pipes* (`PipeAssumption`: the size of the buffer and the bounds are natural numbers). The
conversion of a text is a recursive function of it, so that even its value is a matter of
proof: `RecursionExists` (a least counterexample again) gives it, for the conversion and
for joining the bytes of what was handed on. The core is `ConvJoin`: converting a text in
two pieces, the second behind the tail of the first, gives what converting it whole gives.
With it `PipeKept` is inductive: what was handed on and the tail kept are the bytes that
arrived, each once (`EveryByteOnce`), and while one encoding is in use they are its
conversion of all of them, wherever reads cut. A change of the encoding leaves the tail for
the next read. Theorem: `BytesKeepPassing`, for every size of the buffer and every text.

*Double buffer* (`SwapAssumption`: the screen is in the memory, and a turned screen neither
pans nor wraps, as `FbDev` sets it up). `SwapKept`: every place that the display does not show
yet, and that is not one of `unnoted` or `Unreached`, is in the list of dirty rectangles, unless
the list overflowed or is not kept; between two handlers it is one of `waiting`. `DrawnPlaces`
compares what is drawn with what is noted for each kind of drawing, with `TurnedIn` for the
rotations and `RowsAreBlock` for memories that do not wrap; `SwapLeaves` goes through the
copies, of which any may fail. `KeptIsCurrent` gives the property: the excuses are needed on a
screen that pans or wraps, on one that stands on its side (`Unreached` only) and at 15 bits; on
any other, and wherever the blitter is not in use, the display is current but for `waiting`.

*RGA requests* (`RgaAssumption`: a device from version 1.003 on, whole pixels, and a
rectangle without a side is the one that means none). A call reaches the driver through
three descriptions of the same picture; `OperandMeans`, `OperandCovers` and `RotatedCovers`
say what bytes each covers, `CodeAgain` and `BytesByCode` that a format has the same code,
and so the same size of a pixel, in all its numberings. `BlitDoes` and `FillDoes` put them
together: a request that is not refused touches exactly the bytes meant. `CopyFulfils`,
`AdapterFillDoes` and `ImCallFulfils` carry that to what `RgaAdapter` and im2d ask for, of
turned screens and of rectangles past the screen too. im2d stays inside the lines and rows of the
picture it was given (`imcheck_t`); the older interface checks neither, so the
property says of it only that it touches what it was asked for.
Theorem, with the double buffer: `BuffersKeepAgreeing`, for every device, screen, picture
and rectangle.

*Configuration* (`ConfigAssumption`: lines are sequences of characters, an argument is a
key with a value, a digit stands for a natural number). A line of the file puts an entry at
the head of the list, an argument overwrites the first one of its key; `Says` is what both
ways have in common, and `LastWordStays` that the last word on every key stays the one
read. `DigitsMakeNumber` shows that the fold over the digits of any text is a number, and
`HistoryInRange` that it is then cut to 16 bits. That a name of an encoding holds no comma
is `NoneBetween`: nothing lies between two neighbouring commas, the n-th of which exists
(`RankTaken`, by cardinality). Theorem: `OptionsStayObeyed`.

`DrawingProofs` has an inductive invariant for each part that draws; `DrawingKept` joins
them, and each says of the last drawing what is on the screen then.

*Glyphs and text* (`DrawKept`; `GlyphAssumption`: sizes are natural numbers, offsets of a
glyph any integers). A glyph is upright unless it is `moved`; of the Powerline symbols that is
those that begin left of their cell, on a turned screen. A rotation carries the points of a rectangle to those of the turned one
(`TurnedWithin`), so fills and copied pixels can be compared where they were meant
(`FillBlanks`, `StoredOnce`);
`GlyphPlaced` adds up the four margins and the clipped bitmap, whose first bit lies at the
other end when the screen is turned (`BitIs`). A run is cut in pieces of glyphs or blanks:
`StepDraws` says that after each character the columns before the open piece show what the
characters in them mean, icons that grow over a following blank included (`IconOnBlank`),
and `DrawnToEnd` carries it to the end of the run as an induction over a least
counterexample (`NatMin`). The column of a character and the state of the loop are
recursive functions in the model for that reason.

*Box characters* (`BoxKept`; `BoxAssumption`: cells of six by six pixels or more, in smaller
ones a line off the middle reaches the side it runs along). `RectsAre` and `InkIs` give
the points of every stroke of every style, `CellDrawn` that drawing one cell leaves its
neighbour alone, whatever was there before. `EdgesLit` then finds the same lanes on both
sides of a common edge, and `Middle` a point that all strokes of one character share.

*Pixels* (`PixelsKept`; `PixelAssumption`: levels and coverages are bytes). Of the depths
that blend, `UnpackedIs` undoes the packing, `MixedBetween` is the arithmetic with shifts and
`ImageBlendBetween` the one in unsigned words, where nothing spills from one component to
the next (`NothingStrays`). `RowFilled` counts the bytes of words and tail, `NeonIsPlain` compares
the two ways to store an image. Theorem, with the two above: `TextStaysDrawn`.

Only model-checked, of the invariants: `CharactersAreRead`, which compares the tables and the
parser with a definition over all bytes of a text. Liveness is out of the prover's reach together with
ENABLED.

## 5. Plan

Done: all modules of section 2. What is left, in the order of its worth:

1. `CharactersAreRead`, the one invariant that is only model-checked, as a theorem.
2. The second input method of another window, `SendKey`, `PutText` and `TermMode`, and
   messages cut by a full buffer in `ImProtocol`.

**Not modelled.** Of `src/librga`, a vendored library, only what a copy or a fill goes
through is in `RgaRequest`; left out are how colours are scaled, blended and converted, rectangles of size zero with an
offset, addresses by descriptor, a third picture, patterns, colour keys, raster operations, dithering of
Y4, colour space matrices, palettes, the Android and DRM parts, and `NormalRgaClose`,
which FbTerm never reaches. FreeType and fontconfig are what `FontCache` assumes of them.
Left out because nothing but their output depends on them: underlining, the conversion of
HLS colours, screenshots of the background image, the text of help and error messages, the
default palette and the default configuration file. Left out because they
need the kernel's or the bios's own code: what gpm sends, LRMI. Left out of modules
that exist, and why: inverse screen (a flag that the drawing of every cell reads),
dead keys of the library (a table look-up), overlapping rectangles of the input method.
Build files and the terminal description have no state.
