---------------------------- MODULE RgaRequest -----------------------------
(***************************************************************************)
(* How a copy or a fill of the screen becomes a request of the Rockchip    *)
(* blitter: RgaAdapter (src/src/rga_adapter.cpp), built on the im2d        *)
(* interface (src/librga/im2d_api/im2d.cpp) or on the older one, and the   *)
(* library below both (src/librga/core), as compiled for Linux.  The       *)
(* library's rotations, flips and blends are asked for as another program  *)
(* would.  Positions are in pixels, `at' and pitches in bytes.             *)
(***************************************************************************)
EXTENDS Integers, Sequences, FiniteSets

CONSTANTS Builds,       \* "im2d", "old": configure's RGA_MODE
          Blitters,     \* versions of the blitter: [number |-> thousandths, svn]
          Screens,      \* [w, h, pad]: the screen and what follows a line, pixels
          Places,       \* offsets of rectangles drawn
          Extents,      \* and their sides
          ImPictures,   \* pictures other programs hand to im2d
          ImRects,      \* and the rectangles in them
          ImUsages,     \* and what they ask for: [fill, rotate, flip, blend, sync]
          NoContext, NoCall

VARIABLES build,        \* which interface was compiled in
          rgaCtx,       \* the device context: its version, or NoContext
          made,         \* the RockchipRga singleton exists
          mAvailable,   \* the RgaAdapter exists
          wanted,       \* the last call, as its caller means it
          answer,       \* what the call returned
          sent          \* what reached the driver in it

rgaVars == <<build, rgaCtx, made, mAvailable, wanted, answer, sent>>

-----------------------------------------------------------------------------
(* Formats: 256 times the driver's number; without the factor, the old names *)

BGRA_8888 == 3 * 256
RGB_565 == 4 * 256
RGBA_5551 == 5 * 256
BPP8 == 19 * 256

RkRgaCompatibleFormat(f) == IF f = 0 \/ f \div 256 # 0 THEN f ELSE f * 256

IsKnown(f) == f = 0 \/ (f \div 256) % 256 # 0
RkRgaGetRgaFormat(f) ==
    LET g == RkRgaCompatibleFormat(f)
    IN  IF IsKnown(f) THEN f ELSE IF IsKnown(g) THEN g ELSE -1

Code(f) == RkRgaGetRgaFormat(f) \div 256

\* Names of the groups as in IM_RGA_SUPPORT_FORMAT.
Group(f) ==
    LET c == Code(f)
    IN  CASE c \in {0, 1, 2, 3, 4, 7, 22, 36, 40, 41, 44, 45} -> "RGB"
          [] c \in {5, 6, 37, 38, 42, 43, 46, 47} -> "RGB_OTHER"
          [] c \in 16 .. 19 -> "BPP"
          [] c \in 8 .. 15 -> "YUV_8"
          [] c \in {32, 33} -> "YUV_10"
          [] c \in {25, 27, 29, 31} -> "YUYV_420"
          [] c \in {24, 26, 28, 30} -> "YUYV_422"
          [] c = 21 -> "YUV_400"
          [] c = 20 -> "Y4"
          [] OTHER -> "none"

NormalRgaIsYuvFormat(f) == Code(f) \in 8 .. 15 \cup {20, 21} \cup 24 .. 31 \cup 32 .. 35
NormalRgaIsRgbFormat(f) == Group(f) \in {"RGB", "RGB_OTHER"}
NormalRgaFormatHasAlpha(f) == Code(f) \in {0, 3, 5, 6, 37, 38, 40, 42, 43, 44, 46, 47}

bytesPerPixel(f) ==
    LET c == Code(f)
    IN  CASE c \in {0, 1, 3, 22, 40, 41, 44, 45} -> 4
          [] c \in {2, 7} -> 3
          [] c \in {4, 36} \/ Group(f) = "RGB_OTHER" -> 2
          [] c \in 16 .. 19 -> 1
          [] OTHER -> 0

-----------------------------------------------------------------------------
(* What the device can do: rga_get_info *)

Basic8 == {"RGB", "RGB_OTHER", "YUV_8"}
Entry(name, out, limit, input, output) ==
    [version |-> name, input_resolution |-> 8192, output_resolution |-> out,
     scale_limit |-> limit, input_format |-> input, output_format |-> output]

Rga1(name) == Entry(name, 2048, 8, Basic8 \cup {"BPP"}, Basic8)
Rga2 == Entry("RGA_2", 4096, 16, Basic8, Basic8)
Lite0 == Entry("RGA_2_LITE0", 4096, 8, Basic8, Basic8)
Lite1 == Entry("RGA_2_LITE1", 4096, 8, Basic8 \cup {"YUV_10"}, Basic8)
Enhance == Entry("RGA_2_ENHANCE", 4096, 16, Basic8 \cup {"YUV_10"},
                 Basic8 \cup {"YUV_10", "YUYV_420", "YUYV_422"})
Newest == [Enhance EXCEPT !.input_format = @ \cup {"YUYV_422", "YUV_400"},
                          !.output_format = @ \cup {"YUV_400", "Y4"}]

\* The entries for a version: none if the device is not known.  Where no svn
\* number fits, the first digits decide (TRY_TO_COMPATIBLE).
rga_get_info(v) ==
    LET starts(digits, unit) == v.number \div unit = digits
    IN  CASE starts(30, 100) /\ v.svn = "16445" -> {Rga2}
          [] starts(30, 100) /\ v.svn = "22245" -> {Enhance}
          [] starts(32, 100) /\ v.svn = "18218" -> {Enhance}
          [] starts(32, 100) /\ v.svn \in {"56726", "63318"} -> {Newest}
          [] starts(40, 100) /\ v.svn = "18632" -> {Lite0}
          [] starts(40, 100) /\ v.svn = "23998" -> {Lite1}
          [] starts(420, 100) /\ v.svn = "4560" -> {Lite1}
          [] starts(13, 100) -> {Rga1("RGA_1")}
          [] starts(16, 100) -> {Rga1("RGA_1_PLUS")}
          [] starts(200, 10) \/ (starts(300, 10) /\ v.svn \notin {"16445", "22245"}) -> {Rga2}
          [] starts(302, 10) /\ v.svn \notin {"16445", "22245"} -> {Enhance}
          [] starts(400, 10) /\ v.svn \notin {"18632", "23998"} -> {Lite0}
          [] OTHER -> {}

-----------------------------------------------------------------------------
(* imcheck *)

\* rga_check_info: sizes the device can do, inside the picture.
rga_check_info(pic, rect, resolution) ==
    /\ pic.w >= 2 /\ pic.h >= 2
    /\ pic.ws >= pic.w /\ pic.hs >= pic.h
    /\ \A side \in {rect.x, rect.y, rect.w, rect.h} : side = 0 \/ side >= 2
    /\ rect.x + rect.w <= pic.ws /\ rect.y + rect.h <= pic.hs
    /\ \A side \in {pic.w, pic.h, rect.w, rect.h} : side <= resolution

rga_check_format(pic, rect, groups) ==
    /\ Group(pic.format) \in groups
    /\ Group(pic.format) \in {"YUV_8", "YUV_10"} =>
         /\ pic.ws % (IF Group(pic.format) = "YUV_8" THEN 4 ELSE 16) = 0
         /\ \A n \in {pic.hs, pic.w, pic.h, rect.x, rect.y, rect.w, rect.h} : n % 2 = 0

\* Neither direction may be scaled by more than the limit, up or down.
rga_check_limit(src, dst, limit, usage) ==
    LET turned == usage.rotate \in {"ROT_90", "ROT_270"}
        dw == IF turned THEN dst.h ELSE dst.w
        dh == IF turned THEN dst.w ELSE dst.h
    IN  /\ src.w \div limit <= dw /\ src.h \div limit <= dh
        /\ dw \div limit <= src.w /\ dh \div limit <= src.h

rga_check_blend(src, dst, usage) ==
    /\ usage.blend = "SRC_OVER" => NormalRgaFormatHasAlpha(src.format)
    /\ usage.blend = "DST_OVER" => NormalRgaFormatHasAlpha(dst.format)

rga_check_rotate(info, usage) ==
    info.version \in {"RGA_1", "RGA_1_PLUS"} =>
        /\ usage.flip # "FLIP_H_V"
        /\ usage.rotate # "none" => usage.flip = "none"

imcheck_t(v, src, dst, srect, drect, usage) ==
    \E info \in rga_get_info(v) :
        /\ ~usage.fill =>
             /\ rga_check_info(src, srect, info.input_resolution)
             /\ rga_check_format(src, srect, info.input_format)
        /\ rga_check_info(dst, drect, info.output_resolution)
        /\ rga_check_format(dst, drect, info.output_format)
        /\ ~usage.fill => rga_check_limit(src, dst, info.scale_limit, usage)
        /\ rga_check_blend(src, dst, usage)
        /\ rga_check_rotate(info, usage)

-----------------------------------------------------------------------------
(* The request to the driver: NormalRga.cpp *)

\* rga_info_t: where a picture is, the rectangle of it meant, its layout.
rga_info(addr, at, x, y, w, h, ws, hs, format) ==
    [addr |-> addr, at |-> at, x |-> x, y |-> y, w |-> w, h |-> h,
     ws |-> ws, hs |-> hs, format |-> format]

checkRectForRga(i) ==
    /\ i.x >= 0 /\ i.y >= 0 /\ i.w >= 2 /\ i.h >= 2
    /\ i.x + i.w <= i.ws /\ i.y + i.h <= i.hs
    /\ NormalRgaIsYuvFormat(i.format) =>
         i.ws % 4 = 0 /\ \A n \in {i.x, i.w, i.y, i.h, i.hs} : n % 2 = 0

\* The scale is compared with the sides swapped only for a rotation alone.
ScaleAllowed(v, s, d, turn) ==
    LET swapped == turn.rotation \in {"ROT_90", "ROT_270"} /\ turn.mirror = "none"
        dw == IF swapped THEN d.h ELSE d.w
        dh == IF swapped THEN d.w ELSE d.h
        within(down, up) == /\ s.w <= down * dw /\ s.h <= down * dh
                            /\ dw <= up * s.w /\ dh <= up * s.h
    IN  /\ within(16, 16)
        /\ v.number < 2000 => within(8, 8)
        /\ v.number < 1003 => dw <= 2 * s.w /\ dh <= 2 * s.h

\* A picture as the driver gets it: its address, its active area, its layout.
ActiveInfo(base, i, x, y, w, h) ==
    [base |-> base, x_offset |-> x, y_offset |-> y, act_w |-> w, act_h |-> h,
     vir_w |-> i.ws, vir_h |-> i.hs, format |-> Code(i.format)]

\* From version 1.6 on yrgb_addr is for a descriptor; the address is in uv_addr.
Base(v, i) == [field |-> IF v.number < 1600 THEN "yrgb_addr" ELSE "uv_addr",
               addr |-> i.addr, at |-> i.at]

\* The destination of a rotated copy is given by its corner to start from.
RotatedInfo(base, d, rotation) ==
    CASE rotation = "ROT_90" -> ActiveInfo(base, d, d.x + d.w - 1, d.y, d.h, d.w)
      [] rotation = "ROT_180" -> ActiveInfo(base, d, d.x + d.w - 1, d.y + d.h - 1, d.w, d.h)
      [] rotation = "ROT_270" -> ActiveInfo(base, d, d.x, d.y + d.h - 1, d.h, d.w)
      [] OTHER -> ActiveInfo(base, d, d.x, d.y, d.w, d.h)

\* Addresses of the process go through the device's MMU; the oldest devices
\* take every address through it.
MmuFlag(v, i) == v.number <= 1003 \/ i.addr = "virtual"

\* The call with the request: the driver takes it or not.
Submitted(request) ==
    {[ok |-> TRUE, sent |-> request], [ok |-> FALSE, sent |-> request]}

\* Nothing reached the driver.
NoRequest == [render_mode |-> "none"]

Refused == {[ok |-> FALSE, sent |-> NoRequest]}
SilentlyDropped == {[ok |-> TRUE, sent |-> NoRequest]}

\* RgaBlit: a copy; without an address it returns 0 and has done nothing.  How
\* colours are scaled, blended, converted and dithered is left out.
RgaBlit(v, s, d, turn, async) ==
    IF v = NoContext THEN Refused
    ELSE IF s.addr = "none" \/ d.addr = "none" THEN SilentlyDropped
    ELSE IF ~(checkRectForRga(s) /\ checkRectForRga(d) /\ ScaleAllowed(v, s, d, turn))
    THEN Refused
    ELSE Submitted(
        [render_mode |-> "bitblt", rotation |-> turn.rotation,
         src |-> ActiveInfo(Base(v, s), s, s.x, s.y, s.w, s.h),
         dst |-> RotatedInfo(Base(v, d), d, turn.rotation),
         mmu_dst |-> MmuFlag(v, d), async |-> async])

\* RgaCollorFill: the rectangle is not checked here, only by im2d.  The bound
\* of 1.003 is a double here and a float in RgaBlit: 1.003 itself is above it.
RgaCollorFill(v, d, async) ==
    IF v = NoContext THEN Refused
    ELSE IF d.addr = "none" THEN SilentlyDropped
    ELSE Submitted(
        [render_mode |-> "color_fill", rotation |-> "none",
         dst |-> ActiveInfo(Base(v, d), d, d.x, d.y, d.w, d.h),
         mmu_dst |-> v.number >= 1003 /\ d.addr = "virtual", async |-> async])

-----------------------------------------------------------------------------
(* im2d: improcess and the calls built on it *)

\* rga_buffer_t
wrapbuffer_virtualaddr_t(addr, at, w, h, ws, hs, format) ==
    [addr |-> addr, at |-> at, w |-> w, h |-> h, ws |-> ws, hs |-> hs,
     format |-> format]

NoPicture == wrapbuffer_virtualaddr_t("none", 0, 0, 0, 0, 0, 0)
NoRect == [x |-> 0, y |-> 0, w |-> 0, h |-> 0]

rga_apply_rect(pic, rect) ==
    IF rect.w > 0 /\ rect.h > 0 THEN [pic EXCEPT !.w = rect.w, !.h = rect.h] ELSE pic

\* Without an address there is no rga_info_t: rga_set_buffer_info.
HasAddress(src, dst, usage) == dst.addr # "none" /\ (usage.fill \/ src.addr # "none")

Compatible(pic) == [pic EXCEPT !.format = RkRgaCompatibleFormat(@)]

InfoOf(pic, rect) ==
    rga_info(pic.addr, pic.at, rect.x, rect.y, pic.w, pic.h, pic.ws, pic.hs, pic.format)

\* srcinfo.rotation: a flip comes second only to a rotation.
Turn(usage) ==
    IF usage.rotate = "none" THEN [rotation |-> usage.flip, mirror |-> "none"]
    ELSE [rotation |-> usage.rotate, mirror |-> usage.flip]

\* improcess, with every operand there is: what it may answer and send.
improcess(v, src0, dst0, srect, drect, usage) ==
    LET src == rga_apply_rect(Compatible(src0), srect)
        dst == rga_apply_rect(Compatible(dst0), drect)
        async == usage.sync = "0"
    IN  IF v = NoContext \/ ~HasAddress(src, dst, usage) THEN Refused
        ELSE IF ~imcheck_t(v, src, dst, srect, drect, usage) THEN Refused
        ELSE IF usage.fill THEN RgaCollorFill(v, InfoOf(dst, drect), async)
        ELSE RgaBlit(v, InfoOf(src, srect), InfoOf(dst, drect), Turn(usage), async)

\* The argument of a call is 0 or 1; IM_SYNC, which RgaAdapter passes, is
\* neither, and leaves the default of the library, which is to wait.
PlainUsage(sync) ==
    [fill |-> FALSE, rotate |-> "none", flip |-> "none", blend |-> "none",
     sync |-> sync]

imcopy_t(v, src, dst, sync) ==
    IF src.w # dst.w \/ src.h # dst.h THEN Refused
    ELSE improcess(v, src, dst, NoRect, NoRect, PlainUsage(sync))

imfill_t(v, dst, rect, sync) ==
    improcess(v, NoPicture, dst, NoRect, rect, [PlainUsage(sync) EXCEPT !.fill = TRUE])

-----------------------------------------------------------------------------
(* RgaAdapter *)

formatFromBpp(bpp) ==
    CASE bpp = 16 -> RGB_565
      [] bpp = 15 -> RGBA_5551
      [] bpp = 8 -> BPP8
      [] OTHER -> BGRA_8888

wstride(stride, bpp) == (stride * 8) \div bpp

NoTurn == [rotation |-> "none", mirror |-> "none"]

\* copy, and each rectangle of flushDirtyRects: w by h pixels at an offset that
\* is the same in both buffers.
AdapterCopy(v, at, w, h, stride, bpp) ==
    LET ws == wstride(stride, bpp)
        fmt == formatFromBpp(bpp)
        whole == rga_info("virtual", at, 0, 0, w, h, ws, h, fmt)
        picture == wrapbuffer_virtualaddr_t("virtual", at, w, h, ws, h, fmt)
    IN  IF build = "im2d" THEN imcopy_t(v, picture, picture, "IM_SYNC")
        ELSE RgaBlit(v, whole, whole, NoTurn, FALSE)

AdapterFill(v, r, fbWidth, fbHeight, stride, bpp) ==
    LET ws == wstride(stride, bpp)
        fmt == formatFromBpp(bpp)
    IN  IF build = "im2d"
        THEN imfill_t(v, wrapbuffer_virtualaddr_t("virtual", 0, fbWidth, fbHeight, ws, fbHeight, fmt),
                      r, "IM_SYNC")
        ELSE RgaCollorFill(v, rga_info("virtual", 0, r.x, r.y, r.w, r.h, ws, fbHeight, fmt), FALSE)

-----------------------------------------------------------------------------
(* Steps *)

\* RockchipRga::get: the first use of the library opens the device, once.
Contexts == IF made THEN {rgaCtx} ELSE Blitters \cup {NoContext}

\* What a caller means: w by h pixels of `bytes' each at (x, y) of the memory at
\* `at', whose lines are `pitch' bytes apart.
Meant(at, x, y, w, h, pitch, bytes) ==
    [at |-> at, x |-> x, y |-> y, w |-> w, h |-> h, pitch |-> pitch, bytes |-> bytes]

\* A call of RgaAdapter's; nothing limits it to the lines the memory has.
AdapterCall(src, dst, bpp) ==
    [src |-> src, dst |-> dst, addr |-> "virtual", bpp |-> bpp, async |-> FALSE]

Called(call, results, v) ==
    \E r \in results :
        /\ wanted' = call
        /\ answer' = r.ok
        /\ sent' = r.sent
        /\ rgaCtx' = v
        /\ made' = TRUE
        /\ UNCHANGED build

Depths == {8, 15, 16, 32}
Stride(s, bpp) == (s.w + s.pad) * ((bpp + 7) \div 8)
\* mWidth and mHeight; on a screen turned by 90 or 270 degrees they are the sides
\* of the memory exchanged.
SidesOf(s) == {[w |-> s.w, h |-> s.h], [w |-> s.h, h |-> s.w]}

OfScreen(s, bpp, x, y, w, h) == Meant(0, x, y, w, h, Stride(s, bpp), (bpp + 7) \div 8)

\* RgaAdapter::instance, until it succeeds: /dev/rga can be opened for reading.
\* im2d is tried with a copy of 4 by 4 pixels; of the older interface the
\* initialisation is called, which does nothing and succeeds.
Probe ==
    /\ wanted = NoCall /\ ~mAvailable
    /\ IF build = "old"
       THEN mAvailable' = TRUE /\ UNCHANGED <<build, rgaCtx, made, wanted, answer, sent>>
       ELSE \E v \in Contexts :
              LET dummy == wrapbuffer_virtualaddr_t("virtual", 0, 4, 4, 4, 4, 0)
              IN  \E r \in imcopy_t(v, dummy, dummy, "IM_SYNC") :
                      /\ mAvailable' = r.ok
                      /\ rgaCtx' = v /\ made' = TRUE
                      /\ UNCHANGED <<build, wanted, answer, sent>>

\* Screen::swapBuffers, mWidth by mHeight pixels from the start of the memory.
CopyScreen ==
    /\ wanted = NoCall /\ mAvailable
    /\ \E s \in Screens, bpp \in Depths, v \in Contexts : \E m \in SidesOf(s) :
          LET all == OfScreen(s, bpp, 0, 0, m.w, m.h)
          IN  Called(AdapterCall({all}, all, bpp),
                     AdapterCopy(v, 0, m.w, m.h, Stride(s, bpp), bpp), v)
    /\ UNCHANGED mAvailable

\* bppByte, which at 15 bits is 1.
Offset(r, stride, bpp) == r.y * stride + r.x * (bpp \div 8)

\* Screen::swapBuffers, a dirty rectangle: a cell of a picture is noted in full
\* size, past the side of the screen, and any may end after the last line.
FlushRect ==
    /\ wanted = NoCall /\ mAvailable
    /\ \E s \in Screens, bpp \in Depths, v \in Contexts,
          r \in [x : Places, y : Places, w : Extents, h : Extents] :
          /\ r.x < s.w
          /\ LET part == OfScreen(s, bpp, r.x, r.y, r.w, r.h)
             IN  Called(AdapterCall({part}, part, bpp),
                        AdapterCopy(v, Offset(r, Stride(s, bpp), bpp), r.w, r.h, Stride(s, bpp), bpp), v)
    /\ UNCHANGED mAvailable

\* Screen::fillRectPixel, of more than 4096 pixels, in the memory as it is turned
\* and panned by `offset' lines, with the sides of the screen.
FillRect ==
    /\ wanted = NoCall /\ mAvailable
    /\ \E s \in Screens, bpp \in Depths, v \in Contexts,
          r \in [x : Places, y : Places, w : Extents, h : Extents] :
       \E m \in SidesOf(s), offset \in {0, s.h, 2 * s.h} :
          /\ r.x + r.w <= s.w /\ r.y + r.h <= s.h
          /\ r.w * r.h > 4096
          /\ LET rect == [r EXCEPT !.y = @ + offset]
             IN  Called(AdapterCall({}, OfScreen(s, bpp, rect.x, rect.y, rect.w, rect.h), bpp),
                        AdapterFill(v, rect, m.w, m.h, Stride(s, bpp), bpp), v)
    /\ UNCHANGED mAvailable

\* Another program calls im2d; a rectangle of no size stands for the picture.
Means(pic, rect) ==
    LET p == rga_apply_rect(pic, rect)
        bytes == IF bytesPerPixel(p.format) = 0 THEN 1 ELSE bytesPerPixel(p.format)
    IN  Meant(p.at, rect.x, rect.y, p.w, p.h, p.ws * bytes, bytes)

Im2dCall ==
    /\ wanted = NoCall /\ build = "im2d"
    /\ \E v \in Contexts, src, dst \in ImPictures, srect, drect \in ImRects, usage \in ImUsages :
          /\ usage.fill => src = dst /\ srect = drect
          /\ Called([src |-> IF usage.fill THEN {} ELSE {Means(src, srect)},
                     dst |-> Means(dst, drect), addr |-> dst.addr, bpp |-> 0,
                     async |-> usage.sync = "0"],
                    improcess(v, src, dst, srect, drect, usage), v)
    /\ UNCHANGED mAvailable

\* The caller goes on.
Return ==
    /\ wanted # NoCall
    /\ wanted' = NoCall /\ answer' = FALSE /\ sent' = NoRequest
    /\ UNCHANGED <<build, rgaCtx, made, mAvailable>>

RgaInit ==
    /\ build \in Builds
    /\ rgaCtx = NoContext /\ made = FALSE /\ mAvailable = FALSE
    /\ wanted = NoCall /\ answer = FALSE /\ sent = NoRequest

RgaNext == Probe \/ CopyScreen \/ FlushRect \/ FillRect \/ Im2dCall \/ Return

RgaSpec == RgaInit /\ [][RgaNext]_rgaVars

-----------------------------------------------------------------------------
(* Properties *)

\* What the device covers: it starts at the corner a rotation begins with.
Covered(p, rotation) ==
    CASE rotation = "ROT_90" -> [x |-> p.x_offset - p.act_h + 1, y |-> p.y_offset,
                                 w |-> p.act_h, h |-> p.act_w]
      [] rotation = "ROT_180" -> [x |-> p.x_offset - p.act_w + 1, y |-> p.y_offset - p.act_h + 1,
                                  w |-> p.act_w, h |-> p.act_h]
      [] rotation = "ROT_270" -> [x |-> p.x_offset, y |-> p.y_offset - p.act_w + 1,
                                  w |-> p.act_h, h |-> p.act_w]
      [] OTHER -> [x |-> p.x_offset, y |-> p.y_offset, w |-> p.act_w, h |-> p.act_h]

DeviceField(v) == IF v.number < 1600 THEN "yrgb_addr" ELSE "uv_addr"

\* The device touches the bytes its caller meant, no more and no others; whether
\* all of them are memory of the screen is its caller's business (DisplaySwap).
CoversMeant(library, p, rotation, meant) ==
    LET c == Covered(p, rotation)
        bytes == IF bytesPerPixel(p.format * 256) = 0 THEN 1 ELSE bytesPerPixel(p.format * 256)
        pitch == p.vir_w * bytes
    IN  /\ c.w = meant.w /\ c.h = meant.h
        /\ bytes = meant.bytes
        /\ pitch = meant.pitch
        /\ p.base.at + c.y * pitch + c.x * bytes
             = meant.at + meant.y * meant.pitch + meant.x * meant.bytes
        /\ c.x >= 0 /\ c.x + c.w <= p.vir_w
        /\ library = "im2d" => c.y >= 0 /\ c.y + c.h <= p.vir_h

\* A call that says it succeeded has sent one request, which covers exactly the
\* pixels meant, in both pictures, waits unless told not to, and takes an
\* address of the process through the MMU; im2d lets none leave its picture,
\* the older interface does not ask.  15 bits are left out: there RgaAdapter
\* divides the length of a line by 15 and moves by one byte a pixel.
DoneAsAsked ==
    wanted # NoCall /\ answer =>
        /\ sent # NoRequest
        /\ sent.async = wanted.async
        /\ sent.mmu_dst = (wanted.addr = "virtual")
        /\ sent.dst.base.field = DeviceField(rgaCtx)
        /\ wanted.bpp # 15 => CoversMeant(build, sent.dst, sent.rotation, wanted.dst)
        /\ \A meant \in wanted.src :
             /\ sent.render_mode = "bitblt"
             /\ wanted.bpp # 15 => CoversMeant(build, sent.src, "none", meant)
        /\ wanted.src = {} => sent.render_mode = "color_fill"
=============================================================================
