------------------------------ MODULE Display -------------------------------
(***************************************************************************)
(* What a program and a user see: pixels of a native program, and text.    *)
(***************************************************************************)
EXTENDS Integers

-----------------------------------------------------------------------------
(***************************************************************************)
(* Drawing by a native program: the app_native_video_ and app_native_mouse_*)
(* bridges of kernel/user/launcher_exec.c, the virtual framebuffer of a    *)
(* session (kernel/core/session_manager.c) and the linear framebuffer of   *)
(* kernel/drivers/video/vga_gfx.c. A session that a window manager runs    *)
(* draws into its own buffer, any other onto the hardware, where the kernel*)
(* keeps a mouse cursor and the pixels under it.                           *)
(***************************************************************************)

CONSTANTS
  HwWidth, HwHeight,   \* VGA_GFX_WIDTH, VGA_GFX_HEIGHT
  VfbSizes,            \* the sizes asked for: <<width, height>>, the default among them
  VfbDefault,          \* <<SESSION_VFB_WIDTH, SESSION_VFB_HEIGHT>>
  CursorHalf,          \* KCURSOR_HALF
  Origins, Extents     \* coordinates and sizes of the rectangles drawn

VARIABLES
  hw,         \* the VGA framebuffer: offset -> color
  gfxActive,  \* g_gfx_active
  kcursor,    \* [enabled, drawn, x, y, save]: g_mouse_cursor_*
  managed,    \* wm_managed
  gfxMode,    \* gfx_mode
  vfbSize,    \* <<vfb_width, vfb_height>>, zeros before one is chosen
  vfb,        \* the session's framebuffer: offset -> color, or <<>> (null)
  vfbDrawn    \* history: what it has drawn into its own buffer

screenVars == <<hw, gfxActive, kcursor, managed, gfxMode, vfbSize, vfb, vfbDrawn>>

White == 15
Cells(w, h) == 0 .. (w * h - 1)
Blank(w, h) == [i \in Cells(w, h) |-> 0]
OnScreen(x, y, w, h) == x >= 0 /\ x < w /\ y >= 0 /\ y < h

ScreenInit ==
  /\ hw = Blank(HwWidth, HwHeight) /\ gfxActive = FALSE
  /\ kcursor = [enabled |-> FALSE, drawn |-> FALSE, x |-> -1, y |-> -1, save |-> <<>>]
  /\ managed = FALSE /\ gfxMode = 0 /\ vfbSize = <<0, 0>> /\ vfb = <<>>
  /\ vfbDrawn = <<>>

\* vga_gfx_put_pixel, and the same test of app_native_video_put_pixel on a vfb.
PutPixel(mem, mw, mh, x, y, c) ==
  IF OnScreen(x, y, mw, mh) THEN [mem EXCEPT ![y * mw + x] = c] ELSE mem

\* vga_gfx_draw_rect: the rectangle is cut to the surface, then filled by rows.
Low(a) == IF a < 0 THEN 0 ELSE a
High(a, limit) == IF a > limit THEN limit ELSE a
DrawRect(mem, mw, mh, x, y, w, h, c) ==
  [i \in Cells(mw, mh) |->
     IF \E row \in Low(y) .. (High(y + h, mh) - 1), col \in Low(x) .. (High(x + w, mw) - 1) : i = row * mw + col
     THEN c ELSE mem[i]]

\* A blit that reads the clipped rectangle as if it were the whole source.
BlitPacked(mem, mw, mh, x, y, w, h, pix) ==
  LET xOff == Low(-x)   yOff == Low(-y)
      x0 == Low(x)      y0 == Low(y)
      cw == High(x0 + (w - xOff), mw) - x0
      ch == High(y0 + (h - yOff), mh) - y0
  IN  [i \in Cells(mw, mh) |->
         IF \E row \in 0 .. (ch - 1), col \in 0 .. (cw - 1) : i = (y0 + row) * mw + x0 + col
         THEN LET row == (i \div mw) - y0   col == (i % mw) - x0
              IN  pix[row * cw + col]
         ELSE mem[i]]

\* vga_gfx_blit and app_native_video_blit: the source keeps its own stride.
Blit(mem, mw, mh, x, y, w, h, pix) ==
  LET xOff == Low(-x)   yOff == Low(-y)
      x0 == Low(x)      y0 == Low(y)
      cw == High(x0 + (w - xOff), mw) - x0
      ch == High(y0 + (h - yOff), mh) - y0
  IN  [i \in Cells(mw, mh) |->
         IF \E row \in 0 .. (ch - 1), col \in 0 .. (cw - 1) : i = (y0 + row) * mw + x0 + col
         THEN LET row == (i \div mw) - y0   col == (i % mw) - x0
              IN  pix[(yOff + row) * w + xOff + col]
         ELSE mem[i]]

\* What a rectangle of colors drawn at (x, y) is meant to leave.
Meant(mem, mw, mh, x, y, w, h, color(_, _)) ==
  [i \in Cells(mw, mh) |->
     IF OnScreen((i % mw) - x, (i \div mw) - y, w, h) THEN color((i % mw) - x, (i \div mw) - y) ELSE mem[i]]

\* kernel_cursor_erase and kernel_cursor_draw.
Around == (-CursorHalf) .. CursorHalf
Erased(mem, k) ==
  IF ~ k.drawn THEN mem
  ELSE [i \in Cells(HwWidth, HwHeight) |->
          LET dx == (i % HwWidth) - k.x   dy == (i \div HwWidth) - k.y
          IN  IF dx \in Around /\ dy \in Around THEN k.save[<<dx, dy>>] ELSE mem[i]]
Saved(mem, x, y) ==
  [d \in Around \X Around |->
     IF OnScreen(x + d[1], y + d[2], HwWidth, HwHeight) THEN mem[(y + d[2]) * HwWidth + x + d[1]] ELSE 0]
WithCross(mem, x, y) ==
  [i \in Cells(HwWidth, HwHeight) |->
     LET dx == (i % HwWidth) - x   dy == (i \div HwWidth) - y
     IN  IF dx \in Around /\ dy \in Around /\ (dx = 0 \/ dy = 0) /\ OnScreen(x, y, HwWidth, HwHeight)
         THEN White ELSE mem[i]]
Shown(k, mem, x, y) == [k EXCEPT !.drawn = TRUE, !.x = x, !.y = y, !.save = Saved(mem, x, y)]

Vw == IF vfbSize[1] = 0 THEN VfbDefault[1] ELSE vfbSize[1]
Vh == IF vfbSize[2] = 0 THEN VfbDefault[2] ELSE vfbSize[2]

\* A drawing call of a session that is not managed: the cursor is hidden
\* before and shown again after.
Hidden == IF kcursor.enabled THEN Erased(hw, kcursor) ELSE hw

OnHardware(after) ==
  IF kcursor.enabled
  THEN /\ hw' = WithCross(after, kcursor.x, kcursor.y)
       /\ kcursor' = Shown([kcursor EXCEPT !.drawn = FALSE], after, kcursor.x, kcursor.y)
  ELSE hw' = after /\ UNCHANGED kcursor

\* One call that colors the rectangle, with what it makes of either framebuffer.
ColorCall(x, y, w, h, c, virtual, hardware) ==
  LET color(i, j) == c IN
  /\ \/ /\ managed /\ gfxMode = 1 /\ vfb # <<>>
        /\ vfb' = virtual
        /\ vfbDrawn' = Meant(vfbDrawn, Vw, Vh, x, y, w, h, color)
        /\ UNCHANGED <<hw, kcursor>>
     \/ /\ ~ managed /\ gfxActive
        /\ OnHardware(hardware)
        /\ UNCHANGED <<vfb, vfbDrawn>>
  /\ UNCHANGED <<gfxActive, managed, gfxMode, vfbSize>>

\* app_native_video_put_pixel and app_native_video_draw_rect.
VideoPutPixel(x, y, c) ==
  ColorCall(x, y, 1, 1, c, PutPixel(vfb, Vw, Vh, x, y, c),
            PutPixel(Hidden, HwWidth, HwHeight, x, y, c))

VideoDrawRect(x, y, w, h, c) ==
  ColorCall(x, y, w, h, c, DrawRect(vfb, Vw, Vh, x, y, w, h, c),
            DrawRect(Hidden, HwWidth, HwHeight, x, y, w, h, c))

\* app_native_video_get_pixel of a managed session; outside it refuses.
VideoGetPixel(x, y) == IF OnScreen(x, y, Vw, Vh) THEN vfb[y * Vw + x] ELSE -1

\* session_manager_read_vfb: the rectangle cut to the buffer, row by row.
ReadVfb(x, y, w, h) ==
  LET cw == High(x + w, Vw) - x   ch == High(y + h, Vh) - y
  IN  [i \in 0 .. (cw * ch - 1) |-> vfb[(y + (i \div cw)) * Vw + x + (i % cw)]]

\* app_native_video_blit of the colors 1, 0, 1, ... : on the hardware it goes
\* straight to vga_gfx_blit.
VideoBlit(x, y, w, h) ==
  LET pix == [i \in 0 .. (w * h - 1) |-> (i + 1) % 2]
      color(i, j) == pix[j * w + i] IN
  /\ \/ /\ managed /\ gfxMode = 1 /\ vfb # <<>>
        /\ vfb' = Blit(vfb, Vw, Vh, x, y, w, h, pix)
        /\ vfbDrawn' = Meant(vfbDrawn, Vw, Vh, x, y, w, h, color)
        /\ UNCHANGED hw
     \/ /\ ~ managed /\ gfxActive
        /\ hw' = Blit(hw, HwWidth, HwHeight, x, y, w, h, pix)
        /\ UNCHANGED <<vfb, vfbDrawn>>
  /\ UNCHANGED <<gfxActive, kcursor, managed, gfxMode, vfbSize>>

\* session_manager_clear_vfb.
ClearVfb == vfb' = Blank(Vw, Vh) /\ vfbDrawn' = Blank(Vw, Vh)

\* app_native_video_clear.
VideoClear ==
  /\ \/ managed /\ gfxMode = 1 /\ vfb # <<>> /\ ClearVfb /\ UNCHANGED <<hw, kcursor>>
     \/ /\ ~ managed /\ gfxActive
        /\ hw' = Blank(HwWidth, HwHeight)
        /\ kcursor' = [kcursor EXCEPT !.drawn = @ /\ ~ kcursor.enabled]
        /\ UNCHANGED <<vfb, vfbDrawn>>
  /\ UNCHANGED <<gfxActive, managed, gfxMode, vfbSize>>

\* session_manager_get_vfb: the buffer is allocated on the first access; kmalloc
\* clears it, or there is no memory.
GetVfb(allocated) ==
  IF vfb # <<>> THEN UNCHANGED <<vfbSize, vfb, vfbDrawn>>
  ELSE /\ vfbSize' = <<Vw, Vh>>
       /\ IF allocated THEN ClearVfb ELSE UNCHANGED <<vfb, vfbDrawn>>

\* session_manager_set_gfx_mode.
SetGfxMode(mode) == gfxMode' = mode

\* app_native_video_set_mode; vga_gfx_enter clears the screen.
SetMode(mode) ==
  /\ \/ /\ managed /\ mode = 1
        /\ \E allocated \in BOOLEAN :
             GetVfb(allocated) /\ (IF vfb' = <<>> THEN UNCHANGED gfxMode ELSE SetGfxMode(1))
        /\ UNCHANGED <<gfxActive, hw>>
     \/ managed /\ mode = 0 /\ SetGfxMode(0) /\ UNCHANGED <<gfxActive, hw, vfbSize, vfb, vfbDrawn>>
     \/ /\ ~ managed /\ mode = 1
        /\ gfxActive' = TRUE /\ hw' = Blank(HwWidth, HwHeight)
        /\ UNCHANGED <<gfxMode, vfbSize, vfb, vfbDrawn>>
     \/ ~ managed /\ mode = 0 /\ gfxActive' = FALSE /\ UNCHANGED <<hw, gfxMode, vfbSize, vfb, vfbDrawn>>
  /\ UNCHANGED <<kcursor, managed>>

\* app_native_mouse_enable, _disable and _get_state.
MouseEnable ==
  /\ ~ managed /\ kcursor' = [kcursor EXCEPT !.enabled = TRUE]
  /\ UNCHANGED <<hw, gfxActive, managed, gfxMode, vfbSize, vfb, vfbDrawn>>

MouseDisable ==
  /\ ~ managed
  /\ hw' = Erased(hw, kcursor)
  /\ kcursor' = [kcursor EXCEPT !.enabled = FALSE, !.drawn = FALSE]
  /\ UNCHANGED <<gfxActive, managed, gfxMode, vfbSize, vfb, vfbDrawn>>

MousePoll(x, y) ==
  /\ ~ managed /\ kcursor.enabled /\ gfxActive
  /\ LET clean == Erased(hw, kcursor)
     IN  hw' = WithCross(clean, x, y) /\ kcursor' = Shown(kcursor, clean, x, y)
  /\ UNCHANGED <<gfxActive, managed, gfxMode, vfbSize, vfb, vfbDrawn>>

\* session_manager_set_wm_managed allocates the buffer, clears it and writes a
\* prompt into it, of which one pixel stands for all; without memory, none.
Prompt == [Blank(Vw, Vh) EXCEPT ![0] = White]
SetWmManaged(on) ==
  /\ managed' = on
  /\ IF on /\ vfb = <<>>
     THEN /\ vfbSize' = <<Vw, Vh>>
          /\ \/ vfb' = Prompt /\ vfbDrawn' = Prompt
             \/ UNCHANGED <<vfb, vfbDrawn>>
     ELSE UNCHANGED <<vfbSize, vfb, vfbDrawn>>
  /\ UNCHANGED <<hw, gfxActive, kcursor, gfxMode>>

\* session_manager_read_vfb by the window manager, before there is a buffer.
WmReads ==
  /\ \E allocated \in BOOLEAN : GetVfb(allocated)
  /\ UNCHANGED <<hw, gfxActive, kcursor, managed, gfxMode>>

\* A new size for a buffer that is already there.
SetVfbSizeAlways(size) ==
  /\ vfbSize' = size
  /\ UNCHANGED <<hw, gfxActive, kcursor, managed, gfxMode, vfb, vfbDrawn>>

\* session_manager_set_vfb_size, refused once there is a buffer.
SetVfbSize(size) ==
  /\ vfb = <<>>
  /\ vfbSize' = size
  /\ UNCHANGED <<hw, gfxActive, kcursor, managed, gfxMode, vfb, vfbDrawn>>

ScreenNext ==
  \/ \E x \in Origins, y \in Origins, w \in Extents, h \in Extents :
       VideoBlit(x, y, w, h) \/ \E c \in {0, 1} : VideoDrawRect(x, y, w, h, c) \/ VideoPutPixel(x, y, c)
  \/ VideoClear \/ MouseEnable \/ MouseDisable \/ WmReads
  \/ \E mode \in {0, 1} : SetMode(mode)
  \/ \E x \in 0 .. (HwWidth - 1), y \in 0 .. (HwHeight - 1) : MousePoll(x, y)
  \/ \E on \in BOOLEAN : SetWmManaged(on)
  \/ \E size \in VfbSizes : SetVfbSize(size)

-----------------------------------------------------------------------------
\* What a managed session has drawn, cut to its buffer, is what its buffer
\* holds, what the program reads back and what its window manager is given: no
\* call of the bridges writes elsewhere, reads its source shifted, or loses
\* pixels when modes and sizes change (session_manager_set_vfb_size, "prevents
\* mid-use resize").
VirtualDrawingFaithful ==
  vfb # <<>> =>
    /\ vfb = vfbDrawn /\ DOMAIN vfb = Cells(Vw, Vh)
    /\ \A x \in 0 .. (Vw - 1), y \in 0 .. (Vh - 1) :
         /\ VideoGetPixel(x, y) = vfbDrawn[y * Vw + x]
         /\ LET got == ReadVfb(x, y, Vw, 1)
            IN  DOMAIN got = 0 .. (Vw - x - 1) /\ \A i \in DOMAIN got : got[i] = vfbDrawn[y * Vw + x + i]

-----------------------------------------------------------------------------
(***************************************************************************)
(* Text on a screen of a few rows: the VGA text driver                     *)
(* (kernel/drivers/video/vga_text.c) and the text that a managed session   *)
(* renders into its framebuffer (session_manager_vfb_putchar). A cell is   *)
(* the set of characters to be seen in it: VGA replaces a character, while *)
(* a glyph is drawn over the pixels that are there. Both keep a cursor,    *)
(* wrap at the last column and scroll at the last row. They differ in tabs *)
(* and carriage returns. Colors are left out.                              *)
(***************************************************************************)

CONSTANTS
  Cols, Rows,    \* VGA_TEXT_WIDTH and _HEIGHT; text_cols and text_rows
  Glyphs,        \* printable characters
  PaperMax       \* bound on the lines written

VARIABLES
  device,   \* "vga" or "vfb"
  screen,   \* <<row, col>> -> characters
  cursor,   \* <<row, col>>
  paper,    \* history: the same text on paper that never scrolls
  top       \* history: the first line of the paper that is in view

textVars == <<device, screen, cursor, paper, top>>

Space == {}
ScreenCells == (0 .. (Rows - 1)) \X (0 .. (Cols - 1))
EmptyScreen == [p \in ScreenCells |-> Space]
EmptyPaper == [p \in (0 .. PaperMax) \X (0 .. (Cols - 1)) |-> Space]

TextInit ==
  /\ device \in {"vga", "vfb"}
  /\ screen = EmptyScreen /\ cursor = <<0, 0>>
  /\ paper = EmptyPaper /\ top = 0

\* A scroll that forgets to clear the last row.
ScrolledOnly(s) == [p \in ScreenCells |-> IF p[1] < Rows - 1 THEN s[<<p[1] + 1, p[2]>>] ELSE s[p]]

\* vga_text_scroll and vfb_scroll_up.
Scrolled(s) == [p \in ScreenCells |-> IF p[1] < Rows - 1 THEN s[<<p[1] + 1, p[2]>>] ELSE Space]

VfbScrollUp(s) == Scrolled(s)

\* vga_text_advance_row: the screen s, the cursor at the start of the next row.
AdvanceRow(s, row) ==
  IF row + 1 >= Rows THEN screen' = Scrolled(s) /\ cursor' = <<Rows - 1, 0>> /\ top' = top + 1
  ELSE screen' = s /\ cursor' = <<row + 1, 0>> /\ UNCHANGED top

Room == top + cursor[1] < PaperMax

\* vga_text_putc and vga_text_putc_color. A character at the last column
\* advances the row at once.
PutcGlyph(ch) ==
  /\ device = "vga" /\ Room
  /\ paper' = [paper EXCEPT ![<<top + cursor[1], cursor[2]>>] = {ch}]
  /\ IF cursor[2] + 1 >= Cols THEN AdvanceRow([screen EXCEPT ![cursor] = {ch}], cursor[1])
     ELSE /\ screen' = [screen EXCEPT ![cursor] = {ch}]
          /\ cursor' = <<cursor[1], cursor[2] + 1>> /\ UNCHANGED top
  /\ UNCHANGED device

PutcNewline ==
  /\ device = "vga" /\ Room
  /\ AdvanceRow(screen, cursor[1])
  /\ UNCHANGED <<device, paper>>

PutcBackspace ==
  /\ device = "vga" /\ cursor[2] > 0
  /\ LET back == <<cursor[1], cursor[2] - 1>>
     IN  /\ cursor' = back /\ screen' = [screen EXCEPT ![back] = Space]
         /\ paper' = [paper EXCEPT ![<<top + back[1], back[2]>>] = Space]
  /\ UNCHANGED <<device, top>>

\* vga_text_clear, vga_text_set_cursor and vga_text_putchar_at.
TextClear ==
  /\ device = "vga"
  /\ screen' = EmptyScreen /\ cursor' = <<0, 0>> /\ paper' = EmptyPaper /\ top' = 0
  /\ UNCHANGED device

SetCursor(p) == device = "vga" /\ cursor' = p /\ UNCHANGED <<device, screen, paper, top>>

PutcharAt(p, ch) ==
  /\ device = "vga"
  /\ screen' = [screen EXCEPT ![p] = {ch}]
  /\ paper' = [paper EXCEPT ![<<top + p[1], p[2]>>] = {ch}]
  /\ UNCHANGED <<device, cursor, top>>

\* The column and row that session_manager_vfb_putchar moves to, before it
\* wraps and scrolls. A backspace draws a space, which sets no pixel: the
\* glyph stays.
VfbMoved(ch) ==
  CASE ch = "newline" -> <<cursor[1] + 1, 0>>
    [] ch = "return" -> <<cursor[1], 0>>
    [] ch = "backspace" -> <<cursor[1], IF cursor[2] > 0 THEN cursor[2] - 1 ELSE 0>>
    [] ch = "tab" -> <<cursor[1], ((cursor[2] + 4) \div 4) * 4>>
    [] OTHER -> <<cursor[1], cursor[2] + 1>>

Wrapped(p) == IF p[2] >= Cols THEN <<p[1] + 1, 0>> ELSE p

VfbPutchar(ch) ==
  /\ device = "vfb" /\ Room
  /\ LET drawn == IF ch \in Glyphs THEN [screen EXCEPT ![cursor] = @ \cup {ch}] ELSE screen
         at == Wrapped(VfbMoved(ch))
     IN  IF at[1] >= Rows
         THEN screen' = VfbScrollUp(drawn) /\ cursor' = <<Rows - 1, at[2]>> /\ top' = top + 1
         ELSE screen' = drawn /\ cursor' = at /\ UNCHANGED top
  /\ paper' = IF ch \in Glyphs THEN [paper EXCEPT ![<<top + cursor[1], cursor[2]>>] = @ \cup {ch}] ELSE paper
  /\ UNCHANGED device

TextNext ==
  \/ \E ch \in Glyphs : PutcGlyph(ch) \/ \E p \in ScreenCells : PutcharAt(p, ch)
  \/ PutcNewline \/ PutcBackspace \/ TextClear
  \/ \E p \in ScreenCells : SetCursor(p)
  \/ \E ch \in Glyphs \cup {"newline", "return", "backspace", "tab"} : VfbPutchar(ch)

-----------------------------------------------------------------------------
\* The screen of vga_text.c and of a managed session is a window onto paper
\* that never scrolls: however text wraps, goes back, is drawn at a place and
\* scrolls, the newest rows are there unchanged, and the cursor is inside.
ScreenShowsText ==
  /\ cursor \in ScreenCells
  /\ \A p \in ScreenCells : screen[p] = paper[<<top + p[1], p[2]>>]
=============================================================================
