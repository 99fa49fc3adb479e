----------------------------- MODULE WinManager -----------------------------
(* The window manager, user/apps/win: main.c's loop polls for a prompt,      *)
(* takes the input, ticks the session and renders a frame.  The program      *)
(* opens one window, so the order of windows is left out.  A picture gives for *)
(* every pixel what is painted there: a pixel of the session's virtual       *)
(* frame buffer is painted as its own coordinates.                           *)
EXTENDS Integers, Sequences

CONSTANTS
  ScreenW, ScreenH,    \* SCREEN_W, SCREEN_H
  VfbW, VfbH,          \* the virtual frame buffer set by main
  TitleH,              \* WIN_TITLE_HEIGHT; WIN_BORDER is 1
  CloseW,              \* width of the close button's corner (10)
  QuitX, QuitH,        \* left and bottom edge of the quit button
  DialogBox,           \* rectangle <<x, y, w, h>> of the dialog
  Buttons,             \* responses -> rectangles of the dialog's buttons
  EchoCols, EchoRows   \* WIN_CONTENT_COLS, WIN_CONTENT_ROWS

VARIABLES
  wmPc,      \* "poll", "input", "render", "left"
  window,    \* [active, focused, x, y]
  echo,      \* [rows, col, row], the window's text buffer
  drag,      \* [on, ox, oy]
  pointer,   \* [x, y, left, middle]: as of the last input_update
  dialogUp,    \* g_dialog_active
  replied,   \* the last response given to a prompt
  told,      \* the session's virtual mouse: [x, y, left]
  picture      \* what the last picture shows

wmVars == <<wmPc, window, echo, drag, pointer, dialogUp, replied, told, picture>>

Pixels == (0 .. ScreenW - 1) \X (0 .. ScreenH - 1)
Border == 1
Width == VfbW + 2 * Border
Height == TitleH + VfbH + 2 * Border

(* win_init, win_create at the origin, win_set_focus; compositor_init;       *)
(* input_init.                                                               *)
WinCreate ==
  /\ window = [active |-> TRUE, focused |-> TRUE, x |-> 0, y |-> 0]
  /\ echo = [rows |-> [r \in 1 .. EchoRows |-> <<>>], col |-> 0, row |-> 1]
CompositorInit == picture = [p \in Pixels |-> <<"desktop">>]
InputInit ==
  /\ drag = [on |-> FALSE, ox |-> 0, oy |-> 0]
  /\ pointer = [x |-> ScreenW \div 2, y |-> ScreenH \div 2, left |-> FALSE]

WmInit ==
  /\ WinCreate /\ CompositorInit /\ InputInit
  /\ wmPc = "poll" /\ dialogUp = FALSE /\ replied = "none"
  /\ told = [x |-> 0, y |-> 0, left |-> FALSE]

Inside(p, r) == p[1] \in r[1] .. r[1] + r[3] - 1 /\ p[2] \in r[2] .. r[2] + r[4] - 1

-----------------------------------------------------------------------------
(* auth_dialog_poll: a prompt is pending or not; an open dialog stays.       *)
AuthDialogPoll ==
  /\ wmPc = "poll" /\ wmPc' = "input"
  /\ dialogUp' \in IF dialogUp THEN {TRUE} ELSE BOOLEAN
  /\ UNCHANGED <<window, echo, drag, pointer, replied, told, picture>>

-----------------------------------------------------------------------------
(* win_putchar and win_scroll_up, for the echo of a key.                     *)
NextLine(e) ==
  IF e.row < EchoRows THEN [e EXCEPT !.col = 0, !.row = @ + 1]
  ELSE [e EXCEPT !.col = 0, !.rows = [r \in 1 .. EchoRows |-> IF r < EchoRows THEN @[r + 1] ELSE <<>>]]

Put(e, ch) ==
  IF ch = "newline" THEN NextLine(e)
  ELSE IF ch = "return" THEN [e EXCEPT !.col = 0]
  ELSE LET put == [e EXCEPT !.rows[e.row] = Append(SubSeq(@, 1, e.col), ch), !.col = @ + 1]
       IN  IF put.col >= EchoCols THEN NextLine(put) ELSE put

(* The key goes to the focused window's session, and to its text buffer.     *)
KeyEcho(key) ==
  echo' = IF key # "none" /\ window.active /\ window.focused THEN Put(echo, key) ELSE echo

(* win_hit_test.                                                             *)
HitTest(p) ==
  IF ~ window.active \/ ~ Inside(p, <<window.x, window.y, Width, Height>>) THEN "desktop"
  ELSE IF p[2] - window.y >= TitleH THEN "content"
  ELSE IF p[1] - window.x >= Width - CloseW THEN "close" ELSE "title"

(* auth_dialog_click: the button at p, or the dialog itself.                 *)
DialogClick(p) ==
  IF \E b \in DOMAIN Buttons : Inside(p, Buttons[b])
  THEN CHOOSE b \in DOMAIN Buttons : Inside(p, Buttons[b])
  ELSE IF Inside(p, DialogBox) THEN "dialog" ELSE "none"

(* What a press of the left button at p is meant for.                        *)
Target(p) ==
  IF dialogUp /\ DialogClick(p) # "none" THEN DialogClick(p)
  ELSE IF p[1] >= QuitX /\ p[2] < QuitH THEN "quit"
  ELSE HitTest(p)

(* The window and the drag after a press, win_set_focus included.            *)
Pressed(p, t) ==
  /\ window' = CASE t = "close" -> [window EXCEPT !.active = FALSE, !.focused = FALSE]
                 [] t \in {"title", "content"} -> [window EXCEPT !.focused = TRUE]
                 [] OTHER -> window
  /\ drag' = IF t = "title" THEN [on |-> TRUE, ox |-> p[1] - window.x, oy |-> p[2] - window.y]
             ELSE drag
  /\ replied' = IF t \in DOMAIN Buttons THEN t ELSE replied
  /\ dialogUp' = (dialogUp /\ t \notin DOMAIN Buttons)

(* The window follows the pointer while the button is down, win_move.        *)
Dragged(p, left) ==
  /\ window' = IF left THEN [window EXCEPT !.x = p[1] - drag.ox, !.y = p[2] - drag.oy] ELSE window
  /\ drag' = [drag EXCEPT !.on = left]
  /\ UNCHANGED <<replied, dialogUp>>

(* A virtual mouse placed from the window's corner, not from its content.    *)
VirtualMouseAtCorner(p, left) ==
  told' = IF ~ window'.active \/ ~ window'.focused THEN told
          ELSE LET rx == p[1] - window'.x
                   ry == p[2] - window'.y
               IN  [x |-> IF rx < 0 THEN 0 ELSE IF rx >= VfbW THEN VfbW - 1 ELSE rx,
                    y |-> IF ry < 0 THEN 0 ELSE IF ry >= VfbH THEN VfbH - 1 ELSE ry,
                    left |-> left]

(* The state injected into the focused window's session: the place in its    *)
(* frame buffer, and the buttons while the pointer is over the content.      *)
VirtualMouse(p, left) ==
  told' = IF ~ window'.active \/ ~ window'.focused THEN told
          ELSE LET cx == window'.x + Border
                   cy == window'.y + TitleH
                   rx == p[1] - cx
                   ry == p[2] - cy
               IN  [x |-> IF rx < 0 THEN 0 ELSE IF rx >= VfbW THEN VfbW - 1 ELSE rx,
                    y |-> IF ry < 0 THEN 0 ELSE IF ry >= VfbH THEN VfbH - 1 ELSE ry,
                    left |-> left /\ Inside(p, <<cx, cy, Width - 2 * Border, Height - TitleH - Border>>)]

(* input_update; quitting returns at once.                                   *)
InputUpdate(key, p, left) ==
  /\ wmPc = "input"
  /\ KeyEcho(key)
  /\ IF left /\ ~ pointer.left /\ ~ drag.on /\ Target(p) = "quit"
     THEN /\ wmPc' = "left" /\ pointer' = [pointer EXCEPT !.x = p[1], !.y = p[2]]
          /\ UNCHANGED <<window, drag, dialogUp, replied, told>>
     ELSE /\ wmPc' = "render"
          /\ pointer' = [x |-> p[1], y |-> p[2], left |-> left]
          /\ IF drag.on THEN Dragged(p, left)
             ELSE IF left /\ ~ pointer.left THEN Pressed(p, Target(p))
             ELSE UNCHANGED <<window, drag, dialogUp, replied>>
          /\ VirtualMouse(p, left)
  /\ UNCHANGED picture

-----------------------------------------------------------------------------
(* draw_window, at pixel p.  The rows read from the session are one more     *)
(* than it has; what that row shows is left open.  The copy starts at the    *)
(* first pixel on the screen, and its source at that pixel's coordinates.    *)
VfbPixel(p) ==
  LET dx == window.x + Border
      dy == window.y + TitleH
      fromX == IF dx < 0 THEN 0 - dx ELSE 0
      fromY == IF dy < 0 THEN 0 - dy ELSE 0
      atX == IF dx < 0 THEN 0 ELSE dx
      atY == IF dy < 0 THEN 0 ELSE dy
  IN  <<fromX + p[1] - atX, fromY + p[2] - atY>>

DrawWindow(p) ==
  IF Inside(p, <<window.x + Border, window.y + TitleH, VfbW, VfbH + Border>>)
  THEN <<"vfb">> \o VfbPixel(p)
  ELSE IF Inside(p, <<window.x + Width - CloseW, window.y + Border, CloseW - 2, TitleH - Border>>)
  THEN <<"close">>
  ELSE IF Inside(p, <<window.x + Border, window.y + Border, Width - 2 * Border, TitleH - Border>>)
  THEN <<"title">> ELSE <<"border">>

(* auth_dialog_render.                                                       *)
DrawDialog(p) ==
  IF \E b \in DOMAIN Buttons : Inside(p, Buttons[b])
  THEN <<CHOOSE b \in DOMAIN Buttons : Inside(p, Buttons[b])>>
  ELSE IF Inside(p, DialogBox) THEN <<"dialog">> ELSE <<"frame">>

(* compositor_render, the cursor left out: desktop, window, dialog, quit.    *)
Painted(p) ==
  IF p[1] >= QuitX /\ p[2] < QuitH THEN <<"quit">>
  ELSE IF dialogUp /\ Inside(p, <<DialogBox[1] - 1, DialogBox[2] - 1, DialogBox[3] + 2, DialogBox[4] + 2>>)
  THEN DrawDialog(p)
  ELSE IF window.active /\ Inside(p, <<window.x, window.y, Width, Height>>) THEN DrawWindow(p)
  ELSE <<"desktop">>

(* The end of an iteration; without a window the loop is left.               *)
Render ==
  /\ wmPc = "render"
  /\ picture' = [p \in Pixels |-> Painted(p)]
  /\ wmPc' = IF window.active THEN "poll" ELSE "left"
  /\ UNCHANGED <<window, echo, drag, pointer, dialogUp, replied, told>>

WmNext ==
  \/ AuthDialogPoll \/ Render
  \/ \E p \in Pixels, left \in BOOLEAN : InputUpdate("none", p, left)
  \/ \E key \in {"k", "newline", "return"} : InputUpdate(key, <<pointer.x, pointer.y>>, pointer.left)

-----------------------------------------------------------------------------
(* Between frames a press means what the picture shows under the pointer: the *)
(* painted buttons, title and desktop are what win_hit_test and              *)
(* auth_dialog_click find there, and the session is told the very pixel of   *)
(* its frame buffer that is painted under the pointer, however far the       *)
(* window was dragged off the screen (input.c:128-159, compositor.c:120-141). *)
PointerMeetsPicture ==
  wmPc = "poll" /\ picture # [p \in Pixels |-> <<"desktop">>] =>
    /\ \A p \in Pixels :
         /\ picture[p][1] \in DOMAIN Buttons \cup {"dialog", "quit", "close", "desktop"}
              => Target(p) = picture[p][1]
         /\ picture[p][1] = "vfb" => Target(p) = "content"
         /\ picture[p][1] = "title" => Target(p) \in {"title", "close"}
    /\ LET seen == picture[<<pointer.x, pointer.y>>]
       IN  (window.focused /\ seen[1] = "vfb" /\ seen[3] < VfbH) =>
             told = [x |-> seen[2], y |-> seen[3], left |-> pointer.left]
=============================================================================
