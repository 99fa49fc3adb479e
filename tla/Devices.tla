------------------------------ MODULE Devices ------------------------------
(* The hardware the kernel drives and the drivers over it: keyboard and      *)
(* mouse, the clock, and the network card.                                   *)
EXTENDS Integers, Sequences, SequencesExt, TLC

-----------------------------------------------------------------------------
(* Keyboard and mouse behind one PS/2 controller: ps2_keyboard.c,            *)
(* ps2_mouse.c and the pointer state of mouse_hal.c.  Both devices put bytes *)
(* into the controller's one output buffer, each tagged as keyboard or       *)
(* auxiliary; the two drivers poll it independently and each must leave the  *)
(* other's bytes alone.  A key is its scan code's meaning; mouse bytes are   *)
(* numbers, since the driver looks at single bits of them.                   *)

CONSTANTS
  PadKeys,      \* keys with a character of their own
  Packets,      \* the packets a mouse sends: <<flags, dx, dy>>
  Modes,        \* screen sizes given to mouse_hal_set_bounds
  TextWidth,    \* the width up to which movement is scaled (80)
  TextScale,    \* MOUSE_SCALE_TEXT
  EventMax,     \* MOUSE_EVENT_QUEUE_MAX
  DrainMax,     \* MOUSE_DRAIN_MAX
  PortMax       \* bound: bytes waiting in the controller

VARIABLES
  inPort,      \* bytes waiting: [aux, v]
  kbd,         \* [shift, caps, ctrl, seq]: modifiers, and the rest of a sequence
  keyed,       \* history: characters keyed and not yet read
  keys,        \* history: the modifiers as they are on the keyboard
  mouse,       \* [packet, x, y, ax, ay, buttons, events], pointer state
  bounds,      \* <<g_screen_width, g_screen_height>>
  owed         \* history: packets sent and not yet taken

ps2Vars == <<inPort, kbd, keyed, keys, mouse, bounds, owed>>

NoKeys == [shift |-> FALSE, caps |-> FALSE, ctrl |-> FALSE]

(* ps2_keyboard_init, ps2_mouse_init (it succeeded) and mouse_hal_init.      *)
KeyboardInit == kbd = [mods |-> NoKeys, seq |-> <<>>]
MouseHalInit ==
  /\ mouse = [packet |-> <<>>, x |-> 0, y |-> 0, ax |-> 0, ay |-> 0,
              buttons |-> 0, events |-> <<>>]
  /\ bounds \in Modes
Ps2Init ==
  /\ inPort = <<>> /\ KeyboardInit /\ keyed = <<>> /\ keys = NoKeys
  /\ MouseHalInit /\ owed = <<>>

-----------------------------------------------------------------------------
(* The devices (external).                                                   *)

Modifiers == {"shift", "unshift", "caps", "ctrl", "unctrl", "release"}

(* Modifier scan codes; releases of other keys change nothing.               *)
Modified(m, key) ==
  CASE key = "shift" -> [m EXCEPT !.shift = TRUE]
    [] key = "unshift" -> [m EXCEPT !.shift = FALSE]
    [] key = "ctrl" -> [m EXCEPT !.ctrl = TRUE]
    [] key = "unctrl" -> [m EXCEPT !.ctrl = FALSE]
    [] key = "caps" -> [m EXCEPT !.caps = ~m.caps]
    [] OTHER -> m

(* sc_to_ascii and sc_to_ascii_shift, caps lock and control.                 *)
Translated(key, m) ==
  IF key = "up" THEN <<"esc", "[", "A">>
  ELSE <<[key |-> key, upper |-> (m.shift \/ m.caps) /\ ~ m.ctrl, control |-> m.ctrl]>>

KeyPressed(key) ==
  /\ Len(inPort) < PortMax
  /\ inPort' = Append(inPort, [aux |-> FALSE, v |-> key])
  /\ IF key \in Modifiers
     THEN keys' = Modified(keys, key) /\ UNCHANGED keyed
     ELSE keyed' = keyed \o Translated(key, keys) /\ UNCHANGED keys
  /\ UNCHANGED <<kbd, mouse, bounds, owed>>

MouseMoved(p) ==
  /\ Len(inPort) + 3 <= PortMax
  /\ inPort' = inPort \o [i \in 1 .. 3 |-> [aux |-> TRUE, v |-> p[i]]]
  /\ owed' = Append(owed, p)
  /\ UNCHANGED <<kbd, keyed, keys, mouse, bounds>>

-----------------------------------------------------------------------------
(* The keyboard driver.                                                      *)

(* The status register shows a byte, and not the mouse's.                    *)
KeyWaiting == inPort # <<>> /\ ~ inPort[1].aux

(* ps2_queue_sequence: all but the character returned at once.               *)
Queued(chars) == Tail(chars)

(* ps2_keyboard_try_read_char.                                               *)
KeyboardTryReadChar ==
  /\ IF kbd.seq # <<>>
     THEN /\ keyed' = Tail(keyed) /\ kbd' = [kbd EXCEPT !.seq = Tail(@)]
          /\ UNCHANGED inPort
     ELSE /\ KeyWaiting /\ inPort' = Tail(inPort)
          /\ IF inPort[1].v \in Modifiers
             THEN kbd' = [kbd EXCEPT !.mods = Modified(@, inPort[1].v)] /\ UNCHANGED keyed
             ELSE /\ kbd' = [kbd EXCEPT !.seq = Queued(Translated(inPort[1].v, kbd.mods))]
                  /\ keyed' = Tail(keyed)
  /\ UNCHANGED <<keys, mouse, bounds, owed>>

-----------------------------------------------------------------------------
(* The mouse driver and pointer state, on a record m = [port, mouse, got].   *)

Bit(v, weight) == (v \div weight) % 2
Signed(v, negative) == IF negative = 1 THEN v - 256 ELSE v

(* A poll that forgets to start over after a packet that overflowed.         *)
PollEarly(m) ==
  IF m.port = <<>> \/ ~ m.port[1].aux THEN [m EXCEPT !.got = FALSE]
  ELSE LET v == m.port[1].v
           rest == [m EXCEPT !.port = Tail(@), !.got = FALSE]
           full == Append(m.mouse.packet, v)
       IN  IF m.mouse.packet = <<>> /\ Bit(v, 8) = 0 THEN rest
           ELSE IF Len(full) < 3 THEN [rest EXCEPT !.mouse.packet = full]
           ELSE IF Bit(full[1], 64) = 1 \/ Bit(full[1], 128) = 1
           THEN [rest EXCEPT !.mouse.packet = SubSeq(full, 1, 2), !.taken = @ + 1]
           ELSE [rest EXCEPT !.mouse.packet = <<>>, !.got = TRUE, !.raw = full, !.taken = @ + 1]

(* ps2_mouse_poll takes one byte; the third completes a packet, which is     *)
(* dropped if it says that the movement overflowed.                          *)
Poll(m) ==
  IF m.port = <<>> \/ ~ m.port[1].aux THEN [m EXCEPT !.got = FALSE]
  ELSE LET v == m.port[1].v
           rest == [m EXCEPT !.port = Tail(@), !.got = FALSE]
           full == Append(m.mouse.packet, v)
       IN  IF m.mouse.packet = <<>> /\ Bit(v, 8) = 0 THEN rest   \* out of step
           ELSE IF Len(full) < 3 THEN [rest EXCEPT !.mouse.packet = full]
           ELSE [rest EXCEPT !.mouse.packet = <<>>, !.raw = full, !.taken = @ + 1,
                             !.got = Bit(full[1], 64) = 0 /\ Bit(full[1], 128) = 0]

(* mouse_enqueue_event drops the oldest event when the queue is full.        *)
Enqueued(events, e) ==
  Append(IF Len(events) >= EventMax THEN Tail(events) ELSE events, e)

(* C division rounds towards zero.                                           *)
Quotient(a, b) == IF a >= 0 THEN a \div b ELSE 0 - ((0 - a) \div b)
Scale == IF bounds[1] > TextWidth THEN 1 ELSE TextScale
Clamped(v, size) == IF v < 0 THEN 0 ELSE IF v >= size THEN size - 1 ELSE v

(* mouse_apply_packet: movement by whole cells, then the button events.      *)
Moved(m, dx, dy) ==
  LET cx == Quotient(m.ax + dx, Scale)
      cy == Quotient(m.ay + dy, Scale)
      at == [m EXCEPT !.ax = @ + dx - cx * Scale, !.ay = @ + dy - cy * Scale,
                      !.x = Clamped(@ + cx, bounds[1]), !.y = Clamped(@ + cy, bounds[2])]
  IN  IF cx = 0 /\ cy = 0 THEN at
      ELSE [at EXCEPT !.events = Enqueued(@, [k |-> "move", b |-> 0])]

Button(m, buttons, mask) ==
  IF Bit(m.buttons, mask) = Bit(buttons, mask) THEN m
  ELSE [m EXCEPT !.events = Enqueued(@, [k |-> IF Bit(buttons, mask) = 1 THEN "down" ELSE "up",
                                         b |-> mask])]

ApplyPacket(m, p) ==
  LET flags == p[1]
      moved == Moved(m, Signed(p[2], Bit(flags, 16)), 0 - Signed(p[3], Bit(flags, 32)))
      clicked == Button(Button(Button(moved, flags % 8, 1), flags % 8, 2), flags % 8, 4)
  IN  [clicked EXCEPT !.buttons = flags % 8]

(* mouse_hal_update polls until a poll yields no packet.                     *)
RECURSIVE Drained(_, _)
Drained(m, n) ==
  IF n = 0 THEN m
  ELSE LET p == Poll(m)
       IN  IF p.got THEN Drained([p EXCEPT !.mouse = ApplyPacket(@, p.raw)], n - 1) ELSE p

MouseBytes(port) == Len(SelectSeq(port, LAMBDA b : b.aux))

MouseHalUpdate ==
  LET m == Drained([port |-> inPort, mouse |-> mouse, got |-> FALSE, raw |-> <<>>, taken |-> 0], DrainMax)
  IN  /\ inPort' = m.port /\ mouse' = m.mouse
      /\ owed' = SubSeq(owed, m.taken + 1, Len(owed))
      /\ UNCHANGED <<kbd, keyed, keys, bounds>>

(* mouse_hal_poll_event.                                                     *)
MouseHalPollEvent ==
  /\ mouse.events # <<>>
  /\ mouse' = [mouse EXCEPT !.events = Tail(@)]
  /\ UNCHANGED <<inPort, kbd, keyed, keys, bounds, owed>>

(* A change of mode that keeps the pointer where it was.                     *)
SetBoundsOnly(size) == bounds' = size /\ mouse' = [mouse EXCEPT !.ax = 0, !.ay = 0]

(* mouse_hal_set_bounds, when the video mode changes.                        *)
SetBounds(size) ==
  /\ bounds' = size
  /\ mouse' = [mouse EXCEPT !.ax = 0, !.ay = 0,
                            !.x = IF @ >= size[1] THEN size[1] - 1 ELSE @,
                            !.y = IF @ >= size[2] THEN size[2] - 1 ELSE @]

MouseHalSetBounds(size) ==
  SetBounds(size) /\ UNCHANGED <<inPort, kbd, keyed, keys, owed>>

Ps2Next ==
  \/ \E key \in PadKeys \cup Modifiers \cup {"up"} : KeyPressed(key)
  \/ \E p \in Packets : MouseMoved(p)
  \/ KeyboardTryReadChar \/ MouseHalUpdate \/ MouseHalPollEvent
  \/ \E size \in Modes : MouseHalSetBounds(size)

-----------------------------------------------------------------------------
(* The characters that a sequence of port bytes still stands for.            *)
RECURSIVE Decoded(_, _)
Decoded(port, m) ==
  IF port = <<>> THEN <<>>
  ELSE IF port[1].aux THEN Decoded(Tail(port), m)
  ELSE IF port[1].v \in Modifiers THEN Decoded(Tail(port), Modified(m, port[1].v))
  ELSE Translated(port[1].v, m) \o Decoded(Tail(port), m)

(* However polls, keys, packets and mode changes interleave: every character *)
(* keyed is still to come, in order and as the modifiers stood when it was   *)
(* keyed (ps2_keyboard.c:137-155); the mouse driver stays in step with the   *)
(* three-byte packets, the dropped ones included (ps2_mouse.c:176-208); and  *)
(* the pointer is on the screen of the current mode (mouse_hal.c:140,232).   *)
InputArrives ==
  /\ keyed = kbd.seq \o Decoded(inPort, kbd.mods)
  /\ mouse.packet \o [i \in 1 .. MouseBytes(inPort) |-> SelectSeq(inPort, LAMBDA b : b.aux)[i].v]
       = FlattenSeq(owed)
  /\ mouse.x \in 0 .. bounds[1] - 1 /\ mouse.y \in 0 .. bounds[2] - 1

-----------------------------------------------------------------------------
(* Time: the CMOS clock's registers (cmos_rtc.c), the clock service that     *)
(* lays a software offset over it (clock_service.c), the date command        *)
(* (launcher_exec.c) and the text form of a time (clock_service.c, timelib). *)
(* A day has fewer hours, minutes and seconds than a real one; months and    *)
(* leap years are the real ones.                                             *)

CONSTANTS
  Hours, Minutes, Seconds,   \* per day, hour and minute (24, 60, 60)
  RtcModes,    \* [bcd, h24]: how the hardware clock stores its registers
  RtcStarts,   \* seconds since 2000 at which the machine may start
  RtcRun,      \* bound: seconds the hardware clock advances
  Asked,       \* the times a user sets
  TickBound    \* bound: g_tick_count

VARIABLES
  rtc,       \* [start, ran, mode]: the hardware clock
  offset,    \* g_clock_offset_seconds
  tickCount, \* g_tick_count
  wanted,    \* history: [ahead, t, at], the last setting: seconds ahead of rtc, time, when
  report     \* what the last date command printed

clockVars == <<rtc, offset, tickCount, wanted, report>>

(* is_leap_year by the rule of four alone.                                   *)
IsLeapYearNaive(y) == y % 400 # 0 /\ y % 4 = 0

IsLeapYear(y) == y % 4 = 0 /\ (y % 100 # 0 \/ y % 400 = 0)

DaysInMonth(m, y) ==
  IF m = 2 /\ IsLeapYear(y) THEN 29
  ELSE <<31, 28, 31, 30, 31, 30, 31, 31, 30, 31, 30, 31>>[m]
DaysInYear(y) == IF IsLeapYear(y) THEN 366 ELSE 365

DayLen == Hours * Minutes * Seconds

RECURSIVE DaysBeforeYear(_)
DaysBeforeYear(y) == IF y <= 2000 THEN 0 ELSE DaysInYear(y - 1) + DaysBeforeYear(y - 1)
RECURSIVE DaysBeforeMonth(_, _)
DaysBeforeMonth(m, y) == IF m = 1 THEN 0 ELSE DaysInMonth(m - 1, y) + DaysBeforeMonth(m - 1, y)

(* time_to_epoch_approx.                                                     *)
ToEpoch(t) ==
  (DaysBeforeYear(t.year) + DaysBeforeMonth(t.month, t.year) + t.day - 1) * DayLen
    + (t.hour * Minutes + t.minute) * Seconds + t.second

(* epoch_approx_to_time: whole years, then whole months, then the rest.      *)
RECURSIVE InMonth(_, _, _)
InMonth(days, m, y) ==
  IF m = 12 \/ days < DaysInMonth(m, y) THEN [month |-> m, day |-> days + 1]
  ELSE InMonth(days - DaysInMonth(m, y), m + 1, y)

RECURSIVE InYear(_, _)
InYear(days, y) ==
  IF days < DaysInYear(y) THEN [year |-> y] @@ InMonth(days, 1, y)
  ELSE InYear(days - DaysInYear(y), y + 1)

OfDay(date, s) ==
  [year |-> date.year, month |-> date.month, day |-> date.day,
   hour |-> s \div (Minutes * Seconds), minute |-> (s \div Seconds) % Minutes, second |-> s % Seconds]

ToTime(epoch) ==
  LET e == IF epoch < 0 THEN 0 ELSE epoch
  IN  OfDay(InYear(e \div DayLen, 2000), e % DayLen)

-----------------------------------------------------------------------------
(* The hardware clock (external): its registers at s seconds since 2000.     *)

Bcd(v) == (v \div 10) * 16 + (v % 10)
Stored(v, mode) == IF mode.bcd THEN Bcd(v) ELSE v
HalfDay == Hours \div 2

StoredHour(h, mode) ==
  IF mode.h24 THEN Stored(h, mode)
  ELSE Stored(IF h % HalfDay = 0 THEN HalfDay ELSE h % HalfDay, mode) + (IF h >= HalfDay THEN 128 ELSE 0)

Registers(t, mode) ==
  [century |-> Stored(t.year \div 100, mode), year |-> Stored(t.year % 100, mode),
   month |-> Stored(t.month, mode), day |-> Stored(t.day, mode),
   hour |-> StoredHour(t.hour, mode), minute |-> Stored(t.minute, mode),
   second |-> Stored(t.second, mode)]

(* bcd_to_binary, on the low byte.                                           *)
BcdToBinary(v) == ((v \div 16) * 10 + (v % 16)) % 256
Value(v, mode) == IF mode.bcd THEN BcdToBinary(v) ELSE v

(* The hour: converted like the other registers, then from 12 to 24 hours.   *)
HourOf(v, mode) ==
  LET h == Value(v, mode)
  IN  IF mode.h24 THEN h
      ELSE IF h >= 128 THEN ((h % 128) % HalfDay) + HalfDay ELSE h % HalfDay

(* cmos_rtc_read_time.                                                       *)
CmosReadTime(r, mode) ==
  [year |-> Value(r.century, mode) * 100 + Value(r.year, mode),
   month |-> Value(r.month, mode), day |-> Value(r.day, mode), hour |-> HourOf(r.hour, mode),
   minute |-> Value(r.minute, mode), second |-> Value(r.second, mode)]

Now == rtc.start + rtc.ran
HwTime == CmosReadTime(Registers(ToTime(Now), rtc.mode), rtc.mode)

-----------------------------------------------------------------------------
(* Text: write_decimal, the formats and the two parsers of "Y-M-D h:m:s".    *)

RECURSIVE WriteDecimal(_, _)
WriteDecimal(v, width) ==
  IF width = 0 THEN <<>> ELSE Append(WriteDecimal(v \div 10, width - 1), v % 10)

Dash == 10
BlankReport == 11
Colon == 12
FormatDate(t) == WriteDecimal(t.year, 4) \o <<Dash>> \o WriteDecimal(t.month, 2) \o <<Dash>> \o WriteDecimal(t.day, 2)
FormatTime(t) == WriteDecimal(t.hour, 2) \o <<Colon>> \o WriteDecimal(t.minute, 2) \o <<Colon>> \o WriteDecimal(t.second, 2)
FormatDatetime(t) == FormatDate(t) \o <<BlankReport>> \o FormatTime(t)

(* The numbers of a text: digits up to a separator, which is skipped.        *)
RECURSIVE Numbers(_, _)
Numbers(text, v) ==
  IF text = <<>> THEN <<v>>
  ELSE IF text[1] <= 9 THEN Numbers(Tail(text), v * 10 + text[1])
  ELSE <<v>> \o Numbers(Tail(text), 0)

Parsed(n) == [year |-> n[1] % 65536, month |-> n[2] % 256, day |-> n[3] % 256,
              hour |-> n[4] % 256, minute |-> n[5] % 256, second |-> n[6] % 256]
TimelibNow(text) == Parsed(Numbers(text, 0))

-----------------------------------------------------------------------------
NoReport == [k |-> "none"]

(* cmos_rtc_init reads the mode, clock_service_init clears the offset.       *)
ClockInit ==
  /\ rtc \in [start : RtcStarts, ran : {0}, mode : RtcModes]
  /\ offset = 0 /\ tickCount = 0 /\ wanted = [ahead |-> 0] /\ report = NoReport

RtcAdvances ==
  /\ rtc.ran < RtcRun /\ rtc' = [rtc EXCEPT !.ran = @ + 1] /\ report' = NoReport
  /\ UNCHANGED <<offset, tickCount, wanted>>

(* clock_service_get_time.                                                   *)
GetTime == IF offset = 0 THEN HwTime ELSE ToTime(ToEpoch(HwTime) + offset)

Ticks == tickCount' = IF tickCount < TickBound THEN tickCount + 1 ELSE tickCount

DateShow ==
  /\ Ticks /\ report' = [k |-> "text", v |-> FormatDatetime(GetTime)]
  /\ UNCHANGED <<rtc, offset, wanted>>

(* clock_service_get_epoch reads the time first.                             *)
GetEpoch == ToEpoch(GetTime)

DateEpoch ==
  /\ Ticks /\ report' = [k |-> "epoch", v |-> GetEpoch]
  /\ UNCHANGED <<rtc, offset, wanted>>

DateTicks ==
  report' = [k |-> "ticks", v |-> tickCount] /\ UNCHANGED <<rtc, offset, tickCount, wanted>>

(* clock_service_set_time, with CAP_CLOCK_SET.                               *)
SetTime(t) == offset' = ToEpoch(t) - ToEpoch(HwTime)

DateSet(text) ==
  /\ SetTime(TimelibNow(text))
  /\ wanted' = [ahead |-> ToEpoch(TimelibNow(text)) - Now, t |-> TimelibNow(text), at |-> rtc.ran]
  /\ report' = [k |-> "updated"]
  /\ UNCHANGED <<rtc, tickCount>>

DateSetDenied ==
  report' = [k |-> "denied"] /\ UNCHANGED <<rtc, offset, tickCount, wanted>>

ClockNext ==
  \/ RtcAdvances \/ DateShow \/ DateEpoch \/ DateTicks \/ DateSetDenied
  \/ \E t \in Asked : DateSet(FormatDatetime(t))

-----------------------------------------------------------------------------
(* The times of a calendar.                                                  *)
CalendarTime(t) ==
  /\ t.month \in 1 .. 12
  /\ t.day \in 1 .. (CASE t.month \in {4, 6, 9, 11} -> 30
                       [] t.month = 2 -> IF t.year % 4 = 0 /\ t.year # 2100 THEN 29 ELSE 28
                       [] OTHER -> 31)
  /\ t.hour \in 0 .. Hours - 1 /\ t.minute \in 0 .. Minutes - 1 /\ t.second \in 0 .. Seconds - 1

(* From any start, through any settings and while the hardware clock runs    *)
(* on: what date prints reads back as the time that was set plus what has    *)
(* passed since, a real calendar time and the same as its epoch              *)
(* (clock_service.c:54-106,136,164; cmos_rtc.c:103-120; timelib/main.c:49).  *)
ClockKeepsSetTime ==
  /\ report.k = "text" =>
       /\ CalendarTime(TimelibNow(report.v))
       /\ ToEpoch(TimelibNow(report.v)) = Now + wanted.ahead
  /\ report.k = "epoch" => report.v = Now + wanted.ahead
  /\ (report.k = "text" /\ "t" \in DOMAIN wanted) =>
       (wanted.at = rtc.ran => TimelibNow(report.v) = wanted.t)

-----------------------------------------------------------------------------
(* kernel/drivers/network/virtio_net.c: the split virtqueues it shares with  *)
(* the device.  The receive queue hands every buffer to the device and takes *)
(* them back through the used ring; the transmit queue has one buffer and    *)
(* one descriptor.  The device (external) runs concurrently with the driver. *)
(* Indices are 16-bit counters read modulo the ring size.                    *)

CONSTANTS
  VringSize,   \* VRING_SIZE
  IdxMod,      \* 2^16, a multiple of VringSize
  NetFrames,   \* frame contents; "runt" is one of header length or less
  TxOwedMax    \* bound: sends the device is behind by

VARIABLES
  rxAvail, rxAvailIdx,   \* avail->ring, avail->idx of the receive queue
  rxUsed, rxUsedIdx,     \* used->ring (descriptor ids), used->idx
  rxLast,                \* g_rxq.last_used_idx
  rxTaken,               \* the device's own index into the available ring
  rxBufs,                \* g_rx_bufs
  rxArrived,             \* history: frames the device stored, not yet read
  rxGot,                 \* what virtio_net_recv last returned, "empty" if nothing
  txBuf, txAvailIdx, txUsedIdx, txLast,   \* g_tx_buf and the transmit indices
  txBusy,                \* inside the completion poll of virtio_net_send
  txOwed,                \* history: frames sent and not yet transmitted
  txLate,                \* history: some completion poll ran out
  txSent                 \* history: the last frame the device transmitted was the one owed

virtioVars == <<rxAvail, rxAvailIdx, rxUsed, rxUsedIdx, rxLast, rxTaken, rxBufs,
                rxArrived, rxGot, txBuf, txAvailIdx, txUsedIdx, txLast, txBusy,
                txOwed, txLate, txSent>>
rxVars == <<rxAvail, rxAvailIdx, rxUsed, rxUsedIdx, rxLast, rxTaken, rxBufs,
            rxArrived, rxGot>>
txVars == <<txBuf, txAvailIdx, txUsedIdx, txLast, txBusy, txOwed, txLate, txSent>>

Descs == 0 .. VringSize - 1
Inc(i) == (i + 1) % IdxMod
Between(lo, hi) == (hi + IdxMod - lo) % IdxMod   \* entries from lo up to hi

(* vring_init and virtio_net_fill_rx: every buffer is offered to the device. *)
VirtioInit ==
  /\ rxAvail = [d \in Descs |-> d] /\ rxAvailIdx = VringSize % IdxMod
  /\ rxUsed = [d \in Descs |-> 0] /\ rxUsedIdx = 0
  /\ rxLast = 0 /\ rxTaken = 0
  /\ rxBufs = [d \in Descs |-> "none"] /\ rxArrived = <<>> /\ rxGot = "empty"
  /\ txBuf = "none" /\ txAvailIdx = 0 /\ txUsedIdx = 0 /\ txLast = 0
  /\ txBusy = FALSE /\ txOwed = <<>> /\ txLate = FALSE /\ txSent = TRUE

(* The device stores a frame in the next buffer it was offered.              *)
DeviceReceives(f) ==
  /\ rxTaken # rxAvailIdx
  /\ LET d == rxAvail[rxTaken % VringSize] IN
       /\ rxBufs' = [rxBufs EXCEPT ![d] = f]
       /\ rxUsed' = [rxUsed EXCEPT ![rxUsedIdx % VringSize] = d]
  /\ rxUsedIdx' = Inc(rxUsedIdx) /\ rxTaken' = Inc(rxTaken)
  /\ rxArrived' = Append(rxArrived, f)
  /\ UNCHANGED <<rxAvail, rxAvailIdx, rxLast, rxGot, txVars>>

(* virtio_net_recv; a runt is dropped and its buffer recycled all the same.  *)
RequeueFrames(f, d) ==
  IF f = "runt" THEN UNCHANGED <<rxAvail, rxAvailIdx>>
  ELSE /\ rxAvail' = [rxAvail EXCEPT ![rxAvailIdx % VringSize] = d]
       /\ rxAvailIdx' = Inc(rxAvailIdx)

Requeue(f, d) ==
  /\ rxAvail' = [rxAvail EXCEPT ![rxAvailIdx % VringSize] = d]
  /\ rxAvailIdx' = Inc(rxAvailIdx)

NetRecv ==
  /\ \/ /\ rxUsedIdx = rxLast
        /\ rxGot' = "empty" /\ UNCHANGED <<rxLast, rxAvail, rxAvailIdx, rxArrived>>
     \/ /\ rxUsedIdx # rxLast
        /\ LET d == rxUsed[rxLast % VringSize] IN
             /\ rxGot' = IF rxBufs[d] = "runt" THEN "empty" ELSE rxBufs[d]
             /\ Requeue(rxBufs[d], d)
        /\ rxLast' = Inc(rxLast) /\ rxArrived' = Tail(rxArrived)
  /\ UNCHANGED <<rxUsed, rxUsedIdx, rxTaken, rxBufs, txVars>>

(* virtio_net_send fills the one buffer, publishes it and polls.             *)
NetSend(f) ==
  /\ ~txBusy /\ Len(txOwed) < TxOwedMax
  /\ txBuf' = f /\ txAvailIdx' = Inc(txAvailIdx) /\ txBusy' = TRUE
  /\ txOwed' = Append(txOwed, f)
  /\ UNCHANGED <<txUsedIdx, txLast, txLate, txSent, rxVars>>

DeviceTransmits ==
  /\ txUsedIdx # txAvailIdx
  /\ txUsedIdx' = Inc(txUsedIdx)
  /\ txSent' = (txBuf = txOwed[1]) /\ txOwed' = Tail(txOwed)
  /\ UNCHANGED <<txBuf, txAvailIdx, txLast, txBusy, txLate, rxVars>>

(* The poll ends when used->idx moves, or after its spin count.              *)
Polled == txLast' = txUsedIdx

NetSendReturns ==
  /\ txBusy /\ txBusy' = FALSE
  /\ Polled
  /\ txLate' = (txLate \/ txUsedIdx = txLast)
  /\ UNCHANGED <<txBuf, txAvailIdx, txUsedIdx, txOwed, txSent, rxVars>>

VirtioNext ==
  \/ \E f \in NetFrames : DeviceReceives(f)
  \/ NetRecv
  \/ \E f \in NetFrames \ {"runt"} : NetSend(f)
  \/ DeviceTransmits \/ NetSendReturns

-----------------------------------------------------------------------------
(* The driver and the device never disagree about a buffer: each receive     *)
(* buffer is either offered or filled, never both or twice; unread frames    *)
(* sit in the used ring in the order they arrived, runts included, over any  *)
(* number of index wraps (virtio_net.c:376-406).  And as long as no          *)
(* completion poll ran out, what the device transmitted is what was sent.    *)
RingsAgree ==
  LET offered == [i \in 1 .. Between(rxTaken, rxAvailIdx) |->
                    rxAvail[(rxTaken + i - 1) % VringSize]]
      filled  == [i \in 1 .. Between(rxLast, rxUsedIdx) |->
                    rxUsed[(rxLast + i - 1) % VringSize]]
      all     == offered \o filled
  IN /\ Len(all) = VringSize
     /\ \A i, j \in DOMAIN all : all[i] = all[j] => i = j
     /\ Len(filled) = Len(rxArrived)
     /\ \A i \in DOMAIN filled : rxBufs[filled[i]] = rxArrived[i]
     /\ ~txLate => txSent /\ (~txBusy => txOwed = <<>>)
=============================================================================
