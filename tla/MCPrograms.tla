----------------------------- MODULE MCPrograms -----------------------------
(***************************************************************************)
(* What programs stand on - the devices and their drivers, and the C       *)
(* library - and programs themselves.  They share no state that their      *)
(* modules model, so a behaviour picks one of them at the start and runs   *)
(* only that one; their state spaces add up instead of multiplying.        *)
(*                                                                         *)
(*   gfx      Display: a screen of two pixels, two sizes of virtual buffer *)
(*   text     Display: two by two cells, so that every line scrolls        *)
(*   input    Devices: three bytes in the controller, a queue of one       *)
(*   clock    Devices: short hours and minutes, dates around the leap days *)
(*   nic      Devices: rings of two, indices that wrap at four             *)
(*   net      NetStack: two requests to hosts of every kind                *)
(*   files    ClibFiles: one descriptor, one stream, files of two bytes    *)
(*   sort     ClibPure: every array of five and seven small values         *)
(*   ctext    ClibPure: every text of three characters, memory of five     *)
(*            cells                                                        *)
(*   calls    OsCalls: one file, programs nested three deep                *)
(*   sosh     SoshLib: every well-formed script of up to four lines        *)
(*   words    SoshLib: lines of up to three tokens, two variables          *)
(*   edit     Editor: two files, two lines of two characters               *)
(*   win      WinManager: a window and a dialog on a screen of 5 by 4      *)
(***************************************************************************)
EXTENDS Display, Devices, NetStack, ClibFiles, ClibPure,
        OsCalls, SoshLib, Editor, WinManager

CONSTANT Parts  \* the parts that are explored

VARIABLE part   \* the part that runs

-----------------------------------------------------------------------------
(* Values of the constants *)

MCVfbSizes == {<<1, 2>>, <<2, 2>>}
MCVfbDefault == <<2, 2>>
MCOrigins == {-1, 0, 1}

(* A packet that moves right and down with a button, one that overflows.   *)
MCPackets == {<<41, 2, 255>>, <<72, 8, 8>>}
MCModes == {<<1, 2>>, <<3, 1>>}

MCRtcModes ==
  {[bcd |-> TRUE, h24 |-> TRUE], [bcd |-> FALSE, h24 |-> TRUE], [bcd |-> FALSE, h24 |-> FALSE]}

(* Two seconds before the end of a February, one before the end of a year. *)
MCRtcStarts == {59 * 16 - 2, 366 * 16 - 1}

MCAsked ==
  {[year |-> d[1], month |-> d[2], day |-> d[3], hour |-> h, minute |-> 1, second |-> 1] :
     d \in {<<2000, 2, 28>>, <<2000, 2, 29>>, <<2000, 12, 31>>, <<2001, 2, 28>>, <<2012, 3, 1>>,
            <<2067, 11, 30>>}, h \in {0, 3}}

(* With the arrays of nine, the stack of ranges runs full.                 *)
MCSortInputs ==
  [1 .. 5 -> 1 .. 3] \cup [1 .. 7 -> 1 .. 2] \cup {<<>>, <<2>>}
  \cup {[i \in 1 .. 9 |-> (k * i * i + i * j) % 10] : k \in 0 .. 9, j \in 0 .. 9}

MCChars == {" ", "-", "+", "0", "9", "x", "a"}

MCNumTexts ==
  UNION {[1 .. n -> MCChars] : n \in 0 .. 3}
  \cup {<<a, "0", "x", b, c>> : a, b, c \in MCChars}

MCCallBytes == {<<1>>, <<2>>}
MCArgLists == {<<>>, <<1>>, <<1, 1>>}

MCTokens ==
  {Tok("STRING", <<"a", "\"", "\\">>), Tok("STRING", <<"\n", " ">>), Tok("STRING", <<>>),
   Tok("STRING", <<"a", "b", "a", "b", "a">>), Tok("WORD", <<"a", "-", "1">>),
   Tok("VAR", <<"a">>), Tok("VAR", <<"?">>), Tok("VARLEN", <<"b">>),
   Tok("VARSUBSTR", <<"a", ":", "1">>), Tok("CAPTURE", <<"a", "(", ")">>),
   Tok("PLUS", <<"+">>), Tok("MINUS", <<"-">>), Tok("EQ", <<"=", "=">>),
   Tok("ASSIGN", <<"=">>), Tok("LTE", <<"<", "=">>)}

MCTokenLists == UNION {[1 .. n -> MCTokens] : n \in 0 .. 3}

MCOperands ==
  {Tok("VAR", <<"a">>), Tok("VARLEN", <<"b">>), Tok("VARSUBSTR", <<"a", ":", "1", ":", "1">>),
   Tok("WORD", <<"-", "1">>), Tok("STRING", <<"n">>), Tok("CAPTURE", <<" ", "n", " ", "a">>),
   Tok("VAR", <<"1">>), Tok("VAR", <<"?">>)}

MCOps == {Tok("PLUS", <<"+">>), Tok("MINUS", <<"-">>)}

MCExprs ==
  {<<>>} \cup {<<a>> : a \in MCOperands}
  \cup {<<a, o, b>> : a, b \in MCOperands, o \in MCOps}
  \cup {<<a, o, b, q, Tok("VAR", <<"a">>)>> :
          a, b \in {Tok("VAR", <<"b">>), Tok("WORD", <<"1", "2">>)}, o, q \in MCOps}

MCVarNames == {<<"a">>, <<"b">>, <<"n">>}
MCVarValues == {<<"1", "2">>, <<"a">>, <<"-", "1", "0", "2", "3">>}
MCArgTexts == {<<>>, <<" ", "1", "2", " ", "a", " ">>, <<"a", " ", "b", " ", " ", "1">>}
MCCommandOut == [c \in {<<"n">>} |-> <<"2", "\n">>]

MCFileStarts == {<<>>, <<1>>, <<0, 1, 0>>, <<1, 1, 0>>, <<0, 0, 0>>}

MCDialog == <<1, 2, 3, 2>>
MCButtons == [allow |-> <<1, 3, 1, 1>>, always |-> <<2, 3, 1, 1>>, deny |-> <<3, 3, 1, 1>>]

-----------------------------------------------------------------------------
(* One initial state of each part that has several, while another runs.    *)
Elsewhere(p, someInit) == IF part = p THEN TRUE ELSE someInit

ProgramsInit ==
  /\ part \in Parts
  /\ Elsewhere("text", device = "vga")
  /\ Elsewhere("input", bounds = <<1, 2>>)
  /\ Elsewhere("clock", rtc = [start |-> 366 * 16 - 1, ran |-> 0, mode |-> [bcd |-> TRUE, h24 |-> TRUE]])
  /\ Elsewhere("files", disk = [p \in FilePaths |-> Missing])
  /\ Elsewhere("sort", original = <<>>)
  /\ Elsewhere("ctext", errno = "none" /\ mem = [a \in Addresses |-> 0])
  /\ Elsewhere("sosh", script = <<Plain("echo")>> /\ x = 0 /\ refused = {})
  /\ Elsewhere("edit", editDisk = [n \in DiskNames |-> NoFile])
  /\ ScreenInit /\ TextInit /\ Ps2Init /\ ClockInit /\ VirtioInit
  /\ NetInit /\ ClibFilesInit /\ SortInit /\ CTextInit /\ CallsInit /\ SoshInit /\ SoshTextInit
  /\ EditorInit /\ WmInit

ProgramsNext ==
  \/ /\ part = "gfx" /\ ScreenNext
     /\ UNCHANGED <<part, textVars, ps2Vars, clockVars, virtioVars, netVars, clibFileVars,
                    sortVars, ctextVars, callVars, soshVars, soshTextVars, editVars, wmVars>>
  \/ /\ part = "text" /\ TextNext
     /\ UNCHANGED <<part, screenVars, ps2Vars, clockVars, virtioVars, netVars, clibFileVars,
                    sortVars, ctextVars, callVars, soshVars, soshTextVars, editVars, wmVars>>
  \/ /\ part = "input" /\ Ps2Next
     /\ UNCHANGED <<part, screenVars, textVars, clockVars, virtioVars, netVars, clibFileVars,
                    sortVars, ctextVars, callVars, soshVars, soshTextVars, editVars, wmVars>>
  \/ /\ part = "clock" /\ ClockNext
     /\ UNCHANGED <<part, screenVars, textVars, ps2Vars, virtioVars, netVars, clibFileVars,
                    sortVars, ctextVars, callVars, soshVars, soshTextVars, editVars, wmVars>>
  \/ /\ part = "nic" /\ VirtioNext
     /\ UNCHANGED <<part, screenVars, textVars, ps2Vars, clockVars, netVars, clibFileVars,
                    sortVars, ctextVars, callVars, soshVars, soshTextVars, editVars, wmVars>>
  \/ /\ part = "net" /\ NetNext
     /\ UNCHANGED <<part, screenVars, textVars, ps2Vars, clockVars, virtioVars, clibFileVars,
                    sortVars, ctextVars, callVars, soshVars, soshTextVars, editVars, wmVars>>
  \/ /\ part = "files" /\ ClibFilesNext
     /\ UNCHANGED <<part, screenVars, textVars, ps2Vars, clockVars, virtioVars, netVars,
                    sortVars, ctextVars, callVars, soshVars, soshTextVars, editVars, wmVars>>
  \/ /\ part = "sort" /\ SortNext
     /\ UNCHANGED <<part, screenVars, textVars, ps2Vars, clockVars, virtioVars, netVars,
                    clibFileVars, ctextVars, callVars, soshVars, soshTextVars, editVars, wmVars>>
  \/ /\ part = "ctext" /\ CTextNext
     /\ UNCHANGED <<part, screenVars, textVars, ps2Vars, clockVars, virtioVars, netVars,
                    clibFileVars, sortVars, callVars, soshVars, soshTextVars, editVars, wmVars>>
  \/ /\ part = "calls" /\ CallsNext
     /\ UNCHANGED <<part, screenVars, textVars, ps2Vars, clockVars, virtioVars, netVars,
                    clibFileVars, sortVars, ctextVars, soshVars, soshTextVars, editVars, wmVars>>
  \/ /\ part = "sosh" /\ SoshNext
     /\ UNCHANGED <<part, screenVars, textVars, ps2Vars, clockVars, virtioVars, netVars,
                    clibFileVars, sortVars, ctextVars, callVars, soshTextVars, editVars, wmVars>>
  \/ /\ part = "words" /\ SoshTextNext
     /\ UNCHANGED <<part, screenVars, textVars, ps2Vars, clockVars, virtioVars, netVars,
                    clibFileVars, sortVars, ctextVars, callVars, soshVars, editVars, wmVars>>
  \/ /\ part = "edit" /\ EditorNext
     /\ UNCHANGED <<part, screenVars, textVars, ps2Vars, clockVars, virtioVars, netVars,
                    clibFileVars, sortVars, ctextVars, callVars, soshVars, soshTextVars, wmVars>>
  \/ /\ part = "win" /\ WmNext
     /\ UNCHANGED <<part, screenVars, textVars, ps2Vars, clockVars, virtioVars, netVars,
                    clibFileVars, sortVars, ctextVars, callVars, soshVars, soshTextVars, editVars>>

programVars ==
  <<part, screenVars, textVars, ps2Vars, clockVars, virtioVars, netVars, clibFileVars,
    sortVars, ctextVars, callVars, soshVars, soshTextVars, editVars, wmVars>>

ProgramsSpec == ProgramsInit /\ [][ProgramsNext]_programVars

-----------------------------------------------------------------------------
(* The state of a part that does not run stays initial; its properties are *)
(* evaluated in the behaviours that run it.                                *)
Of(p, property) == part = p => property

(* What a user sees is what was drawn and what a press acts on: virtual    *)
(* drawing shows up pixel by pixel (session_manager.c), the text           *)
(* screen shows the last lines written (vga_text.c), and a click reaches   *)
(* what the last frame shows under the pointer (user/apps/win).            *)
DisplaysFaithful ==
  Of("gfx", VirtualDrawingFaithful) /\ Of("text", ScreenShowsText) /\ Of("win", PointerMeetsPicture)

(* Drivers lose nothing they can keep and mix nothing up: keys and mouse   *)
(* packets arrive in order through the shared controller (ps2_keyboard.c,  *)
(* ps2_mouse.c, mouse_hal.c), the network rings and the driver agree on    *)
(* every buffer (virtio_net.c), and the clock runs on from the time it was *)
(* set to (clock_service.c, cmos_rtc.c).                                   *)
DriversFaithful ==
  Of("input", InputArrives) /\ Of("nic", RingsAgree) /\ Of("clock", ClockKeepsSetTime)

(* The library shows a program the store as it is: what is written through *)
(* descriptors and streams is what a reader finds (posix_fd.c, stdio.c),   *)
(* and the status of every system call matches what it did                 *)
(* (secureos_api_stubs.c).                                                 *)
LibraryTellsTheStore == Of("files", FilesKeepWhatWasWritten) /\ Of("calls", CallsTellTheTruth)

(* The library's pure functions meet their contracts on every bounded      *)
(* input: qsort, bsearch, the strto family and string.h.                   *)
LibraryContracts == Of("sort", SortsAndFinds) /\ Of("ctext", TextContracts)

(* sosh runs a script as its block structure says, and reads words,        *)
(* variables and expressions as they are written (user/libs/soshlib).      *)
SoshFaithful == Of("sosh", SoshFollowsStructure) /\ Of("words", SoshTextFaithful)
=============================================================================
