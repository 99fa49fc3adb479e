------------------------------- MODULE Editor -------------------------------
(* The line editor, user/apps/edit/main.c: a buffer of bounded lines, the    *)
(* name of the file it is saved to, and the consent-gated disk calls, each   *)
(* of which the user may refuse.  One step takes one line of input.          *)
EXTENDS Naturals, Sequences, SequencesExt

CONSTANTS
  DiskNames,   \* names of files
  TextChars,   \* characters other than the newline
  TextMax,     \* bound: length of an input line
  LineCap,     \* EDIT_LINE_MAX and EDIT_CMD_MAX
  LinesCap,    \* EDIT_LINES_MAX
  FileMax,     \* EDIT_FILE_MAX
  FileStarts,  \* the contents a file may have before the editor starts
  FailBound    \* bound: failures counted

VARIABLES
  editDisk,      \* [DiskNames -> contents], NoFile where there is none
  ed,        \* [lines, name, open, dirty, failures], the editor's statics
  edMode,    \* "command", "append", "done", or the number of a line to change
  origin     \* history: the file last opened into the buffer, or saved from it

editVars == <<editDisk, ed, edMode, origin>>

Newline == 0
NoFile == <<99>>       \* no text of a file: 99 is no character
NoName == "no name"
CommandMode == 0
AppendMode == LinesCap + 1
Done == LinesCap + 2

EditorInit ==
  /\ editDisk \in [DiskNames -> FileStarts \cup {NoFile}]
  /\ ed = [lines |-> <<>>, name |-> NoName, open |-> FALSE, dirty |-> FALSE, failures |-> 0]
  /\ edMode = CommandMode /\ origin = NoName

(* edit_fail counts; the message is left out.                                *)
Failed(e) == [e EXCEPT !.failures = IF @ < FailBound THEN @ + 1 ELSE @]

-----------------------------------------------------------------------------
(* A line that is not empty before the end of the file counts; an empty rest *)
(* after the last newline is one more line here.                             *)
RECURSIVE LoadedAll(_, _, _)
LoadedAll(text, line, lines) ==
  IF text = <<>> THEN Append(lines, line)
  ELSE IF text[1] = Newline THEN LoadedAll(Tail(text), <<>>, Append(lines, line))
  ELSE LoadedAll(Tail(text), Append(line, text[1]), lines)
LoadBufferAll(text) == [ok |-> TRUE, lines |-> LoadedAll(text, <<>>, <<>>)]

(* edit_load_buffer splits at newlines and stops at the first line that does *)
(* not fit, with the lines before it in the buffer.                          *)
RECURSIVE SplitText(_, _, _)
SplitText(text, line, lines) ==
  IF text = <<>> /\ line = <<>> THEN [ok |-> TRUE, lines |-> lines]
  ELSE IF text # <<>> /\ text[1] # Newline
  THEN SplitText(Tail(text), Append(line, text[1]), lines)
  ELSE IF Len(line) + 1 > LineCap \/ Len(lines) >= LinesCap THEN [ok |-> FALSE, lines |-> lines]
  ELSE IF text = <<>> THEN [ok |-> TRUE, lines |-> Append(lines, line)]
  ELSE SplitText(Tail(text), <<>>, Append(lines, line))

LoadBuffer(text) == SplitText(text, <<>>, <<>>)

(* edit_join_buffer ends every line with a newline.                          *)
JoinBuffer(lines) == FlattenSeq([i \in 1 .. Len(lines) |-> Append(lines[i], Newline)])

-----------------------------------------------------------------------------
(* The commands.  The disk calls answer as the file system and the consent   *)
(* prompt decide: refused is any status but success and not found.           *)

(* edit_cmd_open, the read refused: the name has been copied by then.        *)
OpenRefused(name) ==
  /\ ed' = Failed([ed EXCEPT !.name = name])
  /\ UNCHANGED <<editDisk, edMode, origin>>

OpenNew(name) ==
  /\ editDisk[name] = NoFile
  /\ ed' = [ed EXCEPT !.name = name, !.lines = <<>>, !.open = TRUE, !.dirty = FALSE]
  /\ origin' = name /\ UNCHANGED <<editDisk, edMode>>

OpenExisting(name, load) ==
  /\ editDisk[name] # NoFile
  /\ IF load.ok
     THEN /\ ed' = [ed EXCEPT !.name = name, !.lines = load.lines, !.open = TRUE, !.dirty = FALSE]
          /\ origin' = name
     ELSE /\ ed' = Failed([ed EXCEPT !.name = name, !.lines = load.lines, !.open = FALSE])
          /\ UNCHANGED origin
  /\ UNCHANGED <<editDisk, edMode>>

CmdOpen(name) ==
  /\ edMode = CommandMode
  /\ \/ OpenRefused(name)
     \/ OpenNew(name)
     \/ OpenExisting(name, LoadBuffer(editDisk[name]))

(* The command a, with no file open and with one.                            *)
CmdAppend ==
  /\ edMode = CommandMode
  /\ IF ed.open THEN edMode' = AppendMode /\ UNCHANGED ed
     ELSE ed' = Failed(ed) /\ UNCHANGED edMode
  /\ UNCHANGED <<editDisk, origin>>

(* edit_read_line gives no line when the input was too long.                 *)
ReadsLine(text) == Len(text) + 1 <= LineCap

(* One line of edit_cmd_append's loop.                                       *)
AppendLine(text) ==
  /\ edMode = AppendMode
  /\ IF ReadsLine(text) /\ Len(ed.lines) < LinesCap
     THEN ed' = [ed EXCEPT !.lines = Append(@, text), !.dirty = TRUE] /\ UNCHANGED edMode
     ELSE ed' = Failed(ed) /\ edMode' = CommandMode
  /\ UNCHANGED <<editDisk, origin>>

AppendEnds ==
  /\ edMode = AppendMode /\ edMode' = CommandMode
  /\ UNCHANGED <<editDisk, ed, origin>>

(* edit_parse_u and the range test; 0 and what is no number are refused.     *)
InRange(n) == n \in 1 .. Len(ed.lines)

CmdChange(n) ==
  /\ edMode = CommandMode
  /\ IF InRange(n) THEN edMode' = n /\ UNCHANGED ed
     ELSE ed' = Failed(ed) /\ UNCHANGED edMode
  /\ UNCHANGED <<editDisk, origin>>

ChangeLine(text) ==
  /\ edMode \in 1 .. LinesCap /\ edMode' = CommandMode
  /\ ed' = IF ReadsLine(text) THEN [ed EXCEPT !.lines[edMode] = text, !.dirty = TRUE]
           ELSE Failed(ed)
  /\ UNCHANGED <<editDisk, origin>>

CmdDelete(n) ==
  /\ edMode = CommandMode
  /\ ed' = IF InRange(n) THEN [ed EXCEPT !.lines = RemoveAt(@, n), !.dirty = TRUE] ELSE Failed(ed)
  /\ UNCHANGED <<editDisk, edMode, origin>>

(* edit_cmd_write: refused by consent, or stored.                            *)
CmdWrite(text) ==
  /\ edMode = CommandMode
  /\ \/ /\ ~ ed.open \/ Len(text) > FileMax
        /\ ed' = Failed(ed) /\ UNCHANGED <<editDisk, origin>>
     \/ /\ ed.open /\ Len(text) <= FileMax
        /\ UNCHANGED <<editDisk, ed, origin>>                          \* SAVE:DENIED
     \/ /\ ed.open /\ Len(text) <= FileMax
        /\ ed' = Failed(ed) /\ UNCHANGED <<editDisk, origin>>          \* ERR:SAVE
     \/ /\ ed.open /\ Len(text) <= FileMax
        /\ editDisk' = [editDisk EXCEPT ![ed.name] = text]
        /\ ed' = [ed EXCEPT !.dirty = FALSE] /\ origin' = ed.name
  /\ UNCHANGED edMode

CmdQuit == edMode = CommandMode /\ edMode' = Done /\ UNCHANGED <<editDisk, ed, origin>>

(* The command loop of main: an overlong line or an unknown command fails,   *)
(* o without a name too; ?, p and the empty line change nothing.             *)
CmdUnknown == edMode = CommandMode /\ ed' = Failed(ed) /\ UNCHANGED <<editDisk, edMode, origin>>

Texts == UNION {[1 .. n -> TextChars] : n \in 0 .. TextMax}

EditorNext ==
  \/ \E name \in DiskNames : CmdOpen(name)
  \/ CmdAppend \/ AppendEnds \/ CmdQuit \/ CmdUnknown
  \/ \E text \in Texts : AppendLine(text) \/ ChangeLine(text)
  \/ \E n \in 0 .. LinesCap + 1 : CmdChange(n) \/ CmdDelete(n)
  \/ CmdWrite(JoinBuffer(ed.lines))

-----------------------------------------------------------------------------
(* What the text of a file reads as, line by line.                           *)
LinesOf(text) ==
  LET ends == {i \in 1 .. Len(text) : text[i] = Newline}
      all == ends \cup (IF text # <<>> /\ text[Len(text)] # Newline THEN {Len(text) + 1} ELSE {})
      from(i) == IF \E j \in ends : j < i
                 THEN CHOOSE j \in ends : j < i /\ \A k \in ends : k < i => k <= j ELSE 0
  IN  SetToSortSeq({<<from(i) + 1, i - 1>> : i \in all}, LAMBDA a, b : a[2] < b[2])

(* A buffer that is not dirty reads line by line as the file it would be     *)
(* saved to, whatever was opened, refused, edited and saved before           *)
(* (edit_load_buffer, edit_join_buffer, g_dirty): q then discards nothing,   *)
(* and w without an edit gives back the same lines.                          *)
CleanBufferIsTheFile ==
  (ed.open /\ ~ ed.dirty /\ ed.name = origin) =>
    IF editDisk[ed.name] = NoFile THEN ed.lines = <<>>
    ELSE ed.lines = [i \in 1 .. Len(LinesOf(editDisk[ed.name])) |->
                       SubSeq(editDisk[ed.name], LinesOf(editDisk[ed.name])[i][1], LinesOf(editDisk[ed.name])[i][2])]
=============================================================================
