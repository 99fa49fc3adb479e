----------------------------- MODULE Invocation -----------------------------
(***************************************************************************)
(* How the launcher turns a command into a program and its arguments       *)
(* (kernel/user/launcher_exec.c, process_run): the search through the      *)
(* current directory, the entries of PATH and the os directory, the words  *)
(* of the argument string, and the $1 .. $9 and $ARGS a script line names. *)
(*                                                                         *)
(* A directory is a text, as PATH spells it.  A name is its directory part *)
(* (empty for a bare command), whether it is absolute, its stem and        *)
(* whether it ends in .bin.  One step of the search tries one candidate;   *)
(* the store is external, and answers each read as its files say.          *)
(***************************************************************************)
EXTENDS Integers, Sequences, SequencesExt, FiniteSets

CONSTANTS
  CommandNames, \* the names process_run is called with
  BuiltinStems, \* commands the launcher runs itself when no file has the name
  PathTexts,    \* values of the PATH variable, of one-letter directories
  CwdDir,       \* the current directory
  OsDir,        \* the os directory
  LibDir,       \* the lib directory, whose files never run
  FileSets,     \* contents of the store: what each directory has under the name
  ArgStrings,   \* argument strings
  ScriptPieces, \* lines of a script, as sequences of pieces
  ArgsSize,     \* APP_ARGS_MAX, cells of args_buffer
  ArgvMax,      \* APP_ARGV_MAX
  OutSizeMax,   \* size of the buffer a line is expanded into
  Tails         \* what the cells after the argument string may hold

VARIABLES
  files,        \* the store
  name,         \* the name being looked for
  pathEnv,      \* PATH
  pathCursor,   \* what is left of it
  search,       \* [stage, result, met]: met is the candidate read last
  tried,        \* history: the candidates read
  args,         \* the parsed arguments: [raw, argv]
  expansion          \* the last line expanded: [pieces, out]

invokeVars == <<files, name, pathEnv, pathCursor, search, tried, args, expansion>>

-----------------------------------------------------------------------------
(* Texts *)

Blanks == {" ", "\t"}

Delimiters == {";", ":"}

DropWhile(s, S) ==
  IF SelectInSeq(s, LAMBDA c : c \notin S) = 0 THEN <<>>
  ELSE SubSeq(s, SelectInSeq(s, LAMBDA c : c \notin S), Len(s))

TakeUntil(s, S) ==
  IF SelectInSeq(s, LAMBDA c : c \in S) = 0 THEN s
  ELSE SubSeq(s, 1, SelectInSeq(s, LAMBDA c : c \in S) - 1)

TrimEnd(s) == SubSeq(s, 1, SelectLastInSeq(s, LAMBDA c : c \notin Blanks))

app_skip_spaces(s) == DropWhile(s, Blanks)

app_copy_string(s, size) == IF Len(s) < size THEN s ELSE SubSeq(s, 1, size - 1)

app_append_string(out, size, s) == app_copy_string(out \o s, size)

app_skip_path_delimiters(s) == DropWhile(s, Blanks \cup Delimiters)

(* app_next_path_entry, from a cursor that is past the delimiters: the     *)
(* entry and the cursor after it.                                          *)
EntryAt(cursor) == TrimEnd(TakeUntil(cursor, Delimiters))

CursorAfter(cursor) ==
  DropWhile(SubSeq(cursor, Len(TakeUntil(cursor, Delimiters)) + 1, Len(cursor)), Delimiters)

-----------------------------------------------------------------------------
(* The arguments *)

(* args_buffer after the copy: blanks are ends of words, and the cells     *)
(* behind the string hold what the stack held.                             *)
ArgCells(raw, tail) ==
  [i \in 1..ArgsSize |->
     IF i <= Len(raw) THEN IF raw[i] \in Blanks THEN "NUL" ELSE raw[i]
     ELSE IF i = Len(raw) + 1 THEN "NUL"
     ELSE tail[i]]

WordStartsIn(cells) ==
  {i \in 1..ArgsSize : cells[i] # "NUL" /\ (i = 1 \/ cells[i - 1] = "NUL")}

WordAt(cells, i) == TakeUntil(SubSeq(cells, i, ArgsSize), {"NUL"})

ArgvOf(cells) ==
  IF cells[1] = "NUL" THEN <<>>
  ELSE app_copy_string([k \in 1..Cardinality(WordStartsIn(cells)) |->
                          WordAt(cells, SetToSortSeq(WordStartsIn(cells), <)[k])], ArgvMax + 1)

app_parse_invocation_args(raw, tail) ==
  [raw |-> raw, argv |-> ArgvOf(ArgCells(app_copy_string(raw, ArgsSize), tail))]

ArgDigits == <<"1", "2", "3", "4", "5", "6", "7", "8", "9">>

ArgNumber(c) == SelectInSeq(ArgDigits, LAMBDA d : d = c)

RECURSIVE Expand(_, _)
Expand(text, out) ==
  IF text = <<>> \/ Len(out) + 1 >= OutSizeMax THEN out
  ELSE IF text[1] = "$" /\ Len(text) > 1 /\ ArgNumber(text[2]) > 0
       THEN Expand(SubSeq(text, 3, Len(text)),
                   IF ArgNumber(text[2]) <= Len(args.argv)
                   THEN app_append_string(out, OutSizeMax, args.argv[ArgNumber(text[2])])
                   ELSE out)
  ELSE IF SubSeq(text, 1, IF Len(text) < 5 THEN Len(text) ELSE 5) = <<"$", "A", "R", "G", "S">>
       THEN Expand(SubSeq(text, 6, Len(text)), app_append_string(out, OutSizeMax, args.raw))
  ELSE Expand(Tail(text), Append(out, text[1]))

-----------------------------------------------------------------------------
(* The search of process_run *)

(* The .bin suffix is added to a name that lacks it.                       *)
Candidate(dir) == [dir |-> dir, stem |-> name.stem, bin |-> TRUE]

app_path_is_library(dir) == dir = LibDir

NoCandidate == [dir |-> <<>>, stem |-> "", bin |-> FALSE]

Searching(stage, result) == [stage |-> stage, result |-> result, met |-> NoCandidate]

(* What a read of the candidate answers.                                   *)
ReadResult(dir) ==
  IF files[dir] = "none" THEN "NOT_FOUND" ELSE IF files[dir] = "unreadable" THEN "ERROR" ELSE "OK"

InvokeInit ==
  /\ files \in FileSets
  /\ name \in CommandNames
  /\ pathEnv \in PathTexts
  /\ pathCursor = pathEnv
  /\ search = Searching("start", "NOT_FOUND")
  /\ tried = <<>>
  /\ args = [raw |-> <<>>, argv |-> <<>>]
  /\ expansion = [pieces |-> <<>>, out |-> <<>>]

Begin(text, tail) ==
  /\ search.stage = "start"
  /\ IF app_path_is_library(name.dir)
     THEN search' = Searching("done", "LIBRARY") /\ UNCHANGED args
     ELSE /\ search' = Searching(IF name.abs THEN "abs" ELSE "cwd", "NOT_FOUND")
          /\ args' = app_parse_invocation_args(app_skip_spaces(text), tail)
  /\ UNCHANGED <<files, name, pathEnv, pathCursor, tried, expansion>>

(* One candidate: found, refused with an error that is kept, or absent.    *)
Try(dir, onError, onAbsent) ==
  IF app_path_is_library(dir)
  THEN search' = [search EXCEPT !.stage = onAbsent] /\ UNCHANGED tried
  ELSE /\ tried' = Append(tried, dir)
       /\ search' = CASE ReadResult(dir) = "OK" ->
                           [stage |-> "found", result |-> "OK", met |-> Candidate(dir)]
                      [] ReadResult(dir) = "ERROR" ->
                           [search EXCEPT !.stage = onError, !.result = "ERROR"]
                      [] OTHER -> [search EXCEPT !.stage = onAbsent]

TryAbsolute ==
  /\ search.stage = "abs"
  /\ Try(name.dir, "missed", "missed")
  /\ UNCHANGED <<files, name, pathEnv, pathCursor, args, expansion>>

TryCurrentDir ==
  /\ search.stage = "cwd"
  /\ Try(CwdDir, "path", "path")
  /\ UNCHANGED <<files, name, pathEnv, pathCursor, args, expansion>>

(* The loop that keeps looking after an entry it cannot read.              *)
TryEntryPastErrors(cursor) ==
  IF cursor = <<>>
  THEN search' = [search EXCEPT !.stage = "os"] /\ UNCHANGED <<pathCursor, tried>>
  ELSE /\ pathCursor' = CursorAfter(cursor)
       /\ Try(EntryAt(cursor), "path", "path")

TryEntry(cursor) ==
  IF cursor = <<>>
  THEN search' = [search EXCEPT !.stage = "os"] /\ UNCHANGED <<pathCursor, tried>>
  ELSE /\ pathCursor' = CursorAfter(cursor)
       /\ Try(EntryAt(cursor), "os", "path")

TryPathEntry ==
  /\ search.stage = "path"
  /\ TryEntry(app_skip_path_delimiters(pathCursor))
  /\ UNCHANGED <<files, name, pathEnv, args, expansion>>

TryOsDir ==
  /\ search.stage = "os"
  /\ Try(OsDir, "missed", "missed")
  /\ UNCHANGED <<files, name, pathEnv, pathCursor, args, expansion>>

Missed ==
  /\ search.stage = "missed"
  /\ search' = [search EXCEPT !.stage = "done",
                  !.result = IF @ # "NOT_FOUND" THEN "STORAGE"
                             ELSE IF name.stem \in BuiltinStems THEN "BUILTIN"
                             ELSE "NOT_FOUND"]
  /\ UNCHANGED <<files, name, pathEnv, pathCursor, tried, args, expansion>>

(* The format, the file type, the signature and the program in it.         *)
Admit ==
  /\ search.stage = "found"
  /\ search' = [search EXCEPT !.stage = IF files[search.met.dir] = "script" THEN "script" ELSE "done",
                  !.result = CASE files[search.met.dir] \in {"damaged", "library"} -> "FORMAT"
                               [] files[search.met.dir] = "unsigned" -> "CODESIGN"
                               [] OTHER -> "RUN"]
  /\ UNCHANGED <<files, name, pathEnv, pathCursor, tried, args, expansion>>

PieceText(p) ==
  CASE p.kind = "text" -> p.text
    [] p.kind = "arg" -> <<"$", ArgDigits[p.k]>>
    [] p.kind = "all" -> <<"$", "A", "R", "G", "S">>

ExpandLine(pieces) ==
  /\ search.stage = "script"
  /\ search' = [search EXCEPT !.stage = "done"]
  /\ expansion' = [pieces |-> pieces,
              out |-> Expand(FlattenSeq([i \in 1..Len(pieces) |-> PieceText(pieces[i])]), <<>>)]
  /\ UNCHANGED <<files, name, pathEnv, pathCursor, tried, args>>

InvokeNext ==
  \/ \E text \in ArgStrings, tail \in Tails : Begin(text, tail)
  \/ TryAbsolute
  \/ TryCurrentDir
  \/ TryPathEntry
  \/ TryOsDir
  \/ Missed
  \/ Admit
  \/ \E pieces \in ScriptPieces : ExpandLine(pieces)

-----------------------------------------------------------------------------
(* Properties *)

(* The directories in the order they are searched.                         *)
SearchOrder ==
  IF name.abs THEN <<name.dir>>
  ELSE <<CwdDir>>
       \o [i \in 1..Len(SelectSeq(pathEnv, LAMBDA c : c \notin Blanks \cup Delimiters)) |->
            <<SelectSeq(pathEnv, LAMBDA c : c \notin Blanks \cup Delimiters)[i]>>]
       \o <<OsDir>>

Runs(dir) == dir # LibDir /\ files[dir] \notin {"none", "unreadable"}

Refuses(dir) == dir # LibDir /\ files[dir] = "unreadable"

InPath(i) == ~name.abs /\ 1 < i /\ i < Len(SearchOrder)

FirstInOrder(dir) ==
  \E i \in 1..Len(SearchOrder) :
    /\ SearchOrder[i] = dir /\ Runs(dir)
    /\ \A j \in 1..(i - 1) :
         Runs(SearchOrder[j]) =>
           InPath(j) /\ i = Len(SearchOrder) /\ \E h \in 2..(j - 1) : Refuses(SearchOrder[h])
    /\ InPath(i) => \A j \in 2..(i - 1) : ~Refuses(SearchOrder[j])

(* The words of an argument string, by their positions in it.              *)
WordsOf(raw) ==
  {<<i, j>> \in (1..Len(raw)) \X (1..Len(raw)) :
     /\ i <= j /\ \A k \in i..j : raw[k] \notin Blanks
     /\ i = 1 \/ raw[i - 1] \in Blanks
     /\ j = Len(raw) \/ raw[j + 1] \in Blanks}

NthWord(raw, k, w) ==
  \E p \in WordsOf(raw) : /\ Cardinality({q \in WordsOf(raw) : q[1] < p[1]}) = k - 1
                          /\ w = SubSeq(raw, p[1], p[2])

Meaning(p) ==
  CASE p.kind = "text" -> p.text
    [] p.kind = "arg" -> args.argv[p.k]
    [] p.kind = "all" -> args.raw

(* process_run starts the first program on the search order (current       *)
(* directory, PATH entries, os), never one from lib, and only skips what   *)
(* is absent - or, after a PATH entry it could not read, the rest of PATH; *)
(* it falls back on a builtin or reports NOT_FOUND only when no candidate  *)
(* exists at all.  The first argv entries are the words of the argument    *)
(* string whatever the stack held behind it, and a script line expands to  *)
(* its text with the words in place.                                       *)
CommandRunsFirst ==
  /\ search.met # NoCandidate => FirstInOrder(search.met.dir)
  /\ search.stage = "done" =>
       /\ search.result \in {"NOT_FOUND", "BUILTIN"}
            => \A i \in 1..Len(SearchOrder) : SearchOrder[i] = LibDir \/ files[SearchOrder[i]] = "none"
       /\ search.result = "STORAGE"
            => /\ \E i \in 1..Len(SearchOrder) : Refuses(SearchOrder[i])
               /\ ~Runs(SearchOrder[1]) /\ ~Runs(Last(SearchOrder))
  /\ \A i \in 1..Len(tried) : tried[i] # LibDir
  /\ Len(args.raw) < ArgsSize =>
       \A k \in 1..Cardinality(WordsOf(args.raw)) :
         k <= ArgvMax => k <= Len(args.argv) /\ NthWord(args.raw, k, args.argv[k])
  /\ (\A i \in 1..Len(expansion.pieces) :
        expansion.pieces[i].kind = "arg" => expansion.pieces[i].k <= Cardinality(WordsOf(args.raw))
                                       /\ expansion.pieces[i].k <= Len(args.argv)) =>
       expansion.out = app_copy_string(FlattenSeq([i \in 1..Len(expansion.pieces) |-> Meaning(expansion.pieces[i])]),
                                  OutSizeMax)
=============================================================================
