------------------------------- MODULE AppRun --------------------------------
(***************************************************************************)
(* Running a program by name (kernel/user/launcher_exec.c): process_run,   *)
(* the script interpreter app_execute_script with its built-in commands,   *)
(* and the calls that a native program makes back (file access and spawn). *)
(* process_run reads every program into one static buffer, elf_data, and a *)
(* script is interpreted from there: buffer holds its lines, one per cell. *)
(* A script line that runs another program therefore replaces the cells.   *)
(***************************************************************************)
EXTENDS Integers, Sequences, SequencesExt

CONSTANTS
  ProgramFiles,  \* name -> [kind, lines]: the programs that process_run finds
  StorePaths,    \* paths of files and directories
  BufferCells,   \* lines that elf_data holds
  DepthMax       \* bound on the depth at which a native program spawns

VARIABLES
  appStore,     \* what each path is: absent, file or dir
  grants,    \* capabilities of the subject
  buffer,    \* elf_data
  frames,    \* activations, the outermost first
  outcome    \* what the innermost call returned last

runVars == <<appStore, grants, buffer, frames, outcome>>

AppCaps == {"read", "write", "disk", "console", "exec"}
Junk == [op |-> "run", arg |-> "junk"]
Top == Last(frames)

AppInit ==
  /\ appStore = [p \in StorePaths |-> "absent"]
  /\ grants = AppCaps
  /\ buffer = [i \in 1 .. BufferCells |-> Junk]
  /\ frames = <<>>
  /\ outcome = "ok"

\* app_require_storage_access and the same tests of the app_native_fs_ bridges:
\* the operation's capability, the one for disk requests, then the user's word.
StorageCap(op) == IF op \in {"ls", "cat"} THEN "read" ELSE "write"
MayStore(op, consent) == {StorageCap(op), "disk"} \subseteq grants /\ consent

\* fs_list_dir, fs_read_file, fs_write_file and fs_mkdir: whether they succeed.
StorageWorks(op, p) ==
  CASE op = "ls" -> appStore[p] = "dir"
    [] op = "cat" -> appStore[p] = "file"
    [] op \in {"write", "append"} -> appStore[p] # "dir"
    [] op = "mkdir" -> appStore[p] = "absent"
    [] op = "rm" -> TRUE

AfterStorage(op, p) ==
  CASE op \in {"write", "append"} -> [appStore EXCEPT ![p] = "file"]
    [] op = "mkdir" -> [appStore EXCEPT ![p] = "dir"]
    [] op = "rm" -> [appStore EXCEPT ![p] = "absent"]
    [] OTHER -> appStore

\* A result other than PROCESS_OK ends every script up to the native program
\* that spawned it, or up to the console.
Unwound == LET natives == {i \in 1 .. Len(frames) : frames[i].kind = "native"}
           IN  SubSeq(frames, 1, CHOOSE i \in natives \cup {0} : \A j \in natives : j <= i)
Fail == frames' = Unwound /\ outcome' = "error"

\* app_try_read_app_candidate: the file overwrites the buffer.
Loaded(name) ==
  buffer' = [i \in 1 .. BufferCells |->
       IF ProgramFiles[name].kind = "native" THEN Junk
       ELSE IF i <= Len(ProgramFiles[name].lines) THEN ProgramFiles[name].lines[i] ELSE buffer[i]]

\* process_run of a program that was found, and accepted.
EnterProgram(stack, name) ==
  /\ Loaded(name)
  /\ frames' = Append(stack, [kind |-> ProgramFiles[name].kind, name |-> name,
                              len |-> Len(ProgramFiles[name].lines), cursor |-> 1])
  /\ UNCHANGED outcome

\* process_run of a file whose format or signature is refused.
RefuseProgram(name) == Loaded(name) /\ outcome' = "error" /\ UNCHANGED frames

RunFromConsole(name) ==
  /\ frames = <<>>
  /\ EnterProgram(frames, name) \/ RefuseProgram(name)
  /\ UNCHANGED <<appStore, grants>>

\* The cursor that stands still.
NotAdvanced == frames

\* The cursor of app_execute_script after it has read a line.
Advanced == [frames EXCEPT ![Len(frames)].cursor = @ + 1]

Storage(op, p, consent) ==
  /\ IF MayStore(op, consent) /\ StorageWorks(op, p)
     THEN appStore' = AfterStorage(op, p) /\ frames' = Advanced /\ UNCHANGED outcome
     ELSE Fail /\ UNCHANGED appStore
  /\ UNCHANGED buffer

\* The built-in commands that use the file system, with the user's word.
SysLs(p, consent) == Storage("ls", p, consent)
SysCat(p, consent) == Storage("cat", p, consent)
SysWriteLike(op, p, consent) == Storage(op, p, consent)
SysMkdir(p, consent) == Storage("mkdir", p, consent)
SysRm(p, consent) == Storage("rm", p, consent)

SysPrint ==
  /\ IF "console" \in grants THEN frames' = Advanced /\ UNCHANGED outcome ELSE Fail
  /\ UNCHANGED <<appStore, buffer>>

\* app_try_execute_builtin_command.
Builtin(c, consent) ==
  \/ c.op = "ls" /\ SysLs(c.arg, consent)
  \/ c.op = "cat" /\ SysCat(c.arg, consent)
  \/ c.op = "mkdir" /\ SysMkdir(c.arg, consent)
  \/ c.op = "rm" /\ SysRm(c.arg, consent)
  \/ c.op = "print" /\ SysPrint

\* app_execute_named_command: process_run of another program.
NamedCommand(name) ==
  /\ IF name \in DOMAIN ProgramFiles THEN EnterProgram(Advanced, name) \/ (Loaded(name) /\ Fail)
     ELSE Fail /\ UNCHANGED buffer
  /\ UNCHANGED appStore

\* One line of app_execute_script: write and append, a built-in command, or
\* else a program.
ScriptLine ==
  /\ frames # <<>> /\ Top.kind = "script" /\ Top.cursor <= Top.len
  /\ LET c == buffer[Top.cursor] IN
     \E consent \in BOOLEAN :
       \/ c.op \in {"write", "append"} /\ SysWriteLike(c.op, c.arg, consent)
       \/ Builtin(c, consent)
       \/ c.op = "run" /\ NamedCommand(c.arg)
  /\ UNCHANGED grants

ScriptEnds ==
  /\ frames # <<>> /\ Top.kind = "script" /\ Top.cursor > Top.len
  /\ frames' = Front(frames) /\ outcome' = "ok"
  /\ UNCHANGED <<appStore, grants, buffer>>

\* The file bridges: an error code goes to the program.
NativeStorage(op, p) ==
  /\ frames # <<>> /\ Top.kind = "native"
  /\ \E consent \in BOOLEAN :
       IF MayStore(op, consent) /\ StorageWorks(op, p)
       THEN appStore' = AfterStorage(op, p) /\ outcome' = "ok"
       ELSE outcome' = "error" /\ UNCHANGED appStore
  /\ UNCHANGED <<grants, buffer, frames>>

FsRead(p) == NativeStorage("cat", p)
FsReadBytes(p) == NativeStorage("cat", p)
FsWrite(p) == NativeStorage("write", p) \/ NativeStorage("append", p)
FsWriteBytes(p) == NativeStorage("write", p)
FsListDir(p) == NativeStorage("ls", p)
FsMkdir(p) == NativeStorage("mkdir", p)

\* app_native_spawn_cap_check.
SpawnCapCheck == "exec" \in grants

\* app_native_process_spawn.
NativeSpawn(name) ==
  /\ frames # <<>> /\ Top.kind = "native" /\ Len(frames) < DepthMax
  /\ IF SpawnCapCheck THEN EnterProgram(frames, name) \/ RefuseProgram(name)
     ELSE outcome' = "error" /\ UNCHANGED <<buffer, frames>>
  /\ UNCHANGED <<appStore, grants>>

\* The program's entry returns, exits or faults; a fault is an error.
NativeReturns ==
  /\ frames # <<>> /\ Top.kind = "native"
  /\ \/ frames' = Front(frames) /\ outcome' = "ok"
     \/ LET below == Front(frames)
            natives == {i \in 1 .. Len(below) : below[i].kind = "native"}
        IN  /\ frames' = SubSeq(below, 1, CHOOSE i \in natives \cup {0} : \A j \in natives : j <= i)
            /\ outcome' = "error"
  /\ UNCHANGED <<appStore, grants, buffer>>

\* The capabilities change between two lines.
GrantsChange ==
  /\ \E cap \in AppCaps : grants' \in {grants \cup {cap}, grants \ {cap}}
  /\ UNCHANGED <<appStore, buffer, frames, outcome>>

AppNext ==
  \/ \E name \in DOMAIN ProgramFiles : RunFromConsole(name) \/ NativeSpawn(name)
  \/ ScriptLine \/ ScriptEnds \/ NativeReturns \/ GrantsChange
  \/ \E p \in StorePaths : FsRead(p) \/ FsReadBytes(p) \/ FsWrite(p) \/ FsWriteBytes(p)
       \/ FsListDir(p) \/ FsMkdir(p)

\* The interpreter is a loop that goes on, and each native program is assumed
\* to return; the depth tells the activations apart.
AppFairness ==
  /\ WF_runVars(ScriptLine \/ ScriptEnds)
  /\ \A d \in 1 .. (DepthMax + 2) : SF_runVars(Len(frames) = d /\ NativeReturns)

-----------------------------------------------------------------------------
\* The console gets its prompt back from every script whose programs do not
\* call each other in a circle, although a nested program replaces the text
\* under the interpreter's cursor (app_execute_script, elf_data).
PromptReturns == []<>(frames = <<>>)
=============================================================================
