------------------------------ MODULE Console -------------------------------
(***************************************************************************)
(* What a console keeps between commands (kernel/core/console.c): the line *)
(* being typed with its history, the environment with the working          *)
(* directory, and the libraries it has loaded. The three tables share no   *)
(* state.                                                                  *)
(***************************************************************************)
EXTENDS Integers, Sequences, SequencesExt, FiniteSets, FiniteSetsExt

-----------------------------------------------------------------------------
(***************************************************************************)
(* The line editor of kernel/core/console.c: what console_run does with a  *)
(* key, what console_process_injected does with one, and the history that  *)
(* the arrow keys walk. A character is one value; the keys that matter are *)
(* the escape sequences ESC [ A, ESC [ B and ESC O x, enter and backspace. *)
(* The command itself and the switch of sessions belong to Sessions.       *)
(***************************************************************************)

CONSTANTS
  LineMax,      \* CONSOLE_LINE_MAX
  HistoryMax,   \* CONSOLE_HISTORY_MAX
  Chars         \* the characters typed into lines

VARIABLES
  line,       \* console_line
  pendingLine,    \* console_pending_line
  past,       \* console_history: index -> line
  pastNext,   \* console_history_next
  pastCount,  \* console_history_count
  browse,     \* console_history_browse_index
  escape,     \* escape_state
  entered,    \* history: the lines to recall, newest first
  setAside       \* history: the line that the first recall put aside

lineVars == <<line, pendingLine, past, pastNext, pastCount, browse, escape, entered, setAside>>

Keys == Chars \cup {"esc", "enter", "back", "A", "B", "O", "["}

SlotToIndex(slot) == (((pastNext + HistoryMax - 1) % HistoryMax) + HistoryMax - slot) % HistoryMax

LineInit ==
  /\ line = <<>> /\ pendingLine = <<>> /\ browse = -1 /\ escape = 0
  /\ past = [i \in 0 .. (HistoryMax - 1) |-> <<>>] /\ pastNext = 0 /\ pastCount = 0
  /\ entered = <<>> /\ setAside = <<>>

\* A ring whose count goes on growing.
PushLineUncapped ==
  IF line = <<>> \/ (pastCount > 0 /\ past[SlotToIndex(0)] = line)
  THEN UNCHANGED <<past, pastNext, pastCount, entered>>
  ELSE /\ past' = [past EXCEPT ![pastNext] = line]
       /\ pastNext' = (pastNext + 1) % HistoryMax
       /\ pastCount' = pastCount + 1
       /\ entered' = SubSeq(<<line>> \o entered, 1, IF Len(entered) < HistoryMax THEN Len(entered) + 1 ELSE HistoryMax)

\* console_history_push_current_line: an empty line and a repetition of the
\* newest one are not kept.
PushLine ==
  IF line = <<>> \/ (pastCount > 0 /\ past[SlotToIndex(0)] = line)
  THEN UNCHANGED <<past, pastNext, pastCount, entered>>
  ELSE /\ past' = [past EXCEPT ![pastNext] = line]
       /\ pastNext' = (pastNext + 1) % HistoryMax
       /\ pastCount' = IF pastCount < HistoryMax THEN pastCount + 1 ELSE pastCount
       /\ entered' = SubSeq(<<line>> \o entered, 1, IF Len(entered) < HistoryMax THEN Len(entered) + 1 ELSE HistoryMax)

Enter ==
  /\ PushLine
  /\ line' = <<>> /\ pendingLine' = <<>> /\ browse' = -1 /\ setAside' = <<>>
  /\ UNCHANGED escape

EditOnly == UNCHANGED <<pendingLine, past, pastNext, pastCount, browse, escape, entered, setAside>>

Backspace == line' = (IF line = <<>> THEN line ELSE Front(line)) /\ EditOnly

\* A character: a full line is dropped by console_run and left as it is by
\* console_process_injected.
Insert(c, whenFull) ==
  /\ line' = IF Len(line) + 1 >= LineMax THEN whenFull ELSE Append(line, c)
  /\ EditOnly

\* console_replace_input_line: a line of the history is never longer than one.
ReplaceInputLine(value) == line' = value

\* console_history_recall_up.
RecallUp ==
  /\ escape' = 0
  /\ IF pastCount = 0 THEN UNCHANGED <<line, pendingLine, browse, setAside>>
     ELSE /\ browse' = IF browse < 0 THEN 0 ELSE IF browse + 1 < pastCount THEN browse + 1 ELSE browse
          /\ pendingLine' = IF browse < 0 THEN line ELSE pendingLine
          /\ setAside' = IF browse < 0 THEN line ELSE setAside
          /\ ReplaceInputLine(past[SlotToIndex(browse')])
  /\ UNCHANGED <<past, pastNext, pastCount, entered>>

\* console_history_recall_down.
RecallDown ==
  /\ escape' = 0
  /\ IF pastCount = 0 \/ browse < 0 THEN UNCHANGED <<line, browse, setAside>>
     ELSE /\ browse' = browse - 1
          /\ setAside' = IF browse = 0 THEN <<>> ELSE setAside
          /\ ReplaceInputLine(IF browse = 0 THEN pendingLine ELSE past[SlotToIndex(browse - 1)])
  /\ UNCHANGED <<pendingLine, past, pastNext, pastCount, entered>>

\* console_bind_context, when the session is switched to again.
Rebind ==
  /\ escape' = 0 /\ browse' = -1 /\ pendingLine' = <<>> /\ setAside' = <<>>
  /\ UNCHANGED <<line, past, pastNext, pastCount, entered>>

Escaped(state) ==
  /\ escape' = state
  /\ UNCHANGED <<line, pendingLine, past, pastNext, pastCount, browse, entered, setAside>>

\* One character through the loop of console_run.
RunKey(k) ==
  \/ escape = 0 /\ k = "esc" /\ Escaped(1)
  \/ escape = 1 /\ Escaped(IF k = "O" THEN 2 ELSE IF k = "[" THEN 3 ELSE 0)
  \/ escape = 2 /\ (Escaped(0) \/ Rebind)
  \/ escape = 3 /\ k = "A" /\ RecallUp
  \/ escape = 3 /\ k = "B" /\ RecallDown
  \/ escape = 3 /\ k \notin {"A", "B"} /\ Escaped(0)
  \/ escape = 0 /\ k = "enter" /\ Enter
  \/ escape = 0 /\ k = "back" /\ Backspace
  \/ escape = 0 /\ k \in Chars /\ Insert(k, <<>>)

\* One character through the loop of console_process_injected, which knows no
\* escape sequences.
InjectedKey(k) ==
  \/ k = "enter" /\ Enter
  \/ k = "back" /\ Backspace
  \/ k \in Chars \cup {"esc"} /\ Insert(k, line)

LineNext == \E k \in Keys : RunKey(k) \/ InjectedKey(k)

-----------------------------------------------------------------------------
\* The history ring of console.c holds the lines entered last, newest first
\* and without repetitions, the arrows stay inside it, and the line that was
\* being typed when the first of them was pressed is still there to return to.
HistoryFaithful ==
  /\ pastCount = Len(entered)
  /\ \A i \in 1 .. Len(entered) : past[SlotToIndex(i - 1)] = entered[i]
  /\ browse < pastCount \/ browse = -1
  /\ browse >= 0 => pendingLine = setAside
  /\ Len(line) < LineMax

-----------------------------------------------------------------------------
(***************************************************************************)
(* The environment table and the working directory of a console            *)
(* (kernel/core/console.c), with the commands and the native bridges of    *)
(* kernel/user/launcher_exec.c that change them. PWD and console_cwd are   *)
(* two copies of one thing: "cd" writes both, "env PWD=..." only the first,*)
(* and console_get_effective_cwd reconciles them against the file system,  *)
(* whose directories come and go under the console.                        *)
(***************************************************************************)

CONSTANTS
  EnvMax,     \* CONSOLE_ENV_MAX
  EnvKeys,    \* keys, "PWD" and "PATH" among them
  Dirs        \* directory names, "/" among them, that may be made and removed

VARIABLES
  envTable,   \* console_env_entries: slot -> <<key, value>>, or <<>> when unused
  cwd,        \* console_cwd
  dirs,       \* the directories of the file system
  resolved,   \* history: what the last console_get_effective_cwd answered
  settings    \* history: the values that the successful settings have left

envVars == <<envTable, cwd, dirs, resolved, settings>>

Nowhere == "nowhere"
EnvSlots == 0 .. (EnvMax - 1)

KeySlots(key) == {i \in EnvSlots : envTable[i] # <<>> /\ envTable[i][1] = key}
FreeEnvSlots == {i \in EnvSlots : envTable[i] = <<>>}

\* A setting that looks for a free slot first.
EnvSlotFreeFirst(key) == IF FreeEnvSlots # {} THEN FreeEnvSlots ELSE KeySlots(key)

\* The slot of console_env_set: the key's own, or else the first free one.
EnvSlot(key) == KeySlots(key) \cup (IF KeySlots(key) = {} THEN FreeEnvSlots ELSE {})

\* console_env_set: refused when the table is full and the key is not in it.
EnvSet(key, value) ==
  IF EnvSlot(key) = {} THEN UNCHANGED <<envTable, settings>>
  ELSE /\ envTable' = [envTable EXCEPT ![Min(EnvSlot(key))] = <<key, value>>]
       /\ settings' = [settings EXCEPT ![key] = value]

EnvGet(key) == IF KeySlots(key) = {} THEN Nowhere ELSE envTable[Min(KeySlots(key))][2]

\* app_native_env_get.
NativeEnvGet(key) == EnvGet(key)

\* console_directory_exists.
DirectoryExists(d) == d \in dirs

\* console_init.
EnvInit ==
  /\ envTable = [i \in EnvSlots |-> IF i = 0 THEN <<"PWD", "/">> ELSE IF i = 1 THEN <<"PATH", "/">> ELSE <<>>]
  /\ cwd = "/"
  /\ dirs = {"/"}
  /\ resolved = Nowhere
  /\ settings = [k \in EnvKeys |-> IF k \in {"PWD", "PATH"} THEN "/" ELSE Nowhere]

\* The setting of a variable; its value is not examined.
SetVariable(key, value) ==
  /\ EnvSet(key, value)
  /\ resolved' = Nowhere
  /\ UNCHANGED <<cwd, dirs>>

\* "env KEY=VALUE" and os_env_set.
SysEnv(key, value) == SetVariable(key, value)
NativeEnvSet(key, value) == SetVariable(key, value)

\* console_change_directory.
ChangeDirectory(d) ==
  /\ IF DirectoryExists(d) THEN cwd' = d /\ EnvSet("PWD", d) ELSE UNCHANGED <<cwd, envTable, settings>>
  /\ resolved' = Nowhere
  /\ UNCHANGED dirs

\* "cd" and os_process_chdir.
SysCd(d) == ChangeDirectory(d)
NativeChdir(d) == ChangeDirectory(d)

\* app_native_process_getcwd: the variable, not the directory that is in use.
NativeGetcwd == IF EnvGet("PWD") = Nowhere THEN "/" ELSE EnvGet("PWD")

\* console_get_effective_cwd.
EffectiveCwd ==
  /\ \/ /\ DirectoryExists(EnvGet("PWD"))
        /\ cwd' = EnvGet("PWD") /\ resolved' = EnvGet("PWD")
        /\ UNCHANGED <<envTable, settings>>
     \/ /\ ~ DirectoryExists(EnvGet("PWD")) /\ DirectoryExists(cwd)
        /\ EnvSet("PWD", cwd) /\ resolved' = cwd
        /\ UNCHANGED cwd
     \/ /\ ~ DirectoryExists(EnvGet("PWD")) /\ ~ DirectoryExists(cwd)
        /\ EnvSet("PWD", "/") /\ cwd' = "/" /\ resolved' = "/"
  /\ UNCHANGED dirs

\* console_resolve_path of a relative path starts from the effective directory.
ResolvePath == EffectiveCwd

\* The file system's own doings: a directory made or removed.
DirectoriesChange ==
  /\ \E d \in Dirs \ {"/"} : dirs' \in {dirs \cup {d}, dirs \ {d}}
  /\ resolved' = Nowhere
  /\ UNCHANGED <<envTable, cwd, settings>>

EnvNext ==
  \/ \E key \in EnvKeys, value \in Dirs : SysEnv(key, value) \/ NativeEnvSet(key, value)
  \/ \E d \in Dirs : SysCd(d) \/ NativeChdir(d)
  \/ ResolvePath
  \/ DirectoriesChange

-----------------------------------------------------------------------------
\* The table of console.c is a map: a key is in at most one slot, and reading
\* it gives the value of the last setting that was accepted. PWD never loses its
\* slot, so the directory that resolve_path builds on exists and is both PWD and
\* console_cwd, whatever "env", "cd" and removals came before.
EnvironmentCoherent ==
  /\ \A k \in EnvKeys : Cardinality(KeySlots(k)) <= 1 /\ NativeEnvGet(k) = settings[k]
  /\ EnvGet("PWD") # Nowhere
  /\ resolved # Nowhere => resolved \in dirs /\ resolved = cwd /\ resolved = NativeGetcwd

-----------------------------------------------------------------------------
(***************************************************************************)
(* The loaded-library table of a console (kernel/core/console.c) and the   *)
(* commands loadlib, unloadlib, "libs use" and "libs release" of           *)
(* kernel/user/launcher_exec.c. A command names a library by the number    *)
(* that loadlib printed; nothing ties that number to the one who types it. *)
(***************************************************************************)

CONSTANTS
  LoadedMax,   \* CONSOLE_LOADED_LIB_MAX
  Libraries,   \* library paths
  HandleBound, \* bound on console_next_loaded_lib_handle
  RefBound     \* bound on the references to one library

VARIABLES
  libTable,    \* console_loaded_libs: slot -> [handle, path, refs], handle 0 when unused
  nextLib,     \* console_next_loaded_lib_handle
  libFile,     \* what the file of each library is
  storageOk,   \* whether app_require_storage_access lets "loadlib" read
  printed,     \* history: handle -> the library it was printed for
  held         \* history: handle -> uses that were not released

libVars == <<libTable, nextLib, libFile, storageOk, printed, held>>

LibSlots == 0 .. (LoadedMax - 1)
NoLibrary == "none"
Unused == [handle |-> 0, path |-> NoLibrary, refs |-> 0]

\* console_loaded_lib_find_by_path, _find_free_slot and _find_by_handle.
ByPath(p) == {i \in LibSlots : libTable[i].path = p}
ByHandle(h) == {i \in LibSlots : h # 0 /\ libTable[i].handle = h}
FreeLibSlots == {i \in LibSlots : libTable[i].handle = 0}

LibInit ==
  /\ libTable = [i \in LibSlots |-> Unused] /\ nextLib = 1
  /\ libFile = [p \in Libraries |-> "lib"] /\ storageOk = TRUE
  /\ printed = [h \in 1 .. HandleBound |-> NoLibrary]
  /\ held = [h \in 1 .. HandleBound |-> 0]

\* process_load_library: the file is there, parses, is a library, and its
\* signature is accepted.
LoadLibrary(p) == storageOk /\ libFile[p] = "lib"

\* The table after a registration that looks at no earlier entry of the path.
RegisteredAgain(p) ==
  IF FreeLibSlots = {} THEN libTable
  ELSE [libTable EXCEPT ![Min(FreeLibSlots)] = [handle |-> nextLib, path |-> p, refs |-> 0]]

\* console_register_loaded_library: a path that is already in the table keeps
\* its entry, its handle and its references; a full table refuses.
Registered(p) ==
  IF ByPath(p) # {} \/ FreeLibSlots = {} THEN libTable
  ELSE [libTable EXCEPT ![Min(FreeLibSlots)] = [handle |-> nextLib, path |-> p, refs |-> 0]]

\* app_sys_loadlib.
LoadLib(p) ==
  /\ LoadLibrary(p) /\ nextLib <= HandleBound
  /\ Registered(p) # libTable
  /\ libTable' = Registered(p)
  /\ printed' = [printed EXCEPT ![nextLib] = p]
  /\ nextLib' = nextLib + 1
  /\ UNCHANGED <<libFile, storageOk, held>>

\* console_unregister_loaded_library, console_acquire_loaded_library and
\* console_release_loaded_library: the slots they accept, and the table after.
Unregisters(h) == {i \in ByHandle(h) : libTable[i].refs = 0}
Acquires(h) == {i \in ByHandle(h) : libTable[i].refs < RefBound}
Releases(h) == {i \in ByHandle(h) : libTable[i].refs > 0}

\* app_sys_unloadlib: PROCESS_ERR_NOT_FOUND and PROCESS_ERR_IN_USE change nothing.
UnloadLib(h) ==
  \E i \in Unregisters(h) :
    /\ libTable' = [libTable EXCEPT ![i] = Unused]
    /\ UNCHANGED <<nextLib, libFile, storageOk, printed, held>>

\* app_sys_uselib.
UseLib(h) ==
  \E i \in Acquires(h) :
    /\ libTable' = [libTable EXCEPT ![i].refs = @ + 1]
    /\ held' = [held EXCEPT ![h] = @ + 1]
    /\ UNCHANGED <<nextLib, libFile, storageOk, printed>>

\* app_sys_releaselib: a library without references is not released further.
ReleaseLib(h) ==
  \E i \in Releases(h) :
    /\ libTable' = [libTable EXCEPT ![i].refs = @ - 1]
    /\ held' = [held EXCEPT ![h] = @ - 1]
    /\ UNCHANGED <<nextLib, libFile, storageOk, printed>>

\* app_sys_libs: "libs use" and "libs release"; the listings change nothing.
SysLibs(h) == UseLib(h) \/ ReleaseLib(h)

\* The files and the capabilities change under the console.
LibFilesChange ==
  /\ \/ \E p \in Libraries, kind \in {"absent", "lib", "other"} :
          libFile' = [libFile EXCEPT ![p] = kind] /\ UNCHANGED storageOk
     \/ storageOk' = ~ storageOk /\ UNCHANGED libFile
  /\ UNCHANGED <<libTable, nextLib, printed, held>>

LibNext ==
  \/ \E p \in Libraries : LoadLib(p)
  \/ \E h \in 1 .. HandleBound : UnloadLib(h) \/ SysLibs(h)
  \/ LibFilesChange

-----------------------------------------------------------------------------
\* A number printed by loadlib names that library or none, however the table's
\* slots are reused; a library is in the table once; and one with uses that were
\* not released is still there (the reference counts of console.c).
LibrariesHeld ==
  /\ \A i \in LibSlots : libTable[i].handle # 0 => printed[libTable[i].handle] = libTable[i].path
  /\ \A p \in Libraries : Cardinality(ByPath(p)) <= 1
  /\ \A h \in 1 .. HandleBound : held[h] > 0 => \E i \in ByHandle(h) : libTable[i].refs = held[h]
=============================================================================
