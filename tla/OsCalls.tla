------------------------------- MODULE OsCalls -------------------------------
(***************************************************************************)
(* System calls as a program sees them: the wrappers of                    *)
(* user/runtime/secureos_api_stubs.c over the bridges of                   *)
(* kernel/user/launcher_exec.c. Two translations stand between a result of *)
(* the kernel and the status that a program acts on: the bridge turns it   *)
(* into 0 .. 3, the wrapper turns that into an os_status_t. A program may  *)
(* spawn another, which runs before the call returns and uses the same     *)
(* globals: the arguments and the exit status.                             *)
(*                                                                         *)
(* The bridge is wired while a program runs, so the wrappers' answers      *)
(* without one are left out. A program that has spawned another returns    *)
(* from its entry and does not call os_process_exit: its recovery point is *)
(* gone (see Sessions). Contents and arguments are short sequences.        *)
(***************************************************************************)
EXTENDS Integers, Sequences, SequencesExt

CONSTANTS
  CallPaths,   \* files and directories
  CallBytes,   \* the contents written
  SizeMax,     \* bound on the length of a file
  OutSize,     \* size of the buffer that a program reads into
  ArgLists,    \* arguments of programs, joined
  JoinMax,     \* the longest argument string that os_process_spawn joins
  ExitCodes,
  NestMax      \* bound on the programs running

VARIABLES
  files,     \* path -> [kind, bytes]
  callCaps,  \* capabilities of the subject
  running,   \* programs, innermost last: [args, spawned, savedArgs, savedExit]
  rawArgs,   \* g_native_raw_args
  exitSlot,  \* g_native_exit_status
  belief,    \* history: what the statuses have told about each path
  reported   \* history: the exit status that a spawn reported, and the child's own

callVars == <<files, callCaps, running, rawArgs, exitSlot, belief, reported>>

AbsentFile == [kind |-> "absent", bytes |-> <<>>]
ADirectory == [kind |-> "dir", bytes |-> <<>>]
AFile(bs) == [kind |-> "file", bytes |-> bs]
Unknown == [kind |-> "unknown", bytes |-> <<>>]

CallsInit ==
  /\ files = [p \in CallPaths |-> AbsentFile] /\ callCaps = {"read", "write", "disk", "exec"}
  /\ running = <<>> /\ rawArgs = <<>> /\ exitSlot = 0
  /\ belief = [p \in CallPaths |-> AbsentFile] /\ reported = <<0, 0>>

-----------------------------------------------------------------------------
\* The results of fs_service.c, as far as a bridge tells them apart.
ReadResult(p, room) ==
  CASE files[p].kind = "absent" -> "NOT_FOUND"
    [] files[p].kind = "dir" -> "NOT_DIR"
    [] Len(files[p].bytes) > room -> "NO_SPACE"
    [] OTHER -> "OK"

ListResult(p) == IF files[p].kind = "dir" THEN "OK" ELSE "NOT_FOUND"

Allowed(cap, consent) == {cap, "disk"} \subseteq callCaps /\ consent

\* app_native_fs_read_file, app_native_fs_list_dir.
TextCode(allowed, result) == IF ~ allowed THEN 1 ELSE IF result # "OK" THEN 2 ELSE 0

\* app_native_fs_read_file_bytes.
BytesCode(allowed, result) ==
  IF ~ allowed THEN 1 ELSE IF result = "OK" THEN 0 ELSE IF result = "NOT_FOUND" THEN 2 ELSE 3

\* The wrappers: os_fs_list_root, os_fs_list_dir and os_fs_read_file.
ReadStatus(code) == CASE code = 0 -> "OK" [] code = 1 -> "DENIED" [] OTHER -> "NOT_FOUND"

\* os_fs_read_file_bytes.
ReadBytesStatus(code) ==
  CASE code = 0 -> "OK" [] code = 1 -> "DENIED" [] code = 2 -> "NOT_FOUND" [] OTHER -> "ERROR"

\* A wrapper that takes the codes 2 and 3 for success.
WriteStatusLoose(code) == IF code = 1 THEN "DENIED" ELSE "OK"

\* os_fs_write_file, os_fs_write_file_bytes and os_fs_mkdir.
WriteStatus(code) == CASE code = 0 -> "OK" [] code = 1 -> "DENIED" [] OTHER -> "ERROR"

Calling == running # <<>> /\ UNCHANGED <<callCaps, running, rawArgs, exitSlot, reported>>

\* What the program concludes about path p.
Learns(p, f) == belief' = [belief EXCEPT ![p] = f]

OsReadFile(p, consent) ==
  /\ Calling
  /\ LET st == ReadStatus(TextCode(Allowed("read", consent), ReadResult(p, OutSize - 1)))
     IN  IF st = "OK" THEN Learns(p, AFile(files[p].bytes)) ELSE UNCHANGED belief
  /\ UNCHANGED files

OsReadFileBytes(p, consent) ==
  /\ Calling
  /\ LET st == ReadBytesStatus(BytesCode(Allowed("read", consent), ReadResult(p, OutSize)))
     IN  IF st = "OK" THEN Learns(p, AFile(files[p].bytes))
         ELSE IF st = "NOT_FOUND" THEN Learns(p, AbsentFile) ELSE UNCHANGED belief
  /\ UNCHANGED files

OsListDir(p, consent) ==
  /\ Calling
  /\ IF ReadStatus(TextCode(Allowed("read", consent), ListResult(p))) = "OK"
     THEN Learns(p, ADirectory) ELSE UNCHANGED belief
  /\ UNCHANGED files

\* os_fs_write_file and os_fs_write_file_bytes. Out of space, an overwrite may
\* leave other bytes (module FileStore); an append leaves the file as it was.
Rewritten(p, bs, append) == AFile(IF append THEN files[p].bytes \o bs ELSE bs)
Writable(p, bs, append) == files[p].kind # "dir" /\ Len(Rewritten(p, bs, append).bytes) <= SizeMax

OsWriteFile(p, bs, append, consent, full) ==
  /\ Calling
  /\ LET works == Allowed("write", consent) /\ Writable(p, bs, append) /\ ~ full
         st == WriteStatus(TextCode(Allowed("write", consent), IF works THEN "OK" ELSE "NO_SPACE"))
     IN  /\ \/ works /\ files' = [files EXCEPT ![p] = Rewritten(p, bs, append)]
            \/ ~ works /\ UNCHANGED files
            \/ /\ ~ works /\ Allowed("write", consent) /\ ~ append /\ files[p].kind = "file"
               /\ \E other \in [1 .. Len(files[p].bytes) -> UNION {Range(b) : b \in CallBytes}] :
                    files' = [files EXCEPT ![p] = AFile(other)]
         /\ CASE st = "OK" -> Learns(p, IF append /\ belief[p] = Unknown THEN Unknown
                                        ELSE AFile(IF append THEN belief[p].bytes \o bs ELSE bs))
              [] st = "ERROR" /\ belief[p].kind = "file" -> Learns(p, Unknown)
              [] OTHER -> UNCHANGED belief

OsMkdir(p, consent) ==
  /\ Calling
  /\ LET works == Allowed("write", consent) /\ files[p] = AbsentFile
         st == WriteStatus(TextCode(Allowed("write", consent), IF works THEN "OK" ELSE "EXISTS"))
     IN  /\ files' = IF works THEN [files EXCEPT ![p] = ADirectory] ELSE files
         /\ IF st = "OK" THEN Learns(p, ADirectory) ELSE UNCHANGED belief

-----------------------------------------------------------------------------
\* The console launches a program; os_get_args reads rawArgs.
Launch(args) ==
  /\ running = <<>>
  /\ running' = <<[args |-> args, spawned |-> FALSE, savedArgs |-> rawArgs, savedExit |-> exitSlot]>>
  /\ rawArgs' = args
  /\ UNCHANGED <<files, callCaps, exitSlot, belief, reported>>

\* secureos_join_argv: whether the arguments fit the string they are joined in.
JoinArgv(args) == Len(args) <= JoinMax

\* os_get_args over app_native_get_args.
OsGetArgs == rawArgs

\* os_process_spawn and app_native_process_spawn: arguments that do not fit are
\* refused by the wrapper, a missing capability by the bridge.
OsProcessSpawn(args) ==
  /\ running # <<>> /\ Len(running) < NestMax
  /\ JoinArgv(args) /\ "exec" \in callCaps
  /\ running' = Append([running EXCEPT ![Len(running)].spawned = TRUE],
                       [args |-> args, spawned |-> FALSE, savedArgs |-> rawArgs, savedExit |-> exitSlot])
  /\ rawArgs' = args /\ exitSlot' = 0
  /\ UNCHANGED <<files, callCaps, belief, reported>>

\* The program at the top ends with the exit slot at code: app_execute_native_elf
\* gives the arguments back, app_native_process_spawn the exit status.
EndsKeepingSlot(code, meant) ==
  /\ running' = Front(running)
  /\ rawArgs' = Last(running).savedArgs
  /\ reported' = IF Len(running) = 1 THEN reported ELSE <<code, meant>>
  /\ exitSlot' = code
  /\ UNCHANGED <<files, callCaps, belief>>

Ends(code, meant) ==
  /\ running' = Front(running)
  /\ rawArgs' = Last(running).savedArgs
  /\ reported' = IF Len(running) = 1 THEN reported ELSE <<code, meant>>
  /\ exitSlot' = IF Len(running) = 1 THEN code ELSE Last(running).savedExit
  /\ UNCHANGED <<files, callCaps, belief>>

OsProcessExit(code) == running # <<>> /\ ~ Last(running).spawned /\ Ends(code, code)

EntryReturns == running # <<>> /\ Ends(exitSlot, IF Len(running) = 1 THEN exitSlot ELSE 0)

\* A crash: the spawn reports an error and no status.
Crashes ==
  /\ running # <<>> /\ ~ Last(running).spawned
  /\ running' = Front(running)
  /\ rawArgs' = Last(running).savedArgs
  /\ exitSlot' = IF Len(running) = 1 THEN exitSlot ELSE Last(running).savedExit
  /\ UNCHANGED <<files, callCaps, belief, reported>>

CapsChange ==
  /\ \E c \in {"read", "write", "disk", "exec"} : callCaps' \in {callCaps \cup {c}, callCaps \ {c}}
  /\ UNCHANGED <<files, running, rawArgs, exitSlot, belief, reported>>

CallsNext ==
  \/ \E p \in CallPaths, consent \in BOOLEAN :
       \/ OsReadFile(p, consent) \/ OsReadFileBytes(p, consent) \/ OsListDir(p, consent) \/ OsMkdir(p, consent)
       \/ \E bs \in CallBytes, append, full \in BOOLEAN : OsWriteFile(p, bs, append, consent, full)
  \/ \E args \in ArgLists : Launch(args) \/ OsProcessSpawn(args)
  \/ \E code \in ExitCodes : OsProcessExit(code)
  \/ EntryReturns \/ Crashes \/ CapsChange

-----------------------------------------------------------------------------
\* A program that believes the statuses of secureos_api_stubs.c is never wrong
\* about a file, whichever capability, consent or storage failure was behind a
\* status; its arguments are those of its own launch and a spawn reports the
\* child's own exit status, however deep programs were nested meanwhile.
CallsTellTheTruth ==
  /\ \A p \in CallPaths : belief[p] \in {files[p], Unknown}
  /\ running # <<>> => OsGetArgs = Last(running).args
  /\ reported[1] = reported[2]
=============================================================================
