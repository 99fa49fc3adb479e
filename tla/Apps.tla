-------------------------------- MODULE Apps --------------------------------
(***************************************************************************)
(* The launcher's tables of apps: spawned apps with their windows and      *)
(* handles (kernel/user/launcher.c) and the files it keeps per app         *)
(* (kernel/user/launcher_fs.c).                                            *)
(***************************************************************************)
EXTENDS Integers, FiniteSets, FiniteSetsExt, Functions

-----------------------------------------------------------------------------
(***************************************************************************)
(* kernel/user/launcher.c: registration of apps, the console-write grant,  *)
(* and the three ways to spawn an app (console, file system, broker) that  *)
(* carve a window out of the launcher's arena, create the process and      *)
(* leave the handles of its capabilities in the window's IPC scratch area. *)
(*                                                                         *)
(* process.c and cap_handle.c are taken at what they promise: a subject    *)
(* has one live handle per capability, a revoked handle never becomes      *)
(* valid again (so a stamped handle is its pair and whether it is valid),  *)
(* and a process id is not used twice. A process that ends takes every     *)
(* handle of its subject with it. Of the legacy capability table only      *)
(* console-write is followed: it is the one bit the launcher also takes    *)
(* back. Manifests of the wrong shape (a null pointer, a subject out of    *)
(* range, grants on the wrong entry point, an unknown role) change         *)
(* nothing; of the arena sizes, the last denial is kept.                   *)
(***************************************************************************)

CONSTANTS
  SpawnMax,      \* LAUNCHER_SPAWN_MAX: slots, and windows of the arena
  ProcMax,       \* PROC_TABLE_MAX
  HandleMax,     \* CAP_HANDLE_TABLE_MAX
  AppSubjects    \* the subjects of manifests, in 1 .. CAP_TABLE_MAX_SUBJECTS - 1

ASSUME LauncherAssumption == SpawnMax \in Nat /\ ProcMax \in Nat /\ AppSubjects \subseteq Nat \ {0}

VARIABLES
  registered,    \* launcher_apps
  writers,       \* the subjects with CAP_CONSOLE_WRITE in the legacy table
  minted,        \* live rows of the handle table: [own, cap]
  procs,         \* live processes: [pid, sub]
  spawns,        \* g_launcher_spawns: slot -> [pid, win, sub] or NoSpawn
  nextWindow,    \* g_launcher_aspace_next
  scratch,       \* window -> the handles stamped into its ipc_scratch
  arenaDeny      \* g_arena_last_deny

launcherVars == <<registered, writers, minted, procs, spawns, nextWindow, scratch, arenaDeny>>

SpawnSlots == 1 .. SpawnMax
NoSpawn == [pid |-> 0, win |-> 0, sub |-> 0]
NoHandle == [own |-> 0, cap |-> "none", valid |-> FALSE]
OwnerSubject == 1  \* LAUNCHER_OWNER_SUBJECT_ID

\* The fields of the scratch area: [0..4), [8..16), [16..24), [24..32).
Fields == {"console", "read", "write", "broker"}
ZeroedScratch == [f \in Fields |-> NoHandle]

\* A process id that no process has and no slot remembers.
FreshPid == Min((1 .. (ProcMax + 1)) \ ({p.pid : p \in procs} \cup {spawns[s].pid : s \in SpawnSlots}))

Pair(sub, cap) == [own |-> sub, cap |-> cap]

\* A process_destroy that leaves the handles alone.
KeepHandles(M, S, sub) == minted' = M /\ scratch' = S

\* cap_handle_revoke_subject, called by process_destroy: every handle of the
\* subject, wherever a copy of it is stamped.
Dead(h, sub) == IF h.own = sub THEN [h EXCEPT !.valid = FALSE] ELSE h
KillHandles(M, S, sub) ==
  /\ minted' = {h \in M : h.own # sub}
  /\ scratch' = [w \in SpawnSlots |-> [f \in Fields |-> Dead(S[w][f], sub)]]

LauncherInit ==
  /\ registered = {} /\ writers = {} /\ minted = {} /\ procs = {}
  /\ spawns = [s \in SpawnSlots |-> NoSpawn] /\ nextWindow = 1
  /\ scratch = [w \in SpawnSlots |-> ZeroedScratch]
  /\ arenaDeny = "none"

-----------------------------------------------------------------------------
Register(sub) ==
  /\ registered' = registered \cup {sub}
  /\ UNCHANGED <<writers, minted, procs, spawns, nextWindow, scratch, arenaDeny>>

\* launcher_grant_console_write.
GrantConsoleWrite(sub) ==
  /\ sub \in registered
  /\ writers' = writers \cup {sub}
  /\ UNCHANGED <<registered, minted, procs, spawns, nextWindow, scratch, arenaDeny>>

\* launcher_revoke_console_write.
RevokeConsoleWrite(sub) ==
  /\ sub \in registered
  /\ writers' = writers \ {sub}
  /\ UNCHANGED <<registered, minted, procs, spawns, nextWindow, scratch, arenaDeny>>

\* launcher_resolve_arena_bytes refuses: the denial is recorded.
ArenaDenied(reason) ==
  /\ arenaDeny' = reason
  /\ UNCHANGED <<registered, writers, minted, procs, spawns, nextWindow, scratch>>

\* launcher_app_console_write reaches the console.
AppConsoleWrite(sub) == sub \in registered /\ sub \in writers

\* The capabilities an entry point hands over, and where they are stamped.
Handover(kind) ==
  CASE kind = "plain" -> {} [] kind = "console" -> {"console"} [] kind = "fsread" -> {"read"}
    [] kind = "fswrite" -> {"read", "write"} [] kind \in {"broker", "owned"} -> {"broker"}

ConsoleKinds == {"plain", "console"}
FsKinds == {"fsread", "fswrite"}
BrokerKinds == {"broker", "owned"}
IsConsoleSpawn(kind) == kind \in ConsoleKinds

\* launcher_ownership_role_parent: the launcher's own handle, minted on the
\* first use.
RootMinted(kind) == IF kind = "owned" THEN minted \cup {Pair(OwnerSubject, "broker")} ELSE minted

\* The handle table after the mints of a spawn.
AllMinted(kind, sub) == RootMinted(kind) \cup {Pair(sub, c) : c \in Handover(kind)}

\* The slot and the window are there: the window is used up whatever follows.
CanStart == (\E s \in SpawnSlots : spawns[s] = NoSpawn) /\ nextWindow <= SpawnMax
FirstFree == Min({s \in SpawnSlots : spawns[s] = NoSpawn})

RegisterIfConsole(kind, sub) ==
  registered' = IF IsConsoleSpawn(kind) THEN registered \cup {sub} ELSE registered

\* process_create finds no slot: the window is lost.
SpawnWithoutProcess(kind, sub) ==
  /\ CanStart /\ Cardinality(procs) = ProcMax
  /\ nextWindow' = nextWindow + 1
  /\ RegisterIfConsole(kind, sub)
  /\ UNCHANGED <<writers, minted, procs, spawns, scratch, arenaDeny>>

GrantBits(kind, sub) == IF kind = "console" THEN writers \cup {sub} ELSE writers

\* The handle table is full: the process is destroyed, and with it every
\* handle of its subject. What was granted in the legacy table stays.
SpawnWithoutHandle(kind, sub) ==
  /\ CanStart /\ Cardinality(procs) < ProcMax
  /\ Cardinality(AllMinted(kind, sub)) > HandleMax
  /\ nextWindow' = nextWindow + 1
  /\ RegisterIfConsole(kind, sub)
  /\ writers' = GrantBits(kind, sub)
  /\ KillHandles(IF Cardinality(RootMinted(kind)) > HandleMax THEN minted ELSE RootMinted(kind),
                 [scratch EXCEPT ![nextWindow] = ZeroedScratch], sub)
  /\ UNCHANGED <<procs, spawns, arenaDeny>>

\* scratch_store_handle_le64 of a handle just minted.
StoredHandle(sub, f) == [own |-> sub, cap |-> f, valid |-> TRUE]

\* A stamp that leaves the fields it does not write as they were.
StampOver(kind, sub) ==
  [f \in Fields |-> IF f \in Handover(kind) THEN StoredHandle(sub, f) ELSE scratch[nextWindow][f]]

Stamp(kind, sub) == [f \in Fields |-> IF f \in Handover(kind) THEN StoredHandle(sub, f) ELSE NoHandle]

\* Any of the three entry points to the end.
SpawnWorks(kind, sub) ==
  /\ CanStart /\ Cardinality(procs) < ProcMax
  /\ Cardinality(AllMinted(kind, sub)) <= HandleMax
  /\ nextWindow' = nextWindow + 1
  /\ RegisterIfConsole(kind, sub)
  /\ procs' = procs \cup {[pid |-> FreshPid, sub |-> sub]}
  /\ writers' = GrantBits(kind, sub)
  /\ minted' = AllMinted(kind, sub)
  /\ scratch' = [scratch EXCEPT ![nextWindow] = Stamp(kind, sub)]
  /\ spawns' = [spawns EXCEPT ![FirstFree] = [pid |-> FreshPid, win |-> nextWindow, sub |-> sub]]
  /\ arenaDeny' = "none"

\* The entry points: they differ in what they hand over, in whether they
\* register the app and in whether they grant in the legacy table.
SpawnAppFromManifest(kind, sub) ==
  /\ kind \in ConsoleKinds
  /\ SpawnWithoutProcess(kind, sub) \/ SpawnWithoutHandle(kind, sub) \/ SpawnWorks(kind, sub)

FsSpawnApp(kind, sub) ==
  /\ kind \in FsKinds
  /\ SpawnWithoutProcess(kind, sub) \/ SpawnWithoutHandle(kind, sub) \/ SpawnWorks(kind, sub)

BrokerSpawnApp(kind, sub) ==
  /\ kind \in BrokerKinds
  /\ SpawnWithoutProcess(kind, sub) \/ SpawnWithoutHandle(kind, sub) \/ SpawnWorks(kind, sub)

\* launcher_spawn_destroy (and its two aliases) of a spawn of the launcher.
DestroySpawn(s) ==
  /\ spawns[s] # NoSpawn
  /\ procs' = {p \in procs : p.pid # spawns[s].pid}
  /\ KillHandles(minted, scratch, spawns[s].sub)
  /\ spawns' = [spawns EXCEPT ![s] = NoSpawn]
  /\ UNCHANGED <<registered, writers, nextWindow, arenaDeny>>

SpawnPids == {spawns[s].pid : s \in SpawnSlots}

\* launcher_arena_audit_reset.
ArenaAuditReset == arenaDeny' = "none"

\* launcher_spawn_reset: every spawn is destroyed, every window is free again.
SpawnReset ==
  /\ procs' = {p \in procs : p.pid \notin SpawnPids}
  /\ minted' = {h \in minted : \A s \in SpawnSlots : spawns[s].sub # h.own}
  /\ spawns' = [s \in SpawnSlots |-> NoSpawn]
  /\ nextWindow' = 1
  /\ scratch' = [w \in SpawnSlots |-> [f \in Fields |->
                    IF \E s \in SpawnSlots : spawns[s].sub = scratch[w][f].own
                    THEN [scratch[w][f] EXCEPT !.valid = FALSE] ELSE scratch[w][f]]]

\* launcher_reset: the console grants of registered apps, all spawns, the
\* windows and the denial record.
LauncherReset ==
  /\ writers' = writers \ registered
  /\ registered' = {}
  /\ SpawnReset
  /\ ArenaAuditReset

\* Processes of other parts of the kernel (subject 0) come and go.
OtherProcess ==
  /\ \/ Cardinality(procs) < ProcMax /\ procs' = procs \cup {[pid |-> FreshPid, sub |-> 0]}
     \/ \E p \in procs : p.sub = 0 /\ procs' = procs \ {p}
  /\ UNCHANGED <<registered, writers, minted, spawns, nextWindow, scratch, arenaDeny>>

LauncherNext ==
  \/ \E sub \in AppSubjects : Register(sub) \/ GrantConsoleWrite(sub) \/ RevokeConsoleWrite(sub)
  \/ \E reason \in {"over_cap", "under_floor"} : ArenaDenied(reason)
  \/ \E sub \in AppSubjects :
       \/ \E kind \in ConsoleKinds : SpawnAppFromManifest(kind, sub)
       \/ \E kind \in FsKinds : FsSpawnApp(kind, sub)
       \/ \E kind \in BrokerKinds : BrokerSpawnApp(kind, sub)
  \/ \E s \in SpawnSlots : DestroySpawn(s)
  \/ LauncherReset
  \/ OtherProcess

LauncherSpec == LauncherInit /\ [][LauncherNext]_launcherVars

-----------------------------------------------------------------------------
\* Spawns of launcher.c do not share a window or a process, every handle in
\* the window of a running app is its own subject's, and a handle left in any
\* window is dead once no spawn of its subject runs. The console-write bits
\* are those of registered apps, so that launcher_reset leaves none behind.
SpawnsIsolated ==
  /\ \A s, t \in SpawnSlots :
       s # t /\ spawns[s] # NoSpawn /\ spawns[t] # NoSpawn =>
         spawns[s].win # spawns[t].win /\ spawns[s].pid # spawns[t].pid
  /\ \A s \in SpawnSlots, f \in Fields :
       spawns[s] # NoSpawn /\ scratch[spawns[s].win][f] # NoHandle =>
         scratch[spawns[s].win][f].own = spawns[s].sub /\ scratch[spawns[s].win][f].cap = f
  /\ \A sub \in writers : AppConsoleWrite(sub)
  /\ \A w \in SpawnSlots, f \in Fields :
       scratch[w][f].valid =>
         /\ Pair(scratch[w][f].own, f) \in minted
         /\ \E s \in SpawnSlots : spawns[s] # NoSpawn /\ spawns[s].sub = scratch[w][f].own

-----------------------------------------------------------------------------
(***************************************************************************)
(* kernel/user/launcher_fs.c: the small private file space that the        *)
(* launcher keeps per app, either persistent or cleared at every relaunch. *)
(* Reading and writing need CAP_FS_READ and CAP_FS_WRITE, which a relaunch *)
(* takes back. Paths and contents that are too long are refused and are    *)
(* one value here, TooLong.                                                *)
(***************************************************************************)

CONSTANTS
  FsApps,       \* subjects
  FsPaths,
  FsContents,
  TooLong,      \* a content of LAUNCHER_FS_MAX_CONTENT characters or more
  FilesPerApp   \* LAUNCHER_FS_MAX_FILES_PER_APP

VARIABLES
  store,     \* launcher_fs_apps: app -> [used, mode, files], files: slot -> [path, text] or NoFile
  fsCaps,    \* the pairs [app, cap] of the capability table
  written    \* history: what each app wrote last, since its files were cleared

launcherFsVars == <<store, fsCaps, written>>

FileSlots == 1 .. FilesPerApp
NoFile == [path |-> TooLong, text |-> TooLong]
NoFiles == [s \in FileSlots |-> NoFile]  \* launcher_fs_clear_files
NoAppFiles == [used |-> FALSE, mode |-> "persistent", files |-> NoFiles]
Nothing == [p \in FsPaths |-> TooLong]

Has(app, cap) == [app |-> app, cap |-> cap] \in fsCaps
DropCaps(app) == {c \in fsCaps : c.app # app}

LauncherFsInit ==
  /\ store = [a \in FsApps |-> NoAppFiles] /\ fsCaps = {}
  /\ written = [a \in FsApps |-> Nothing]

\* launcher_fs_register_app; the mode of a registered app is not changed.
RegisterFs(app, mode) ==
  /\ ~store[app].used
  /\ store' = [store EXCEPT ![app] = [NoAppFiles EXCEPT !.used = TRUE, !.mode = mode]]
  /\ written' = [written EXCEPT ![app] = Nothing]
  /\ UNCHANGED fsCaps

\* launcher_fs_grant, for the calls that name a capability.
GrantFs(app, cap) ==
  /\ store[app].used
  /\ fsCaps' = fsCaps \cup {[app |-> app, cap |-> cap]}
  /\ UNCHANGED <<store, written>>

\* launcher_fs_revoke.
RevokeFs(app, cap) ==
  /\ store[app].used
  /\ fsCaps' = fsCaps \ {[app |-> app, cap |-> cap]}
  /\ UNCHANGED <<store, written>>

\* launcher_fs_lookup, launcher_fs_alloc_slot.
SlotsOf(app, path) == {s \in FileSlots : store[app].files[s].path = path}
FreeFileSlots(app) == {s \in FileSlots : store[app].files[s] = NoFile}

\* A lookup that is left out: every write takes a new slot.
FreshSlots(app, path) == FreeFileSlots(app)

TargetSlots(app, path) == IF SlotsOf(app, path) # {} THEN SlotsOf(app, path) ELSE FreeFileSlots(app)

\* launcher_fs_app_write. Without a slot, or with too long a content, nothing
\* is written.
AppWrite(app, path, text) ==
  /\ store[app].used /\ Has(app, "write") /\ text # TooLong
  /\ TargetSlots(app, path) # {}
  /\ store' = [store EXCEPT ![app].files[Min(TargetSlots(app, path))] = [path |-> path, text |-> text]]
  /\ written' = [written EXCEPT ![app][path] = text]
  /\ UNCHANGED fsCaps

\* launcher_fs_app_read: what it returns, TooLong when it refuses.
AppRead(app, path) ==
  IF store[app].used /\ Has(app, "read") /\ SlotsOf(app, path) # {}
  THEN store[app].files[Min(SlotsOf(app, path))].text ELSE TooLong

\* launcher_fs_app_relaunch: the grants end with the launch, and so do the
\* files of an app without persistence.
Relaunch(app) ==
  /\ store[app].used
  /\ fsCaps' = DropCaps(app)
  /\ IF store[app].mode = "ephemeral"
     THEN /\ store' = [store EXCEPT ![app].files = NoFiles]
          /\ written' = [written EXCEPT ![app] = Nothing]
     ELSE UNCHANGED <<store, written>>

\* launcher_fs_reset.
ResetFs ==
  /\ fsCaps' = {c \in fsCaps : ~store[c.app].used}
  /\ store' = [a \in FsApps |-> NoAppFiles]
  /\ written' = [a \in FsApps |-> Nothing]

LauncherFsNext ==
  \/ \E app \in FsApps :
       \/ \E mode \in {"persistent", "ephemeral"} : RegisterFs(app, mode)
       \/ \E cap \in {"read", "write"} : GrantFs(app, cap) \/ RevokeFs(app, cap)
       \/ \E path \in FsPaths, text \in FsContents \cup {TooLong} : AppWrite(app, path, text)
       \/ Relaunch(app)
  \/ ResetFs

-----------------------------------------------------------------------------
\* What launcher_fs_app_read returns to an app that may read is what the app
\* itself wrote to that path last, since its registration or, without
\* persistence, its last relaunch; grants never outlive a registration.
ReadsOwnWrites ==
  /\ \A app \in FsApps, path \in FsPaths :
       Has(app, "read") => AppRead(app, path) = written[app][path]
  /\ \A c \in fsCaps : store[c.app].used
=============================================================================
