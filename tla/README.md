# SecureOS: TLA+ models and proofs

SecureOS is a small capability-based operating system in C. This directory
holds TLA+ models of its kernel, its user libraries and some of its programs,
TLC configurations that check them on small instances, and proofs, checked by
TLAPS, of what holds for every size. `PROJECT.json` is the index: which
definition models which lines, what each run checks, which change of the code
each property would catch, what is proved, and the places of the code that are
hard to test.

## The system and its parts

| Part | State it keeps | Operations | Interacts with |
|---|---|---|---|
| Capability table, audit log (`kernel/cap/cap_table.c`, `capability.c`) | a bit set per subject; a ring of events, a ring of checkpoints, a seal | grant, revoke, check, record, checkpoint | everybody |
| Sharing broker (`kernel/cap/cap_broker.c`) | a table of shares | request, approve, deny, revoke | capability table, audit log |
| Handle table (`kernel/cap/cap_handle.c`) | rows with a generation and a parent | grant, child grant, check, four revocations | broker service, process table, IPC |
| Workflow rules (`kernel/cap/workflow_rule.c`) | rules per tenant, an audit ring | register, evaluate | nobody yet (tests) |
| Broker service (`kernel/svc/broker_svc.c`) | a side table from shares to handles | approve with a handle, delete an owner | broker, handles, sessions, processes |
| Module registry (`kernel/proc/module_registry.c`, `address_space.c`) | windows of an arena, a handle per module, one port | spawn, run a module, reset | processes, handles, IPC |
| Process table and scheduler (`kernel/proc/process.c`, `proc_sched.c`) | processes with a generation; entries, ready ring, current entry | create, destroy, register, run, yield, block, wake, exit | handle table, IPC |
| IPC (`kernel/ipc/ipc_port.c`, `ipc_ops.c`) | ports with one envelope each | create, destroy, stage, consume; send, receive, call | scheduler, capability table |
| Sessions and console (`kernel/core/session_manager.c`, `console.c`) | sessions with a stack, a queue, a screen and a copy of the app region; consent caches; line, history, environment, loaded libraries | create, switch, destroy, type, tick, yield, prompt, edit, set, change directory, load and release | native apps, prompts |
| Launcher (`kernel/user/launcher.c`, `launcher_fs.c`) | spawned apps with windows and handles; files per app | spawn, destroy, grant; write, read, relaunch | processes, handles |
| Native app runtime (`kernel/user/launcher_exec.c`) | the app context, the recovery point, child sessions, the program text, the exit status, all global | find, check and launch a program, run a script, return, exit, fault, system calls | sessions, file system, container format |
| Container format (`kernel/format/sof.c`, `kernel/crypto/cert.c`, `user/libs/sofpack`) | files | build, sign, parse, verify | runtime |
| Prompts and window manager (`kernel/event/event_bus.c`, `user/apps/win`) | prompt slots, the one dialog, windows | fill, poll, answer, release; drag, click, draw | sessions |
| File system (`kernel/fs/fs_service.c`) | nothing in memory; sectors on a disk | write, append, read, list, make and remove | storage drivers |
| Event bus (`kernel/event/event_bus.c`) | a ring per topic, subscriptions | subscribe, publish | capability table |
| Heaps (`kernel/mem/kheap.c`, `user/libs/clib`, `kernel/user/app_native_heap.c`) | blocks; the pool and its break | allocate, free, resize, grow | everybody |
| Devices (`kernel/drivers`, `kernel/hal`, `kernel/clock`) | screen memory, scan-code and packet state, rings, the clock's offset | draw, scroll; poll; send, receive; read, set | sessions, network library |
| Network library (`user/libs/netlib`) | one mailbox, one receive buffer, one connection | request over HTTP and HTTPS, ping | network driver |
| C library and system calls (`user/libs/clib`, `user/runtime`) | descriptors, streams, `errno` | files, sorting, numbers, strings; file and process calls | runtime |
| Shell language and editor (`user/libs/soshlib`, `user/apps/edit`) | lines, blocks, variables; a buffer | run a script; edit and save | system calls |

Not modelled, with the reason for each, are in the list of components in
`PROJECT.json`: among others boot, the number theory of signatures, fonts, the compiler and the host tools.

What makes this system hard to test: identifiers with a generation that wraps;
tables whose slots are re-used under values that are still held; two kinds of
waiters on one token; apps that all run at one address and take turns in the
middle of calls; one static buffer for all programs; a disk written sector by
sector; frames that arrive for the request before; the same authority given by
several routes. `PROJECT.json` lists these places as hazards, by line.

## Modules

Each component has its state, one action per operation and its properties in one
module; a module `MC...` instantiates it for TLC. Small components of one source
directory that share no state are sections of one module. A definition is a
translation of the lines `PROJECT.json` maps it to. The operators `PROJECT.json`
names under "mutants" as mutated forms stand before the definition they vary;
they are plausible mistakes in that code, no model uses them, and they show that
a property can fail.

The kernel's authority and processes:

* **CapHandle** (handle table). `rows` is `g_rows`; `dead` and `revs` are
  histories: the handles that were revoked and how often each slot was. A handle
  is slot, generation and tag. `GrantChild` is the whole grant with reuse of a
  live row, `RevokeRows` what all four revocations do to the rows they find.
* **CapHandleSweep** is the loop of `cap_handle_revoke_subtree` row by row. It
  justifies that CapHandle takes the closure in one step.
* **IpcPort**, **IpcPortAging** (port table). `ports` are the slots; the second
  module adds the history that says how old a handle is.
* **ProcSched** (process table and scheduler): `procs`, `entries`, `ring`,
  `cur`. Every step of the scheduler's loop and every call a process can make is
  an action; stale pids and entries of destroyed processes occur.
* **IpcRendezvous** composes ProcSched with the ports: the wait loops of
  `ipc_send`, `ipc_recv` and `ipc_call`, which block on the address of a slot and
  start over when woken. What processes call is given by scripts in
  MCIpcRendezvous.
* **CapBroker** (capability table, administration, sharing broker): `bits`,
  `shares`, and `direct`, the history of administrative grants. `audit` is what
  the last operation appended.
* **BrokerSvc** composes CapBroker, CapHandle, session slots and processes:
  approving with a handle, and the cascade that deletes an owner.
* **Modules**: the carving of an arena into windows, and the spawn of a kernel
  module as one action with an outcome for each step that can fail. Scheduling,
  blocking and the tables are taken at what the modules above show.
* **WorkflowRules**: `rules` by slot, `ring` and `dropped` of its audit, and
  `calls`, the history of calls that the verdicts are explained by.
* **FatFs** (file system). A call is the sequence of sectors it writes, computed
  from the disk it finds; it may be cut after each of them. **FileStore** is the
  abstract specification: a map from paths to files and directories in which a
  call changes only the path it names. `ImplementsFileStore` is the refinement,
  with `view` (what reading every path gives) as the mapping.
* **Logs**: the bounded ring that three parts of the kernel contain, the audit
  log and the event bus on it.
* **Heaps**: the lists of both allocators, and the break of the pool that nested
  programs share. **Allocator** is what they promise, a set of disjoint regions
  in callers' hands; `HeapsAreAllocators` is the refinement, with the payloads of
  the used blocks as the mapping.

Between a user and a program:

* **Sessions** (prompt slots, dialog, sessions, console and native apps). One
  processor, no preemption: an action is what happens between two points where
  control can change hands.
* **AppRun**: `process_run` with scripts, nested programs and the file calls of
  native programs. `buffer` is the static text `elf_data`, `frames` the nested
  activations, each with its cursor into it.
* **Console**: the line with its history, the environment with PWD, and the
  table of loaded libraries.
* **Apps**: the launcher. A spawn is one action with an outcome for each step
  that can fail; process and handle table are taken at what ProcSched and
  CapHandle show.
* **Invocation**: the search for a program, one candidate a step, the splitting
  of its arguments and the expansion of a script's line.
* **SofFormat**: both writers, the parser and the verifier of the container
  format, on files that are stored whole, cut or altered.

What programs stand on:

* **Display**: the pixels of a program, on hardware with the kernel's mouse
  cursor and in the virtual buffer of a managed session; and the text screen.
* **Devices**: the keyboard controller's one output buffer under two drivers;
  the clock's registers, calendar and offset with the `date` command and timelib;
  both rings of the network card, with the card as a concurrent process.
* **NetStack**: requests as sequences of waits; `wire` holds the frames on their
  way, which may be lost, repeated and overtaken, also by those of the request
  before.
* **ClibFiles**: descriptors with snapshots, streams with buffers. **ClibPure**:
  sorting and searching a step at a time, numbers, memory and strings against
  reference definitions.
* **OsCalls**: the two translations of every status between a program and the
  kernel, and the globals that nested programs share.
* **SoshLib**: the walk over a script's lines, compared with what its block
  structure means; the tokenizer, variables and expressions.
* **Editor** and **WinManager**: two programs.

**CapHandleProofs**, **CapHandleSweepProofs**, **IpcPortProofs**,
**CapBrokerProofs**, **LogProofs**, **ModuleProofs**, **LaunchProofs** and
**RuleProofs** hold the theorems.

## Runs

| Run | Shows | Bounds, and why they are enough |
|---|---|---|
| `handle_table` | A pair has one live row. A revoked handle stays denied until the generation has wrapped. A subtree revocation leaves no live child behind. | 3 slots, 4 generations, 2 subjects and 2 capabilities (and an invalid one of each): every slot is re-used and every generation wraps. |
| `scheduler` | The ready ring holds each ready entry once. Only ready processes run, and the verdict of `proc_sched_run` (done or deadlock) is right. A queued entry is served. | 3 slots and entries, one re-use of each slot: stale entries and stale pids occur. |
| `rendezvous` | Messages arrive once, in order and only at the port's owner. With one sender and one receiver per port everybody completes. | 4 processes, 3 ports, 4 operations each, in two scripts; in one, ports are destroyed and re-created and processes destroyed while others wait. |
| `rendezvous_two_senders` | Finding, see below. | 3 processes. |
| `kernel_tables` | Five components, one per behaviour: ports, sweep, files, audit log, event bus. Handles do not outlive their port. The sweep revokes exactly the subtree and returns. A file system call does what FileStore says, chains stay disjoint and inside the table, a listing shows every file. Logs keep the newest entries, checkpoints are complete, numbers order events. | Ports: 3 slots, 3 generations. Sweep: all parent assignments, roots and live sets on 4 rows. Files: 3 free clusters of one entry or two bytes, table of two sectors, paths of two components: directories grow, the disk runs full, calls are cut between sectors. Logs: rings of 2 and 3 entries, overwritten more than once. |
| `broker` | Every bit of the table comes from a grant or an approved share. Every change of a bit is audited. | 3 subjects and an invalid one, 2 capabilities and an invalid one, 2 shares. |
| `broker_svc` | The side table never names another tenant of a slot and never overflows. A cascade takes all of an owner's handles and their children and counts them right. | 2 owners, 1 recipient, 2 handle slots, 3 sessions. |
| `sessions` | Apps run their own code in their own context. Prompts keep their slots. Nothing is allowed that was not answered for. Answered prompts are taken up. The prompt comes back from every script. | 3 sessions, 2 prompt slots, 3 commands: two prompts at a time and apps of two sessions that take turns. Scripts: one that runs one that runs a native program, in a buffer of three lines that each replaces. |
| `app_recovery` | Finding. | As `sessions`. |
| `services` | Eleven parts, one per behaviour. The console's history, environment, directory and loaded libraries are what was entered. Spawned apps do not share windows or handles, also after failed spawns; kernel modules run in sound, disjoint windows on the live handle of their subject. Each app reads its own writes. A command starts the first program of its search order with its own words, from a file that reads back as written and verifies only if unharmed and certified. Rules decide as registered. Both heaps implement Allocator and keep no fragmentation. | Each table smaller than what is put into it: history of 2, 3 environment entries for 4 keys, 2 library slots, 2 windows, 3 handles (modules: 3 windows, 2 processes, 2 handles, an arena and an alignment that leave a rest), 2 files for 3 paths, 1 rule. Search: every mix of missing, unreadable, unsigned and damaged files in 4 places. Format: fields that are absent, empty, cut by the reader and cut on the wire. Heaps: arenas that hold a few blocks, with every order of frees. |
| `programs` | Fourteen parts, one per behaviour: what the screens show, what drivers deliver, whose response a request gets, what files and calls tell a program, the contracts of the C library, scripts and words, and the editor's buffer. | Screens of 2 to 4 cells that scroll and clip; a controller with 3 bytes; indices that wrap at 4; two requests in a row with two frames on the wire; all arrays of 5 small values and a stack of ranges that overflows; all texts of 3 characters and integers of 4 bits; all well-formed scripts of 4 lines. |
| `container_writers` | Finding. | As `services`. |

In `kernel_tables`, `services` and `programs` a behaviour picks one part at the
start: the parts share no state that their modules model, so nothing is lost and
their state spaces add up instead of multiplying. Symmetry is used only over ids
that no operation orders, and not where a liveness property is checked. Deadlock
checking is off where a system may stop: scripts end, bounded histories fill up,
a sweep returns. Bounds in guards are marked "bound" at their constants.

**Fairness.** `scheduler`: the loop of `proc_sched_run` goes on, and a process
eventually yields, blocks or exits (cooperative scheduling promises nothing
without that). `rendezvous`: some step is taken while one is possible.
`sessions`: an app run in a tick goes on to its next yield; the window manager's
main loop ticks every window in every round (strong fairness, because a tick is
only possible while the main stack runs the window manager); the script
interpreter goes on, and a native program returns. `kernel_tables`: the loops of
the sweep go on. Everywhere else only safety is stated.

## Proofs

TLAPS proves, for every value of the constants that satisfies the named
assumptions of the modules (tables are not empty, generation spaces are as
large as the encoding needs, the marks for "none" are not ids):

* **CapHandleProofs.** `IInv` adds two facts to the type invariant and to
  `OneLiveRowPerPair`: as long as it has not wrapped, the generation of a row
  is twice the number of its revocations, plus one while it is live
  (`GenerationCounts`), and dead handles carry a lower generation than their row
  (`DeadHandlesOlder`). Neither is about what a
  caller sees, but `StaleHandlesDenied` is not inductive without them. Theorems:
  `TypeCorrect`, `UniqueLiveRow`, `RevokedStaysDenied`, `BindingNeverChanges`,
  `SubtreeLeavesNoStrandedChild`.
* **CapHandleSweepProofs.** `SweepInv` says that what has been visited lies in
  the subtree, that a pass that added nothing has found a closed set, and that
  every pass that added something made the bitmap larger, so that the pass
  number is bounded by its size. Theorems: `SweepCorrect`, `SweepEndsByItself`.
* **IpcPortProofs.** `PortInv` relates generations and the count of closes.
  Theorems: `PortTableTypes`, `NoEnvelopeLeaks`, `ClosedStaysRefused`,
  `OwnerNeverChanges`.
* **CapBrokerProofs.** Types and `GrantExplained` are inductive together.
  Theorems: `BrokerTypes`, `EveryGrantExplained`, `EveryMutationAudited`,
  `RevokedAtOnce`, `DecisionsStay`.
* **LogProofs.** `PushHolds`: a push onto a ring that holds the newest entries of
  a log leaves one that holds the newest entries of the longer log. `AuditIInv`
  and `BusIInv` tie the next number to the history. Theorems:
  `AuditKeepsNewest`, `BusKeepsOrder`.
* **ModuleProofs.** Windows first: rounding down loses less than the alignment,
  so a window that is not refused holds stack, scratch area and envelope without
  overlap (`WindowsSound`), and windows of different number are disjoint and in
  the arena (`WindowsInArena`, `WindowsDisjoint`). `ModulesInv` then says that
  each process has a window number of its own below `g_demo_aspace_next`, that
  the handle on record is current, and that messages are counted. Theorem:
  `ModulesStayIsolated`.
* **LaunchProofs.** `LauncherInv` adds to `SpawnsIsolated` that every spawn has a
  process that is still there, with its subject, and a window that was handed
  out (`SpawnsBacked`): without it a fresh process id could be one that a spawn
  still holds. `FreshPidIsFresh` is a count of ids against processes. Theorem:
  `SpawnsStayIsolated`.
* **RuleProofs.** `RulesInv` ties the table to the history of calls, both ways
  (`TableIsRegistered`), with one rule per tenant and id (`RulesOnce`); so the
  slot that a search finds is the one registered, and an evaluation's verdict is
  decided by the history alone. Theorem: `RulesStayExplained`.

The assumptions on constants that these use are `AddressAssumption` (the header
of an envelope fits one alignment step, which is what `aspace_window_min_bytes`
adds to the payload), `ArenaAssumption` (the arena lies in the address space),
`LauncherAssumption` and `RulesAssumption` (ids are numbers, 0 is none of an
app's).

Only model-checked: everything about scheduling, rendezvous, sessions, the
broker service, the file system, heaps, formats, devices, libraries and programs,
the refinements of FileStore and Allocator, the checkpoints of the audit log,
what recursive definitions compute, and all liveness (the last two are out of
this prover's reach).

## Findings

The runs marked "violation" show where a comment or document and the code part:

1. `rendezvous_two_senders`: with two senders, a wake meant for the receiver goes
   to a sender and everyone stays blocked.
2. `app_recovery`: one global recovery point serves all apps, also those that
   have yielded.
3. `container_writers`: `sof_build` sizes a metadata value that is too long by
   its whole length and writes 255 bytes of it, `sofpack` does not: their files
   differ, although the tests' comments call them identical.

Seen while modelling, modelled as the code has it, and not the subject of a run:

* Handles: a row recorded under a stale parent is swept with the slot's next
  tenant (`cap_handle.c:421`; the header says it becomes unreachable,
  `cap_handle.h:182`).
* Scheduler and IPC: entries are never given back (`proc_sched.c:82`), so
  processes that come and go use them up; waiters are woken in entry order, not
  in order of arrival. `ipc_send` returns when the envelope is staged, not when
  received. Destroying a port wakes nobody (`ipc_port.c:189`), so the documented
  "peer port was destroyed mid-rendezvous" is never returned.
* Broker: the owner's capability is checked at the request and not at the
  approval; revoking a share leaves the handle minted for it live; a cascade
  leaves the recipients' table bits set, and the owner's session if it has the
  focus (`broker_svc.c:372`); root can give the capability documented as
  non-delegable to others.
* Sessions: a switch inside a tick goes on with the other session's queue, and an
  "always" answer is kept by the session bound when the tick resumes; a session
  re-created by a switch keeps the former cache; destroying a session that waits
  for an answer leaks its prompt slot; when an app exits inside a tick the list of
  child sessions is emptied for all (`ChildrenDieWithParent` states what the
  comment says and does not hold).
* Running programs: a script goes on, at its old offset, in the text of the
  program it started. `os_env_set` and `os_chdir` report success also when the
  console refused. A text read reports a file that is too large as not found.
  Words of a command are parsed up to the end of an uninitialised array, so
  arguments after the last word may be whatever the stack held. After a PATH
  entry that cannot be read the rest of PATH is skipped, `os` is not.
* Modules: a spawn that fails after the window, the process or the handle leaves
  them; `process_find_aspace_by_subject` returns the window of the first live
  process of a subject, so two processes of one module build their envelopes in
  the same window; destroying one of them revokes the handles of both.
* Launcher: the bits it sets in the legacy table for files and broker survive
  `launcher_reset` and the end of the app.
* Screens: a blit to the hardware does not take the mouse cursor away first, so
  the old pixels come back over it later; a session's glyphs are drawn over each
  other after a backspace; the window manager asks for one row more than the
  session's buffer has.
* Input: `mouse_hal_update` stops at the first byte that completes no packet,
  although it is to drain what is there (`mouse_hal.c:113`); letting one of two
  shift keys go ends shift.
* Clock: years before 2000 count as 2000; a 12-hour clock in BCD is converted
  before its PM bit is taken off (`cmos_rtc.c:114`), so that mode is left out of the
  instance; `date set` accepts any numbers.
* Network: a transmit that timed out leaves its descriptor with the device while
  the next send overwrites the buffer; a TCP segment is appended whatever its
  sequence number; ports and ids wrap into those of old connections after 2^14
  and 2^16 requests (beyond the bounds).
* C library: `fopen` for writing and `fclose` without a write neither create nor
  truncate; `fdopen` reads the file anew, so bytes written through the descriptor
  are not seen; the stack of `qsort` can overflow, contrary to its comment, and
  is handled.
* Shell: `source` uses the caller's static line array, so only a script whose last
  line it is goes on rightly; a block nested too deep shifts the meaning of `end`;
  long names and words are cut and split. A lone `!` is never consumed by the
  tokenizer.
* Editor: `o` copies the new name before the read is allowed, so that after a
  refused open `w` saves the old buffer under the new name (`edit/main.c:280`); a
  file without a newline at its end gains one.
* File system: removal stores the table before the entry, so a cut leaves an
  entry that leads to free clusters; `mkdir` clears the new directory last; an
  overwrite that runs out of space has already changed the old bytes; a path
  component that is too long ends the path there; the table hands out more
  clusters than the default devices have. No document promises otherwise.
* Event bus: a subscription outlives the capability it needed, and cannot then be
  removed by its subject; nothing delivers events to subscribers.
* Container: the signature covers the payload, not the metadata; `sof_get_meta`
  reports the length on the wire for a value that was cut.

## Not modelled within the modelled parts

Colors, fonts and the programming of the VGA registers; nested ticks and failing
memory allocation in sessions; the service ports of the broker; deny markers and
other output; the demo program the file system installs; collisions of the audit
seal; 64-bit counters that would wrap; requests within 15 bytes of the largest
size, the seed window of the C library's heap and negative changes of the break;
frees of what was not allocated; the initialisation of mouse and network device;
checksums, lengths and sequence numbers of the network; formatted output and
floating point of the C library; system calls without a kernel behind them; the
cache of code-signing verdicts; the day of the week and 32-bit overflow of the
clock (from 2068); windows beyond the one the window manager opens.

Left out altogether: the vendored TLS library and the number theory of
signatures (taken at their verdicts); boot code and descriptor tables, which run
once in a straight line; host tools; and applications that only call what is
modelled. `PROJECT.json` gives the reason part by part.
