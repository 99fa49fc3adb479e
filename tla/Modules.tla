------------------------------ MODULE Modules ------------------------------
(***************************************************************************)
(* Modules of the kernel image: the windows their processes are given      *)
(* (kernel/proc/address_space.c) and the registry that spawns them and     *)
(* holds the code they run (kernel/proc/module_registry.c).                *)
(***************************************************************************)
EXTENDS Integers, FiniteSets, FiniteSetsExt

-----------------------------------------------------------------------------
(***************************************************************************)
(* kernel/proc/address_space.c: an arena is carved into equal windows,     *)
(* each with the IPC scratch area at its low end and the kernel stack at   *)
(* its high end. Addresses are those of a machine with AddressMax + 1      *)
(* bytes, and wrap as its pointers do.                                     *)
(***************************************************************************)

CONSTANTS
  AddressMax,    \* UINTPTR_MAX
  StackBytes,    \* PROC_KSTACK_BYTES
  PayloadMax,    \* IPC_MSG_PAYLOAD_MAX
  HeaderBytes,   \* offsetof(ipc_msg_v0, payload)
  AlignBytes     \* ASPACE_ALIGN, a power of two

ASSUME AddressAssumption ==
  /\ AddressMax \in Nat /\ StackBytes \in Nat /\ PayloadMax \in Nat
  /\ HeaderBytes \in Nat /\ AlignBytes \in Nat
  /\ StackBytes > 0
  /\ HeaderBytes <= AlignBytes /\ AlignBytes > 0

EnvelopeBytes == HeaderBytes + PayloadMax  \* sizeof(ipc_msg_v0)

Address(n) == n % (AddressMax + 1)

\* aspace_window_align_down.
AlignDown(n) == n - (n % AlignBytes)

\* aspace_window_min_bytes.
WindowMinBytes == AlignDown(StackBytes + PayloadMax + AlignBytes + AlignBytes - 1)

\* aspace_partition: the size of each window, whether there is a partition,
\* and its windows 0 .. count - 1.
PerWindow(size, count) == AlignDown(size \div count)
AspacePartitions(size, count) == count > 0 /\ PerWindow(size, count) >= WindowMinBytes
Window(base, per, i) ==
  [base |-> Address(base + per * i), size |-> per,
   stackTop |-> Address(base + per * i + per), scratch |-> Address(base + per * i)]

\* aspace_contains.
AspaceContains(as, ptr, len) ==
  /\ as.size <= AddressMax - as.base
  /\ ptr >= as.base /\ ptr < as.base + as.size
  /\ len <= as.base + as.size - ptr

\* aspace_invariant_ok, for a window with a scratch area.
AspaceInvariantOk(as) ==
  /\ as.size > 0 /\ as.size <= AddressMax - as.base
  /\ as.stackTop > as.base /\ as.stackTop <= as.base + as.size
  /\ AspaceContains(as, as.scratch, PayloadMax)

-----------------------------------------------------------------------------
(***************************************************************************)
(* kernel/proc/module_registry.c: proc_spawn_module claims a window,       *)
(* creates the process, grants the capability the module declares, records *)
(* its handle for the module's subject and registers the process with the  *)
(* scheduler; a step that fails leaves what the steps before it did. Each  *)
(* module has one subject, and several processes may run it.               *)
(*                                                                         *)
(* The scheduler and the blocking of IPC calls are ProcSched's and         *)
(* IpcRendezvous's: here a process that waits for the port goes on at any  *)
(* time the envelope lets it. The port is one that the receiver's subject  *)
(* owns and that needs CAP_IPC_SEND and CAP_IPC_RECV.                      *)
(***************************************************************************)

CONSTANTS
  ArenaBase, ArenaSize,  \* g_demo_aspace_arena
  WindowCount,           \* M1_DEMO_MAX_SUBJECTS
  ModProcMax,            \* PROC_TABLE_MAX: processes, and entries of the scheduler
  ModHandleMax,          \* CAP_HANDLE_TABLE_MAX
  GrantBound             \* bound: handles issued to one subject

ASSUME ArenaAssumption ==
  /\ ArenaBase \in Nat /\ ArenaSize \in Nat /\ ArenaBase + ArenaSize <= AddressMax
  /\ WindowCount \in Nat /\ WindowCount > 0 /\ ModProcMax \in Nat

VARIABLES
  claimed,      \* g_demo_aspace_next
  modSlots,     \* the process table: [mod, win, st], or NoModule
  modHandle,    \* module -> [gen, live] of the newest handle of its subject
  recorded,     \* g_demo_handles: module -> the handle recorded, 0 for none
  entries,      \* scheduler entries in use, never given back
  portSet,      \* g_demo_port # IPC_PORT_INVALID
  envelope,     \* the sender stamped on the envelope in the port, or "none"
  observed      \* g_demo_obs, with send_allow_ok as a count

moduleVars == <<claimed, modSlots, modHandle, recorded, entries, portSet, envelope, observed>>

ModuleNames == {"sender", "receiver", "unauth"}
ModProcs == 1 .. ModProcMax
NoModule == [mod |-> "none", win |-> 0, st |-> "none"]
NotObserved == [recvOk |-> 0, payloadOk |-> FALSE, sender |-> "none", sent |-> 0, denied |-> FALSE]

\* g_modules: the capability that each module declares.
DeclaredCap(m) == CASE m = "sender" -> "send" [] m = "receiver" -> "recv" [] m = "unauth" -> "console"

ModulesInit ==
  /\ claimed = 0
  /\ modSlots = [p \in ModProcs |-> NoModule]
  /\ modHandle = [m \in ModuleNames |-> [gen |-> 0, live |-> FALSE]]
  /\ recorded = [m \in ModuleNames |-> 0]
  /\ entries = 0 /\ portSet = FALSE /\ envelope = "none" /\ observed = NotObserved

\* m1_demo_set_port.
SetPort ==
  /\ portSet' = TRUE
  /\ UNCHANGED <<claimed, modSlots, modHandle, recorded, entries, envelope, observed>>

\* demo_aspace_claim of the window after the last: it starts again at the first.
AspaceClaimAround == claimed' = (claimed + 1) % WindowCount

\* demo_aspace_claim: the window claimed is window number claimed.
AspaceClaim == claimed' = claimed + 1

FreeProcs == {p \in ModProcs : modSlots[p] = NoModule}
CreatedAs(m, st) == modSlots' = [modSlots EXCEPT ![Min(FreeProcs)] = [mod |-> m, win |-> claimed, st |-> st]]

\* cap_handle_grant: the live handle of the pair, or a new one.
LiveHandles == {m \in ModuleNames : modHandle[m].live}
CanGrant(m) == m \in LiveHandles \/ Cardinality(LiveHandles) < ModHandleMax
Granted(m) ==
  IF m \in LiveHandles THEN modHandle
  ELSE [modHandle EXCEPT ![m] = [gen |-> @.gen + 1, live |-> TRUE]]

\* A record that keeps the entry it finds for the subject.
RecordFirst(m, h) == recorded' = IF recorded[m] # 0 THEN recorded ELSE [recorded EXCEPT ![m] = h]

\* demo_handle_record.
RecordHandle(m, h) == recorded' = [recorded EXCEPT ![m] = h]

\* proc_spawn_module. An unknown name, and a call without windows or when every
\* window is claimed, change nothing.
SpawnModule(m) ==
  /\ AspacePartitions(ArenaSize, WindowCount) /\ claimed < WindowCount /\ modHandle[m].gen < GrantBound
  /\ AspaceClaim
  /\ \/ /\ FreeProcs = {}
        /\ UNCHANGED <<modSlots, modHandle, recorded, entries>>
     \/ /\ FreeProcs # {} /\ ~CanGrant(m)
        /\ CreatedAs(m, "new")
        /\ UNCHANGED <<modHandle, recorded, entries>>
     \/ /\ FreeProcs # {} /\ CanGrant(m)
        /\ modHandle' = Granted(m) /\ RecordHandle(m, Granted(m)[m].gen)
        /\ IF entries < ModProcMax
           THEN CreatedAs(m, "ready") /\ entries' = entries + 1
           ELSE CreatedAs(m, "new") /\ UNCHANGED entries
  /\ UNCHANGED <<portSet, envelope, observed>>

-----------------------------------------------------------------------------
(* The code of the modules. *)

\* cap_gate_check_handle_result of the handle recorded for the subject.
HandlePasses(m, cap) ==
  modHandle[m].live /\ recorded[m] = modHandle[m].gen /\ DeclaredCap(m) = cap

GoesOn(p, st) ==
  /\ modSlots' = [modSlots EXCEPT ![p].st = st]
  /\ UNCHANGED <<claimed, modHandle, recorded, entries, portSet>>

\* entry_m1_receiver and entry_m1_sender up to the call that may block: exit
\* 901/801 without a port or handle, 902/802 when the call is denied.
EntersCall(p, m, cap) ==
  /\ modSlots[p].mod = m /\ modSlots[p].st = "ready"
  /\ GoesOn(p, IF portSet /\ recorded[m] # 0 /\ HandlePasses(m, cap) THEN "waiting" ELSE "exited")
  /\ UNCHANGED <<envelope, observed>>

EntryM1Receiver(p) == EntersCall(p, "receiver", "recv")
EntryM1Sender(p) == EntersCall(p, "sender", "send")

\* ipc_recv_h returns, and the receiver looks at what it got.
ReceiverGets(p) ==
  /\ modSlots[p].mod = "receiver" /\ modSlots[p].st = "waiting" /\ envelope # "none"
  /\ observed' = [observed EXCEPT !.recvOk = @ + 1, !.sender = envelope,
                                  !.payloadOk = @ \/ envelope = "sender"]
  /\ envelope' = "none"
  /\ GoesOn(p, "exited")

\* ipc_send_h stages the envelope, stamped with the owner of the handle, and
\* returns.
SenderStages(p) ==
  /\ modSlots[p].mod = "sender" /\ modSlots[p].st = "waiting" /\ envelope = "none"
  /\ envelope' = "sender"
  /\ observed' = [observed EXCEPT !.sent = @ + 1]
  /\ GoesOn(p, "exited")

\* An ipc_send_h that looks at whose handle it is and not at what it is for.
UnauthPasses(p) ==
  /\ modSlots[p].mod = "unauth" /\ modSlots[p].st = "ready"
  /\ GoesOn(p, "exited")
  /\ IF portSet /\ modHandle["unauth"].live /\ recorded["unauth"] = modHandle["unauth"].gen
     THEN envelope = "none" /\ envelope' = "unauth" /\ UNCHANGED observed
     ELSE UNCHANGED <<envelope, observed>>

\* entry_m1_unauth: its handle is for another capability, so that the send is
\* denied.
EntryM1Unauth(p) ==
  /\ modSlots[p].mod = "unauth" /\ modSlots[p].st = "ready"
  /\ GoesOn(p, "exited")
  /\ IF portSet /\ recorded["unauth"] # 0
     THEN observed' = [observed EXCEPT !.denied = @ \/ ~HandlePasses("unauth", "send")]
     ELSE UNCHANGED observed
  /\ UNCHANGED envelope

\* process_destroy by other code: the handles of the subject go with it, also
\* those that another process of the subject uses.
DestroyModule(p) ==
  /\ modSlots[p] # NoModule
  /\ modSlots' = [modSlots EXCEPT ![p] = NoModule]
  /\ modHandle' = [modHandle EXCEPT ![modSlots[p].mod].live = FALSE]
  /\ UNCHANGED <<claimed, recorded, entries, portSet, envelope, observed>>

\* m1_demo_reset, together with the resets of the tables it goes with.
ModulesReset ==
  /\ claimed' = 0
  /\ modSlots' = [p \in ModProcs |-> NoModule]
  /\ modHandle' = [m \in ModuleNames |-> [modHandle[m] EXCEPT !.live = FALSE]]
  /\ recorded' = [m \in ModuleNames |-> 0]
  /\ entries' = 0 /\ portSet' = FALSE /\ envelope' = "none" /\ observed' = NotObserved

ModulesNext ==
  \/ SetPort \/ ModulesReset
  \/ \E m \in ModuleNames : SpawnModule(m)
  \/ \E p \in ModProcs :
       \/ EntryM1Receiver(p) \/ EntryM1Sender(p) \/ EntryM1Unauth(p)
       \/ ReceiverGets(p) \/ SenderStages(p) \/ DestroyModule(p)

ModulesSpec == ModulesInit /\ [][ModulesNext]_moduleVars

-----------------------------------------------------------------------------
ModWindow(p) == Window(ArenaBase, PerWindow(ArenaSize, WindowCount), modSlots[p].win)

\* The window passes the check that proc_sched_run makes before it restores a
\* process (aspace_invariant_ok), it lies in the arena, and the envelope that
\* IPC calls put at its scratch area is in it and below its stack.
WindowSound(as) ==
  /\ AspaceInvariantOk(as)
  /\ as.base >= ArenaBase /\ as.base + as.size <= ArenaBase + ArenaSize
  /\ AspaceContains(as, as.scratch, EnvelopeBytes)
  /\ as.scratch + EnvelopeBytes <= as.stackTop - StackBytes

Disjoint(as, bs) == as.base + as.size <= bs.base \/ bs.base + bs.size <= as.base

\* Processes of modules (module_registry.c) have sound windows that do not
\* overlap, also after spawns that failed half way. The handle on record for a
\* subject is its live one whenever it has one, so that a module spawned again
\* is not denied with the handle of the process destroyed before it, and every
\* message received or waiting is one that a sender was allowed to send.
ModulesIsolated ==
  /\ \A p \in ModProcs : modSlots[p] # NoModule => WindowSound(ModWindow(p))
  /\ \A p, q \in ModProcs :
       p # q /\ modSlots[p] # NoModule /\ modSlots[q] # NoModule => Disjoint(ModWindow(p), ModWindow(q))
  /\ \A m \in ModuleNames : modHandle[m].live => recorded[m] = modHandle[m].gen
  /\ envelope \in {"none", "sender"} /\ observed.sender \in {"none", "sender"}
  /\ observed.sent = observed.recvOk + (IF envelope = "none" THEN 0 ELSE 1)
=============================================================================
