----------------------------- MODULE ProcSched -----------------------------
(***************************************************************************)
(* The process table (kernel/proc/process.c) and the cooperative scheduler *)
(* over it (kernel/proc/proc_sched.c).                                     *)
(*                                                                         *)
(* A process is named by its slot in the table and the slot's generation.  *)
(* The scheduler keeps an entry per registered process, a ready ring of    *)
(* entry indices, and the entry that is running.  A process blocks on a    *)
(* token (the IPC port it waits for); a wake takes the waiting entry with  *)
(* the lowest index.  Entries are never given back.                        *)
(*                                                                         *)
(* process_destroy also revokes the handles its subject owns; of the       *)
(* handle table (module CapHandle) only the set of subjects that own a     *)
(* live handle is kept.  Exit codes are left out.  The coroutine contexts  *)
(* (getcontext, makecontext, malloc of a stack) are taken to succeed.      *)
(***************************************************************************)
EXTENDS Naturals, Sequences

CONSTANTS
  N,         \* PROC_TABLE_MAX, the size of both tables
  MaxGen,    \* bound: process_destroy is not called on a slot of this generation
  Subjects,  \* the subject ids of processes
  Tokens,    \* what a process can block on
  NoToken    \* NULL

ASSUME SizeAssumption == N \in Nat \ {0}

ASSUME GenAssumption == MaxGen \in Nat \ {0}

ASSUME TokenAssumption == NoToken \notin Tokens

Index == 0 .. N - 1

Pid == [slot : Index, gen : 1 .. MaxGen]

NoPid == [slot |-> 0, gen |-> 0]

None == N  \* g_current_index = -1

VARIABLES
  procs,        \* g_procs: slot -> process
  entries,      \* g_entries: index -> the pid registered there, or NoPid
  ring,         \* g_ready_ring from g_ready_head on, g_ready_count entries
  cur,          \* g_current_index
  dispatching,  \* g_dispatching
  result,       \* what the last proc_sched_run returned
  handles,      \* the subjects that own a live capability handle
  halted        \* abort() was called

schedVars == <<procs, entries, ring, cur, dispatching, result, handles, halted>>

Process == [live : BOOLEAN,
            gen : 1 .. MaxGen,
            subject : Subjects,
            state : {"new", "ready", "running", "blocked", "exited"},
            blockedOn : Tokens \cup {NoToken},
            aspaceOk : BOOLEAN]

SchedTypeOK ==
  /\ procs \in [Index -> Process]
  /\ entries \in [Index -> Pid \cup {NoPid}]
  /\ ring \in Seq(Index)
  /\ cur \in Index \cup {None}
  /\ dispatching \in BOOLEAN
  /\ result \in {"none", "ok", "deadlock"}
  /\ handles \subseteq Subjects
  /\ halted \in BOOLEAN

-----------------------------------------------------------------------------
(* Lookups and the mutators of process.c, which do nothing on a stale pid. *)

Alive(pid) == pid # NoPid /\ procs[pid.slot].live /\ procs[pid.slot].gen = pid.gen

StateOf(pid) == procs[pid.slot].state

SetState(pid, st, tok) ==
  IF Alive(pid)
  THEN [procs EXCEPT ![pid.slot].state = st, ![pid.slot].blockedOn = tok]
  ELSE procs

Registered == {i \in Index : entries[i] # NoPid}

Queued == {ring[k] : k \in DOMAIN ring}

First(S) == CHOOSE i \in S : \A j \in S : i <= j

(* ready_drop. *)
Drop(i) == IF i \in Queued THEN SelectSeq(ring, LAMBDA j : j # i) ELSE ring

(* The table is used by code outside proc_sched_run, or by the process that  *)
(* is running.                                                               *)
CanCall == ~halted /\ (~dispatching \/ cur # None)

Running == ~halted /\ cur # None

-----------------------------------------------------------------------------
(* process.c *)

(* process_create; a full table creates nothing.  ok says whether the        *)
(* address space handed in passes aspace_invariant_ok.                       *)
Create(s, ok) ==
  LET free == {i \in Index : ~procs[i].live}
  IN  /\ CanCall
      /\ free # {}
      /\ procs' = [procs EXCEPT ![First(free)] =
                     [live |-> TRUE, gen |-> @.gen, subject |-> s, state |-> "new",
                      blockedOn |-> NoToken, aspaceOk |-> ok]]
      /\ UNCHANGED <<entries, ring, cur, dispatching, result, handles, halted>>

(* process_destroy. *)
Destroy(pid) ==
  /\ CanCall
  /\ Alive(pid)
  /\ pid.gen < MaxGen
  /\ procs' = [procs EXCEPT ![pid.slot].live = FALSE, ![pid.slot].gen = @ + 1]
  /\ handles' = handles \ {procs[pid.slot].subject}
  /\ UNCHANGED <<entries, ring, cur, dispatching, result, halted>>

(* process_table_reset with proc_sched_reset, which belong together and are  *)
(* called from outside the scheduler.                                        *)
Reset ==
  /\ ~halted
  /\ ~dispatching
  /\ \A i \in Index : procs[i].gen < MaxGen
  /\ procs' = [i \in Index |->
                 [procs[i] EXCEPT !.live = FALSE, !.gen = @ + 1, !.state = "new",
                                  !.blockedOn = NoToken]]
  /\ entries' = [i \in Index |-> NoPid]
  /\ ring' = <<>>
  /\ UNCHANGED <<cur, dispatching, result, handles, halted>>

(* A handle is granted to a subject (module CapHandle). *)
GrantHandle(s) ==
  /\ CanCall
  /\ handles' = handles \cup {s}
  /\ UNCHANGED <<procs, entries, ring, cur, dispatching, result, halted>>

-----------------------------------------------------------------------------
(* proc_sched.c *)

(* proc_sched_register: NEW -> READY on a fresh entry. *)
Register(pid) ==
  LET free == Index \ Registered
  IN  /\ CanCall
      /\ Alive(pid)
      /\ \A i \in Index : entries[i] # pid
      /\ free # {}
      /\ entries' = [entries EXCEPT ![First(free)] = pid]
      /\ procs' = SetState(pid, "ready", procs[pid.slot].blockedOn)
      /\ ring' = Append(ring, First(free))
      /\ UNCHANGED <<cur, dispatching, result, handles, halted>>

(* proc_sched_run is entered. *)
Run ==
  /\ ~halted
  /\ ~dispatching
  /\ dispatching' = TRUE
  /\ result' = "none"
  /\ UNCHANGED <<procs, entries, ring, cur, handles, halted>>

(* Variant: the entry is dispatched without a look at its process. *)
DispatchUnchecked ==
  LET i == Head(ring)
  IN  /\ ~halted /\ dispatching /\ cur = None /\ ring # <<>>
      /\ ring' = Tail(ring)
      /\ cur' = i
      /\ procs' = [procs EXCEPT ![entries[i].slot].state = "running"]
      /\ UNCHANGED <<entries, dispatching, result, handles, halted>>

(* One turn of its loop.  An entry whose process is gone or has exited is    *)
(* skipped; a process with a malformed address space panics, which ends it   *)
(* if a panic hook is installed and halts the machine if not; otherwise it   *)
(* runs.                                                                     *)
Dispatch ==
  LET i == Head(ring)
      pid == entries[i]
  IN  /\ ~halted /\ dispatching /\ cur = None /\ ring # <<>>
      /\ \/ /\ ~Alive(pid) \/ StateOf(pid) = "exited"
            /\ ring' = Tail(ring)
            /\ UNCHANGED <<procs, cur, halted>>
         \/ /\ Alive(pid) /\ StateOf(pid) # "exited" /\ ~procs[pid.slot].aspaceOk
            /\ \/ /\ procs' = SetState(pid, "exited", procs[pid.slot].blockedOn)
                  /\ ring' = SelectSeq(Tail(ring), LAMBDA j : j # i)
                  /\ UNCHANGED halted
               \/ /\ halted' = TRUE
                  /\ ring' = Tail(ring)
                  /\ UNCHANGED procs
            /\ UNCHANGED cur
         \/ /\ Alive(pid) /\ StateOf(pid) # "exited" /\ procs[pid.slot].aspaceOk
            /\ procs' = SetState(pid, "running", procs[pid.slot].blockedOn)
            /\ cur' = i
            /\ ring' = Tail(ring)
            /\ UNCHANGED halted
      /\ UNCHANGED <<entries, dispatching, result, handles>>

(* Variant: blocked processes are not counted as live. *)
DrainIgnoreBlocked ==
  /\ ~halted /\ dispatching /\ cur = None /\ ring = <<>>
  /\ dispatching' = FALSE
  /\ result' = IF \E i \in Registered : /\ Alive(entries[i])
                                        /\ StateOf(entries[i]) \notin {"exited", "blocked"}
               THEN "deadlock" ELSE "ok"
  /\ UNCHANGED <<procs, entries, ring, cur, handles, halted>>

(* The ring is empty: proc_sched_run returns. *)
Drain ==
  /\ ~halted /\ dispatching /\ cur = None /\ ring = <<>>
  /\ dispatching' = FALSE
  /\ result' = IF \E i \in Registered : /\ Alive(entries[i])
                                        /\ StateOf(entries[i]) # "exited"
               THEN "deadlock" ELSE "ok"
  /\ UNCHANGED <<procs, entries, ring, cur, handles, halted>>

(* Variant: the process goes to the head of the ring. *)
YieldToHead ==
  /\ Running
  /\ procs' = SetState(entries[cur], "ready", procs[entries[cur].slot].blockedOn)
  /\ ring' = <<cur>> \o ring
  /\ cur' = None
  /\ UNCHANGED <<entries, dispatching, result, handles, halted>>

(* proc_yield. *)
Yield ==
  /\ Running
  /\ procs' = SetState(entries[cur], "ready", procs[entries[cur].slot].blockedOn)
  /\ ring' = Append(ring, cur)
  /\ cur' = None
  /\ UNCHANGED <<entries, dispatching, result, handles, halted>>

(* proc_exit, and the return of the entry function. *)
Exit ==
  /\ Running
  /\ procs' = SetState(entries[cur], "exited", procs[entries[cur].slot].blockedOn)
  /\ ring' = Drop(cur)
  /\ cur' = None
  /\ UNCHANGED <<entries, dispatching, result, handles, halted>>

(* proc_sched_block_current_on_port. *)
Block(tok) ==
  /\ Running
  /\ procs' = SetState(entries[cur], "blocked", tok)
  /\ cur' = None
  /\ UNCHANGED <<entries, ring, dispatching, result, handles, halted>>

Waiters(tok) ==
  {i \in Registered : /\ Alive(entries[i])
                      /\ StateOf(entries[i]) = "blocked"
                      /\ procs[entries[i].slot].blockedOn = tok}

(* Variant: the woken process stays off the ring. *)
WakeOneUnqueued(tok) ==
  IF Waiters(tok) = {}
  THEN UNCHANGED <<procs, ring>>
  ELSE /\ procs' = SetState(entries[First(Waiters(tok))], "ready", NoToken)
       /\ UNCHANGED ring

(* proc_sched_wake_one_on_port, on the two variables it changes. *)
WakeOne(tok) ==
  IF Waiters(tok) = {}
  THEN UNCHANGED <<procs, ring>>
  ELSE /\ procs' = SetState(entries[First(Waiters(tok))], "ready", NoToken)
       /\ ring' = Append(ring, First(Waiters(tok)))

Wake(tok) ==
  /\ CanCall
  /\ WakeOne(tok)
  /\ UNCHANGED <<entries, cur, dispatching, result, handles, halted>>

-----------------------------------------------------------------------------

SchedInit ==
  /\ procs = [i \in Index |-> [live |-> FALSE, gen |-> 1,
                               subject |-> CHOOSE s \in Subjects : TRUE,
                               state |-> "new", blockedOn |-> NoToken,
                               aspaceOk |-> FALSE]]
  /\ entries = [i \in Index |-> NoPid]
  /\ ring = <<>>
  /\ cur = None
  /\ dispatching = FALSE
  /\ result = "none"
  /\ handles = {}
  /\ halted = FALSE

SchedNext ==
  \/ \E s \in Subjects, ok \in BOOLEAN : Create(s, ok)
  \/ \E pid \in Pid : Destroy(pid) \/ Register(pid)
  \/ \E s \in Subjects : GrantHandle(s)
  \/ \E tok \in Tokens : Block(tok) \/ Wake(tok)
  \/ Run \/ Dispatch \/ Drain \/ Yield \/ Exit \/ Reset

SchedSpec == SchedInit /\ [][SchedNext]_schedVars

(* proc_sched_run keeps looping, and a running process comes back to the     *)
(* scheduler: it yields, blocks or exits.                                    *)
GiveUpCpu == Yield \/ Exit \/ \E tok \in Tokens : Block(tok)

FairSchedSpec ==
  /\ SchedSpec
  /\ WF_schedVars(Dispatch)
  /\ WF_schedVars(GiveUpCpu)

-----------------------------------------------------------------------------
(* Properties. *)

(* A live process is RUNNING exactly when it is the current entry's, and     *)
(* READY exactly when its entry is in the ring; no entry is in the ring      *)
(* twice, or there while it runs.  The ring is fed by register, yield and    *)
(* wake, none of which looks at it, and ready_push does not check for room   *)
(* ("Caller guarantees we never exceed PROC_TABLE_MAX entries"): with every  *)
(* entry there at most once the ring cannot overflow.  (A machine that       *)
(* halted stopped after taking an entry off the ring.)                       *)
QueueMatchesStates ==
  /\ \A j, k \in DOMAIN ring : ring[j] = ring[k] => j = k
  /\ cur \notin Queued
  /\ Queued \subseteq Registered
  /\ \A i \in Registered : Alive(entries[i]) =>
       /\ StateOf(entries[i]) = "running" <=> i = cur
       /\ i \in Queued => StateOf(entries[i]) = "ready"
       /\ StateOf(entries[i]) = "ready" => i \in Queued \/ halted

(* When proc_sched_run returns OK every registered process that is left has  *)
(* exited, and when it reports a deadlock there is one left and all that are *)
(* left are BLOCKED.                                                         *)
VerdictIsRight ==
  [][(dispatching /\ ~dispatching') =>
       LET left == {i \in Registered : Alive(entries[i]) /\ StateOf(entries[i]) # "exited"}
       IN  /\ \A i \in left : StateOf(entries[i]) = "blocked"
           /\ result' = IF left = {} THEN "ok" ELSE "deadlock"]_schedVars

(* A process that has exited, or was destroyed, never runs again, whatever   *)
(* becomes of its slot: a stale entry in the ring never runs the slot's next *)
(* tenant.                                                                   *)
OnlyReadyRuns ==
  [][(cur = None /\ cur' # None) =>
       Alive(entries[cur']) /\ StateOf(entries[cur']) = "ready"]_schedVars

(* What proc_sched_run does at every turn of its loop is right: who runs,    *)
(* and what it returns.                                                      *)
DispatchIsRight == OnlyReadyRuns /\ VerdictIsRight

(* Round robin: once proc_sched_run is dispatching, an entry in the ring     *)
(* gets its turn, however often the others yield or are woken.               *)
EveryQueuedEntryIsServed ==
  \A i \in Index : (dispatching /\ i \in Queued) ~> (i \notin Queued \/ halted)
=============================================================================
