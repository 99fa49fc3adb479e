--------------------------- MODULE IpcRendezvous ---------------------------
(***************************************************************************)
(* IPC between scheduled processes: kernel/ipc/ipc_ops.c over the port     *)
(* table (kernel/ipc/ipc_port.c) and the cooperative scheduler (module     *)
(* ProcSched).                                                             *)
(*                                                                         *)
(* A process runs until it yields, exits or blocks.  A send that finds the *)
(* port's slot occupied, and a receive that finds it empty, block on the   *)
(* port and try again from the top of their loop when woken; both wait on  *)
(* the same token, the address of the slot, which the slot's next port     *)
(* inherits.  A send or receive that succeeds wakes one waiter.            *)
(*                                                                         *)
(* What a process does is a choice from the Ops of its script, at most     *)
(* Quota operations; then it exits.  A refused operation (bad handle,      *)
(* missing capability, wrong owner, buffer outside the caller's window)    *)
(* changes nothing but the count.  The handle-gated variants (ipc_send_h,  *)
(* ipc_recv_h) differ in how the subject is found, not in what they do to  *)
(* ports and processes.                                                    *)
(***************************************************************************)
EXTENDS ProcSched

CONSTANTS
  PortSlots,   \* IPC_PORT_TABLE_MAX
  MaxPortGen,  \* bound: ipc_port_destroy is not called on a port of this generation
  Subj,        \* entry -> the subject of the process
  Holders,     \* script -> the subjects that hold the ports' send and receive capabilities
  Scripts,     \* what the processes may be up to
  Paired,      \* the scripts with one sender and one receiver per port, in step
  FirstPorts,  \* script -> the owners of the ports that exist at the start
  Ops(_, _, _),  \* script, entry, k -> what the process may call as its k-th operation
  Quota,       \* bound: how many operations a process calls before it exits
  NoMsg,
  NoOwner

ASSUME TokensAssumption == Tokens = 0 .. PortSlots - 1

(* An envelope: the sender as stamped, and which of its messages it is. *)
Envelope == [sender : Subjects, from : Index, seq : 1 .. Quota]

VARIABLES
  script, \* the script being played
  ports,  \* g_ports
  doing,  \* entry -> the call its coroutine is inside of, or NoMsg
  used,   \* entry -> how many operations it has begun
  sent,   \* history: what was staged, in order: [via, msg]
  got     \* history: what was received, in order: [via, msg]

ipcVars == <<script, ports, doing, used, sent, got>>

vars == <<schedVars, ipcVars>>

Port == INSTANCE IpcPort
          WITH P <- PortSlots, GenMod <- MaxPortGen + 1, Owners <- Subjects, Msgs <- Envelope

(* A call: send or recv on a port, and the reply port of an ipc_call.  "gate" *)
(* is an ipc_call between its send and its receive.                          *)
Call == [op : {"send", "recv", "gate"}, port : Port!Handle,
         reply : Port!Handle \cup {NoMsg}]

TypeOK ==
  /\ SchedTypeOK
  /\ Port!PortsTypeOK
  /\ doing \in [Index -> Call \cup {NoMsg}]
  /\ used \in [Index -> 0 .. Quota]

-----------------------------------------------------------------------------
(* The gates. *)

Owns(i, h) == Port!Resolves(h) /\ ports[h.slot].owner = Subj[i]

(* ipc_send after ipc_port_send_cap; ipc_call first checks its reply port. *)
MaySend(i, c) ==
  /\ Port!Resolves(c.port)
  /\ Subj[i] \in Holders[script]
  /\ c.reply # NoMsg => Owns(i, c.reply)

MayRecv(i, c) == Owns(i, c.port) /\ Subj[i] \in Holders[script]

(* The turns of the loops of ipc_stage_blocking and ipc_consume_blocking.    *)

StillRunning == UNCHANGED <<script, entries, cur, dispatching, result, handles, halted>>

(* After its send, ipc_call goes on to its reply port; ipc_send returns. *)
AfterSend(i, c) ==
  doing' = [doing EXCEPT ![i] =
              IF c.reply = NoMsg THEN NoMsg
              ELSE [op |-> "gate", port |-> c.reply, reply |-> NoMsg]]

Stamped(i) == [sender |-> Subj[i], from |-> i, seq |-> used[i]]

StageAndWake(i, c) ==
  /\ c.op = "send"
  /\ Port!Stage(c.port, Stamped(i))
  /\ sent' = Append(sent, [via |-> c.port, msg |-> Stamped(i)])
  /\ AfterSend(i, c)
  /\ WakeOne(c.port.slot)
  /\ UNCHANGED <<used, got>>
  /\ StillRunning

Received(c) == [via |-> c.port, msg |-> ports[c.port.slot].staged]

(* Variant: the envelope is copied out and left in the slot. *)
ConsumeKeeps(i, c) ==
  /\ c.op = "recv"
  /\ Port!Resolves(c.port) /\ ~Port!Empty(c.port)
  /\ got' = Append(got, Received(c))
  /\ doing' = [doing EXCEPT ![i] = NoMsg]
  /\ WakeOne(c.port.slot)
  /\ UNCHANGED <<ports, used, sent>>
  /\ StillRunning

(* Variant: the handle is not looked up again after the wait. *)
ConsumeUnresolved(i, c) ==
  /\ c.op = "recv"
  /\ ~Port!Empty(c.port)
  /\ ports' = [ports EXCEPT ![c.port.slot].staged = NoMsg]
  /\ got' = Append(got, Received(c))
  /\ doing' = [doing EXCEPT ![i] = NoMsg]
  /\ WakeOne(c.port.slot)
  /\ UNCHANGED <<used, sent>>
  /\ StillRunning

ConsumeAndWake(i, c) ==
  /\ c.op = "recv"
  /\ Port!Consume(c.port)
  /\ got' = Append(got, Received(c))
  /\ doing' = [doing EXCEPT ![i] = NoMsg]
  /\ WakeOne(c.port.slot)
  /\ UNCHANGED <<used, sent>>
  /\ StillRunning

(* The other half of the rendezvous is not there yet. *)
BlockOnPort(c) ==
  /\ Port!Resolves(c.port)
  /\ c.op = IF Port!Empty(c.port) THEN "recv" ELSE "send"
  /\ Block(c.port.slot)
  /\ UNCHANGED ipcVars

(* The port was destroyed: IPC_ERR_INVALID_PORT. *)
PortGone(i, c) ==
  /\ c.op \in {"send", "recv"}
  /\ ~Port!Resolves(c.port)
  /\ doing' = [doing EXCEPT ![i] = NoMsg]
  /\ UNCHANGED <<script, schedVars, ports, used, sent, got>>

-----------------------------------------------------------------------------
(* What the running process does. *)

(* It calls operation c, its next. *)
Calls(c) ==
  /\ Running
  /\ doing[cur] = NoMsg
  /\ used[cur] < Quota
  /\ c \in Ops(script, cur, used[cur] + 1)
  /\ used' = [used EXCEPT ![cur] = @ + 1]

(* ipc_send, ipc_recv and ipc_call up to their first attempt. *)
BeginIpc(c) ==
  /\ Calls(c)
  /\ c.op \in {"send", "recv"}
  /\ doing' = [doing EXCEPT ![cur] =
                 IF (c.op = "send" /\ MaySend(cur, c)) \/ (c.op = "recv" /\ MayRecv(cur, c))
                 THEN c ELSE NoMsg]
  /\ UNCHANGED <<script, schedVars, ports, sent, got>>

(* It is inside a send or a receive: the first attempt, or the next one      *)
(* after it was woken.                                                       *)
Proceed ==
  LET c == doing[cur]
  IN  /\ Running
      /\ c # NoMsg
      /\ \/ StageAndWake(cur, c)
         \/ ConsumeAndWake(cur, c)
         \/ BlockOnPort(c)
         \/ PortGone(cur, c)

(* ipc_call after its send: the gates of ipc_recv on the reply port. *)
CallReceives ==
  /\ Running
  /\ doing[cur] # NoMsg
  /\ doing[cur].op = "gate"
  /\ doing' = [doing EXCEPT ![cur] =
                 IF MayRecv(cur, @) THEN [@ EXCEPT !.op = "recv"] ELSE NoMsg]
  /\ UNCHANGED <<script, schedVars, ports, used, sent, got>>

YieldCpu(c) ==
  /\ Calls(c)
  /\ c.op = "yield"
  /\ Yield
  /\ UNCHANGED <<script, ports, doing, sent, got>>

(* ipc_port_create; a full table refuses. *)
OpenPort(c) ==
  /\ Calls(c)
  /\ c.op = "open"
  /\ IF Port!Free = {} THEN UNCHANGED ports ELSE Port!Create(Subj[cur])
  /\ UNCHANGED <<script, schedVars, doing, sent, got>>

(* ipc_port_destroy; it wakes nobody. *)
ClosePort(c) ==
  /\ Calls(c)
  /\ c.op = "close"
  /\ c.port.gen < MaxPortGen
  /\ IF Port!Resolves(c.port) THEN Port!Destroy(c.port) ELSE UNCHANGED ports
  /\ UNCHANGED <<script, schedVars, doing, sent, got>>

(* process_destroy of a process, possibly one that waits, possibly its own. *)
Kill(c) ==
  /\ Calls(c)
  /\ c.op = "kill"
  /\ IF Alive(c.pid) THEN Destroy(c.pid) ELSE UNCHANGED schedVars
  /\ UNCHANGED <<script, ports, doing, sent, got>>

(* The entry function returns when the process has made its calls. *)
Finished ==
  /\ Running
  /\ doing[cur] = NoMsg
  /\ used[cur] = Quota \/ Ops(script, cur, used[cur] + 1) = {}
  /\ Exit
  /\ UNCHANGED ipcVars

Schedule == (Run \/ Dispatch \/ Drain) /\ UNCHANGED ipcVars

-----------------------------------------------------------------------------

(* The processes have been created and registered in slot order, and         *)
(* FirstPorts have been created.                                             *)
Init ==
  /\ procs = [i \in Index |-> [live |-> TRUE, gen |-> 1, subject |-> Subj[i],
                               state |-> "ready", blockedOn |-> NoToken,
                               aspaceOk |-> TRUE]]
  /\ entries = [i \in Index |-> [slot |-> i, gen |-> 1]]
  /\ ring = [k \in 1 .. N |-> k - 1]
  /\ cur = None
  /\ dispatching = FALSE
  /\ result = "none"
  /\ handles = {}
  /\ halted = FALSE
  /\ script \in Scripts
  /\ ports = [s \in Port!Slots |->
                LET open == s + 1 \in DOMAIN FirstPorts[script]
                IN  [live |-> open, gen |-> 1, staged |-> NoMsg,
                     owner |-> IF open THEN FirstPorts[script][s + 1] ELSE NoOwner]]
  /\ doing = [i \in Index |-> NoMsg]
  /\ used = [i \in Index |-> 0]
  /\ sent = <<>>
  /\ got = <<>>

Next ==
  \/ Schedule
  \/ Running /\ \E c \in Ops(script, cur, used[cur] + 1) :
       BeginIpc(c) \/ YieldCpu(c) \/ OpenPort(c) \/ ClosePort(c) \/ Kill(c)
  \/ Proceed
  \/ CallReceives
  \/ Finished

Spec == Init /\ [][Next]_vars

(* proc_sched_run is called and loops, and a process executes its calls. *)
FairSpec == Spec /\ WF_vars(Next)

-----------------------------------------------------------------------------
(* Properties. *)

Idle == cur = None /\ ring = <<>>

Waits(i) == Alive(entries[i]) /\ StateOf(entries[i]) = "blocked"

Via(log, h) == SelectSeq(log, LAMBDA d : d.via = h)

(* "an occupied single-waiter slot on send (or an empty slot on recv) must   *)
(* suspend the current PCB until the peer half of the rendezvous arrives":   *)
(* when nothing is left to run, nobody waits for what has already happened.  *)
NoLostWakeup ==
  Idle => \A i \in Index :
    (Waits(i) /\ Port!Resolves(doing[i].port)) =>
      doing[i].op = IF Port!Empty(doing[i].port) THEN "recv" ELSE "send"

(* What was sent through a handle was received, but for a staged envelope.   *)
ReceivedInOrder(h, s, r) ==
  \/ Port!Resolves(h) /\ ~Port!Empty(h) /\ s = Append(r, [via |-> h, msg |-> ports[h.slot].staged])
  \/ Port!Resolves(h) /\ Port!Empty(h) /\ s = r
  \/ ~Port!Resolves(h) /\ Len(r) <= Len(s) /\ r = SubSeq(s, 1, Len(r))

(* The owner gets every envelope once, in the order the sends staged them:   *)
(* none is lost between a stage and a consume, whoever was blocked or killed *)
(* in between, and none comes through another port's handle or goes to a     *)
(* process that began to wait before the slot changed hands.                 *)
DeliveredOnceInOrder ==
  /\ [](\A h \in Port!Handle : ReceivedInOrder(h, Via(sent, h), Via(got, h)))
  /\ [][\A i \in Index : (i = cur /\ Len(got') > Len(got)) =>
          \E h \in Port!Handle : Owns(i, h) /\ got'[Len(got')].via = h]_vars

(* If the sends and receives pair up all processes get to their end and      *)
(* proc_sched_run returns PROC_SCHED_OK.                                     *)
AllComplete == (script \in Paired) ~> (result = "ok")
=============================================================================
