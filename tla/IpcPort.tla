------------------------------ MODULE IpcPort ------------------------------
(***************************************************************************)
(* The IPC port table, kernel/ipc/ipc_port.c: a slot per port with an      *)
(* owner and room for one staged envelope.  A handle is a slot and its     *)
(* generation, which a destroy advances and which skips 0, so that no      *)
(* handle equals IPC_PORT_INVALID.  An envelope is copied unread.  The two *)
(* capability ids of a port are written once and handed out again; they    *)
(* are left out.                                                           *)
(***************************************************************************)
EXTENDS Naturals

CONSTANTS
  P,       \* IPC_PORT_TABLE_MAX
  GenMod,  \* 2^16, the values of the generation
  Owners,  \* the subject ids that own ports
  Msgs,    \* the envelopes
  NoMsg,   \* the slot is empty
  NoOwner

ASSUME SizeAssumption == P \in Nat \ {0}

ASSUME GenAssumption == GenMod \in Nat /\ GenMod > 1

ASSUME NoneAssumption == NoMsg \notin Msgs /\ NoOwner \notin Owners

Slots == 0 .. P - 1

Gens == 1 .. GenMod - 1

Handle == [slot : Slots, gen : Gens]

VARIABLE ports  \* g_ports: slot -> port

Port == [live : BOOLEAN, gen : Gens, owner : Owners \cup {NoOwner},
         staged : Msgs \cup {NoMsg}]

PortsTypeOK == ports \in [Slots -> Port]

(* resolve. *)
Resolves(h) == ports[h.slot].live /\ ports[h.slot].gen = h.gen

HandleOf(i) == [slot |-> i, gen |-> ports[i].gen]

Empty(h) == ports[h.slot].staged = NoMsg

NextGen(g) == IF g = GenMod - 1 THEN 1 ELSE g + 1

First(S) == CHOOSE i \in S : \A j \in S : i <= j

Free == {i \in Slots : ~ports[i].live}

(* ipc_port_create takes the lowest slot that is not live. *)
Create(o) ==
  /\ Free # {}
  /\ ports' = [ports EXCEPT ![First(Free)] =
                 [live |-> TRUE, gen |-> @.gen, owner |-> o, staged |-> NoMsg]]

(* Variant: the generation is left alone. *)
DestroyKeepsGen(h) ==
  /\ Resolves(h)
  /\ ports' = [ports EXCEPT ![h.slot].live = FALSE, ![h.slot].staged = NoMsg]

(* ipc_port_destroy. *)
Destroy(h) ==
  /\ Resolves(h)
  /\ ports' = [ports EXCEPT ![h.slot].live = FALSE,
                            ![h.slot].gen = NextGen(@),
                            ![h.slot].staged = NoMsg]

(* ipc_port_stage: an occupied slot refuses (IPC_ERR_PEER_GONE). *)
Stage(h, m) ==
  /\ Resolves(h)
  /\ Empty(h)
  /\ ports' = [ports EXCEPT ![h.slot].staged = m]

(* ipc_port_consume: an empty slot refuses. *)
Consume(h) ==
  /\ Resolves(h)
  /\ ~Empty(h)
  /\ ports' = [ports EXCEPT ![h.slot].staged = NoMsg]

(* ipc_port_table_reset: the generation of a slot in use advances. *)
InUse == {i \in Slots : ports[i].live \/ ports[i].staged # NoMsg}

Reset ==
  ports' = [i \in Slots |->
              [live |-> FALSE,
               gen |-> IF i \in InUse THEN NextGen(ports[i].gen) ELSE ports[i].gen,
               owner |-> NoOwner, staged |-> NoMsg]]

PortsInit ==
  ports = [i \in Slots |-> [live |-> FALSE, gen |-> 1, owner |-> NoOwner, staged |-> NoMsg]]
=============================================================================
