--------------------------- MODULE IpcPortAging ---------------------------
(***************************************************************************)
(* The port table of IpcPort with the history that tells how old a handle  *)
(* is: which handles were destroyed, and how often each slot's generation  *)
(* has advanced.  Here an envelope is the handle it was staged through.    *)
(***************************************************************************)
EXTENDS IpcPort

CONSTANT CloseCap  \* how far the history variable closes counts

ASSUME CloseCapAssumption == CloseCap \in Nat /\ GenMod - 1 <= CloseCap

ASSUME MsgAssumption == Msgs = Handle

VARIABLES
  closed,  \* history: the handles of destroyed ports
  closes   \* history: per slot, how often its generation advanced (up to CloseCap)

portVars == <<ports, closed, closes>>

PortTypeOK ==
  /\ PortsTypeOK
  /\ closed \subseteq Handle
  /\ closes \in [Slots -> 0 .. CloseCap]

Advance(S) ==
  /\ closed' = closed \cup {HandleOf(i) : i \in S}
  /\ closes' = [i \in Slots |->
                  IF i \in S /\ closes[i] < CloseCap THEN closes[i] + 1 ELSE closes[i]]

PortInit == PortsInit /\ closed = {} /\ closes = [i \in Slots |-> 0]

PortNext ==
  \/ /\ \/ \E o \in Owners : Create(o)
        \/ \E h \in Handle : Stage(h, h) \/ Consume(h)
     /\ UNCHANGED <<closed, closes>>
  \/ \E h \in Handle : Destroy(h) /\ Advance({h.slot})
  \/ Reset /\ Advance(InUse)

PortSpec == PortInit /\ [][PortNext]_portVars

-----------------------------------------------------------------------------
(* Properties. *)

(* An envelope in a slot was staged through the handle that resolves to the  *)
(* slot now: neither destroying the port, nor re-using its slot, nor         *)
(* resetting the table hands an envelope to the slot's next owner.           *)
EnvelopeBelongsToPort ==
  \A i \in Slots : ports[i].staged # NoMsg =>
    ports[i].live /\ ports[i].staged = HandleOf(i)

(* The handle of a destroyed port is refused until the generation of its     *)
(* slot has run through all its GenMod - 1 values.                           *)
ClosedHandlesRefused ==
  \A h \in closed : closes[h.slot] < GenMod - 1 => ~Resolves(h)

(* A port changes its owner only by being destroyed: while a handle keeps    *)
(* resolving, the subject that may receive through it is the same.           *)
OwnerStable ==
  [][\A h \in Handle : (Resolves(h) /\ Resolves(h)') =>
       ports'[h.slot].owner = ports[h.slot].owner]_portVars

-----------------------------------------------------------------------------
(* The inductive invariant. *)

(* A slot's generation counts how often it advanced. *)
GenerationCounts ==
  \A i \in Slots : closes[i] < GenMod - 1 => ports[i].gen = closes[i] + 1

(* Every closed handle carries an earlier count of its slot. *)
ClosedOlder ==
  \A h \in closed : closes[h.slot] < GenMod - 1 => h.gen <= closes[h.slot]

(* The conjunction every operation of ipc_port.c preserves. *)
PortInv ==
  /\ PortTypeOK
  /\ EnvelopeBelongsToPort
  /\ GenerationCounts
  /\ ClosedOlder
=============================================================================
