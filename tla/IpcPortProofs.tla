--------------------------- MODULE IpcPortProofs ---------------------------
(***************************************************************************)
(* Theorems about the IPC port table, for every number of ports and every  *)
(* generation width.                                                       *)
(***************************************************************************)
EXTENDS IpcPortAging, WellFoundedInduction, NaturalsInduction, TLAPS

(* ipc_port_create scans in slot order: the lowest free slot exists whenever *)
(* there is a free slot.                                                     *)
LEMMA FirstIsMember ==
  ASSUME NEW S \in SUBSET Slots, S # {}
  PROVE  First(S) \in S
<1> DEFINE R == OpToRel(<, Nat)
<1>1. IsWellFoundedOn(R, Nat)
  BY NatLessThanWellFounded
<1>2. \A a, b \in Nat : a < b => <<a, b>> \in R
  BY DEF OpToRel
<1>3. S \subseteq Nat
  BY SizeAssumption DEF Slots
<1> HIDE DEF R
<1>4. PICK x \in S : \A y \in S : ~(<<y, x>> \in R)
  BY <1>1, <1>3, WFMin
<1>5. ASSUME NEW y \in S PROVE x <= y
  <2>1. x \in Nat /\ y \in Nat
    BY <1>3
  <2>2. ~(y < x)
    BY <1>2, <1>4, <2>1, Zenon
  <2> QED
    BY <2>1, <2>2
<1> QED
  BY <1>4, <1>5 DEF First

(* The generation skips 0 and stays within its width. *)
LEMMA NextGenStays ==
  ASSUME NEW g \in Gens
  PROVE  NextGen(g) \in Gens
BY GenAssumption DEF Gens, NextGen

(* What a destroy or a reset does to the histories keeps them in step with   *)
(* the generations.                                                          *)
LEMMA AdvanceKeepsCounts ==
  ASSUME PortInv, NEW S \in SUBSET Slots, Advance(S),
         \A i \in Slots :
           ports'[i].gen = IF i \in S THEN NextGen(ports[i].gen) ELSE ports[i].gen
  PROVE  /\ closed' \subseteq Handle
         /\ closes' \in [Slots -> 0 .. CloseCap]
         /\ GenerationCounts'
         /\ ClosedOlder'
<1>1. /\ closes \in [Slots -> 0 .. CloseCap]
      /\ closed \subseteq Handle
      /\ \A i \in Slots : ports[i].gen \in Gens
  BY DEF PortInv, PortTypeOK, PortsTypeOK, Port
<1>2. \A i \in Slots : closes'[i] =
        IF i \in S /\ closes[i] < CloseCap THEN closes[i] + 1 ELSE closes[i]
  BY DEF Advance
<1>3. ASSUME NEW i \in Slots
      PROVE  /\ closes[i] \in 0 .. CloseCap
             /\ closes'[i] \in 0 .. CloseCap
             /\ closes[i] <= closes'[i]
             /\ closes'[i] < GenMod - 1 =>
                  closes'[i] = IF i \in S THEN closes[i] + 1 ELSE closes[i]
  BY <1>1, <1>2, GenAssumption, CloseCapAssumption
<1>4. closed' = closed \cup {HandleOf(i) : i \in S}
  BY DEF Advance
<1>5. closed' \subseteq Handle
  BY <1>1, <1>4 DEF HandleOf, Handle
<1>6. closes' \in [Slots -> 0 .. CloseCap]
  BY <1>3 DEF Advance
<1>7. ASSUME NEW i \in Slots, closes'[i] < GenMod - 1
      PROVE  ports'[i].gen = closes'[i] + 1
  <2>1. ports[i].gen = closes[i] + 1
    BY <1>3, <1>7, GenAssumption, CloseCapAssumption DEF PortInv, GenerationCounts
  <2>2. CASE i \in S
    <3>1. closes'[i] = closes[i] + 1
      BY <1>3, <1>7, <2>2
    <3>2. NextGen(ports[i].gen) = closes[i] + 2
      BY <1>3, <1>7, <2>1, <3>1, GenAssumption, CloseCapAssumption DEF NextGen
    <3> QED
      BY <1>3, <2>2, <3>1, <3>2, CloseCapAssumption
  <2>3. CASE i \notin S
    BY <1>3, <1>7, <2>1, <2>3
  <2> QED
    BY <2>2, <2>3
<1>8. ASSUME NEW h \in closed', closes'[h.slot] < GenMod - 1
      PROVE  h.gen <= closes'[h.slot]
  <2>1. h.slot \in Slots /\ h.gen \in Gens
    BY <1>5 DEF Handle
  <2>2. CASE h \in closed
    <3>1. h.gen <= closes[h.slot]
      BY <1>3, <1>8, <2>1, <2>2, GenAssumption, CloseCapAssumption DEF PortInv, ClosedOlder
    <3> QED
      BY <1>3, <2>1, <3>1, GenAssumption, CloseCapAssumption DEF Gens
  <2>3. CASE h \notin closed
    <3>1. PICK i \in S : h = HandleOf(i)
      BY <1>4, <2>3
    <3>2. h.slot = i /\ h.gen = ports[i].gen
      BY <3>1 DEF HandleOf
    <3>3. closes'[i] = closes[i] + 1
      BY <1>3, <1>8, <3>2
    <3>4. ports[i].gen = closes[i] + 1
      BY <1>3, <1>8, <3>2, <3>3, GenAssumption, CloseCapAssumption
         DEF PortInv, GenerationCounts
    <3> QED
      BY <1>3, <3>2, <3>3, <3>4, GenAssumption, CloseCapAssumption
  <2> QED
    BY <2>2, <2>3
<1> QED
  BY <1>5, <1>6, <1>7, <1>8 DEF GenerationCounts, ClosedOlder

(* The empty table. *)
LEMMA InitIInv == PortInit => PortInv
<1> SUFFICES ASSUME PortInit PROVE PortInv
  OBVIOUS
<1>1. 1 \in Gens /\ 0 \in 0 .. CloseCap
  BY GenAssumption, CloseCapAssumption DEF Gens
<1> QED
  BY <1>1 DEF PortInit, PortsInit, PortInv, PortTypeOK, PortsTypeOK, Port, EnvelopeBelongsToPort,
              GenerationCounts, ClosedOlder

(* An operation on one slot that keeps the generations leaves the counts as  *)
(* they were.                                                                *)
LEMMA SameGenerations ==
  ASSUME PortInv, UNCHANGED <<closed, closes>>,
         \A i \in Slots : ports'[i].gen = ports[i].gen
  PROVE  /\ closed' \subseteq Handle
         /\ closes' \in [Slots -> 0 .. CloseCap]
         /\ GenerationCounts'
         /\ ClosedOlder'
BY DEF PortInv, PortTypeOK, GenerationCounts, ClosedOlder

LEMMA CreateIInv ==
  ASSUME PortInv, NEW o \in Owners, Create(o), UNCHANGED <<closed, closes>>
  PROVE  PortInv'
<1> DEFINE k == First(Free)
<1>1. k \in Slots /\ ~ports[k].live
  BY FirstIsMember DEF Create, Free
<1>2. ports \in [Slots -> Port]
  BY DEF PortInv, PortTypeOK, PortsTypeOK
<1>3. ports' = [ports EXCEPT ![k] = [live |-> TRUE, gen |-> ports[k].gen,
                                     owner |-> o, staged |-> NoMsg]]
  BY <1>1, <1>2 DEF Create
<1> HIDE DEF k
<1>4. ports' \in [Slots -> Port]
  BY <1>1, <1>2, <1>3 DEF Port
<1>5. EnvelopeBelongsToPort'
  BY <1>1, <1>2, <1>3 DEF PortInv, EnvelopeBelongsToPort, HandleOf
<1>6. \A i \in Slots : ports'[i].gen = ports[i].gen
  BY <1>1, <1>2, <1>3
<1> QED
  BY <1>4, <1>5, <1>6, SameGenerations DEF PortInv, PortTypeOK, PortsTypeOK

LEMMA StageIInv ==
  ASSUME PortInv, NEW h \in Handle, Stage(h, h), UNCHANGED <<closed, closes>>
  PROVE  PortInv'
<1>1. ports \in [Slots -> Port] /\ h.slot \in Slots /\ h \in Msgs
  BY MsgAssumption DEF PortInv, PortTypeOK, PortsTypeOK, Handle
<1>2. ports' = [ports EXCEPT ![h.slot].staged = h]
  BY DEF Stage
<1>3. ports[h.slot].live /\ h = HandleOf(h.slot)
  BY DEF Stage, Resolves, HandleOf, Handle
<1>4. ports' \in [Slots -> Port]
  BY <1>1, <1>2 DEF Port
<1>5. EnvelopeBelongsToPort'
  BY <1>1, <1>2, <1>3 DEF PortInv, EnvelopeBelongsToPort, HandleOf, Port
<1>6. \A i \in Slots : ports'[i].gen = ports[i].gen
  BY <1>1, <1>2 DEF Port
<1> QED
  BY <1>4, <1>5, <1>6, SameGenerations DEF PortInv, PortTypeOK, PortsTypeOK

LEMMA ConsumeIInv ==
  ASSUME PortInv, NEW h \in Handle, Consume(h), UNCHANGED <<closed, closes>>
  PROVE  PortInv'
<1>1. ports \in [Slots -> Port] /\ h.slot \in Slots
  BY DEF PortInv, PortTypeOK, PortsTypeOK, Handle
<1>2. ports' = [ports EXCEPT ![h.slot].staged = NoMsg]
  BY DEF Consume
<1>4. ports' \in [Slots -> Port]
  BY <1>1, <1>2 DEF Port
<1>5. EnvelopeBelongsToPort'
  BY <1>1, <1>2 DEF PortInv, EnvelopeBelongsToPort, HandleOf, Port
<1>6. \A i \in Slots : ports'[i].gen = ports[i].gen
  BY <1>1, <1>2 DEF Port
<1> QED
  BY <1>4, <1>5, <1>6, SameGenerations DEF PortInv, PortTypeOK, PortsTypeOK

LEMMA DestroyIInv ==
  ASSUME PortInv, NEW h \in Handle, Destroy(h), Advance({h.slot})
  PROVE  PortInv'
<1>1. ports \in [Slots -> Port] /\ h.slot \in Slots
  BY DEF PortInv, PortTypeOK, PortsTypeOK, Handle
<1>2. NextGen(ports[h.slot].gen) \in Gens
  BY <1>1, NextGenStays DEF Port
<1>3. /\ \A i \in Slots \ {h.slot} : ports'[i] = ports[i]
      /\ ports'[h.slot].gen = NextGen(ports[h.slot].gen)
      /\ ports'[h.slot].staged = NoMsg
  BY <1>1 DEF Destroy, Port
<1>4. ports' \in [Slots -> Port]
  BY <1>1, <1>2 DEF Destroy, Port
<1>5. EnvelopeBelongsToPort'
  BY <1>1, <1>3 DEF PortInv, EnvelopeBelongsToPort, HandleOf, Port
<1>6. \A i \in Slots : ports'[i].gen =
        IF i \in {h.slot} THEN NextGen(ports[i].gen) ELSE ports[i].gen
  BY <1>1, <1>3
<1> QED
  BY <1>1, <1>4, <1>5, <1>6, AdvanceKeepsCounts DEF PortInv, PortTypeOK, PortsTypeOK

LEMMA ResetIInv ==
  ASSUME PortInv, Reset, Advance(InUse)
  PROVE  PortInv'
<1>1. ports \in [Slots -> Port] /\ InUse \subseteq Slots
  BY DEF PortInv, PortTypeOK, PortsTypeOK, InUse
<1>2. \A i \in Slots : ports[i].gen \in Gens /\ NextGen(ports[i].gen) \in Gens
  BY <1>1, NextGenStays DEF Port
<1>3. \A i \in Slots : ports'[i].gen =
        IF i \in InUse THEN NextGen(ports[i].gen) ELSE ports[i].gen
  BY DEF Reset
<1>4. ports' \in [Slots -> Port]
  BY <1>2 DEF Reset, Port
<1>5. EnvelopeBelongsToPort'
  BY DEF Reset, EnvelopeBelongsToPort
<1> QED
  BY <1>1, <1>3, <1>4, <1>5, AdvanceKeepsCounts DEF PortInv, PortTypeOK, PortsTypeOK

(* Every step of the port table preserves the inductive invariant. *)
LEMMA NextIInv == PortInv /\ [PortNext]_portVars => PortInv'
<1> SUFFICES ASSUME PortInv, [PortNext]_portVars PROVE PortInv'
  OBVIOUS
<1>1. ASSUME NEW o \in Owners, Create(o), UNCHANGED <<closed, closes>> PROVE PortInv'
  BY <1>1, CreateIInv
<1>2. ASSUME NEW h \in Handle, Stage(h, h), UNCHANGED <<closed, closes>> PROVE PortInv'
  BY <1>2, StageIInv
<1>3. ASSUME NEW h \in Handle, Consume(h), UNCHANGED <<closed, closes>> PROVE PortInv'
  BY <1>3, ConsumeIInv
<1>4. ASSUME NEW h \in Handle, Destroy(h), Advance({h.slot}) PROVE PortInv'
  BY <1>4, DestroyIInv
<1>5. CASE Reset /\ Advance(InUse)
  BY <1>5, ResetIInv
<1>6. CASE UNCHANGED portVars
  BY <1>6 DEF portVars, PortInv, PortTypeOK, PortsTypeOK, EnvelopeBelongsToPort, HandleOf,
              GenerationCounts, ClosedOlder
<1> QED
  BY <1>1, <1>2, <1>3, <1>4, <1>5, <1>6 DEF PortNext

LEMMA Invariant == PortSpec => []PortInv
BY InitIInv, NextIInv, PTL DEF PortSpec

(* The table keeps its shape: in particular no generation is ever 0, so no   *)
(* handle that encode_handle makes equals IPC_PORT_INVALID.                  *)
THEOREM PortTableTypes == PortSpec => []PortTypeOK
<1>1. PortInv => PortTypeOK
  BY DEF PortInv
<1> QED
  BY <1>1, Invariant, PTL

(* No envelope outlives its port: not a destroy, not the re-use of the slot  *)
(* and not ipc_port_table_reset hands it to the slot's next owner.           *)
THEOREM NoEnvelopeLeaks == PortSpec => []EnvelopeBelongsToPort
<1>1. PortInv => EnvelopeBelongsToPort
  BY DEF PortInv
<1> QED
  BY <1>1, Invariant, PTL

(* The handle of a destroyed port is refused for GenMod - 2 further closes   *)
(* of its slot.                                                              *)
THEOREM ClosedStaysRefused == PortSpec => []ClosedHandlesRefused
<1>1. ASSUME PortInv, NEW h \in closed, closes[h.slot] < GenMod - 1, Resolves(h)
      PROVE  FALSE
  <2>1. h.slot \in Slots /\ closes[h.slot] \in 0 .. CloseCap
    BY <1>1 DEF PortInv, PortTypeOK, Handle
  <2>2. h.gen <= closes[h.slot]
    BY <1>1 DEF PortInv, ClosedOlder
  <2>3. h.gen = closes[h.slot] + 1
    BY <1>1, <2>1 DEF PortInv, GenerationCounts, Resolves
  <2> QED
    BY <2>1, <2>2, <2>3, CloseCapAssumption
<1>2. PortInv => ClosedHandlesRefused
  BY <1>1 DEF ClosedHandlesRefused
<1> QED
  BY <1>2, Invariant, PTL

(* While a handle keeps resolving, the owner behind it does not change.      *)
THEOREM OwnerNeverChanges == PortSpec => OwnerStable
<1> DEFINE Same(h) == (Resolves(h) /\ Resolves(h)') =>
                         ports'[h.slot].owner = ports[h.slot].owner
<1>1. ASSUME PortInv, [PortNext]_portVars, NEW h \in Handle, Resolves(h), ports'[h.slot].live,
             ports'[h.slot].gen = h.gen
      PROVE  ports'[h.slot].owner = ports[h.slot].owner
  <2>1. ports \in [Slots -> Port] /\ h.slot \in Slots
    BY <1>1 DEF PortInv, PortTypeOK, PortsTypeOK, Handle
  <2>2. ASSUME NEW o \in Owners, Create(o)
        PROVE  ports'[h.slot].owner = ports[h.slot].owner
    <3>1. First(Free) \in Slots /\ ~ports[First(Free)].live
      BY <2>2, FirstIsMember DEF Create, Free
    <3> QED
      BY <1>1, <2>1, <2>2, <3>1 DEF Create, Resolves
  <2>3. ASSUME NEW g \in Handle, Stage(g, g) \/ Consume(g)
        PROVE  ports'[h.slot].owner = ports[h.slot].owner
    BY <2>1, <2>3 DEF Stage, Consume, Port
  <2>4. ASSUME NEW g \in Handle, Destroy(g)
        PROVE  ports'[h.slot].owner = ports[h.slot].owner
    BY <2>1, <2>4 DEF Destroy, Port
  <2>5. CASE Reset
    BY <1>1, <2>1, <2>5 DEF Reset
  <2>6. CASE UNCHANGED portVars
    BY <2>6 DEF portVars
  <2> QED
    BY <1>1, <2>2, <2>3, <2>4, <2>5, <2>6 DEF PortNext
<1>2. PortInv /\ [PortNext]_portVars => [\A h \in Handle : Same(h)]_portVars
  BY <1>1 DEF Resolves
<1> QED
  BY <1>2, Invariant, PTL DEF PortSpec, OwnerStable
=============================================================================
