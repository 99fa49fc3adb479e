---------------------------- MODULE ModuleProofs ----------------------------
(***************************************************************************)
(* For every arena, number of windows and size of the tables: the windows  *)
(* that aspace_partition carves are sound and disjoint, and the modules of *)
(* the registry keep to theirs.                                            *)
(***************************************************************************)
EXTENDS Modules, WellFoundedInduction, TLAPS

Per == PerWindow(ArenaSize, WindowCount)

\* aspace_window_align_down goes down by less than the alignment.
LEMMA AlignDownFacts ==
  ASSUME NEW n \in Nat
  PROVE  AlignDown(n) \in Nat /\ AlignDown(n) <= n /\ AlignDown(n) > n - AlignBytes
<1>1. n % AlignBytes \in 0 .. (AlignBytes - 1)
  BY AddressAssumption
<1>2. n % AlignBytes <= n
  BY AddressAssumption
<1> QED
  BY <1>1, <1>2, AddressAssumption DEF AlignDown

\* A division gives a part that fits count times.
LEMMA DivideFits ==
  ASSUME NEW n \in Nat, NEW c \in Nat, c > 0
  PROVE  (n \div c) \in Nat /\ (n \div c) * c <= n
OBVIOUS

\* Products keep the order of their factors.
LEMMA TimesMonotone ==
  ASSUME NEW a \in Nat, NEW b \in Nat, NEW k \in Nat, a <= b
  PROVE  k * a <= k * b /\ k * a \in Nat /\ a * k <= b * k
OBVIOUS

\* The windows of aspace_partition lie in the arena, one behind the other.
LEMMA WindowsInArena ==
  ASSUME NEW i \in Nat, i < WindowCount
  PROVE  Per \in Nat /\ Per * i \in Nat /\ Per * i + Per <= ArenaSize
<1> DEFINE share == ArenaSize \div WindowCount
<1>1. share \in Nat /\ share * WindowCount <= ArenaSize
  BY DivideFits, ArenaAssumption
<1>2. Per \in Nat /\ Per <= share
  BY <1>1, AlignDownFacts DEF Per, PerWindow
<1> HIDE DEF share
<1>3. Per * i \in Nat /\ Per * i + Per = Per * (i + 1)
  BY <1>2
<1>a. i + 1 \in Nat /\ i + 1 <= WindowCount
  BY ArenaAssumption
<1>4. Per * (i + 1) <= Per * WindowCount
  BY <1>2, <1>a, TimesMonotone, ArenaAssumption
<1>5. Per * WindowCount <= share * WindowCount
  BY <1>1, <1>2, TimesMonotone, ArenaAssumption
<1>6. Per * WindowCount \in Nat /\ share * WindowCount \in Nat /\ Per * (i + 1) \in Nat
  BY <1>1, <1>2, ArenaAssumption
<1> QED
  BY <1>1, <1>2, <1>3, <1>4, <1>5, <1>6, ArenaAssumption

\* Every window that aspace_partition makes has room for the envelope and the
\* stack and satisfies aspace_invariant_ok.
LEMMA WindowsSound ==
  ASSUME NEW i \in Nat, i < WindowCount, AspacePartitions(ArenaSize, WindowCount)
  PROVE  WindowSound(Window(ArenaBase, Per, i))
<1> DEFINE low == ArenaBase + Per * i
           as == Window(ArenaBase, Per, i)
<1>1. Per \in Nat /\ Per * i \in Nat /\ Per * i + Per <= ArenaSize
  BY WindowsInArena
<1>2. low \in Nat /\ low >= ArenaBase /\ low + Per <= ArenaBase + ArenaSize /\ low + Per <= AddressMax
  BY <1>1, ArenaAssumption, AddressAssumption
<1>3. Per >= StackBytes + PayloadMax + AlignBytes
  <2>1. Per >= WindowMinBytes
    BY DEF AspacePartitions, Per
  <2>2. WindowMinBytes > StackBytes + PayloadMax + AlignBytes + AlignBytes - 1 - AlignBytes
    <3> DEFINE n == StackBytes + PayloadMax + AlignBytes + AlignBytes - 1
    <3>1. n \in Nat
      BY AddressAssumption
    <3>2. WindowMinBytes = AlignDown(n)
      BY DEF WindowMinBytes
    <3> HIDE DEF n
    <3>3. AlignDown(n) > n - AlignBytes
      BY <3>1, AlignDownFacts
    <3>4. WindowMinBytes > n - AlignBytes
      BY <3>2, <3>3
    <3> QED
      BY <3>4, AddressAssumption DEF n
  <2>3. WindowMinBytes \in Nat
    BY AlignDownFacts, AddressAssumption DEF WindowMinBytes
  <2> QED
    BY <1>1, <2>1, <2>2, <2>3, AddressAssumption
<1>4. Address(low) = low /\ Address(low + Per) = low + Per
  <2>1. \A n \in Nat : n <= AddressMax => n % (AddressMax + 1) = n
    BY AddressAssumption
  <2> HIDE DEF low
  <2>2. low + Per \in Nat /\ low <= AddressMax
    BY <1>1, <1>2, AddressAssumption
  <2> QED
    BY <1>2, <2>1, <2>2 DEF Address
<1>5. as = [base |-> low, size |-> Per, stackTop |-> low + Per, scratch |-> low]
  BY <1>4 DEF Window
<1> HIDE DEF low, as
<1>6. as.base = low /\ as.size = Per /\ as.stackTop = low + Per /\ as.scratch = low
  BY <1>5
<1>7. \A n \in Nat : n <= Per => AspaceContains(as, low, n)
  BY <1>1, <1>2, <1>3, <1>6, AddressAssumption DEF AspaceContains
<1>8. EnvelopeBytes \in Nat /\ EnvelopeBytes <= Per /\ low + EnvelopeBytes <= low + Per - StackBytes
  BY <1>1, <1>2, <1>3, AddressAssumption DEF EnvelopeBytes
<1>9. PayloadMax <= Per /\ Per > 0
  BY <1>1, <1>3, AddressAssumption
<1>10. AspaceContains(as, as.scratch, PayloadMax) /\ AspaceContains(as, as.scratch, EnvelopeBytes)
  BY <1>6, <1>7, <1>8, <1>9, AddressAssumption
<1>11. /\ as.size > 0 /\ as.size <= AddressMax - as.base
       /\ as.stackTop > as.base /\ as.stackTop <= as.base + as.size
  BY <1>1, <1>2, <1>6, <1>9, AddressAssumption
<1>12. AspaceInvariantOk(as)
  BY <1>10, <1>11 DEF AspaceInvariantOk
<1>13. /\ as.base >= ArenaBase /\ as.base + as.size <= ArenaBase + ArenaSize
       /\ as.scratch + EnvelopeBytes <= as.stackTop - StackBytes
  BY <1>1, <1>2, <1>6, <1>8, ArenaAssumption, AddressAssumption
<1>14. WindowSound(as)
  BY <1>10, <1>12, <1>13 DEF WindowSound
<1> QED
  BY <1>14 DEF as

\* Different windows of aspace_partition do not overlap.
LEMMA WindowsDisjoint ==
  ASSUME NEW i \in Nat, NEW j \in Nat, i < WindowCount, j < WindowCount, i # j
  PROVE  Disjoint(Window(ArenaBase, Per, i), Window(ArenaBase, Per, j))
<1>1. \A k \in Nat : k < WindowCount =>
        /\ Window(ArenaBase, Per, k).base = ArenaBase + Per * k
        /\ Window(ArenaBase, Per, k).size = Per
        /\ ArenaBase + Per * k \in Nat
  <2> SUFFICES ASSUME NEW k \in Nat, k < WindowCount
               PROVE  /\ Window(ArenaBase, Per, k).base = ArenaBase + Per * k
                      /\ Window(ArenaBase, Per, k).size = Per
                      /\ ArenaBase + Per * k \in Nat
    OBVIOUS
  <2>1. Per \in Nat /\ Per * k \in Nat /\ Per * k + Per <= ArenaSize
    BY WindowsInArena
  <2>2. ArenaBase + Per * k \in Nat /\ ArenaBase + Per * k <= AddressMax
    BY <2>1, ArenaAssumption, AddressAssumption
  <2>3. \A n \in Nat : n <= AddressMax => n % (AddressMax + 1) = n
    BY AddressAssumption
  <2>4. Address(ArenaBase + Per * k) = ArenaBase + Per * k
    BY <2>2, <2>3 DEF Address
  <2> QED
    BY <2>2, <2>4 DEF Window
<1>2. \A a, b \in Nat : a < b /\ b < WindowCount => ArenaBase + Per * a + Per <= ArenaBase + Per * b
  <2> SUFFICES ASSUME NEW a \in Nat, NEW b \in Nat, a < b, b < WindowCount
               PROVE  ArenaBase + Per * a + Per <= ArenaBase + Per * b
    OBVIOUS
  <2>1. Per \in Nat
    BY WindowsInArena
  <2>2. Per * (a + 1) <= Per * b /\ Per * (a + 1) = Per * a + Per
    BY <2>1, TimesMonotone, a + 1 <= b, a + 1 \in Nat
  <2>3. Per * a \in Nat /\ Per * b \in Nat
    BY <2>1
  <2> QED
    BY <2>1, <2>2, <2>3, ArenaAssumption
<1>3. i < j \/ j < i
  OBVIOUS
<1> QED
  BY <1>1, <1>2, <1>3 DEF Disjoint

\* Tables are searched in their order: the first slot of a set of slots is one
\* of them.
LEMMA MinIsMember ==
  ASSUME NEW S \in SUBSET Nat, S # {}
  PROVE  Min(S) \in S
<1> DEFINE below == OpToRel(<, Nat)
<1>1. \A a, b \in Nat : a < b => <<a, b>> \in below
  BY DEF OpToRel
<1>2. IsWellFoundedOn(below, Nat)
  BY NatLessThanWellFounded
<1> HIDE DEF below
<1>3. PICK x \in S : \A y \in S : ~(<<y, x>> \in below)
  BY <1>2, WFMin
<1>4. \A y \in S : ~(y < x) /\ x \in Nat /\ y \in Nat
  BY <1>1, <1>3, Zenon
<1>5. \A y \in S : x <= y
  BY <1>4
<1> QED
  BY <1>5 DEF Min

-----------------------------------------------------------------------------
(* The module registry *)

SlotType == [mod : ModuleNames \cup {"none"}, win : Nat, st : {"none", "new", "ready", "waiting", "exited"}]
ObservedType == [recvOk : Nat, payloadOk : BOOLEAN, sender : {"none", "sender"}, sent : Nat, denied : BOOLEAN]

ModulesType ==
  /\ claimed \in Nat /\ claimed <= WindowCount
  /\ modSlots \in [ModProcs -> SlotType]
  /\ modHandle \in [ModuleNames -> [gen : Nat, live : BOOLEAN]]
  /\ recorded \in [ModuleNames -> Nat]
  /\ envelope \in {"none", "sender"} /\ observed \in ObservedType

\* Windows are handed out once, in order, and only from a partition.
WindowsOnce ==
  /\ \A p \in ModProcs : modSlots[p] # NoModule =>
       /\ AspacePartitions(ArenaSize, WindowCount)
       /\ modSlots[p].mod \in ModuleNames /\ modSlots[p].win < claimed
  /\ \A p, q \in ModProcs :
       p # q /\ modSlots[p] # NoModule /\ modSlots[q] # NoModule => modSlots[p].win # modSlots[q].win

RecordCurrent == \A m \in ModuleNames : modHandle[m].live => recorded[m] = modHandle[m].gen
MessagesCounted == observed.sent = observed.recvOk + (IF envelope = "none" THEN 0 ELSE 1)

ModulesInv == ModulesType /\ WindowsOnce /\ RecordCurrent /\ MessagesCounted

LEMMA ModulesInitInv == ModulesInit => ModulesInv
  BY ArenaAssumption DEF ModulesInit, ModulesInv, ModulesType, WindowsOnce, RecordCurrent, MessagesCounted,
     SlotType, ObservedType, NoModule, NotObserved

\* A step of a running module touches no window and no handle.
LEMMA GoesOnInv ==
  ASSUME ModulesInv, NEW p \in ModProcs, NEW st \in {"waiting", "exited"}, modSlots[p] # NoModule, GoesOn(p, st)
  PROVE  /\ modSlots' \in [ModProcs -> SlotType] /\ WindowsOnce' /\ RecordCurrent'
         /\ claimed' = claimed /\ modHandle' = modHandle /\ recorded' = recorded
<1>1. modSlots' \in [ModProcs -> SlotType]
  BY DEF ModulesInv, ModulesType, GoesOn, SlotType
<1>2. \A q \in ModProcs : /\ modSlots'[q].win = modSlots[q].win /\ modSlots'[q].mod = modSlots[q].mod
                          /\ modSlots'[q] # NoModule => modSlots[q] # NoModule
  BY DEF ModulesInv, ModulesType, GoesOn, SlotType
<1>3. WindowsOnce'
  BY <1>2 DEF ModulesInv, WindowsOnce, GoesOn
<1> QED
  BY <1>1, <1>3 DEF ModulesInv, RecordCurrent, GoesOn

LEMMA SpawnModuleInv ==
  ASSUME ModulesInv, NEW m \in ModuleNames, SpawnModule(m)
  PROVE  ModulesInv'
<1> USE DEF ModulesInv, ModulesType
<1>1. claimed' = claimed + 1 /\ claimed < WindowCount /\ AspacePartitions(ArenaSize, WindowCount)
  BY DEF SpawnModule, AspaceClaim
<1>2. claimed' \in Nat /\ claimed' <= WindowCount
  BY <1>1, ArenaAssumption
<1>3. CASE UNCHANGED <<modSlots, modHandle, recorded>>
  BY <1>1, <1>2, <1>3 DEF SpawnModule, WindowsOnce, RecordCurrent, MessagesCounted, SlotType
<1>4. ASSUME FreeProcs # {}, NEW st \in {"new", "ready"}, CreatedAs(m, st)
      PROVE  modSlots' \in [ModProcs -> SlotType] /\ WindowsOnce'
  <2> DEFINE f == Min(FreeProcs)
  <2>1. f \in ModProcs /\ modSlots[f] = NoModule
    BY <1>4, MinIsMember, FreeProcs \in SUBSET Nat, ArenaAssumption DEF FreeProcs, ModProcs
  <2> HIDE DEF f
  <2>2. modSlots' = [modSlots EXCEPT ![f] = [mod |-> m, win |-> claimed, st |-> st]]
    BY <1>4 DEF CreatedAs, f
  <2>3. modSlots' \in [ModProcs -> SlotType]
    BY <2>1, <2>2, <1>4 DEF SlotType
  <2>4. modSlots'[f] = [mod |-> m, win |-> claimed, st |-> st]
        /\ \A q \in ModProcs : q # f => modSlots'[q] = modSlots[q]
    BY <2>1, <2>2
  <2>5. modSlots'[f].mod = m /\ modSlots'[f].win = claimed
    BY <2>4
  <2>6. \A q \in ModProcs : q # f /\ modSlots[q] # NoModule => modSlots[q].win < claimed /\ modSlots[q].win \in Nat
    BY DEF WindowsOnce, SlotType
  <2>7. \A q \in ModProcs : modSlots'[q] # NoModule =>
          /\ AspacePartitions(ArenaSize, WindowCount)
          /\ modSlots'[q].mod \in ModuleNames /\ modSlots'[q].win < claimed'
    BY <1>1, <2>4, <2>5, <2>6 DEF WindowsOnce
  <2>8. ASSUME NEW q \in ModProcs, NEW r \in ModProcs, q # r, modSlots'[q] # NoModule, modSlots'[r] # NoModule
        PROVE  modSlots'[q].win # modSlots'[r].win
    BY <2>4, <2>5, <2>6, <2>8 DEF WindowsOnce
  <2> QED
    BY <2>3, <2>7, <2>8 DEF WindowsOnce
<1>5. CASE FreeProcs # {} /\ ~CanGrant(m) /\ CreatedAs(m, "new") /\ UNCHANGED <<modHandle, recorded, entries>>
  BY <1>2, <1>4, <1>5 DEF SpawnModule, RecordCurrent, MessagesCounted
<1>6. CASE /\ FreeProcs # {} /\ modHandle' = Granted(m) /\ RecordHandle(m, Granted(m)[m].gen)
           /\ CreatedAs(m, "new") \/ CreatedAs(m, "ready")
  <2>1. modSlots' \in [ModProcs -> SlotType] /\ WindowsOnce'
    BY <1>4, <1>6
  <2>2. /\ modHandle' \in [ModuleNames -> [gen : Nat, live : BOOLEAN]]
        /\ \A k \in ModuleNames : k # m => modHandle'[k] = modHandle[k]
    BY <1>6 DEF Granted
  <2>3. recorded' = [recorded EXCEPT ![m] = modHandle'[m].gen]
    BY <1>6 DEF RecordHandle
  <2>4. recorded' \in [ModuleNames -> Nat] /\ RecordCurrent'
    BY <2>2, <2>3 DEF RecordCurrent
  <2> QED
    BY <1>2, <2>1, <2>2, <2>4 DEF SpawnModule, MessagesCounted
<1> QED
  BY <1>3, <1>5, <1>6 DEF SpawnModule

\* The code of a module: it waits, or leaves, and counts what it sees.
LEMMA ModuleStepInv ==
  ASSUME ModulesInv, NEW p \in ModProcs,
         \/ EntryM1Receiver(p) \/ EntryM1Sender(p) \/ EntryM1Unauth(p)
         \/ ReceiverGets(p) \/ SenderStages(p)
  PROVE  ModulesInv'
<1>1. modSlots[p] # NoModule /\ \E st \in {"waiting", "exited"} : GoesOn(p, st)
  BY DEF EntryM1Receiver, EntryM1Sender, EntersCall, EntryM1Unauth, ReceiverGets, SenderStages, NoModule
<1>2. /\ modSlots' \in [ModProcs -> SlotType] /\ WindowsOnce' /\ RecordCurrent'
      /\ claimed' = claimed /\ modHandle' = modHandle /\ recorded' = recorded
  BY <1>1, GoesOnInv
<1>3. envelope' \in {"none", "sender"} /\ observed' \in ObservedType /\ MessagesCounted'
  <2> USE DEF ModulesInv, ModulesType, ObservedType, MessagesCounted
  <2>1. CASE UNCHANGED <<envelope, observed>>
    BY <2>1
  <2>2. CASE EntryM1Unauth(p)
    <3>1. envelope' = envelope /\ (observed' = observed \/ \E b \in BOOLEAN : observed' = [observed EXCEPT !.denied = b])
      BY <2>2 DEF EntryM1Unauth, HandlePasses
    <3> QED
      BY <3>1
  <2>3. CASE ReceiverGets(p)
    <3>1. envelope = "sender" /\ envelope' = "none"
      BY <2>3 DEF ReceiverGets
    <3>2. observed' = [observed EXCEPT !.recvOk = @ + 1, !.sender = "sender", !.payloadOk = TRUE]
      BY <2>3, <3>1 DEF ReceiverGets
    <3>a. observed \in ObservedType /\ observed.recvOk + 1 \in Nat /\ TRUE \in BOOLEAN
      OBVIOUS
    <3>3. observed' \in ObservedType
      BY <3>2, <3>a, Zenon
    <3>4. observed'.sent = observed.sent /\ observed'.recvOk = observed.recvOk + 1
      BY <3>2
    <3>5. observed.sent = observed.recvOk + 1
      BY <3>1
    <3> QED
      BY <3>1, <3>3, <3>4, <3>5
  <2>4. CASE SenderStages(p)
    BY <2>4 DEF SenderStages
  <2> QED
    BY <2>1, <2>2, <2>3, <2>4 DEF EntryM1Receiver, EntryM1Sender, EntersCall
<1> QED
  BY <1>2, <1>3 DEF ModulesInv, ModulesType

LEMMA DestroyModuleInv ==
  ASSUME ModulesInv, NEW p \in ModProcs, DestroyModule(p)
  PROVE  ModulesInv'
<1> USE DEF ModulesInv, ModulesType
<1>1. modSlots' = [modSlots EXCEPT ![p] = NoModule] /\ claimed' = claimed /\ recorded' = recorded
      /\ modHandle' = [modHandle EXCEPT ![modSlots[p].mod].live = FALSE]
      /\ UNCHANGED <<envelope, observed>>
  BY DEF DestroyModule
<1>2. modSlots[p].mod \in ModuleNames
  BY DEF DestroyModule, WindowsOnce
<1>3. modSlots' \in [ModProcs -> SlotType] /\ WindowsOnce'
  BY <1>1 DEF SlotType, NoModule, WindowsOnce
<1>4. modHandle' \in [ModuleNames -> [gen : Nat, live : BOOLEAN]] /\ RecordCurrent'
  BY <1>1, <1>2 DEF RecordCurrent
<1> QED
  BY <1>1, <1>3, <1>4 DEF MessagesCounted

LEMMA ModulesNextInv == ModulesInv /\ [ModulesNext]_moduleVars => ModulesInv'
<1> SUFFICES ASSUME ModulesInv, [ModulesNext]_moduleVars PROVE ModulesInv'
  OBVIOUS
<1>1. CASE SetPort
  BY <1>1 DEF SetPort, ModulesInv, ModulesType, WindowsOnce, RecordCurrent, MessagesCounted
<1>2. CASE ModulesReset
  <2>1. \A m \in ModuleNames : modHandle'[m] \in [gen : Nat, live : BOOLEAN] /\ ~modHandle'[m].live
    BY <1>2 DEF ModulesReset, ModulesInv, ModulesType
  <2>2. modHandle' \in [ModuleNames -> [gen : Nat, live : BOOLEAN]] /\ RecordCurrent'
    BY <1>2, <2>1 DEF ModulesReset, RecordCurrent
  <2>3. modSlots' \in [ModProcs -> SlotType] /\ WindowsOnce'
    BY <1>2 DEF ModulesReset, WindowsOnce, SlotType, NoModule
  <2> QED
    BY <1>2, <2>2, <2>3, ArenaAssumption DEF ModulesReset, ModulesInv, ModulesType, MessagesCounted,
       ObservedType, NotObserved
<1>3. CASE UNCHANGED moduleVars
  BY <1>3 DEF moduleVars, ModulesInv, ModulesType, WindowsOnce, RecordCurrent, MessagesCounted
<1> QED
  BY <1>1, <1>2, <1>3, SpawnModuleInv, ModuleStepInv, DestroyModuleInv DEF ModulesNext

\* What the invariant says of windows' numbers holds of the windows.
LEMMA ModulesInvIsolates == ModulesInv => ModulesIsolated
<1> SUFFICES ASSUME ModulesInv PROVE ModulesIsolated
  OBVIOUS
<1>1. ASSUME NEW p \in ModProcs, modSlots[p] # NoModule
      PROVE  modSlots[p].win \in Nat /\ modSlots[p].win < WindowCount /\ AspacePartitions(ArenaSize, WindowCount)
  BY <1>1, ArenaAssumption DEF ModulesInv, ModulesType, WindowsOnce, SlotType
<1>2. \A p \in ModProcs : modSlots[p] # NoModule => WindowSound(ModWindow(p))
  BY <1>1, WindowsSound DEF ModWindow, Per
<1>3. ASSUME NEW p \in ModProcs, NEW q \in ModProcs, p # q, modSlots[p] # NoModule, modSlots[q] # NoModule
      PROVE  Disjoint(ModWindow(p), ModWindow(q))
  <2>1. modSlots[p].win # modSlots[q].win
    BY <1>3 DEF ModulesInv, WindowsOnce
  <2> QED
    BY <1>1, <1>3, <2>1, WindowsDisjoint DEF ModWindow, Per
<1> QED
  BY <1>2, <1>3 DEF ModulesIsolated, ModulesInv, ModulesType, RecordCurrent, MessagesCounted, ObservedType

\* For every arena, number of windows and table size: processes that
\* proc_spawn_module starts have sound, disjoint windows, the handle on record
\* for a module is its live one, and only sent messages are received.
THEOREM ModulesStayIsolated == ModulesSpec => []ModulesIsolated
  BY ModulesInitInv, ModulesNextInv, ModulesInvIsolates, PTL DEF ModulesSpec
=============================================================================
