---------------------------- MODULE LaunchProofs ----------------------------
(***************************************************************************)
(* For every number of spawns and processes: what the launcher hands to a  *)
(* program it starts is not shared with another one.                       *)
(***************************************************************************)
EXTENDS Apps, WellFoundedInduction, FiniteSetTheorems, TLAPS

\* Tables are searched in their order: the first slot of a set of slots is one
\* of them.
LEMMA MinIsMember ==
  ASSUME NEW S \in SUBSET Nat, S # {}
  PROVE  Min(S) \in S
<1> DEFINE below == OpToRel(<, Nat)
<1>1. \A a, b \in Nat : a < b => <<a, b>> \in below
  BY DEF OpToRel
<1>2. IsWellFoundedOn(below, Nat)
  BY NatLessThanWellFounded
<1> HIDE DEF below
<1>3. PICK x \in S : \A y \in S : ~(<<y, x>> \in below)
  BY <1>2, WFMin
<1>4. \A y \in S : ~(y < x) /\ x \in Nat /\ y \in Nat
  BY <1>1, <1>3, Zenon
<1>5. \A y \in S : x <= y
  BY <1>4
<1> QED
  BY <1>5 DEF Min

HandleType == [own : Nat, cap : Fields \cup {"none"}, valid : BOOLEAN]
SpawnType == [pid : Nat, win : Nat, sub : Nat]

LauncherType ==
  /\ procs \in SUBSET [pid : Nat, sub : Nat] /\ IsFiniteSet(procs)
  /\ spawns \in [SpawnSlots -> SpawnType]
  /\ nextWindow \in Nat \ {0}
  /\ scratch \in [SpawnSlots -> [Fields -> HandleType]]

Runs(s) == s \in SpawnSlots /\ spawns[s] # NoSpawn

\* A spawn has a window that was handed out, an app's subject, and a process
\* that is still there.
SpawnsBacked ==
  \A s \in SpawnSlots : spawns[s] # NoSpawn =>
    /\ spawns[s].win \in SpawnSlots /\ spawns[s].win < nextWindow
    /\ spawns[s].sub \in AppSubjects
    /\ [pid |-> spawns[s].pid, sub |-> spawns[s].sub] \in procs

SpawnsApart ==
  \A s, t \in SpawnSlots : s # t /\ spawns[s] # NoSpawn /\ spawns[t] # NoSpawn =>
    spawns[s].win # spawns[t].win /\ spawns[s].pid # spawns[t].pid

StampsOwn ==
  \A s \in SpawnSlots, f \in Fields :
    spawns[s] # NoSpawn /\ scratch[spawns[s].win][f] # NoHandle =>
      scratch[spawns[s].win][f].own = spawns[s].sub /\ scratch[spawns[s].win][f].cap = f

WritersRegistered == writers \subseteq registered

ValidHeld ==
  \A w \in SpawnSlots, f \in Fields :
    scratch[w][f].valid =>
      /\ Pair(scratch[w][f].own, f) \in minted
      /\ \E s \in SpawnSlots : spawns[s] # NoSpawn /\ spawns[s].sub = scratch[w][f].own

LauncherInv == LauncherType /\ SpawnsBacked /\ SpawnsApart /\ StampsOwn /\ WritersRegistered /\ ValidHeld

LEMMA LauncherInitInv == LauncherInit => LauncherInv
<1> SUFFICES ASSUME LauncherInit PROVE LauncherInv
  OBVIOUS
<1>1. NoSpawn \in SpawnType /\ ZeroedScratch \in [Fields -> HandleType]
  BY DEF NoSpawn, SpawnType, ZeroedScratch, HandleType, NoHandle
<1>2. LauncherType
  BY <1>1, FS_EmptySet DEF LauncherInit, LauncherType
<1>3. ValidHeld
  BY DEF LauncherInit, ValidHeld, ZeroedScratch, NoHandle
<1> QED
  BY <1>2, <1>3 DEF LauncherInit, LauncherInv, SpawnsBacked, SpawnsApart, StampsOwn, WritersRegistered

\* process_create finds a process id that is in nobody's hands.
LEMMA FreshPidIsFresh ==
  ASSUME LauncherInv, Cardinality(procs) < ProcMax
  PROVE  /\ FreshPid \in Nat \ {0}
         /\ \A p \in procs : p.pid # FreshPid
         /\ \A s \in SpawnSlots : spawns[s].pid # FreshPid
<1> DEFINE used == {p.pid : p \in procs}
           held == {spawns[s].pid : s \in SpawnSlots}
           ids == 1 .. (ProcMax + 1)
<1>1. IsFiniteSet(used) /\ Cardinality(used) <= Cardinality(procs)
  <2>1. [p \in procs |-> p.pid] \in Surjection(procs, used)
    BY DEF Surjection
  <2>2. IsFiniteSet(procs)
    BY DEF LauncherInv, LauncherType
  <2> HIDE DEF used
  <2> QED
    BY <2>1, <2>2, FS_Surjection
<1>2. held \subseteq used \cup {0}
  <2>1. ASSUME NEW s \in SpawnSlots, spawns[s] # NoSpawn PROVE spawns[s].pid \in used
    <3>1. [pid |-> spawns[s].pid, sub |-> spawns[s].sub] \in procs
      BY <2>1 DEF LauncherInv, SpawnsBacked
    <3> QED
      BY <3>1
  <2>2. NoSpawn.pid = 0
    BY DEF NoSpawn
  <2> HIDE DEF used
  <2> QED
    BY <2>1, <2>2
<1>3. IsFiniteSet(ids) /\ Cardinality(ids) = ProcMax + 1
  BY FS_Interval, LauncherAssumption
<1>4. Cardinality(procs) \in Nat /\ Cardinality(used) \in Nat
  BY <1>1, FS_CardinalityType DEF LauncherInv, LauncherType
<1>5. ids \ (used \cup held) # {}
  <2>1. SUFFICES ASSUME ids \subseteq used PROVE FALSE
    BY <1>2
  <2>2. Cardinality(ids) <= Cardinality(used)
    BY <1>1, <2>1, FS_Subset
  <2> QED
    BY <1>1, <1>3, <1>4, <2>2, LauncherAssumption
<1>6. FreshPid \in ids \ (used \cup held)
  BY <1>5, MinIsMember, ids \ (used \cup held) \in SUBSET Nat, LauncherAssumption DEF FreshPid
<1> QED
  BY <1>6, LauncherAssumption

\* cap_handle_revoke_subject leaves whose handle it was and what it was for.
LEMMA DeadFacts ==
  ASSUME NEW h \in HandleType, NEW sub \in AppSubjects
  PROVE  /\ Dead(h, sub) \in HandleType
         /\ Dead(h, sub).own = h.own /\ Dead(h, sub).cap = h.cap
         /\ Dead(h, sub).valid => h.valid /\ h.own # sub
         /\ h = NoHandle => Dead(h, sub) = NoHandle
<1>1. h = NoHandle => h.own # sub
  BY LauncherAssumption DEF NoHandle
<1>2. CASE h.own = sub
  <2>1. Dead(h, sub) = [own |-> h.own, cap |-> h.cap, valid |-> FALSE]
    BY <1>2 DEF Dead, HandleType
  <2> QED
    BY <1>1, <1>2, <2>1 DEF HandleType
<1>3. CASE h.own # sub
  BY <1>3 DEF Dead
<1> QED
  BY <1>2, <1>3

\* The windows after cap_handle_revoke_subject.
Killed(S, sub) == [w \in SpawnSlots |-> [f \in Fields |-> Dead(S[w][f], sub)]]

LEMMA KilledFacts ==
  ASSUME NEW S \in [SpawnSlots -> [Fields -> HandleType]], NEW sub \in AppSubjects
  PROVE  /\ Killed(S, sub) \in [SpawnSlots -> [Fields -> HandleType]]
         /\ \A w \in SpawnSlots, f \in Fields :
              /\ Killed(S, sub)[w][f].own = S[w][f].own /\ Killed(S, sub)[w][f].cap = S[w][f].cap
              /\ Killed(S, sub)[w][f] # NoHandle => S[w][f] # NoHandle
              /\ Killed(S, sub)[w][f].valid => S[w][f].valid /\ S[w][f].own # sub
<1>1. \A w \in SpawnSlots, f \in Fields :
        Killed(S, sub)[w][f] = Dead(S[w][f], sub) /\ S[w][f] \in HandleType
  BY DEF Killed
<1>2. \A w \in SpawnSlots, f \in Fields : Dead(S[w][f], sub) \in HandleType
  BY <1>1, DeadFacts
<1>3. Killed(S, sub) \in [SpawnSlots -> [Fields -> HandleType]]
  BY <1>2 DEF Killed
<1>4. \A w \in SpawnSlots, f \in Fields :
        /\ Killed(S, sub)[w][f].own = S[w][f].own /\ Killed(S, sub)[w][f].cap = S[w][f].cap
        /\ Killed(S, sub)[w][f] # NoHandle => S[w][f] # NoHandle
        /\ Killed(S, sub)[w][f].valid => S[w][f].valid /\ S[w][f].own # sub
  BY <1>1, DeadFacts
<1> QED
  BY <1>3, <1>4

LEMMA DestroySpawnInv ==
  ASSUME LauncherInv, NEW s \in SpawnSlots, DestroySpawn(s)
  PROVE  LauncherInv'
<1> DEFINE sub == spawns[s].sub
<1> USE DEF LauncherInv, LauncherType
<1>1. /\ spawns[s] # NoSpawn /\ sub \in AppSubjects /\ spawns' = [spawns EXCEPT ![s] = NoSpawn]
      /\ procs' = {p \in procs : p.pid # spawns[s].pid}
      /\ minted' = {h \in minted : h.own # sub} /\ scratch' = Killed(scratch, sub)
      /\ UNCHANGED <<registered, writers, nextWindow>>
  BY DEF DestroySpawn, SpawnsBacked, KillHandles, Killed
<1>2. /\ scratch' \in [SpawnSlots -> [Fields -> HandleType]]
      /\ \A w \in SpawnSlots, f \in Fields :
           /\ scratch'[w][f].own = scratch[w][f].own /\ scratch'[w][f].cap = scratch[w][f].cap
           /\ scratch'[w][f] # NoHandle => scratch[w][f] # NoHandle
           /\ scratch'[w][f].valid => scratch[w][f].valid /\ scratch[w][f].own # sub
      /\ \A h \in minted : h.own # sub => h \in minted'
  <2>1. scratch \in [SpawnSlots -> [Fields -> HandleType]] /\ sub \in AppSubjects
    BY <1>1
  <2>2. scratch' = Killed(scratch, sub) /\ \A h \in minted : h.own # sub => h \in minted'
    BY <1>1
  <2> HIDE DEF sub, LauncherInv, LauncherType
  <2> QED
    BY <2>1, <2>2, KilledFacts
<1>3. \A t \in SpawnSlots : spawns'[t] # NoSpawn => t # s /\ spawns'[t] = spawns[t]
  BY <1>1
<1>4. LauncherType'
  <2>1. NoSpawn \in SpawnType
    BY DEF NoSpawn, SpawnType
  <2>2. IsFiniteSet(procs')
    BY <1>1, FS_Subset
  <2> QED
    BY <1>1, <1>2, <2>1, <2>2
<1>5. SpawnsBacked'
  <2> SUFFICES ASSUME NEW t \in SpawnSlots, spawns'[t] # NoSpawn
               PROVE  /\ spawns'[t].win \in SpawnSlots /\ spawns'[t].win < nextWindow'
                      /\ spawns'[t].sub \in AppSubjects
                      /\ [pid |-> spawns'[t].pid, sub |-> spawns'[t].sub] \in procs'
    BY DEF SpawnsBacked
  <2>1. t # s /\ spawns'[t] = spawns[t] /\ spawns[t].pid # spawns[s].pid
    BY <1>1, <1>3 DEF SpawnsApart
  <2>2. [pid |-> spawns[t].pid, sub |-> spawns[t].sub] \in procs
    BY <2>1 DEF SpawnsBacked
  <2> QED
    BY <1>1, <2>1, <2>2 DEF SpawnsBacked
<1>6. SpawnsApart'
  BY <1>3 DEF SpawnsApart
<1>7. StampsOwn'
  <2> SUFFICES ASSUME NEW t \in SpawnSlots, NEW f \in Fields,
                      spawns'[t] # NoSpawn, scratch'[spawns'[t].win][f] # NoHandle
               PROVE  /\ scratch'[spawns'[t].win][f].own = spawns'[t].sub
                      /\ scratch'[spawns'[t].win][f].cap = f
    BY DEF StampsOwn
  <2>1. spawns'[t] = spawns[t] /\ spawns[t] # NoSpawn /\ spawns[t].win \in SpawnSlots
    BY <1>3 DEF SpawnsBacked
  <2>2. scratch[spawns[t].win][f] # NoHandle
    BY <1>2, <2>1
  <2> QED
    BY <1>2, <2>1, <2>2 DEF StampsOwn
<1>8. WritersRegistered'
  BY <1>1 DEF WritersRegistered
<1>9. ValidHeld'
  <2> SUFFICES ASSUME NEW w \in SpawnSlots, NEW f \in Fields, scratch'[w][f].valid
               PROVE  /\ Pair(scratch'[w][f].own, f) \in minted'
                      /\ \E t \in SpawnSlots : spawns'[t] # NoSpawn /\ spawns'[t].sub = scratch'[w][f].own
    BY DEF ValidHeld
  <2>1. scratch[w][f].valid /\ scratch[w][f].own # sub /\ scratch'[w][f].own = scratch[w][f].own
    BY <1>2
  <2>2. Pair(scratch[w][f].own, f) \in minted /\ Pair(scratch[w][f].own, f).own # sub
    BY <2>1 DEF ValidHeld, Pair
  <2>3. PICK t \in SpawnSlots : spawns[t] # NoSpawn /\ spawns[t].sub = scratch[w][f].own
    BY <2>1 DEF ValidHeld
  <2>4. t # s /\ spawns'[t] = spawns[t]
    BY <1>1, <2>1, <2>3
  <2> QED
    BY <1>2, <2>1, <2>2, <2>3, <2>4
<1> QED
  BY <1>4, <1>5, <1>6, <1>7, <1>8, <1>9

\* The handle table is full: the window is cleared, nothing runs in it.
LEMMA SpawnWithoutHandleInv ==
  ASSUME LauncherInv, NEW kind, NEW sub \in AppSubjects, SpawnWithoutHandle(kind, sub)
  PROVE  LauncherInv'
<1> DEFINE S == [scratch EXCEPT ![nextWindow] = ZeroedScratch]
<1>1. /\ spawns' = spawns /\ procs' = procs /\ nextWindow' = nextWindow + 1 /\ nextWindow <= SpawnMax
      /\ scratch' = Killed(S, sub) /\ \A h \in minted : h.own # sub => h \in minted'
      /\ registered \subseteq registered'
      /\ writers' = writers \/ (writers' = writers \cup {sub} /\ sub \in registered')
  BY DEF SpawnWithoutHandle, CanStart, KillHandles, Killed, RootMinted, RegisterIfConsole, GrantBits,
     IsConsoleSpawn, ConsoleKinds
<1>2. nextWindow \in SpawnSlots /\ nextWindow \in Nat \ {0} /\ scratch \in [SpawnSlots -> [Fields -> HandleType]]
  BY <1>1, LauncherAssumption DEF LauncherInv, LauncherType, SpawnSlots
<1>3. ZeroedScratch \in [Fields -> HandleType] /\ \A f \in Fields : ZeroedScratch[f] = NoHandle /\ ~NoHandle.valid
  BY DEF ZeroedScratch, HandleType, NoHandle
<1>4. /\ S \in [SpawnSlots -> [Fields -> HandleType]] /\ S[nextWindow] = ZeroedScratch
      /\ \A w \in SpawnSlots : w # nextWindow => S[w] = scratch[w]
  BY <1>2, <1>3
<1> HIDE DEF S
<1>5. /\ scratch' \in [SpawnSlots -> [Fields -> HandleType]]
      /\ \A w \in SpawnSlots, f \in Fields :
           /\ scratch'[w][f].own = S[w][f].own /\ scratch'[w][f].cap = S[w][f].cap
           /\ scratch'[w][f] # NoHandle => S[w][f] # NoHandle
           /\ scratch'[w][f].valid => S[w][f].valid /\ S[w][f].own # sub
  BY <1>1, <1>4, KilledFacts
<1>6. LauncherType'
  BY <1>1, <1>2, <1>5 DEF LauncherInv, LauncherType
<1>7. SpawnsBacked' /\ SpawnsApart'
  <2>1. \A w \in SpawnSlots : w < nextWindow => w < nextWindow'
    BY <1>1, <1>2, LauncherAssumption DEF SpawnSlots
  <2>2. SpawnsBacked'
    BY <1>1, <2>1 DEF LauncherInv, SpawnsBacked
  <2> QED
    BY <1>1, <2>2 DEF LauncherInv, SpawnsApart
<1>8. StampsOwn'
  <2> SUFFICES ASSUME NEW s \in SpawnSlots, NEW f \in Fields,
                      spawns[s] # NoSpawn, scratch'[spawns[s].win][f] # NoHandle
               PROVE  scratch'[spawns[s].win][f].own = spawns[s].sub /\ scratch'[spawns[s].win][f].cap = f
    BY <1>1 DEF StampsOwn
  <2>1. spawns[s].win \in SpawnSlots /\ spawns[s].win < nextWindow
    BY DEF LauncherInv, SpawnsBacked
  <2>2. S[spawns[s].win] = scratch[spawns[s].win]
    BY <1>2, <1>4, <2>1 DEF SpawnSlots
  <2> QED
    BY <1>5, <2>1, <2>2 DEF LauncherInv, StampsOwn
<1>9. WritersRegistered'
  BY <1>1 DEF LauncherInv, WritersRegistered
<1>10. ValidHeld'
  <2> SUFFICES ASSUME NEW w \in SpawnSlots, NEW f \in Fields, scratch'[w][f].valid
               PROVE  /\ Pair(scratch'[w][f].own, f) \in minted'
                      /\ \E s \in SpawnSlots : spawns[s] # NoSpawn /\ spawns[s].sub = scratch'[w][f].own
    BY <1>1 DEF ValidHeld
  <2>1. S[w][f].valid /\ S[w][f].own # sub /\ scratch'[w][f].own = S[w][f].own
    BY <1>5
  <2>2. S[w] = scratch[w]
    BY <1>3, <1>4, <2>1
  <2>3. Pair(scratch[w][f].own, f) \in minted /\ Pair(scratch[w][f].own, f).own = scratch[w][f].own
    BY <2>1, <2>2 DEF LauncherInv, ValidHeld, Pair
  <2>4. \E s \in SpawnSlots : spawns[s] # NoSpawn /\ spawns[s].sub = scratch[w][f].own
    BY <2>1, <2>2 DEF LauncherInv, ValidHeld
  <2> QED
    BY <1>1, <2>1, <2>2, <2>3, <2>4
<1> QED
  BY <1>6, <1>7, <1>8, <1>9, <1>10 DEF LauncherInv

\* A spawn to the end: the new window is the next one, the new process fresh.
LEMMA SpawnWorksInv ==
  ASSUME LauncherInv, NEW kind, NEW sub \in AppSubjects, SpawnWorks(kind, sub)
  PROVE  LauncherInv'
<1> DEFINE n == FirstFree
           row == [pid |-> FreshPid, win |-> nextWindow, sub |-> sub]
<1>1. /\ nextWindow' = nextWindow + 1 /\ nextWindow <= SpawnMax /\ Cardinality(procs) < ProcMax
      /\ procs' = procs \cup {[pid |-> FreshPid, sub |-> sub]}
      /\ spawns' = [spawns EXCEPT ![n] = row]
      /\ scratch' = [scratch EXCEPT ![nextWindow] = Stamp(kind, sub)]
      /\ minted \subseteq minted' /\ \A f \in Handover(kind) : Pair(sub, f) \in minted'
      /\ registered \subseteq registered'
      /\ writers' = writers \/ (writers' = writers \cup {sub} /\ sub \in registered')
  BY DEF SpawnWorks, CanStart, AllMinted, RootMinted, RegisterIfConsole, GrantBits, IsConsoleSpawn, ConsoleKinds
<1>2. /\ FreshPid \in Nat \ {0}
      /\ \A p \in procs : p.pid # FreshPid
      /\ \A s \in SpawnSlots : spawns[s].pid # FreshPid
  BY <1>1, FreshPidIsFresh
<1>3. n \in SpawnSlots /\ spawns[n] = NoSpawn
  <2>1. {s \in SpawnSlots : spawns[s] = NoSpawn} # {}
    BY DEF SpawnWorks, CanStart
  <2>2. {s \in SpawnSlots : spawns[s] = NoSpawn} \in SUBSET Nat
    BY LauncherAssumption DEF SpawnSlots
  <2> QED
    BY <2>1, <2>2, MinIsMember DEF FirstFree
<1> HIDE DEF n
<1>4. nextWindow \in SpawnSlots /\ nextWindow \in Nat \ {0}
  BY <1>1, LauncherAssumption DEF LauncherInv, LauncherType, SpawnSlots
<1>5. /\ Stamp(kind, sub) \in [Fields -> HandleType]
      /\ \A f \in Fields : /\ Stamp(kind, sub)[f] # NoHandle =>
                                Stamp(kind, sub)[f].own = sub /\ Stamp(kind, sub)[f].cap = f
                           /\ Stamp(kind, sub)[f].valid => f \in Handover(kind) /\ Stamp(kind, sub)[f].own = sub
  BY LauncherAssumption DEF Stamp, StoredHandle, NoHandle, HandleType
<1>6. /\ scratch'[nextWindow] = Stamp(kind, sub)
      /\ \A w \in SpawnSlots : w # nextWindow => scratch'[w] = scratch[w]
      /\ scratch' \in [SpawnSlots -> [Fields -> HandleType]]
  BY <1>1, <1>4, <1>5 DEF LauncherInv, LauncherType
<1>7. row \in SpawnType /\ row.win = nextWindow /\ row.sub = sub /\ row.pid = FreshPid /\ row # NoSpawn
  BY <1>2, <1>4, LauncherAssumption DEF SpawnType, NoSpawn
<1> HIDE DEF row
<1>8. spawns'[n] = row /\ \A s \in SpawnSlots : s # n => spawns'[s] = spawns[s]
  BY <1>1, <1>3 DEF LauncherInv, LauncherType
<1>9. LauncherType'
  <2>1. IsFiniteSet(procs')
    BY <1>1, FS_AddElement DEF LauncherInv, LauncherType
  <2>2. procs' \in SUBSET [pid : Nat, sub : Nat]
    BY <1>1, <1>2, LauncherAssumption DEF LauncherInv, LauncherType
  <2>3. spawns' \in [SpawnSlots -> SpawnType]
    BY <1>1, <1>3, <1>7 DEF LauncherInv, LauncherType
  <2> QED
    BY <1>1, <1>4, <1>6, <2>1, <2>2, <2>3 DEF LauncherType
<1>10. \A s \in SpawnSlots : s # n /\ spawns[s] # NoSpawn =>
         spawns[s].win \in SpawnSlots /\ spawns[s].win < nextWindow /\ spawns[s].win \in Nat
  <2>1. \A s \in SpawnSlots : s \in Nat
    BY LauncherAssumption DEF SpawnSlots
  <2> QED
    BY <2>1 DEF LauncherInv, SpawnsBacked
<1>11. SpawnsBacked'
  <2> SUFFICES ASSUME NEW s \in SpawnSlots, spawns'[s] # NoSpawn
               PROVE  /\ spawns'[s].win \in SpawnSlots /\ spawns'[s].win < nextWindow'
                      /\ spawns'[s].sub \in AppSubjects
                      /\ [pid |-> spawns'[s].pid, sub |-> spawns'[s].sub] \in procs'
    BY DEF SpawnsBacked
  <2>1. CASE s = n
    BY <1>1, <1>4, <1>7, <1>8, <2>1
  <2>2. CASE s # n
    <3>1. spawns'[s] = spawns[s] /\ spawns[s].win \in SpawnSlots /\ spawns[s].win < nextWindow'
      BY <1>1, <1>4, <1>8, <1>10, <2>2
    <3>2. spawns[s].sub \in AppSubjects /\ [pid |-> spawns[s].pid, sub |-> spawns[s].sub] \in procs
      BY <3>1 DEF LauncherInv, SpawnsBacked
    <3> QED
      BY <1>1, <3>1, <3>2
  <2> QED
    BY <2>1, <2>2
<1>12. SpawnsApart'
  <2>1. \A s \in SpawnSlots : s # n /\ spawns[s] # NoSpawn => spawns[s].win # row.win /\ spawns[s].pid # row.pid
    <3> SUFFICES ASSUME NEW s \in SpawnSlots, s # n, spawns[s] # NoSpawn
                 PROVE  spawns[s].win # nextWindow /\ spawns[s].pid # FreshPid
      BY <1>7
    <3>1. spawns[s].win < nextWindow /\ spawns[s].win \in Nat
      BY <1>10
    <3>2. spawns[s].win # nextWindow
      BY <1>4, <3>1
    <3> QED
      BY <1>2, <3>2
  <2> QED
    BY <1>8, <2>1 DEF LauncherInv, SpawnsApart
<1>13. StampsOwn'
  <2> SUFFICES ASSUME NEW s \in SpawnSlots, NEW f \in Fields,
                      spawns'[s] # NoSpawn, scratch'[spawns'[s].win][f] # NoHandle
               PROVE  scratch'[spawns'[s].win][f].own = spawns'[s].sub /\ scratch'[spawns'[s].win][f].cap = f
    BY DEF StampsOwn
  <2>1. CASE s = n
    BY <1>5, <1>6, <1>7, <1>8, <2>1
  <2>2. CASE s # n
    <3>1. spawns'[s] = spawns[s] /\ scratch'[spawns[s].win] = scratch[spawns[s].win]
      BY <1>4, <1>6, <1>8, <1>10, <2>2
    <3> QED
      BY <3>1 DEF LauncherInv, StampsOwn
  <2> QED
    BY <2>1, <2>2
<1>14. WritersRegistered'
  BY <1>1 DEF LauncherInv, WritersRegistered
<1>15. ValidHeld'
  <2> SUFFICES ASSUME NEW w \in SpawnSlots, NEW f \in Fields, scratch'[w][f].valid
               PROVE  /\ Pair(scratch'[w][f].own, f) \in minted'
                      /\ \E s \in SpawnSlots : spawns'[s] # NoSpawn /\ spawns'[s].sub = scratch'[w][f].own
    BY DEF ValidHeld
  <2>1. CASE w = nextWindow
    BY <1>1, <1>3, <1>5, <1>6, <1>7, <1>8, <2>1
  <2>2. CASE w # nextWindow
    <3>1. scratch'[w] = scratch[w] /\ Pair(scratch[w][f].own, f) \in minted
      BY <1>6, <2>2 DEF LauncherInv, ValidHeld
    <3>2. PICK s \in SpawnSlots : spawns[s] # NoSpawn /\ spawns[s].sub = scratch[w][f].own
      BY <1>6, <2>2 DEF LauncherInv, ValidHeld
    <3>3. s # n /\ spawns'[s] = spawns[s]
      BY <1>3, <1>8, <3>2
    <3> QED
      BY <1>1, <3>1, <3>2, <3>3
  <2> QED
    BY <2>1, <2>2
<1> QED
  BY <1>9, <1>11, <1>12, <1>13, <1>14, <1>15 DEF LauncherInv

\* launcher_reset and launcher_spawn_reset leave nothing running and no valid
\* handle in any window.
LEMMA LauncherResetInv ==
  ASSUME LauncherInv, LauncherReset
  PROVE  LauncherInv'
<1>1. /\ spawns' = [s \in SpawnSlots |-> NoSpawn] /\ nextWindow' = 1
      /\ writers' = writers \ registered /\ procs' \subseteq procs
      /\ scratch' = [w \in SpawnSlots |-> [f \in Fields |->
                       IF \E s \in SpawnSlots : spawns[s].sub = scratch[w][f].own
                       THEN [scratch[w][f] EXCEPT !.valid = FALSE] ELSE scratch[w][f]]]
  BY DEF LauncherReset, SpawnReset
<1>2. \A w \in SpawnSlots, f \in Fields : scratch'[w][f] \in HandleType /\ ~scratch'[w][f].valid
  <2> SUFFICES ASSUME NEW w \in SpawnSlots, NEW f \in Fields
               PROVE  scratch'[w][f] \in HandleType /\ ~scratch'[w][f].valid
    OBVIOUS
  <2>1. scratch[w][f] \in HandleType
    BY DEF LauncherInv, LauncherType
  <2>2. CASE \E s \in SpawnSlots : spawns[s].sub = scratch[w][f].own
    <3>1. scratch'[w][f] = [scratch[w][f] EXCEPT !.valid = FALSE]
      BY <1>1, <2>2
    <3> QED
      BY <2>1, <3>1 DEF HandleType
  <2>3. CASE ~\E s \in SpawnSlots : spawns[s].sub = scratch[w][f].own
    <3>1. scratch'[w][f] = scratch[w][f]
      BY <1>1, <2>3
    <3>2. ~scratch[w][f].valid
      BY <2>3 DEF LauncherInv, ValidHeld
    <3> QED
      BY <2>1, <3>1, <3>2
  <2> QED
    BY <2>2, <2>3
<1>3. LauncherType'
  <2>1. NoSpawn \in SpawnType
    BY DEF NoSpawn, SpawnType
  <2>2. IsFiniteSet(procs')
    BY <1>1, FS_Subset DEF LauncherInv, LauncherType
  <2>3. scratch' \in [SpawnSlots -> [Fields -> HandleType]]
    <3> DEFINE V(w, f) == IF \E s \in SpawnSlots : spawns[s].sub = scratch[w][f].own
                          THEN [scratch[w][f] EXCEPT !.valid = FALSE] ELSE scratch[w][f]
    <3>1. scratch' = [w \in SpawnSlots |-> [f \in Fields |-> V(w, f)]]
      BY <1>1
    <3> HIDE DEF V
    <3>2. \A w \in SpawnSlots, f \in Fields : V(w, f) \in HandleType
      BY <1>2, <3>1
    <3> QED
      BY <3>1, <3>2
  <2> QED
    BY <1>1, <2>1, <2>2, <2>3 DEF LauncherInv, LauncherType
<1>4. SpawnsBacked' /\ SpawnsApart' /\ StampsOwn'
  BY <1>1 DEF SpawnsBacked, SpawnsApart, StampsOwn
<1>5. WritersRegistered' /\ ValidHeld'
  BY <1>1, <1>2 DEF LauncherInv, WritersRegistered, ValidHeld
<1> QED
  BY <1>3, <1>4, <1>5 DEF LauncherInv

\* Processes of others are no spawn's.
LEMMA OtherProcessInv ==
  ASSUME LauncherInv, OtherProcess
  PROVE  LauncherInv'
<1>1. UNCHANGED <<registered, writers, minted, spawns, nextWindow, scratch>>
  BY DEF OtherProcess
<1>2. /\ procs' \in SUBSET [pid : Nat, sub : Nat] /\ IsFiniteSet(procs')
      /\ \A p \in procs : p.sub # 0 => p \in procs'
  <2>1. CASE Cardinality(procs) < ProcMax /\ procs' = procs \cup {[pid |-> FreshPid, sub |-> 0]}
    <3>1. FreshPid \in Nat
      BY <2>1, FreshPidIsFresh
    <3>2. IsFiniteSet(procs')
      BY <2>1, FS_AddElement DEF LauncherInv, LauncherType
    <3> QED
      BY <2>1, <3>1, <3>2 DEF LauncherInv, LauncherType
  <2>2. CASE \E p \in procs : p.sub = 0 /\ procs' = procs \ {p}
    <3>1. procs' \subseteq procs /\ \A p \in procs : p.sub # 0 => p \in procs'
      BY <2>2
    <3> QED
      BY <3>1, FS_Subset DEF LauncherInv, LauncherType
  <2> QED
    BY <2>1, <2>2 DEF OtherProcess
<1>3. SpawnsBacked'
  <2> SUFFICES ASSUME NEW s \in SpawnSlots, spawns[s] # NoSpawn
               PROVE  [pid |-> spawns[s].pid, sub |-> spawns[s].sub] \in procs'
    BY <1>1 DEF LauncherInv, SpawnsBacked
  <2>1. spawns[s].sub # 0 /\ [pid |-> spawns[s].pid, sub |-> spawns[s].sub] \in procs
    BY LauncherAssumption DEF LauncherInv, SpawnsBacked
  <2> QED
    BY <1>2, <2>1
<1> QED
  BY <1>1, <1>2, <1>3 DEF LauncherInv, LauncherType, SpawnsApart, StampsOwn, WritersRegistered, ValidHeld

\* The calls that leave processes, windows and handles alone, or lose a window.
LEMMA BookkeepingInv ==
  ASSUME LauncherInv, NEW sub \in AppSubjects, NEW kind, NEW reason,
         \/ Register(sub) \/ GrantConsoleWrite(sub) \/ RevokeConsoleWrite(sub) \/ ArenaDenied(reason)
         \/ SpawnWithoutProcess(kind, sub)
  PROVE  LauncherInv'
<1>1. /\ UNCHANGED <<minted, procs, spawns, scratch>>
      /\ nextWindow' = nextWindow \/ nextWindow' = nextWindow + 1
      /\ registered \subseteq registered'
      /\ writers' \subseteq writers \/ (writers' = writers \cup {sub} /\ sub \in registered')
  BY DEF Register, GrantConsoleWrite, RevokeConsoleWrite, ArenaDenied, SpawnWithoutProcess, RegisterIfConsole
<1>2. nextWindow' \in Nat \ {0} /\ \A w \in SpawnSlots : w < nextWindow => w < nextWindow'
  BY <1>1, LauncherAssumption DEF LauncherInv, LauncherType, SpawnSlots
<1>3. SpawnsBacked'
  BY <1>1, <1>2 DEF LauncherInv, SpawnsBacked
<1> QED
  BY <1>1, <1>2, <1>3 DEF LauncherInv, LauncherType, SpawnsApart, StampsOwn, WritersRegistered, ValidHeld

LEMMA LauncherNextInv == LauncherInv /\ [LauncherNext]_launcherVars => LauncherInv'
<1> SUFFICES ASSUME LauncherInv, [LauncherNext]_launcherVars PROVE LauncherInv'
  OBVIOUS
<1>1. CASE UNCHANGED launcherVars
  BY <1>1 DEF launcherVars, LauncherInv, LauncherType, SpawnsBacked, SpawnsApart, StampsOwn, WritersRegistered,
     ValidHeld
<1>2. ASSUME NEW sub \in AppSubjects, NEW kind,
             SpawnAppFromManifest(kind, sub) \/ FsSpawnApp(kind, sub) \/ BrokerSpawnApp(kind, sub)
      PROVE  LauncherInv'
  BY <1>2, SpawnWithoutHandleInv, SpawnWorksInv, BookkeepingInv DEF SpawnAppFromManifest, FsSpawnApp, BrokerSpawnApp
<1>3. ASSUME NEW sub \in AppSubjects, Register(sub) \/ GrantConsoleWrite(sub) \/ RevokeConsoleWrite(sub)
      PROVE  LauncherInv'
  BY <1>3, BookkeepingInv
<1>4. ASSUME NEW reason, ArenaDenied(reason)
      PROVE  LauncherInv'
  BY <1>4 DEF ArenaDenied, LauncherInv, LauncherType, SpawnsBacked, SpawnsApart, StampsOwn, WritersRegistered,
     ValidHeld
<1> QED
  BY <1>1, <1>2, <1>3, <1>4, DestroySpawnInv, LauncherResetInv, OtherProcessInv DEF LauncherNext

\* For every number of windows, processes and handles: spawns of the launcher
\* share no window and no process, hold only their own handles, and leave no
\* valid handle and no console-write bit behind.
THEOREM SpawnsStayIsolated == LauncherSpec => []SpawnsIsolated
<1>1. LauncherInv => SpawnsIsolated
  BY DEF LauncherInv, SpawnsApart, StampsOwn, WritersRegistered, ValidHeld, SpawnsIsolated, AppConsoleWrite
<1> QED
  BY <1>1, LauncherInitInv, LauncherNextInv, PTL DEF LauncherSpec
=============================================================================
