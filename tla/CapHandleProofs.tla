-------------------------- MODULE CapHandleProofs --------------------------
(***************************************************************************)
(* Theorems about the capability handle table, for every table size, every *)
(* even generation modulus and every set of ids.                           *)
(***************************************************************************)
EXTENDS CapHandle, WellFoundedInduction, NaturalsInduction, TLAPS

(* cap_handle_find_live and cap_handle_find_free_slot scan in slot order:    *)
(* the lowest match exists whenever there is a match.                        *)
LEMMA LowestIsMember ==
  ASSUME NEW S \in SUBSET Slots, S # {}
  PROVE  Lowest(S) \in S
<1> DEFINE R == OpToRel(<, Nat)
<1>1. IsWellFoundedOn(R, Nat)
  BY NatLessThanWellFounded
<1>2. \A a, b \in Nat : a < b => <<a, b>> \in R
  BY DEF OpToRel
<1>3. S \subseteq Nat
  BY TableAssumption DEF Slots
<1> HIDE DEF R
<1>4. PICK x \in S : \A y \in S : ~(<<y, x>> \in R)
  BY <1>1, <1>3, WFMin
<1>5. ASSUME NEW y \in S PROVE x <= y
  <2>1. x \in Nat /\ y \in Nat
    BY <1>3
  <2>2. ~(y < x)
    BY <1>2, <1>4, <2>1, Zenon
  <2> QED
    BY <2>1, <2>2
<1> QED
  BY <1>4, <1>5 DEF Lowest

LEMMA BumpStays ==
  ASSUME NEW g \in Gens
  PROVE  Bump(g) \in Gens
BY GenAssumption DEF Gens, Bump

LEMMA NullHandleType == NullHandle \in Handle
BY GenAssumption, TableAssumption DEF NullHandle, Handle, Gens, TagKernel

LEMMA HandleOfType ==
  ASSUME TypeOK, NEW s \in Slots
  PROVE  HandleOf(s) \in Handle
BY TableAssumption DEF TypeOK, Row, HandleOf, Handle, Slots, TagKernel

(* The revocation counts move by one, and only on a revoked row. *)
LEMMA RevsStep ==
  ASSUME TypeOK, NEW R \in SUBSET Slots, RevokeRows(R), NEW s \in Slots
  PROVE  /\ revs[s] \in 0 .. RevCap
         /\ revs'[s] \in 0 .. RevCap
         /\ revs[s] <= revs'[s]
         /\ (s \in R /\ revs[s] < RevCap) => revs'[s] = revs[s] + 1
<1>1. revs'[s] = IF s \in R /\ revs[s] < RevCap THEN revs[s] + 1 ELSE revs[s]
  BY DEF RevokeRows
<1>2. revs[s] \in 0 .. RevCap
  BY DEF TypeOK
<1>3. CASE s \in R /\ revs[s] < RevCap
  <2>1. revs'[s] = revs[s] + 1
    BY <1>1, <1>3
  <2> QED
    BY <1>2, <1>3, <2>1, RevCapAssumption
<1>4. CASE ~(s \in R /\ revs[s] < RevCap)
  <2>1. revs'[s] = revs[s]
    BY <1>1, <1>4
  <2> QED
    BY <1>2, <1>4, <2>1, RevCapAssumption
<1> QED
  BY <1>3, <1>4

(* Every revocation, whatever set of live rows it takes, keeps the           *)
(* invariant.                                                                *)
LEMMA RevokeRowsInv ==
  ASSUME IInv, NEW R \in SUBSET Slots, \A s \in R : Live(s), RevokeRows(R)
  PROVE  IInv'
<1> USE DEF IInv
<1>1. TypeOK'
  <2>1. rows' \in [Slots -> Row]
    BY BumpStays DEF TypeOK, Row, RevokeRows
  <2>2. dead' \subseteq Handle
    BY HandleOfType DEF TypeOK, RevokeRows
  <2>3. revs' \in [Slots -> 0 .. RevCap]
    BY RevsStep DEF RevokeRows
  <2> QED
    BY <2>1, <2>2, <2>3 DEF TypeOK
<1>2. OneLiveRowPerPair'
  <2>1. \A s \in Slots : Live(s)' => Live(s) /\ rows'[s] = rows[s]
    BY DEF RevokeRows, Live, TypeOK, Row
  <2> QED
    BY <2>1 DEF OneLiveRowPerPair
<1>3. GenerationCounts'
  <2> SUFFICES ASSUME NEW s \in Slots, 2 * revs'[s] < GenMod
               PROVE  rows'[s].gen = 2 * revs'[s] + (IF Live(s)' THEN 1 ELSE 0)
    BY DEF GenerationCounts, Live
  <2>1. CASE s \in R
    <3>1. revs[s] \in 0 .. RevCap /\ rows[s].gen \in Gens
      BY DEF TypeOK, Row
    <3>2. revs'[s] = revs[s] + 1
      BY <2>1, RevsStep, GenAssumption, RevCapAssumption
    <3>3. rows[s].gen = 2 * revs[s] + 1
      BY <2>1, <3>1, <3>2, GenAssumption, RevCapAssumption DEF GenerationCounts
    <3>4. rows'[s].gen = Bump(rows[s].gen) /\ ~Live(s)'
      BY <2>1 DEF RevokeRows, TypeOK, Row, Live
    <3> QED
      BY <3>1, <3>2, <3>3, <3>4, GenAssumption, RevCapAssumption DEF Bump
  <2>2. CASE s \notin R
    BY <2>2 DEF RevokeRows, GenerationCounts, Live
  <2> QED
    BY <2>1, <2>2
<1>4. DeadHandlesOlder'
  <2> SUFFICES ASSUME NEW h \in dead'
               PROVE  /\ h.slot \in Slots
                      /\ 2 * revs'[h.slot] < GenMod => h.gen < 2 * revs'[h.slot]
    BY DEF DeadHandlesOlder
  <2>0. \A s \in Slots : revs[s] \in 0 .. RevCap /\ revs'[s] \in 0 .. RevCap
                           /\ revs[s] <= revs'[s]
    BY RevsStep
  <2>1. CASE h \in dead
    <3>1. h.slot \in Slots /\ h.gen \in Gens
      BY <2>1 DEF DeadHandlesOlder, TypeOK, Handle
    <3>2. 2 * revs[h.slot] < GenMod => h.gen < 2 * revs[h.slot]
      BY <2>1 DEF DeadHandlesOlder
    <3> QED
      BY <2>0, <3>1, <3>2, GenAssumption, RevCapAssumption DEF Gens
  <2>2. CASE h \notin dead
    <3>1. PICK s \in R : h = HandleOf(s)
      BY <2>2 DEF RevokeRows
    <3>2. h.slot = s /\ h.gen = rows[s].gen
      BY <3>1 DEF HandleOf
    <3>3. ASSUME 2 * revs'[s] < GenMod PROVE rows[s].gen < 2 * revs'[s]
      <4>1. revs'[s] = revs[s] + 1
        BY <3>3, RevsStep, GenAssumption, RevCapAssumption
      <4>2. rows[s].gen = 2 * revs[s] + 1
        BY <2>0, <3>3, <4>1, GenAssumption, RevCapAssumption DEF GenerationCounts
      <4> QED
        BY <2>0, <4>1, <4>2, RevCapAssumption
    <3> QED
      BY <3>2, <3>3
  <2> QED
    BY <2>1, <2>2
<1> QED
  BY <1>1, <1>2, <1>3, <1>4

(* The row a grant takes is a row of the table that is not live. *)
LEMMA FreeSlotNotLive ==
  ASSUME FreeCandidates # {}
  PROVE  Lowest(FreeCandidates) \in Slots /\ ~Live(Lowest(FreeCandidates))
<1>1. FreeCandidates \in SUBSET Slots /\ \A s \in FreeCandidates : ~Live(s)
  BY DEF FreeCandidates, Live
<1> QED
  BY <1>1, LowestIsMember

LEMMA GrantChildInv ==
  ASSUME IInv, NEW o \in Subjects, NEW c \in Caps, NEW p \in Handle,
         GrantChild(o, c, p)
  PROVE  IInv'
<1> USE DEF IInv
<1>1. PICK f \in Slots : f = Lowest(FreeCandidates) /\ ~Live(f)
  BY FreeSlotNotLive DEF GrantChild
<1>2. /\ rows' = [rows EXCEPT ![f] = [flag |-> "live", cap |-> c, owner |-> o,
                                     parent |-> p, gen |-> Bump(rows[f].gen)]]
      /\ UNCHANGED <<dead, revs>>
  BY <1>1 DEF GrantChild, GrantRow
<1>3. TypeOK'
  <2>1. Bump(rows[f].gen) \in Gens
    BY <1>1, BumpStays DEF TypeOK, Row
  <2> QED
    BY <1>1, <1>2, <2>1 DEF TypeOK, Row
<1>4. \A s \in Slots \ {f} : rows'[s] = rows[s] /\ (Live(s)' <=> Live(s))
  BY <1>2 DEF TypeOK, Live
<1>5. /\ Live(f)' /\ rows'[f].owner = o /\ rows'[f].cap = c
      /\ rows'[f].gen = Bump(rows[f].gen)
  <2>1. rows'[f] = [flag |-> "live", cap |-> c, owner |-> o,
                    parent |-> p, gen |-> Bump(rows[f].gen)]
    BY <1>1, <1>2 DEF TypeOK
  <2> QED
    BY <2>1 DEF Live
<1>6. OneLiveRowPerPair'
  <2>1. \A s \in Slots : ~(Live(s) /\ rows[s].owner = o /\ rows[s].cap = c)
    BY DEF GrantChild, LiveRowsOf
  <2> QED
    BY <1>1, <1>4, <1>5, <2>1 DEF OneLiveRowPerPair
<1>7. GenerationCounts'
  <2> SUFFICES ASSUME NEW s \in Slots, 2 * revs[s] < GenMod
               PROVE  rows'[s].gen = 2 * revs[s] + (IF Live(s)' THEN 1 ELSE 0)
    BY <1>2 DEF GenerationCounts, Live
  <2>1. CASE s = f
    <3>1. revs[f] \in Nat /\ rows[f].gen = 2 * revs[f]
      BY <1>1, <2>1, RevCapAssumption DEF GenerationCounts, TypeOK
    <3>2. Bump(rows[f].gen) = 2 * revs[f] + 1
      BY <2>1, <3>1, GenAssumption DEF Bump
    <3> QED
      BY <1>5, <2>1, <3>2
  <2>2. CASE s # f
    BY <1>4, <2>2 DEF GenerationCounts
  <2> QED
    BY <2>1, <2>2
<1>8. DeadHandlesOlder'
  BY <1>2 DEF DeadHandlesOlder
<1> QED
  BY <1>3, <1>6, <1>7, <1>8

LEMMA InitInv == Init => IInv
<1> SUFFICES ASSUME Init PROVE IInv
  OBVIOUS
<1>1. TypeOK
  BY NullHandleType, GenAssumption, RevCapAssumption DEF Init, TypeOK, Row, FreeRow, Gens
<1>2. \A s \in Slots : rows[s].gen = 0 /\ ~Live(s) /\ revs[s] = 0
  BY DEF Init, FreeRow, Live
<1>3. OneLiveRowPerPair /\ GenerationCounts /\ DeadHandlesOlder
  BY <1>2 DEF Init, OneLiveRowPerPair, GenerationCounts, DeadHandlesOlder
<1> QED
  BY <1>1, <1>3 DEF IInv

LEMMA NextInv == IInv /\ [Next]_vars => IInv'
<1> SUFFICES ASSUME IInv, [Next]_vars PROVE IInv'
  OBVIOUS
<1>1. ASSUME NEW o \in Subjects, NEW c \in Caps, Grant(o, c)
      PROVE  IInv'
  BY <1>1, GrantChildInv, NullHandleType DEF Grant
<1>2. ASSUME NEW o \in Subjects, NEW c \in Caps, TableRevoke(o, c)
      PROVE  IInv'
  <2>1. /\ LiveRowsOf(o, c) \in SUBSET Slots
        /\ \A s \in LiveRowsOf(o, c) : Live(s)
    BY DEF LiveRowsOf
  <2>2. Lowest(LiveRowsOf(o, c)) \in LiveRowsOf(o, c)
    BY <1>2, <2>1, LowestIsMember DEF TableRevoke
  <2>3. RevokeRows({Lowest(LiveRowsOf(o, c))})
    BY <1>2 DEF TableRevoke
  <2> QED
    BY <2>1, <2>2, <2>3, RevokeRowsInv
<1>3. ASSUME NEW o \in Subjects, NEW c \in Caps, NEW p \in ParentArgs,
             GrantChild(o, c, p)
      PROVE  IInv'
  BY <1>3, GrantChildInv, ParentAssumption
<1>4. ASSUME NEW h \in Handle, Revoke(h)
      PROVE  IInv'
  <2>1. h.slot \in Slots /\ Live(h.slot) /\ RevokeRows({h.slot})
    BY <1>4 DEF Revoke, Resolves
  <2> QED
    BY <2>1, RevokeRowsInv
<1>5. ASSUME NEW h \in Handle, RevokeSubtree(h)
      PROVE  IInv'
  <2> DEFINE R == {s \in Subtree(h.slot) : Live(s)}
  <2>1. R \in SUBSET Slots /\ \A s \in R : Live(s)
    BY DEF Subtree
  <2>2. RevokeRows(R)
    BY <1>5 DEF RevokeSubtree
  <2> QED
    BY <2>1, <2>2, RevokeRowsInv
<1>6. ASSUME NEW o \in Subjects, RevokeSubject(o)
      PROVE  IInv'
  <2> DEFINE R == {s \in Slots : Live(s) /\ rows[s].owner = o}
  <2>1. R \in SUBSET Slots /\ \A s \in R : Live(s)
    OBVIOUS
  <2>2. RevokeRows(R)
    BY <1>6 DEF RevokeSubject
  <2> QED
    BY <2>1, <2>2, RevokeRowsInv
<1>7. CASE Reset
  <2>1. Init'
    BY <1>7 DEF Reset, Init
  <2> QED
    BY <2>1, InitInv, PTL
<1>8. CASE UNCHANGED vars
  BY <1>8 DEF vars, IInv, TypeOK, OneLiveRowPerPair, GenerationCounts,
              DeadHandlesOlder, Live
<1> QED
  BY <1>1, <1>2, <1>3, <1>4, <1>5, <1>6, <1>7, <1>8 DEF Next

(* The table keeps its shape under every operation of cap_handle.c. *)
THEOREM TypeCorrect == Spec => []TypeOK
<1>1. IInv => TypeOK
  BY DEF IInv
<1> QED
  BY InitInv, NextInv, <1>1, PTL DEF Spec

(* A (subject, capability) pair never has two live rows, so the first match  *)
(* cap_handle_table_revoke stops at is the only one.                         *)
THEOREM UniqueLiveRow == Spec => []OneLiveRowPerPair
<1>1. IInv => OneLiveRowPerPair
  BY DEF IInv
<1> QED
  BY InitInv, NextInv, <1>1, PTL DEF Spec

(* A revoked handle value stays denied through the first GenMod / 2 - 1      *)
(* revocations of its slot, for every table size and generation width.       *)
THEOREM RevokedStaysDenied == Spec => []StaleHandlesDenied
<1>1. IInv => StaleHandlesDenied
  <2> SUFFICES ASSUME IInv, NEW h \in dead, 2 * revs[h.slot] < GenMod, Resolves(h)
               PROVE  FALSE
    BY DEF StaleHandlesDenied
  <2>1. h.slot \in Slots /\ h.gen < 2 * revs[h.slot]
    BY DEF IInv, DeadHandlesOlder
  <2>2. h.gen = 2 * revs[h.slot] + 1
    BY <2>1 DEF Resolves, IInv, GenerationCounts
  <2>3. revs[h.slot] \in Nat
    BY <2>1, RevCapAssumption DEF IInv, TypeOK
  <2> QED
    BY <2>1, <2>2, <2>3
<1> QED
  BY InitInv, NextInv, <1>1, PTL DEF Spec

(* No operation rebinds the owner, the capability or the parent of a row     *)
(* under a handle that keeps resolving.                                      *)
THEOREM BindingNeverChanges == Spec => BindingStable
<1> DEFINE Stable(s) == (Live(s) /\ Live(s)' /\ rows'[s].gen = rows[s].gen)
                          => rows'[s] = rows[s]
<1>1. ASSUME NEW R \in SUBSET Slots, RevokeRows(R), NEW s \in Slots, TypeOK
      PROVE  Stable(s)
  BY <1>1 DEF RevokeRows, Live, TypeOK, Row
<1>2. ASSUME NEW o, NEW c, NEW p, GrantChild(o, c, p), NEW s \in Slots, TypeOK
      PROVE  Stable(s)
  <2>1. /\ Lowest(FreeCandidates) \in Slots
        /\ ~Live(Lowest(FreeCandidates))
    BY <1>2, FreeSlotNotLive DEF GrantChild
  <2> QED
    BY <1>2, <2>1 DEF GrantChild, GrantRow, TypeOK
<1>3. ASSUME TypeOK, [Next]_vars, NEW s \in Slots
      PROVE  Stable(s)
  <2>1. ASSUME NEW o \in Subjects, NEW c \in Caps, TableRevoke(o, c)
        PROVE  Stable(s)
    <3>1. LiveRowsOf(o, c) \in SUBSET Slots /\ LiveRowsOf(o, c) # {}
      BY <2>1 DEF LiveRowsOf, TableRevoke
    <3>2. {Lowest(LiveRowsOf(o, c))} \in SUBSET Slots
      BY <3>1, LowestIsMember
    <3> QED
      BY <2>1, <3>2, <1>1, <1>3 DEF TableRevoke
  <2>2. ASSUME NEW h \in Handle, Revoke(h)
        PROVE  Stable(s)
    BY <2>2, <1>1, <1>3 DEF Revoke, Resolves
  <2>3. ASSUME NEW h \in Handle, RevokeSubtree(h)
        PROVE  Stable(s)
    <3>1. {t \in Subtree(h.slot) : Live(t)} \in SUBSET Slots
      BY DEF Subtree
    <3> QED
      BY <2>3, <3>1, <1>1, <1>3 DEF RevokeSubtree
  <2>4. ASSUME NEW o \in Subjects, RevokeSubject(o)
        PROVE  Stable(s)
    <3>1. {t \in Slots : Live(t) /\ rows[t].owner = o} \in SUBSET Slots
      OBVIOUS
    <3> QED
      BY <2>4, <3>1, <1>1, <1>3 DEF RevokeSubject
  <2>5. CASE Reset
    BY <2>5 DEF Reset, FreeRow, Live
  <2>6. CASE UNCHANGED vars
    BY <2>6 DEF vars
  <2> QED
    BY <2>1, <2>2, <2>3, <2>4, <2>5, <2>6, <1>2, <1>3 DEF Next, Grant
<1>4. TypeOK /\ [Next]_vars =>
        [\A s \in Slots :
           (Live(s) /\ Live(s)' /\ rows'[s].gen = rows[s].gen)
              => rows'[s] = rows[s]]_vars
  BY <1>3
<1> QED
  BY <1>4, TypeCorrect, PTL DEF Spec, BindingStable

(* A subtree revocation never leaves a live child under a parent it has just *)
(* revoked.                                                                  *)
THEOREM SubtreeLeavesNoStrandedChild == Spec => NoStrandedChild
<1>1. ASSUME TypeOK, NEW r \in Slots, RevokeSubtree(HandleOf(r)), NEW s \in Slots,
             Live(s)', Resolves(rows[s].parent)
      PROVE  Resolves(rows[s].parent)'
  <2>1. PICK R \in SUBSET Slots : R = {t \in Subtree(r) : Live(t)}
    BY DEF Subtree
  <2>2. rows' = [t \in Slots |->
                   IF t \in R
                   THEN [rows[t] EXCEPT !.flag = "revoked", !.gen = Bump(rows[t].gen)]
                   ELSE rows[t]]
    BY <1>1, <2>1 DEF RevokeSubtree, RevokeRows, HandleOf
  <2>3. s \notin R
    <3>1. SUFFICES ASSUME s \in R PROVE FALSE
      OBVIOUS
    <3>2. rows'[s].flag = "revoked"
      BY <1>1, <2>2, <3>1 DEF TypeOK, Row
    <3> QED
      BY <1>1, <3>2 DEF Live
  <2>4. rows'[s] = rows[s] /\ Live(s)
    BY <1>1, <2>2, <2>3 DEF Live
  <2>5. PICK p \in Handle : p = rows[s].parent
    BY <1>1 DEF TypeOK, Row
  <2>6. p.slot \in Slots /\ Live(p.slot) /\ p # NullHandle
    BY <1>1, <2>5 DEF Resolves, NullHandle, TagKernel
  <2>7. p.slot \in Subtree(r) => s \in Subtree(r)
    BY <2>5, <2>6 DEF Subtree, ParentIn
  <2>8. rows'[p.slot] = rows[p.slot]
    BY <2>1, <2>2, <2>3, <2>4, <2>6, <2>7
  <2>9. Resolves(p)'
    BY <1>1, <2>5, <2>8 DEF Resolves, Live
  <2> QED
    BY <2>4, <2>5, <2>9 DEF Resolves, Live
<1>2. TypeOK /\ [Next]_vars =>
        [\A r \in Slots : RevokeSubtree(HandleOf(r)) =>
           \A s \in Slots :
             (Live(s)' /\ Resolves(rows[s].parent)) => Resolves(rows[s].parent)']_vars
  BY <1>1
<1> QED
  BY <1>2, TypeCorrect, PTL DEF Spec, NoStrandedChild
=============================================================================
