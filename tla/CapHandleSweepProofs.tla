------------------------ MODULE CapHandleSweepProofs ------------------------
(* Partial correctness of the sweep of cap_handle_revoke_subtree, for every  *)
(* table size.                                                               *)
EXTENDS CapHandleSweep, FiniteSetTheorems, TLAPS

LEMMA RowsFinite == IsFiniteSet(Rows) /\ Cardinality(Rows) = RowMax
BY FS_Interval, RowsAssumption DEF Rows

(* A bitmap has at most RowMax bits set, and setting a clear one adds one. *)
LEMMA BitmapSize ==
  ASSUME NEW V \in SUBSET Rows
  PROVE  /\ Cardinality(V) \in Nat
         /\ Cardinality(V) <= RowMax
         /\ \A s \in Rows \ V : Cardinality(V \cup {s}) = Cardinality(V) + 1
<1>1. IsFiniteSet(V) /\ Cardinality(V) <= Cardinality(Rows)
  BY RowsFinite, FS_Subset
<1>2. Cardinality(V) \in Nat
  BY <1>1, FS_CardinalityType
<1>3. ASSUME NEW s \in Rows \ V
      PROVE  Cardinality(V \cup {s}) = Cardinality(V) + 1
  BY <1>1, FS_AddElement
<1> QED
  BY <1>1, <1>2, <1>3, RowsFinite

(* The subtree is itself closed, so following a parent stays inside it. *)
LEMMA SubtreeClosed ==
  ASSUME SweepTypeOK
  PROVE  root \in Subtree /\ Closed(Subtree)
<1>1. root \in Subtree
  BY DEF Subtree, SweepTypeOK
<1>2. ASSUME NEW s \in Rows, par[s] \in Subtree
      PROVE  s \in Subtree
  BY <1>2 DEF Subtree, Closed
<1> QED
  BY <1>1, <1>2 DEF Closed

(* A closed bitmap between the root and the subtree is the subtree. *)
LEMMA ClosedIsSubtree ==
  ASSUME SweepTypeOK, VisitedInSubtree, Closed(visited)
  PROVE  visited = Subtree
BY DEF SweepTypeOK, VisitedInSubtree, Subtree

LEMMA SweepInitInv == SweepInit => SweepInv
<1> SUFFICES ASSUME SweepInit PROVE SweepInv
  OBVIOUS
<1> USE RowsAssumption
<1>1. SweepTypeOK
  <2>1. pass \in 0 .. RowMax /\ row \in 0 .. RowMax
    BY DEF SweepInit
  <2> QED
    BY <2>1 DEF SweepInit, SweepTypeOK
<1>2. VisitedInSubtree
  BY <1>1, SubtreeClosed DEF SweepInit, VisitedInSubtree
<1>3. ScannedClosed
  BY DEF SweepInit, ScannedClosed
<1>4. Cardinality(visited) = 1
  BY FS_Singleton DEF SweepInit
<1>5. PassesAdd
  BY <1>4 DEF SweepInit, PassesAdd
<1>6. RevokedSoFar
  BY DEF SweepInit, RevokedSoFar
<1> QED
  BY <1>1, <1>2, <1>3, <1>5, <1>6 DEF SweepInv

LEMMA VisitRowInv == ASSUME SweepInv, VisitRow PROVE SweepInv'
<1> USE RowsAssumption DEF SweepInv
<1>0. row \in Rows /\ UNCHANGED <<par, liveThen, root, live, pass, stage>>
  BY DEF VisitRow, SweepTypeOK, Rows
<1>1. Subtree' = Subtree
  BY <1>0 DEF Subtree, Closed
<1>2. CASE row \notin visited /\ par[row] \in visited
  <2>1. visited' = visited \cup {row} /\ added' = TRUE /\ row' = row + 1 /\ stage = "sweep"
    BY <1>2 DEF VisitRow
  <2>2. SweepTypeOK'
    BY <1>0, <2>1 DEF SweepTypeOK, Rows
  <2>3. row \in Subtree
    BY <1>0, <1>2, SubtreeClosed DEF VisitedInSubtree, Closed
  <2>4. VisitedInSubtree'
    BY <1>0, <1>1, <2>1, <2>3 DEF VisitedInSubtree
  <2>5. Cardinality(visited') = Cardinality(visited) + 1
    BY <1>0, <1>2, <2>1, BitmapSize DEF SweepTypeOK
  <2>6. Cardinality(visited) \in Nat /\ pass \in Nat
    BY BitmapSize DEF SweepTypeOK
  <2>7. PassesAdd'
    BY <1>0, <2>1, <2>5, <2>6 DEF PassesAdd
  <2>8. ScannedClosed' /\ RevokedSoFar'
    BY <1>0, <2>1 DEF ScannedClosed, RevokedSoFar
  <2> QED
    BY <2>2, <2>4, <2>7, <2>8
<1>3. CASE ~(row \notin visited /\ par[row] \in visited)
  <2>1. UNCHANGED <<visited, added>> /\ row' = row + 1 /\ stage = "sweep"
    BY <1>3 DEF VisitRow
  <2>2. SweepTypeOK'
    BY <1>0, <2>1 DEF SweepTypeOK, Rows
  <2>3. VisitedInSubtree' /\ PassesAdd' /\ RevokedSoFar'
    BY <1>0, <1>1, <2>1 DEF VisitedInSubtree, PassesAdd, RevokedSoFar
  <2>4. ~added => \A s \in 0 .. row : par[s] \in visited => s \in visited
    BY <1>0, <1>3, <2>1 DEF ScannedClosed, Rows
  <2>5. ScannedClosed'
    BY <1>0, <2>1, <2>4 DEF ScannedClosed, Rows
  <2> QED
    BY <2>2, <2>3, <2>5
<1> QED
  BY <1>2, <1>3

LEMMA EndPassInv == ASSUME SweepInv, EndPass PROVE SweepInv'
<1> USE RowsAssumption DEF SweepInv
<1>0. /\ stage = "sweep" /\ row = RowMax /\ row' = 0
      /\ UNCHANGED <<par, liveThen, root, live, visited>>
  BY DEF EndPass
<1>1. Subtree' = Subtree
  BY <1>0 DEF Subtree, Closed
<1>2. VisitedInSubtree'
  BY <1>0, <1>1 DEF VisitedInSubtree
<1>3. Cardinality(visited) \in Nat /\ Cardinality(visited) <= RowMax /\ pass \in Nat /\ pass < RowMax
  BY <1>0, BitmapSize DEF SweepTypeOK, PassesAdd
<1>4. CASE added
  <2>1. /\ pass' = pass + 1 /\ added' = FALSE
        /\ stage' = IF pass + 1 < RowMax THEN "sweep" ELSE "revoke"
    BY <1>4 DEF EndPass
  <2>2. Cardinality(visited) >= pass + 2
    BY <1>3, <1>4 DEF PassesAdd
  <2>3. pass + 1 < RowMax /\ stage' = "sweep"
    BY <1>3, <2>1, <2>2
  <2>4. SweepTypeOK'
    <3>1. pass' \in 0 .. RowMax /\ row' \in 0 .. RowMax
      BY <1>0, <1>3, <2>1, <2>3
    <3> QED
      BY <1>0, <2>1, <2>3, <3>1 DEF SweepTypeOK
  <2>5. PassesAdd'
    BY <1>0, <1>3, <2>1, <2>2, <2>3 DEF PassesAdd
  <2>6. ScannedClosed' /\ RevokedSoFar'
    BY <1>0, <2>1, <2>3 DEF ScannedClosed, RevokedSoFar
  <2> QED
    BY <1>2, <2>4, <2>5, <2>6
<1>5. CASE ~added
  <2>1. stage' = "revoke" /\ UNCHANGED <<pass, added>>
    BY <1>5 DEF EndPass
  <2>2. SweepTypeOK'
    BY <1>0, <2>1 DEF SweepTypeOK
  <2>3. PassesAdd'
    BY <1>0, <2>1 DEF PassesAdd
  <2>4. Closed(visited)
    BY <1>0, <1>5 DEF ScannedClosed, Closed, Rows
  <2>5. ScannedClosed'
    BY <1>0, <2>1, <2>4 DEF ScannedClosed, Closed
  <2>6. {s \in visited : s < row'} = {}
    <3>1. \A s \in visited : ~(s < row')
      BY <1>0 DEF SweepTypeOK, Rows
    <3> QED
      BY <3>1
  <2>7. RevokedSoFar'
    BY <1>0, <2>1, <2>6 DEF RevokedSoFar
  <2> QED
    BY <1>2, <2>2, <2>3, <2>5, <2>7
<1> QED
  BY <1>4, <1>5 DEF SweepTypeOK

LEMMA RevokeRowInv == ASSUME SweepInv, RevokeRow PROVE SweepInv'
<1> USE RowsAssumption DEF SweepInv
<1>0. /\ stage = "revoke" /\ row < RowMax /\ row' = row + 1
      /\ live' = IF row \in visited THEN live \ {row} ELSE live
      /\ UNCHANGED <<par, liveThen, root, visited, pass, added, stage>>
  BY DEF RevokeRow
<1>1. Subtree' = Subtree
  BY <1>0 DEF Subtree, Closed
<1>2. SweepTypeOK'
  BY <1>0 DEF SweepTypeOK
<1>3. VisitedInSubtree' /\ PassesAdd'
  BY <1>0, <1>1 DEF VisitedInSubtree, PassesAdd
<1>4. ScannedClosed'
  BY <1>0 DEF ScannedClosed, Closed
<1>5. \A s \in visited : s < row + 1 <=> (s < row \/ s = row)
  BY DEF SweepTypeOK, Rows
<1>6. RevokedSoFar'
  BY <1>0, <1>5 DEF RevokedSoFar
<1> QED
  BY <1>2, <1>3, <1>4, <1>6

LEMMA ReturnInv == ASSUME SweepInv, Return PROVE SweepInv'
<1> USE RowsAssumption DEF SweepInv
<1>0. /\ stage = "revoke" /\ row = RowMax /\ stage' = "done"
      /\ UNCHANGED <<par, liveThen, root, live, visited, pass, row, added>>
  BY DEF Return
<1>1. Subtree' = Subtree
  BY <1>0 DEF Subtree, Closed
<1>2. SweepTypeOK'
  BY <1>0 DEF SweepTypeOK
<1>3. VisitedInSubtree' /\ PassesAdd'
  BY <1>0, <1>1 DEF VisitedInSubtree, PassesAdd
<1>4. ScannedClosed'
  BY <1>0 DEF ScannedClosed, Closed
<1>5. {s \in visited : s < row} = visited
  <2>1. \A s \in visited : s < row
    BY <1>0 DEF SweepTypeOK, Rows
  <2> QED
    BY <2>1
<1>6. RevokedSoFar'
  BY <1>0, <1>5 DEF RevokedSoFar
<1> QED
  BY <1>2, <1>3, <1>4, <1>6

LEMMA SweepNextInv == SweepInv /\ [SweepNext]_sweepVars => SweepInv'
<1> SUFFICES ASSUME SweepInv, [SweepNext]_sweepVars PROVE SweepInv'
  OBVIOUS
<1>1. CASE UNCHANGED sweepVars
  BY <1>1 DEF sweepVars, SweepInv, SweepTypeOK, VisitedInSubtree, ScannedClosed, PassesAdd,
              RevokedSoFar, Subtree, Closed
<1> QED
  BY <1>1, VisitRowInv, EndPassInv, RevokeRowInv, ReturnInv DEF SweepNext

(* For every table size, every assignment of parents and every root, the     *)
(* rows cap_handle_revoke_subtree has revoked on return are the live rows of *)
(* the root's subtree, no fewer and no more.                                 *)
THEOREM SweepCorrect == SweepSpec => []RevokesSubtree
<1>1. SweepInv => RevokesSubtree
  BY ClosedIsSubtree DEF SweepInv, RevokesSubtree, ScannedClosed, RevokedSoFar
<1> QED
  BY SweepInitInv, SweepNextInv, <1>1, PTL DEF SweepSpec

(* The bound CAP_HANDLE_TABLE_MAX on the passes is never what ends the       *)
(* sweep: each pass but the last adds a row, and there are only RowMax.           *)
THEOREM SweepEndsByItself == SweepSpec => []PassLimitNotReached
<1>1. SweepInv => PassLimitNotReached
  <2> SUFFICES ASSUME SweepInv PROVE pass < RowMax
    BY DEF PassLimitNotReached
  <2>1. Cardinality(visited) \in Nat /\ Cardinality(visited) <= RowMax
    BY BitmapSize DEF SweepInv, SweepTypeOK
  <2>2. pass \in Nat /\ Cardinality(visited) >= pass + 1 + (IF added THEN 1 ELSE 0)
    BY RowsAssumption DEF SweepInv, SweepTypeOK, PassesAdd
  <2> QED
    BY <2>1, <2>2, RowsAssumption
<1> QED
  BY SweepInitInv, SweepNextInv, <1>1, PTL DEF SweepSpec
=============================================================================
