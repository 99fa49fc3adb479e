--------------------------- MODULE CapHandleSweep ---------------------------
(***************************************************************************)
(* The loops inside cap_handle_revoke_subtree (kernel/cap/cap_handle.c),   *)
(* one row at a time.  CapHandle takes the set of rows they revoke in one  *)
(* step, as the least set closed under the recorded parents; this module   *)
(* is the computation: at most RowMax passes over the table in slot order, *)
(* each adding the rows whose parent's slot is already in the visited      *)
(* bitmap, until a pass adds none, and then one pass that revokes.         *)
(***************************************************************************)
EXTENDS Naturals, FiniteSets

CONSTANT RowMax  \* CAP_HANDLE_TABLE_MAX

ASSUME RowsAssumption == RowMax \in Nat \ {0}

Rows == 0 .. RowMax - 1

VARIABLES
  par,       \* slot -> slot of the recorded parent; RowMax for none or out of bounds
  liveThen,  \* the live rows when the call was made
  root,      \* root_slot
  live,      \* the live rows
  visited,   \* the bitmap
  pass,      \* the outer loop's counter
  row,       \* the inner loop's counter, then the revoking loop's
  added,     \* whether this pass has added a row
  stage      \* "sweep", "revoke" or "done"

sweepVars == <<par, liveThen, root, live, visited, pass, row, added, stage>>

SweepTypeOK ==
  /\ par \in [Rows -> 0 .. RowMax]
  /\ liveThen \subseteq Rows
  /\ root \in liveThen
  /\ live \subseteq liveThen
  /\ visited \subseteq Rows
  /\ pass \in 0 .. RowMax
  /\ row \in 0 .. RowMax
  /\ added \in BOOLEAN
  /\ stage \in {"sweep", "revoke", "done"}

(* The table of any call that gets past the checks on the root handle. *)
SweepInit ==
  /\ par \in [Rows -> 0 .. RowMax]
  /\ liveThen \in SUBSET Rows
  /\ root \in liveThen
  /\ live = liveThen
  /\ visited = {root}
  /\ pass = 0
  /\ row = 0
  /\ added = FALSE
  /\ stage = "sweep"

(* Variant: the pass compares with the root instead of the bitmap. *)
VisitRowOfRoot ==
  /\ stage = "sweep"
  /\ row < RowMax
  /\ IF row \notin visited /\ par[row] = root
     THEN visited' = visited \cup {row} /\ added' = TRUE
     ELSE UNCHANGED <<visited, added>>
  /\ row' = row + 1
  /\ UNCHANGED <<par, liveThen, root, live, pass, stage>>

(* One iteration of the inner loop. *)
VisitRow ==
  /\ stage = "sweep"
  /\ row < RowMax
  /\ IF row \notin visited /\ par[row] \in visited
     THEN visited' = visited \cup {row} /\ added' = TRUE
     ELSE UNCHANGED <<visited, added>>
  /\ row' = row + 1
  /\ UNCHANGED <<par, liveThen, root, live, pass, stage>>

(* The end of a pass: stop when it added nothing, or after RowMax passes. *)
EndPass ==
  /\ stage = "sweep"
  /\ row = RowMax
  /\ row' = 0
  /\ IF added
     THEN /\ pass' = pass + 1
          /\ added' = FALSE
          /\ stage' = IF pass + 1 < RowMax THEN "sweep" ELSE "revoke"
     ELSE stage' = "revoke" /\ UNCHANGED <<pass, added>>
  /\ UNCHANGED <<par, liveThen, root, live, visited>>

(* Variant: a row outside the bitmap is skipped without advancing. *)
RevokeRowStuck ==
  /\ stage = "revoke"
  /\ row < RowMax
  /\ live' = IF row \in visited THEN live \ {row} ELSE live
  /\ row' = IF row \in visited THEN row + 1 ELSE row
  /\ UNCHANGED <<par, liveThen, root, visited, pass, added, stage>>

(* One iteration of the revoking loop. *)
RevokeRow ==
  /\ stage = "revoke"
  /\ row < RowMax
  /\ live' = IF row \in visited THEN live \ {row} ELSE live
  /\ row' = row + 1
  /\ UNCHANGED <<par, liveThen, root, visited, pass, added, stage>>

Return ==
  /\ stage = "revoke"
  /\ row = RowMax
  /\ stage' = "done"
  /\ UNCHANGED <<par, liveThen, root, live, visited, pass, row, added>>

SweepNext == VisitRow \/ EndPass \/ RevokeRow \/ Return

SweepSpec == SweepInit /\ [][SweepNext]_sweepVars

-----------------------------------------------------------------------------

Closed(V) == \A s \in Rows : par[s] \in V => s \in V

(* CapHandle!Subtree, over the slots of the parents. *)
Subtree == {s \in Rows : \A V \in SUBSET Rows : (root \in V /\ Closed(V)) => s \in V}

(* When the call returns, the rows it has revoked are exactly the live rows  *)
(* whose chain of parents reaches the root, whatever the order of the slots  *)
(* in the chain, cycles and parents outside the table included.              *)
RevokesSubtree == stage = "done" => live = liveThen \ Subtree

(* The pass limit never cuts the sweep short: only a pass that adds nothing  *)
(* ends it.                                                                  *)
PassLimitNotReached == stage # "sweep" => pass < RowMax

(* The call returns. *)
Returns == <>(stage = "done")

-----------------------------------------------------------------------------
(* The inductive invariant. *)

(* Every row marked is in the subtree. *)
VisitedInSubtree == root \in visited /\ visited \subseteq Subtree

(* A pass that has added nothing so far has found the rows behind it closed. *)
ScannedClosed ==
  /\ (stage = "sweep" /\ ~added) => \A s \in 0 .. row - 1 : par[s] \in visited => s \in visited
  /\ stage # "sweep" => Closed(visited)

(* Every finished pass has added a row, and so has this one once added is    *)
(* set.                                                                      *)
PassesAdd ==
  /\ stage = "sweep" => pass < RowMax
  /\ Cardinality(visited) >= pass + 1 + (IF added THEN 1 ELSE 0)

RevokedSoFar ==
  /\ stage = "sweep" => live = liveThen
  /\ stage = "revoke" => live = liveThen \ {s \in visited : s < row}
  /\ stage = "done" => live = liveThen \ visited

(* What every iteration of the three loops preserves: the bitmap is between  *)
(* the root and the subtree, grows by a row per pass, and the revoking loop  *)
(* has revoked its part behind the counter.                                  *)
SweepInv ==
  /\ SweepTypeOK
  /\ VisitedInSubtree
  /\ ScannedClosed
  /\ PassesAdd
  /\ RevokedSoFar
=============================================================================
