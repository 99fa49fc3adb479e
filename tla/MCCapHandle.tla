---------------------------- MODULE MCCapHandle ----------------------------
(* CapHandle on three slots with four generation values: every slot is      *)
(* recycled and every generation counter wraps.                             *)
EXTENDS CapHandle, TLC

(* Callers name a parent by the handle of a first or a second grant of the   *)
(* first two slots, by CAP_HANDLE_NULL, or by a value outside the table.     *)
MCParentArgs ==
  {NullHandle,
   [slot |-> 0, gen |-> 1, tag |-> TagKernel],
   [slot |-> 1, gen |-> 1, tag |-> TagKernel],
   [slot |-> N, gen |-> 1, tag |-> TagKernel]}

(* The ids carry no order. *)
IdSymmetry == Permutations(ValidSubjects) \cup Permutations(ValidCaps)
=============================================================================
