---------------------------- MODULE MCCapBroker ----------------------------
(* CapBroker with the root subject, two others and an invalid one, and two   *)
(* share slots.                                                              *)
EXTENDS CapBroker, TLC

(* The subjects other than root are alike. *)
SubjectSymmetry == Permutations(ValidSubjects \ {Root})

(* No operation reads the events of the last one. *)
WithoutAudit == <<bits, shares, direct>>
=============================================================================
