---------------------------- MODULE MCBrokerSvc ----------------------------
(* BrokerSvc with two owners, a recipient and the administrator. *)
EXTENDS BrokerSvc, TLC

OwnerSymmetry == Permutations(Owners)

(* No operation reads the events of the last one, nor the histories of the   *)
(* handle table.                                                             *)
WithoutHistory == <<bits, shares, rows, side, sessions, focus, procs, issued>>
=============================================================================
