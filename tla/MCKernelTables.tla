--------------------------- MODULE MCKernelTables ---------------------------
(***************************************************************************)
(* Components of the kernel that share no state, each explored on its own: *)
(* a behaviour picks one of them at the start and runs only that one, so   *)
(* that their state spaces add up instead of multiplying.                  *)
(*                                                                         *)
(*   ports  IpcPortAging on three slots with three usable generations, so  *)
(*          that slots are re-used and their generation wraps past 0       *)
(*   sweep  CapHandleSweep on four rows: chains in either slot order,      *)
(*          branches, cycles and parents outside the table all occur among *)
(*          its initial states                                             *)
(*   files  FatFs on a disk with the root and three more clusters of one   *)
(*          entry or two bytes: directories grow by a cluster per entry,   *)
(*          the disk runs full, clusters are re-used, and the table takes  *)
(*          two sectors, so that a call may stop between them              *)
(*   audit  Logs: an audit log of three events, windows of two and two     *)
(*          checkpoints                                                    *)
(*   bus    Logs: an event bus with two topics of two events               *)
(***************************************************************************)
EXTENDS IpcPortAging, CapHandleSweep, FatFs, Logs

VARIABLE part  \* the component that runs

Handles == [slot : 0 .. P - 1, gen : 1 .. GenMod - 1]

\* A sweep over a table with one live row that has returned.
SweepIdle ==
  /\ par = [s \in Rows |-> RowMax] /\ liveThen = {0} /\ root = 0 /\ live = {}
  /\ visited = {0} /\ pass = 0 /\ row = RowMax /\ added = FALSE /\ stage = "done"

\* What a call of the file system writes: bytes that differ from one position
\* to the next, within one block and over two.
FsTexts == {<<>>, <<1>>, <<2, 1>>, <<1, 2, 1>>}

Init ==
  /\ PortInit /\ FsInit /\ AuditInit /\ BusInit
  /\ \/ part = "sweep" /\ SweepInit
     \/ part \in {"ports", "files", "audit", "bus"} /\ SweepIdle

Next ==
  \/ part = "ports" /\ PortNext /\ UNCHANGED <<part, sweepVars, fsVars, auditVars, busVars>>
  \/ part = "sweep" /\ SweepNext /\ UNCHANGED <<part, portVars, fsVars, auditVars, busVars>>
  \/ part = "files" /\ FsNext /\ UNCHANGED <<part, portVars, sweepVars, auditVars, busVars>>
  \/ part = "audit" /\ AuditNext /\ UNCHANGED <<part, portVars, sweepVars, fsVars, busVars>>
  \/ part = "bus" /\ BusNext /\ UNCHANGED <<part, portVars, sweepVars, fsVars, auditVars>>

allVars == <<part, portVars, sweepVars, fsVars, auditVars, busVars>>

Spec == Init /\ [][Next]_allVars /\ WF_allVars(part = "sweep" /\ Next)
=============================================================================
