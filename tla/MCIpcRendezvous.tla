-------------------------- MODULE MCIpcRendezvous --------------------------
(* Programs for IpcRendezvous. *)
EXTENDS IpcRendezvous, TLC

H(s, g) == [slot |-> s, gen |-> g]

Send(h) == [op |-> "send", port |-> h, reply |-> NoMsg]

Recv(h) == [op |-> "recv", port |-> h, reply |-> NoMsg]

IpcCall(h, r) == [op |-> "send", port |-> h, reply |-> r]

Close(h) == [op |-> "close", port |-> h]

KillOf(i) == [op |-> "kill", pid |-> [slot |-> i, gen |-> 1]]

YieldOp == [op |-> "yield"]

OpenOp == [op |-> "open"]

MCSubj == [i \in Index |-> <<"a", "b", "c", "d">>[i + 1]]

MCHolders == [pair |-> Subjects, churn |-> Subjects \ {"d"},
              crowd |-> Subjects]

MCFirstPorts == [pair |-> <<"b", "a", "c">>, churn |-> <<"a">>,
                 crowd |-> <<"c">>]

(* One sender and one receiver per port.  Process 0 calls process 1 on port  *)
(* 0 and is answered on port 1; process 3 sends to process 2 on port 2.      *)
(* Between its operations each may yield.                                    *)
PairOps(i, k) ==
  IF k % 2 = 1 THEN {YieldOp, OpenOp}
  ELSE CASE i = 0 -> IF k = 2 THEN {IpcCall(H(0, 1), H(1, 1))} ELSE {}
         [] i = 1 -> {IF k = 2 THEN Recv(H(0, 1)) ELSE Send(H(1, 1))}
         [] i = 2 -> {Recv(H(2, 1))}
         [] i = 3 -> {Send(H(2, 1))}

(* Two senders, and a receiver that was registered last. *)
CrowdOps(i, k) ==
  IF i < 2 THEN {Send(H(0, 1)), YieldOp} ELSE {Recv(H(0, 1)), YieldOp}

(* Ports are destroyed and re-created by another process, and waiting        *)
(* processes are destroyed.  Process 3 lacks the capabilities.               *)
ChurnOps(i, k) ==
  CASE i = 0 -> {Recv(H(0, 1)), Close(H(0, 1)), YieldOp, Send(H(0, 2))}
    [] i = 1 -> {OpenOp, Recv(H(0, 2)), Send(H(0, 2)), KillOf(0), YieldOp}
    [] i = 2 -> {Send(H(0, 1)), Send(H(0, 2)), Close(H(0, 1)), KillOf(1),
                 IpcCall(H(0, 1), H(1, 1))}
    [] i = 3 -> IF k = 1 THEN {Send(H(0, 1))} ELSE {}

MCOps(s, i, k) ==
  CASE s = "pair" -> PairOps(i, k)
    [] s = "churn" -> ChurnOps(i, k)
    [] s = "crowd" -> CrowdOps(i, k)
=============================================================================
