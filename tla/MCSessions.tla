----------------------------- MODULE MCSessions -----------------------------
(***************************************************************************)
(* What must go on: the sessions and their prompts, and the programs the   *)
(* console runs.  The two share no state that their modules model, so a    *)
(* behaviour picks one of them at the start and runs only that one.        *)
(*                                                                         *)
(*   sessions  Sessions with three sessions, of which the client can       *)
(*             have windows for two, two prompt slots and a cache of one   *)
(*             of the two keys.  Three commands or starts of the client    *)
(*             are enough for two prompts at a time, for apps of two       *)
(*             sessions that take turns, and for a client that is started  *)
(*             again over sessions its predecessor left.                   *)
(*   run       AppRun with a script that runs a script that runs a native  *)
(*             program, in a buffer of three lines                         *)
(***************************************************************************)
EXTENDS Sessions, AppRun

CONSTANT Parts  \* the parts that are explored

VARIABLE part   \* the part that runs

L(op, arg) == [op |-> op, arg |-> arg]

MCProgramFiles ==
  [a |-> [kind |-> "script", lines |-> <<L("mkdir", "d"), L("run", "b"), L("ls", "d")>>],
   b |-> [kind |-> "script", lines |-> <<L("print", "d"), L("run", "n"), L("rm", "d")>>],
   n |-> [kind |-> "native", lines |-> <<>>]]

SessionsInit == part \in Parts /\ Init /\ AppInit

SessionsNext ==
  \/ part = "sessions" /\ Next /\ UNCHANGED <<part, runVars>>
  \/ part = "run" /\ AppNext /\ UNCHANGED <<part, vars>>

(* The fairness of Sessions' Spec and of AppRun.                           *)
SessionsSpec ==
  /\ SessionsInit /\ [][SessionsNext]_<<part, vars, runVars>>
  /\ WF_vars(TickStep) /\ \A i \in Slot : SF_vars(Tick(i))
  /\ AppFairness

(* While a session runs, the code, the window and the active session are   *)
(* its own, and every tick leaves the session it found (session_manager.c, *)
(* console.c).                                                             *)
SessionsKeepApart == RunsOwnCode /\ ContextIsActive
=============================================================================
