----------------------------- MODULE MCServices -----------------------------
(***************************************************************************)
(* The parts of the kernel that stand between a user and a program: the    *)
(* console's line, environment and loaded libraries, the launcher, the     *)
(* format of programs and the heaps they run on.  They share no state that *)
(* their modules model, so a behaviour picks one of them at the start and  *)
(* runs only that one; their state spaces add up instead of multiplying.   *)
(*                                                                         *)
(*   line      Console: lines of three characters, a history of two        *)
(*   env       Console: three entries for four keys, so that the table     *)
(*             runs full, and directories that come and go                 *)
(*   libs      Console: two slots for two libraries                        *)
(*   spawn     Apps: two spawn windows, two processes, three handles       *)
(*   appfs     Apps: two apps with two files each, three paths             *)
(*   invoke    Invocation: commands found by directory, PATH and os        *)
(*   sof       SofFormat: two metadata fields of up to five characters     *)
(*             where the wire holds four and the reader keeps two          *)
(*   rules     WorkflowRules: a table of one rule and an audit ring of two *)
(*   kheap     Heaps: an arena of 14 cells, blocks of one to three         *)
(*   pool      Heaps: a pool of 30 cells, a program that runs a nested     *)
(*             one                                                         *)
(*   modules   Modules: three windows, two processes, two handles          *)
(***************************************************************************)
EXTENDS Console, Apps, Invocation, SofFormat, WorkflowRules, Heaps, Modules

CONSTANT Parts  \* the parts that are explored

VARIABLE part   \* the part that runs

-----------------------------------------------------------------------------
(* Values of the constants *)

(* The current directory, two that PATH may name, lib and os.              *)
MCCwd == <<"c">>
MCOs == <<"o">>
MCLib == <<"l">>

MCCommandNames ==
  {[abs |-> FALSE, dir |-> <<>>, stem |-> "p"], [abs |-> FALSE, dir |-> <<>>, stem |-> "ls"],
   [abs |-> TRUE, dir |-> <<"d">>, stem |-> "p"], [abs |-> TRUE, dir |-> <<"l">>, stem |-> "p"]}

MCPathTexts == {<<>>, <<" ", "d", " ", ";", ":", "e">>, <<"l", ":", "e", ";", " ", ";", "d">>}

MCFileSets ==
  {(<<"c">> :> c) @@ (<<"d">> :> d) @@ (<<"e">> :> e) @@ (<<"l">> :> "script") @@ (<<"o">> :> o) :
     c \in {"none", "library", "script", "unreadable"},
     d \in {"none", "script", "unsigned", "unreadable"},
     e \in {"none", "native", "unreadable"},
     o \in {"none", "damaged", "unreadable"}}

MCArgStrings == {<<>>, <<" ", "a", " ", " ", "b">>, <<"a", "b", " ", "b", " ", "a", " ", "b">>}

MCScriptPieces ==
  {<<[kind |-> "text", text |-> <<"$", "x">>], [kind |-> "arg", k |-> 2]>>,
   <<[kind |-> "all"], [kind |-> "arg", k |-> 1]>>}

MCTails == {[i \in 1 .. ArgsSize |-> "NUL"], [i \in 1 .. ArgsSize |-> "z"]}

(* Metadata left out, empty, whole, cut by the reader and cut on the wire. *)
MCMeta == [1 .. 2 -> {Null, <<>>, <<1>>, <<1, 2, 1>>, <<2, 1, 2, 1, 2>>}]

MCSofParams ==
  [type : {"bin"}, payload : {<<5>>, <<5, 6>>}, meta : MCMeta]
  \cup [type : {"bin", "lib", "app", "x"}, payload : {<<>>, <<5>>}, meta : {<<Null, <<1>>>>}]

MCRuleCalls ==
  {[tenant |-> c[1], id |-> c[2], subject |-> c[3], cap |-> c[4]] :
     c \in {<<1, 1, 1, 1>>, <<2, 1, 1, 1>>, <<1, 1, 2, 1>>, <<0, 1, 1, 1>>, <<1, 0, 1, 1>>,
            <<1, 1, 0, 1>>, <<1, 1, 1, 2>>}}

(* A program and one that it runs.                                         *)
MCNested == <<"p", "n">>

-----------------------------------------------------------------------------
(* A search that is not begun, while another part runs.                    *)
InvokeIdle ==
  /\ files = [d \in {MCCwd, <<"d">>, <<"e">>, MCLib, MCOs} |-> IF d = MCLib THEN "script" ELSE "none"]
  /\ name = [abs |-> FALSE, dir |-> <<>>, stem |-> "p"]
  /\ pathEnv = <<>>

ServicesInit ==
  /\ part \in Parts
  /\ IF part = "invoke" THEN TRUE ELSE InvokeIdle
  /\ LineInit /\ EnvInit /\ LibInit /\ LauncherInit /\ LauncherFsInit
  /\ InvokeInit /\ SofInit /\ RulesInit /\ KHeapInit /\ ClibInit
  /\ ModulesInit

ServicesNext ==
  \/ /\ part = "line" /\ LineNext
     /\ UNCHANGED <<part, envVars, libVars, launcherVars, launcherFsVars,
                    invokeVars, sofVars, ruleVars, kblocks, clibVars, moduleVars>>
  \/ /\ part = "env" /\ EnvNext
     /\ UNCHANGED <<part, lineVars, libVars, launcherVars, launcherFsVars,
                    invokeVars, sofVars, ruleVars, kblocks, clibVars, moduleVars>>
  \/ /\ part = "libs" /\ LibNext
     /\ UNCHANGED <<part, lineVars, envVars, launcherVars, launcherFsVars,
                    invokeVars, sofVars, ruleVars, kblocks, clibVars, moduleVars>>
  \/ /\ part = "spawn" /\ LauncherNext
     /\ UNCHANGED <<part, lineVars, envVars, libVars, launcherFsVars,
                    invokeVars, sofVars, ruleVars, kblocks, clibVars, moduleVars>>
  \/ /\ part = "appfs" /\ LauncherFsNext
     /\ UNCHANGED <<part, lineVars, envVars, libVars, launcherVars,
                    invokeVars, sofVars, ruleVars, kblocks, clibVars, moduleVars>>
  \/ /\ part = "invoke" /\ InvokeNext
     /\ UNCHANGED <<part, lineVars, envVars, libVars, launcherVars, launcherFsVars,
                    sofVars, ruleVars, kblocks, clibVars, moduleVars>>
  \/ /\ part = "sof" /\ SofNext
     /\ UNCHANGED <<part, lineVars, envVars, libVars, launcherVars, launcherFsVars,
                    invokeVars, ruleVars, kblocks, clibVars, moduleVars>>
  \/ /\ part = "rules" /\ RulesNext
     /\ UNCHANGED <<part, lineVars, envVars, libVars, launcherVars, launcherFsVars,
                    invokeVars, sofVars, kblocks, clibVars, moduleVars>>
  \/ /\ part = "kheap" /\ KHeapNext
     /\ UNCHANGED <<part, lineVars, envVars, libVars, launcherVars, launcherFsVars,
                    invokeVars, sofVars, ruleVars, clibVars, moduleVars>>
  \/ /\ part = "pool" /\ ClibNext
     /\ UNCHANGED <<part, lineVars, envVars, libVars, launcherVars, launcherFsVars,
                    invokeVars, sofVars, ruleVars, kblocks, moduleVars>>
  \/ /\ part = "modules" /\ ModulesNext
     /\ UNCHANGED <<part, lineVars, envVars, libVars, launcherVars, launcherFsVars,
                    invokeVars, sofVars, ruleVars, kblocks, clibVars>>

serviceVars ==
  <<part, lineVars, envVars, libVars, launcherVars, launcherFsVars,
    invokeVars, sofVars, ruleVars, kblocks, clibVars, moduleVars>>

ServicesSpec == ServicesInit /\ [][ServicesNext]_serviceVars

-----------------------------------------------------------------------------
(* Properties that join two parts of one file *)

(* The console keeps what the user gave it: the history holds the newest   *)
(* lines in order and the line put aside comes back, and the environment   *)
(* answers every key with the last value set and PWD with the directory    *)
(* that paths are resolved against (console.c).                            *)
ConsoleRemembers == HistoryFaithful /\ EnvironmentCoherent

(* What an app or a user holds stays as it was left: an app reads what it  *)
(* wrote last and never another app's file (launcher_fs.c), and a loaded   *)
(* library stays while a reference to it is held (console.c).              *)
HoldingsStay == ReadsOwnWrites /\ LibrariesHeld

(* A command starts the program its search order names, with the words it  *)
(* was given, and the file it is read from gives back what was put into it *)
(* (launcher_exec.c, sof.c).                                               *)
ProgramsStartRight == CommandRunsFirst /\ ContainerRoundTrips

KA == INSTANCE Allocator WITH Space <- KArena, handedOut <- KRegions
CA == INSTANCE Allocator WITH Space <- Pool, handedOut <- AppRegions

(* Both heaps implement Allocator: kmalloc and kfree of kheap.c, and       *)
(* malloc, calloc, realloc and free of the C library's malloc.c, hand out  *)
(* disjoint regions of their space, and no region in a caller's hands      *)
(* appears, moves or shrinks except by the caller's own call.              *)
HeapsAreAllocators == KA!AllocSpec /\ CA!AllocSpec

(* No cell of either heap is lost and no two neighbours are both free, so  *)
(* that a request fails only when no hole is large enough (kheap.c,        *)
(* malloc.c).                                                              *)
HeapsTight == KernelHeapTight /\ AppHeapTight
=============================================================================
