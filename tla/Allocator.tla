------------------------------ MODULE Allocator ------------------------------
(***************************************************************************)
(* What an allocator promises its clients: the regions it has handed out   *)
(* are inside its space and disjoint, and none of them appears, moves or   *)
(* changes size except by the client's own call. A call that fails takes   *)
(* no step here. kheap.c and malloc.c of the C library both implement it.  *)
(***************************************************************************)
EXTENDS Integers

CONSTANT Space  \* addresses are 0 .. Space - 1

VARIABLE handedOut  \* the regions [at, len] in the clients' hands

Cells(r) == r.at .. (r.at + r.len - 1)

Usable(r) ==
  /\ r.len > 0 /\ Cells(r) \subseteq 0 .. (Space - 1)
  /\ \A s \in handedOut : Cells(r) \cap Cells(s) = {}

AllocInit == handedOut = {}

\* malloc, calloc: one region is added.
Take == \E r \in handedOut' \ handedOut : Usable(r) /\ handedOut' = handedOut \cup {r}

\* free, or the end of a program that owned regions.
Give == handedOut' \subseteq handedOut

\* realloc: a region is replaced by one that overlapped no region while the
\* old one was still in use.
Replace ==
  \E r \in handedOut' \ handedOut, old \in handedOut \ handedOut' :
    Usable(r) /\ handedOut' = (handedOut \ {old}) \cup {r}

AllocSpec == AllocInit /\ [][Take \/ Give \/ Replace]_handedOut
=============================================================================
