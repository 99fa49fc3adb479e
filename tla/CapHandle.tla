----------------------------- MODULE CapHandle -----------------------------
(***************************************************************************)
(* The kernel capability handle table, kernel/cap/cap_handle.c.            *)
(*                                                                         *)
(* A row binds one (owner subject, capability) pair; a handle names a row  *)
(* by its slot and by the low bits of the row's generation.  Both a grant  *)
(* and a revocation advance the generation.  Rows never return to "free":  *)
(* a revoked row is recycled, with its generation, once no free row is     *)
(* left.  A row may record a parent handle, and a subtree revocation       *)
(* follows the recorded parents, by slot.                                  *)
(*                                                                         *)
(* The row's abi_version and granter_subject are written and never read;   *)
(* they are left out.  Only the low GenMod values of the generation can be *)
(* observed, so the 32-bit counter is kept modulo GenMod.                  *)
(***************************************************************************)
EXTENDS Naturals, FiniteSets

CONSTANTS
  N,              \* CAP_HANDLE_TABLE_MAX
  GenMod,         \* 2^CAP_HANDLE_GEN_BITS
  Subjects,       \* the subject ids callers pass
  ValidSubjects,  \* those below CAP_TABLE_MAX_SUBJECTS
  Caps,           \* the capability ids callers pass
  ValidCaps,      \* those in CAP_CONSOLE_WRITE .. CAP_IPC_RECV
  RevCap,         \* how far the history variable revs counts
  ParentArgs,     \* the parent handles callers pass to cap_handle_grant_child
  NoOwner,        \* the owner of a row nothing was ever granted on
  NoCap           \* the capability of such a row

Slots == 0 .. N - 1

Gens == 0 .. GenMod - 1

TagKernel == 1

(* Slot N stands for every slot number outside the table, tag 0 for every   *)
(* tag other than CAP_HANDLE_TAG_KERNEL.                                    *)
Handle == [slot : 0 .. N, gen : Gens, tag : {0, TagKernel}]

NullHandle == [slot |-> 0, gen |-> 0, tag |-> 0]

ASSUME TableAssumption == N \in Nat \ {0}

ASSUME GenAssumption == GenMod \in Nat \ {0} /\ GenMod % 2 = 0

ASSUME RevCapAssumption == RevCap \in Nat /\ GenMod <= 2 * RevCap

ASSUME IdAssumption ==
  /\ ValidSubjects \subseteq Subjects
  /\ ValidCaps \subseteq Caps
  /\ NoOwner \notin Subjects
  /\ NoCap \notin Caps

ASSUME ParentAssumption == ParentArgs \subseteq Handle

VARIABLES
  rows,  \* g_rows: slot -> row
  dead,  \* history: the handles whose row has been revoked since they were issued
  revs   \* history: per slot, how often its row was revoked (counted up to RevCap)

vars == <<rows, dead, revs>>

Row == [flag : {"free", "live", "revoked"},
        cap : Caps \cup {NoCap},
        owner : Subjects \cup {NoOwner},
        parent : Handle,
        gen : Gens]

TypeOK ==
  /\ rows \in [Slots -> Row]
  /\ dead \subseteq Handle
  /\ revs \in [Slots -> 0 .. RevCap]

-----------------------------------------------------------------------------
(* Lookups. *)

Live(s) == rows[s].flag = "live"

HandleOf(s) == [slot |-> s, gen |-> rows[s].gen, tag |-> TagKernel]

LiveRowsOf(o, c) ==
  {s \in Slots : Live(s) /\ rows[s].owner = o /\ rows[s].cap = c}

(* generation += 1, seen through CAP_HANDLE_GEN_MASK. *)
Bump(g) == IF g = GenMod - 1 THEN 0 ELSE g + 1

Lowest(S) == CHOOSE s \in S : \A t \in S : s <= t

(* The candidates of cap_handle_find_free_slot: rows never used come first,  *)
(* a revoked row is recycled only when there is none.                        *)
FreeCandidates ==
  LET unused == {s \in Slots : rows[s].flag = "free"}
  IN  IF unused # {} THEN unused ELSE {s \in Slots : ~Live(s)}

(* The handle resolves to a live row of its own generation. *)
Resolves(h) ==
  /\ h.tag = TagKernel
  /\ h.slot \in Slots
  /\ Live(h.slot)
  /\ rows[h.slot].gen = h.gen

(* The rows the fixed-point sweep of cap_handle_revoke_subtree visits: the   *)
(* least set with the root in it that is closed under "my recorded parent's  *)
(* slot is in the set".  Only a parent of exactly CAP_HANDLE_NULL is "no     *)
(* parent"; neither the parent's generation nor the flags are looked at.     *)
ParentIn(s, V) == rows[s].parent # NullHandle /\ rows[s].parent.slot \in V

(* Variant: one pass over the table, in place of a fixed point. *)
DirectChildren(root) == {root} \cup {s \in Slots : ParentIn(s, {root})}

Subtree(root) ==
  {s \in Slots : \A V \in SUBSET Slots :
     (root \in V /\ \A t \in Slots : ParentIn(t, V) => t \in V) => s \in V}

-----------------------------------------------------------------------------
(* Operations. *)

(* Variant: recycling a row starts its generation afresh. *)
GrantRowFresh(o, c, p) ==
  rows' = [rows EXCEPT ![Lowest(FreeCandidates)] =
             [flag |-> "live", cap |-> c, owner |-> o, parent |-> p, gen |-> Bump(0)]]

GrantRow(o, c, p) ==
  LET s == Lowest(FreeCandidates)
  IN  rows' = [rows EXCEPT ![s] = [flag |-> "live", cap |-> c, owner |-> o,
                                   parent |-> p, gen |-> Bump(rows[s].gen)]]

(* LIVE -> REVOKED with a generation bump on every row of R. *)
RevokeRows(R) ==
  /\ rows' = [s \in Slots |->
                IF s \in R
                THEN [rows[s] EXCEPT !.flag = "revoked", !.gen = Bump(rows[s].gen)]
                ELSE rows[s]]
  /\ dead' = dead \cup {HandleOf(s) : s \in R}
  /\ revs' = [s \in Slots |->
                IF s \in R /\ revs[s] < RevCap THEN revs[s] + 1 ELSE revs[s]]

(* Variant: a grant does not look for a live row of the pair. *)
GrantChildTwice(o, c, p) ==
  /\ o \in ValidSubjects
  /\ c \in ValidCaps
  /\ FreeCandidates # {}
  /\ GrantRow(o, c, p)
  /\ UNCHANGED <<dead, revs>>

(* cap_handle_grant_child, and with p = NullHandle cap_handle_grant and      *)
(* cap_handle_table_grant.  An invalid id, a live row for the pair and a     *)
(* full table leave the table as it is.                                      *)
GrantChild(o, c, p) ==
  /\ o \in ValidSubjects
  /\ c \in ValidCaps
  /\ LiveRowsOf(o, c) = {}
  /\ FreeCandidates # {}
  /\ GrantRow(o, c, p)
  /\ UNCHANGED <<dead, revs>>

Grant(o, c) == GrantChild(o, c, NullHandle)

(* cap_handle_table_revoke. *)
TableRevoke(o, c) ==
  /\ o \in ValidSubjects
  /\ c \in ValidCaps
  /\ LiveRowsOf(o, c) # {}
  /\ RevokeRows({Lowest(LiveRowsOf(o, c))})

(* cap_handle_revoke: a stale or malformed handle revokes nothing. *)
Revoke(h) == Resolves(h) /\ RevokeRows({h.slot})

RevokeSubject(o) ==
  /\ o \in ValidSubjects
  /\ RevokeRows({s \in Slots : Live(s) /\ rows[s].owner = o})

RevokeSubtree(h) ==
  /\ h # NullHandle
  /\ Resolves(h)
  /\ RevokeRows({s \in Subtree(h.slot) : Live(s)})

FreeRow == [flag |-> "free", cap |-> NoCap, owner |-> NoOwner,
            parent |-> NullHandle, gen |-> 0]

(* cap_handle_table_reset; handles do not outlive it. *)
Reset ==
  /\ rows' = [s \in Slots |-> FreeRow]
  /\ dead' = {}
  /\ revs' = [s \in Slots |-> 0]

-----------------------------------------------------------------------------

Init ==
  /\ rows = [s \in Slots |-> FreeRow]
  /\ dead = {}
  /\ revs = [s \in Slots |-> 0]

Next ==
  \/ \E o \in Subjects, c \in Caps :
       \/ Grant(o, c)
       \/ TableRevoke(o, c)
       \/ \E p \in ParentArgs : GrantChild(o, c, p)
  \/ \E h \in Handle : Revoke(h) \/ RevokeSubtree(h)
  \/ \E o \in Subjects : RevokeSubject(o)
  \/ Reset

Spec == Init /\ [][Next]_vars

-----------------------------------------------------------------------------
(* Properties. *)

(* At most one live row per (owner, capability): the idempotent grant of     *)
(* cap_handle_find_live is what makes TableRevoke, which stops at the first  *)
(* match, take the whole authority away.                                     *)
OneLiveRowPerPair ==
  \A s, t \in Slots :
    (Live(s) /\ Live(t) /\ rows[s].owner = rows[t].owner
             /\ rows[s].cap = rows[t].cap) => s = t

(* A handle whose row was revoked stays denied, however often the slot is    *)
(* recycled, as long as the slot has seen fewer than GenMod / 2 revocations: *)
(* a recycled slot costs two generation values, one for the grant and one    *)
(* for the revocation.                                                       *)
StaleHandlesDenied ==
  \A h \in dead : 2 * revs[h.slot] < GenMod => ~Resolves(h)

(* What a handle that keeps resolving stands for never changes under its     *)
(* holder: no grant, no sweep and no recycling rebinds its owner, its        *)
(* capability or the recorded parent ("the first grant wins").               *)
BindingStable ==
  [][\A s \in Slots :
       (Live(s) /\ Live(s)' /\ rows'[s].gen = rows[s].gen)
          => rows'[s] = rows[s]]_vars

(* A subtree revocation leaves no live row that a chain of current parent    *)
(* handles ties to the root: as long as the parent of a surviving row still  *)
(* resolves, that parent survives too.  Any revocation that goes through     *)
(* RevokeSubtree therefore never strands a live child under a revoked        *)
(* parent.                                                                   *)
NoStrandedChild ==
  [][\A r \in Slots : RevokeSubtree(HandleOf(r)) =>
       \A s \in Slots :
         (Live(s)' /\ Resolves(rows[s].parent)) => Resolves(rows[s].parent)']_vars

-----------------------------------------------------------------------------
(* The inductive invariant. *)

(* A slot's generation counts its grants and its revocations. *)
GenerationCounts ==
  \A s \in Slots : 2 * revs[s] < GenMod =>
    rows[s].gen = 2 * revs[s] + (IF Live(s) THEN 1 ELSE 0)

(* Every dead handle carries an earlier count of its slot. *)
DeadHandlesOlder ==
  \A h \in dead :
    /\ h.slot \in Slots
    /\ 2 * revs[h.slot] < GenMod => h.gen < 2 * revs[h.slot]

(* The conjunction every operation of cap_handle.c preserves: what the       *)
(* generation of a row says about its history, for every slot at once.       *)
IInv ==
  /\ TypeOK
  /\ OneLiveRowPerPair
  /\ GenerationCounts
  /\ DeadHandlesOlder
=============================================================================
