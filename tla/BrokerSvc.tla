----------------------------- MODULE BrokerSvc -----------------------------
(***************************************************************************)
(* The broker service, kernel/svc/broker_svc.c: approving a share mints a  *)
(* capability handle for the recipient under the owner's broker handle,    *)
(* and deleting an owner cascades through handles, window-manager sessions *)
(* and the owner's process.                                                *)
(*                                                                         *)
(* It composes the broker (module CapBroker), the handle table (module     *)
(* CapHandle), the session slots of kernel/core/session_manager.c, of      *)
(* which only owner and focus matter here, and the processes of            *)
(* kernel/proc/process.c, of which only their subject matters.  A subject  *)
(* has at most one process.  The service's port is left out.               *)
(***************************************************************************)
EXTENDS CapBroker, FiniteSets

CONSTANTS
  Owners,        \* the subjects that offer shares and may be deleted
  Recipients,    \* the subjects that shares are offered to
  Admin,         \* SUBJECT_M5_ADMIN
  HandleCaps,    \* the capability ids the handle table knows
  PortCap,       \* the capability of an owner's broker handle
  N, GenMod,     \* the handle table's size and generations
  SessionSlots,  \* SESSION_MAX
  SessionBound,  \* BROKER_SVC_CASCADE_SESSION_BOUND
  MaxIssued,     \* bound: how many broker handles and sessions are handed out
  None

VARIABLES
  rows,      \* g_rows of cap_handle.c
  dead, revs,  \* the histories of module CapHandle
  side,      \* g_broker_shares of broker_svc.c
  sessions,  \* g_sessions: slot -> the subject of the session, or None
  focus,     \* g_active_session_id
  procs,     \* the subjects that have a process
  issued     \* how many broker handles and sessions were handed out

svcVars == <<rows, dead, revs, side, sessions, focus, procs, issued>>

vars == <<brokerVars, svcVars>>

Handles == INSTANCE CapHandle
             WITH ValidCaps <- HandleCaps, RevCap <- GenMod, ParentArgs <- {},
                  NoOwner <- None, NoCap <- None

SideRow == [share : ShareId, owner : ValidSubjects, recipient : ValidSubjects,
            child : Handles!Handle]

Sess == 0 .. SessionSlots - 1

TypeOK ==
  /\ BrokerTypeOK
  /\ rows \in [Handles!Slots -> Handles!Row]
  /\ side \in [ShareId -> SideRow \cup {None}]
  /\ sessions \in [Sess -> ValidSubjects \cup {None}]
  /\ focus \in Sess
  /\ procs \subseteq ValidSubjects

-----------------------------------------------------------------------------

(* The operation does nothing to the broker and records no event. *)
NoEvent == audit' = <<>> /\ UNCHANGED <<bits, shares, direct>>

(* The owner's handle for the broker's port. *)
GrantBrokerHandle(o) ==
  /\ issued < MaxIssued
  /\ Handles!Grant(o, PortCap)
  /\ issued' = issued + 1
  /\ NoEvent
  /\ UNCHANGED <<side, sessions, focus, procs>>

BrokerHandleOf(o) ==
  {Handles!HandleOf(s) : s \in Handles!LiveRowsOf(o, PortCap)} \cup {Handles!NullHandle}

FreeSide == {k \in ShareId : side[k] = None}

(* Records the minted handle; with no row left it is not recorded. *)
Remember(i, r, h) ==
  side' = IF FreeSide = {} THEN side
          ELSE [side EXCEPT ![First(FreeSide)] =
                  [share |-> i, owner |-> shares[i].owner, recipient |-> r, child |-> h]]

(* broker_svc_approve_h.  The table's grant stands whether or not the handle *)
(* table finds room; a live row of the pair is handed out again, under the   *)
(* parent it has.                                                            *)
ApproveH(actor, i, h) ==
  LET r == shares[i].recipient
      c == shares[i].cap
      old == Handles!LiveRowsOf(r, c)
      new == Handles!Lowest(Handles!FreeCandidates)
  IN  /\ Approve(actor, i)
      /\ \/ /\ old # {}
            /\ Remember(i, r, Handles!HandleOf(Handles!Lowest(old)))
            /\ UNCHANGED <<rows, dead, revs>>
         \/ /\ old = {} /\ c \in HandleCaps /\ Handles!FreeCandidates # {}
            /\ Handles!GrantChild(r, c, h)
            /\ Remember(i, r, [slot |-> new, gen |-> Handles!Bump(rows[new].gen),
                               tag |-> Handles!TagKernel])
         \/ /\ old = {} /\ (c \notin HandleCaps \/ Handles!FreeCandidates = {})
            /\ UNCHANGED <<rows, dead, revs, side>>
      /\ UNCHANGED <<sessions, focus, procs, issued>>

-----------------------------------------------------------------------------
(* The cascade. *)

MayDelete(actor, o) == actor = o \/ actor = Admin

(* The side-table rows step 2 sweeps. *)
SweptRows(o) == {k \in ShareId : side[k] # None /\ side[k].owner = o}

SessionsOf(o) == {i \in Sess : sessions[i] = o}

(* Step 3.5 destroys the owner's lowest session until there is none, but the *)
(* session in focus refuses to go, and the turns that are left end on it.    *)
Destroyed(o) == {i \in SessionsOf(o) : focus \in SessionsOf(o) => i < focus}

Turns(o) == IF focus \in SessionsOf(o) THEN SessionBound ELSE Cardinality(SessionsOf(o))

(* One event per side-table row and turn, and the summary with their count   *)
(* (its field root is history: the handle the cascade was given).            *)
CascadeEvents(actor, o, h) ==
  LET n == Cardinality(SweptRows(o)) + Turns(o)
  IN  Append([k \in 1 .. n |-> [op |-> "cascade_revoke", actor |-> actor]],
             [op |-> "cascade_done", actor |-> actor, subject |-> o,
              count |-> n, root |-> h])

(* Variant: the subtree is left to process_destroy. *)
CascadeRowsOfOwner(o, h, withPid) ==
  {s \in Handles!Slots : Handles!Live(s) /\ withPid /\ o \in procs /\ rows[s].owner = o}

(* Steps 3 and 4 on the handle table: the rows of the subtree of h, and with *)
(* a process those of the owner.                                             *)
CascadeRows(o, h, withPid) ==
  {s \in Handles!Slots :
     /\ Handles!Live(s)
     /\ \/ h # Handles!NullHandle /\ Handles!Resolves(h) /\ s \in Handles!Subtree(h.slot)
        \/ withPid /\ o \in procs /\ rows[s].owner = o}

(* broker_svc_delete_owner. *)
DeleteOwner(actor, o, h, withPid) ==
  /\ MayDelete(actor, o)
  /\ side' = [k \in ShareId |-> IF k \in SweptRows(o) THEN None ELSE side[k]]
  /\ Handles!RevokeRows(CascadeRows(o, h, withPid))
  /\ sessions' = [i \in Sess |-> IF i \in Destroyed(o) THEN None ELSE sessions[i]]
  /\ procs' = IF withPid THEN procs \ {o} ELSE procs
  /\ audit' = CascadeEvents(actor, o, h)
  /\ UNCHANGED <<bits, shares, direct, focus, issued>>

DeleteDenied(actor, o) ==
  /\ ~MayDelete(actor, o)
  /\ Record("check", actor, o, AdminCap, FALSE)
  /\ UNCHANGED <<bits, shares, direct, svcVars>>

-----------------------------------------------------------------------------
(* Sessions and processes. *)

FreeSessions == {i \in Sess : sessions[i] = None}

(* session_manager_create. *)
OpenSession(s) ==
  /\ issued < MaxIssued
  /\ FreeSessions # {}
  /\ sessions' = [sessions EXCEPT ![First(FreeSessions)] = s]
  /\ issued' = issued + 1
  /\ NoEvent
  /\ UNCHANGED <<rows, dead, revs, side, focus, procs>>

(* session_manager_destroy. *)
CloseSession(i) ==
  /\ sessions[i] # None
  /\ i # focus
  /\ sessions' = [sessions EXCEPT ![i] = None]
  /\ NoEvent
  /\ UNCHANGED <<rows, dead, revs, side, focus, procs, issued>>

(* session_manager_switch to a session that exists. *)
Focus(i) ==
  /\ sessions[i] # None
  /\ focus' = i
  /\ NoEvent
  /\ UNCHANGED <<rows, dead, revs, side, sessions, procs, issued>>

(* process_destroy takes the subject's handles with it. *)
EndProcess(s) ==
  /\ s \in procs
  /\ procs' = procs \ {s}
  /\ Handles!RevokeSubject(s)
  /\ NoEvent
  /\ UNCHANGED <<side, sessions, focus, issued>>

-----------------------------------------------------------------------------

(* The owners have been granted what they offer, some of them have a process *)
(* and root's session is open.                                               *)
Init ==
  /\ bits = [s \in ValidSubjects |-> IF s \in Owners THEN ValidCaps \ {AdminCap, PortCap} ELSE {}]
  /\ direct = bits
  /\ shares = [i \in ShareId |-> NoShare]
  /\ audit = <<>>
  /\ Handles!Init
  /\ side = [k \in ShareId |-> None]
  /\ sessions = [i \in Sess |-> IF i = 0 THEN Root ELSE None]
  /\ focus = 0
  /\ procs \in SUBSET Owners
  /\ issued = 0

Next ==
  \/ /\ \/ \E o \in Owners, r \in Recipients, c \in ValidCaps, res \in Resources :
             Request(o, r, c, res)
        \/ \E actor \in ValidSubjects, i \in ShareId :
             Deny(actor, i) \/ RevokeShare(actor, i)
     /\ UNCHANGED svcVars
  \/ \E o \in Owners : GrantBrokerHandle(o)
  \/ \E o \in Owners, i \in ShareId : \E h \in BrokerHandleOf(o) : ApproveH(o, i, h)
  \/ \E actor \in ValidSubjects, o \in Owners :
       \/ DeleteDenied(actor, o)
       \/ \E h \in BrokerHandleOf(o), withPid \in BOOLEAN : DeleteOwner(actor, o, h, withPid)
  \/ \E o \in Owners : OpenSession(o) \/ EndProcess(o)
  \/ \E i \in Sess : CloseSession(i) \/ Focus(i)

Spec == Init /\ [][Next]_vars

-----------------------------------------------------------------------------
(* Properties. *)

(* A recorded child handle that still resolves is the recipient's, for the   *)
(* capability that was shared: the side table outlives the rows it names     *)
(* and must not point at a slot's next tenant.                               *)
SideRowsAccurate ==
  \A k \in ShareId : side[k] # None /\ Handles!Resolves(side[k].child) =>
    /\ rows[side[k].child.slot].owner = side[k].recipient
    /\ rows[side[k].child.slot].cap = shares[side[k].share].cap

(* "a 1:1 mapping is always possible": an approval always finds a side-table *)
(* row, also after cascades and revocations in any order.                    *)
SideTableFits == (\E i \in ShareId : shares[i].state = "requested") => FreeSide # {}

(* The side table keeps a row for every minted handle and every row says     *)
(* what its handle is.                                                       *)
SideTableSound == SideRowsAccurate /\ SideTableFits

(* A cascade just ended. *)
Done == audit # <<>> /\ audit[Len(audit)].op = "cascade_done"

Summary == audit[Len(audit)]

(* A cascade given the owner's broker handle leaves no live handle under a   *)
(* handle that it revoked, and if it took the owner's process no live handle *)
(* of the owner.  No session of the owner is left, if none of them has the   *)
(* focus, and the count in the summary is then what broker_svc.h says of     *)
(* *out_n, "side-table entries swept + WM sessions destroyed".               *)
CascadeComplete ==
  [][Done' =>
       LET o == Summary'.subject
       IN  /\ Summary'.root # Handles!NullHandle =>
                \A s \in Handles!Slots : Handles!Live(s)' =>
                  /\ o \in procs \ procs' => rows'[s].owner # o
                  /\ Handles!Resolves(rows[s].parent) => Handles!Resolves(rows[s].parent)'
           /\ sessions[focus] # o =>
                /\ \A i \in Sess : sessions'[i] # o
                /\ Summary'.count = Cardinality({k \in ShareId : side[k] # side'[k]})
                                     + Cardinality({i \in Sess : sessions[i] # sessions'[i]})]_vars
=============================================================================
