----------------------------- MODULE CapBroker -----------------------------
(***************************************************************************)
(* The capability table with its administrative operations and the sharing *)
(* broker: kernel/cap/cap_table.c, the mutations and checks of             *)
(* kernel/cap/capability.c, the gates of kernel/cap/cap_gate.c and         *)
(* kernel/cap/cap_broker.c.                                                *)
(*                                                                         *)
(* A subject holds a set of capabilities.  An owner offers a capability it *)
(* holds to a recipient, and by approving the offer gives it.  A share's   *)
(* slot is never used again.                                               *)
(*                                                                         *)
(* Every operation appends its audit events to the ring of capability.c    *)
(* (module Logs); here audit is what the last operation appended.          *)
(***************************************************************************)
EXTENDS Naturals, Sequences

CONSTANTS
  Subjects,       \* the subject ids callers pass
  ValidSubjects,  \* those below CAP_TABLE_MAX_SUBJECTS
  Root,           \* CAP_BOOTSTRAP_ROOT_SUBJECT_ID
  Caps,           \* the capability ids callers pass
  ValidCaps,      \* those in CAP_ID_MIN .. CAP_ID_MAX
  AdminCap,       \* CAP_CAPABILITY_ADMIN
  Resources,      \* the resource names callers pass that fit a share
  MaxShares       \* CAP_BROKER_MAX_SHARES

ASSUME IdAssumption ==
  /\ ValidSubjects \subseteq Subjects
  /\ ValidCaps \subseteq Caps
  /\ Root \in ValidSubjects
  /\ AdminCap \in ValidCaps

ASSUME SharesAssumption == MaxShares \in Nat \ {0}

VARIABLES
  bits,    \* subject_capability_bits: valid subject -> the capabilities it holds
  shares,  \* broker_shares
  direct,  \* history: what each subject was given by an administrator, and kept
  audit    \* the events the last operation recorded

brokerVars == <<bits, shares, direct, audit>>

ShareId == 1 .. MaxShares

NoShare == [state |-> "none"]

Share == [state : {"requested", "approved", "denied", "revoked"},
          owner : ValidSubjects, recipient : ValidSubjects,
          cap : ValidCaps, resource : Resources]

BrokerTypeOK ==
  /\ bits \in [ValidSubjects -> SUBSET ValidCaps]
  /\ shares \in [ShareId -> Share \cup {NoShare}]
  /\ direct \in [ValidSubjects -> SUBSET ValidCaps]

-----------------------------------------------------------------------------
(* cap_table.c and cap_audit_record. *)

(* cap_table_check. *)
Holds(s, c) == s \in ValidSubjects /\ c \in ValidCaps /\ c \in bits[s]

(* cap_table_grant and cap_table_revoke refuse ids outside the table. *)
ValidPair(s, c) == s \in ValidSubjects /\ c \in ValidCaps

With(f, s, c) == IF ValidPair(s, c) THEN [f EXCEPT ![s] = @ \cup {c}] ELSE f

Without(f, s, c) == IF ValidPair(s, c) THEN [f EXCEPT ![s] = @ \ {c}] ELSE f

Ev(op, actor, s, c, ok) ==
  [op |-> op, actor |-> actor, subject |-> s, cap |-> c, ok |-> ok]

Record(op, actor, s, c, ok) == audit' = <<Ev(op, actor, s, c, ok)>>

-----------------------------------------------------------------------------
(* capability.c *)

(* cap_check, and with it the write and device gates of cap_gate.c. *)
Check(s, c) ==
  /\ Record("check", s, s, c, Holds(s, c))
  /\ UNCHANGED <<bits, shares, direct>>

(* ADMIN is granted by the root subject, which needs no capability for it,   *)
(* and by nobody else; the rest by whoever holds ADMIN.                      *)
MayGrant(actor, c) ==
  IF c = AdminCap THEN actor = Root ELSE Holds(actor, AdminCap)

(* cap_grant_as_for_tests. *)
GrantAs(actor, s, c) ==
  /\ IF MayGrant(actor, c)
     THEN bits' = With(bits, s, c) /\ direct' = With(direct, s, c)
     ELSE UNCHANGED <<bits, direct>>
  /\ Record("grant", actor, s, c, MayGrant(actor, c) /\ ValidPair(s, c))
  /\ UNCHANGED shares

(* cap_revoke_as_for_tests. *)
RevokeAs(actor, s, c) ==
  /\ IF Holds(actor, AdminCap)
     THEN bits' = Without(bits, s, c) /\ direct' = Without(direct, s, c)
     ELSE UNCHANGED <<bits, direct>>
  /\ Record("revoke", actor, s, c, Holds(actor, AdminCap) /\ ValidPair(s, c))
  /\ UNCHANGED shares

-----------------------------------------------------------------------------
(* cap_broker.c *)

FreeShares == {i \in ShareId : shares[i] = NoShare}

First(S) == CHOOSE i \in S : \A j \in S : i <= j

(* cap_broker_request_share; it records no event. *)
Request(o, r, c, res) ==
  /\ o # r
  /\ o \in ValidSubjects /\ r \in ValidSubjects
  /\ Holds(o, c)
  /\ FreeShares # {}
  /\ shares' = [shares EXCEPT ![First(FreeShares)] =
                  [state |-> "requested", owner |-> o, recipient |-> r,
                   cap |-> c, resource |-> res]]
  /\ audit' = <<>>
  /\ UNCHANGED <<bits, direct>>

(* What approve and deny check first. *)
Decides(actor, i) == shares[i].state = "requested" /\ shares[i].owner = actor

(* Variant: the approval is not recorded. *)
ApproveUnaudited(actor, i) ==
  /\ Decides(actor, i)
  /\ bits' = With(bits, shares[i].recipient, shares[i].cap)
  /\ shares' = [shares EXCEPT ![i].state = "approved"]
  /\ audit' = <<>>
  /\ UNCHANGED direct

(* Variant: an approved share stays open to approval. *)
ApproveAgain(actor, i) ==
  /\ Decides(actor, i)
  /\ bits' = With(bits, shares[i].recipient, shares[i].cap)
  /\ Record("grant", actor, shares[i].recipient, shares[i].cap, TRUE)
  /\ UNCHANGED <<shares, direct>>

(* cap_broker_approve. *)
Approve(actor, i) ==
  /\ Decides(actor, i)
  /\ bits' = With(bits, shares[i].recipient, shares[i].cap)
  /\ shares' = [shares EXCEPT ![i].state = "approved"]
  /\ Record("grant", actor, shares[i].recipient, shares[i].cap, TRUE)
  /\ UNCHANGED direct

(* cap_broker_deny. *)
Deny(actor, i) ==
  /\ Decides(actor, i)
  /\ shares' = [shares EXCEPT ![i].state = "denied"]
  /\ Record("grant", actor, shares[i].recipient, shares[i].cap, FALSE)
  /\ UNCHANGED <<bits, direct>>

(* Variant: the recipient keeps the capability. *)
RevokeShareOnly(actor, i) ==
  /\ shares[i].state = "approved"
  /\ actor \in {shares[i].owner, shares[i].recipient}
  /\ shares' = [shares EXCEPT ![i].state = "revoked"]
  /\ Record("revoke", actor, shares[i].recipient, shares[i].cap, TRUE)
  /\ UNCHANGED <<bits, direct>>

(* cap_broker_revoke; the recipient loses the capability whoever else gave   *)
(* it.                                                                       *)
RevokeShare(actor, i) ==
  /\ shares[i].state = "approved"
  /\ actor \in {shares[i].owner, shares[i].recipient}
  /\ bits' = Without(bits, shares[i].recipient, shares[i].cap)
  /\ direct' = Without(direct, shares[i].recipient, shares[i].cap)
  /\ shares' = [shares EXCEPT ![i].state = "revoked"]
  /\ Record("revoke", actor, shares[i].recipient, shares[i].cap, TRUE)

(* cap_broker_recipient_check: the first approved share decides. *)
RecipientMay(r, c, res) ==
  /\ \E i \in ShareId : shares[i] \in [state : {"approved"}, owner : ValidSubjects,
                                       recipient : {r}, cap : {c}, resource : {res}]
  /\ Holds(r, c)

BrokerInit ==
  /\ bits = [s \in ValidSubjects |-> {}]
  /\ shares = [i \in ShareId |-> NoShare]
  /\ direct = [s \in ValidSubjects |-> {}]
  /\ audit = <<>>

BrokerNext ==
  \/ \E s \in Subjects, c \in Caps : Check(s, c)
  \/ \E actor, s \in Subjects, c \in Caps : GrantAs(actor, s, c) \/ RevokeAs(actor, s, c)
  \/ \E o, r \in Subjects, c \in Caps, res \in Resources : Request(o, r, c, res)
  \/ \E actor \in Subjects, i \in ShareId :
       Approve(actor, i) \/ Deny(actor, i) \/ RevokeShare(actor, i)

BrokerSpec == BrokerInit /\ [][BrokerNext]_brokerVars

-----------------------------------------------------------------------------
(* Properties. *)

(* Every bit of the table is accounted for: an administrator set it and      *)
(* nobody took it back, or a share of it to the subject stands approved.     *)
(* Grants, approvals and revocations of the same bit come in any order, and  *)
(* nothing but the bit itself is kept in the table.                          *)
GrantExplained ==
  \A s \in ValidSubjects : \A c \in bits[s] :
    \/ c \in direct[s]
    \/ \E i \in ShareId : /\ shares[i].state = "approved"
                          /\ shares[i].recipient = s
                          /\ shares[i].cap = c

(* "Every check, grant, and revoke emits an event" (docs/abi/capabilities.md): *)
(* no path changes a bit of the table without a successful event for it.       *)
MutationsAudited ==
  [][\A s \in ValidSubjects, c \in ValidCaps :
       ((c \in bits[s]) # (c \in bits'[s])) =>
         \E k \in DOMAIN audit' :
           /\ audit'[k].subject = s
           /\ audit'[k].cap = c
           /\ audit'[k].ok
           /\ audit'[k].op = IF c \in bits[s] THEN "revoke" ELSE "grant"]_brokerVars

(* "Revocation is immediate" (docs/abi/capabilities.md): the recipient check *)
(* refuses the recipient right after any of its shares of the capability is  *)
(* revoked, also when another share of the same resource stands approved.    *)
RevocationImmediate ==
  [][\A i \in ShareId :
       shares[i].state = "approved" /\ shares'[i].state = "revoked" =>
         \A res \in Resources :
           ~RecipientMay(shares[i].recipient, shares[i].cap, res)']_brokerVars

(* A denied share stays denied and a revoked one revoked ("the slot is       *)
(* consumed"): neither gives the recipient the capability later.             *)
DecisionsAreFinal ==
  [][\A i \in ShareId :
       shares[i].state \in {"denied", "revoked"} => shares'[i] = shares[i]]_brokerVars
=============================================================================
