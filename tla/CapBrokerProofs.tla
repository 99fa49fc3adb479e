-------------------------- MODULE CapBrokerProofs --------------------------
(***************************************************************************)
(* Theorems about the capability table and the sharing broker, for every   *)
(* set of subjects and capabilities and every number of shares.            *)
(***************************************************************************)
EXTENDS CapBroker, WellFoundedInduction, NaturalsInduction, TLAPS

IInv == BrokerTypeOK /\ GrantExplained

(* cap_broker_request_share takes the lowest unused share. *)
LEMMA FirstIsMember ==
  ASSUME NEW S \in SUBSET ShareId, S # {}
  PROVE  First(S) \in S
<1> DEFINE R == OpToRel(<, Nat)
<1>1. IsWellFoundedOn(R, Nat)
  BY NatLessThanWellFounded
<1>2. \A a, b \in Nat : a < b => <<a, b>> \in R
  BY DEF OpToRel
<1>3. S \subseteq Nat
  BY SharesAssumption DEF ShareId
<1> HIDE DEF R
<1>4. PICK x \in S : \A y \in S : ~(<<y, x>> \in R)
  BY <1>1, <1>3, WFMin
<1>5. ASSUME NEW y \in S PROVE x <= y
  <2>1. x \in Nat /\ y \in Nat
    BY <1>3
  <2>2. ~(y < x)
    BY <1>2, <1>4, <2>1, Zenon
  <2> QED
    BY <2>1, <2>2
<1> QED
  BY <1>4, <1>5 DEF First

(* What cap_table_grant and cap_table_revoke do to a table. *)
LEMMA WithTable ==
  ASSUME NEW f \in [ValidSubjects -> SUBSET ValidCaps], NEW s, NEW c
  PROVE  /\ With(f, s, c) \in [ValidSubjects -> SUBSET ValidCaps]
         /\ \A t \in ValidSubjects : \A d \in ValidCaps :
              d \in With(f, s, c)[t] <=> d \in f[t] \/ (t = s /\ d = c)
<1>1. CASE ValidPair(s, c)
  BY <1>1 DEF With, ValidPair
<1>2. CASE ~ValidPair(s, c)
  BY <1>2 DEF With, ValidPair
<1> QED
  BY <1>1, <1>2

LEMMA WithoutTable ==
  ASSUME NEW f \in [ValidSubjects -> SUBSET ValidCaps], NEW s, NEW c
  PROVE  /\ Without(f, s, c) \in [ValidSubjects -> SUBSET ValidCaps]
         /\ \A t \in ValidSubjects : \A d \in ValidCaps :
              d \in Without(f, s, c)[t] <=> d \in f[t] /\ ~(t = s /\ d = c)
<1>1. CASE ValidPair(s, c)
  BY <1>1 DEF Without, ValidPair
<1>2. CASE ~ValidPair(s, c)
  BY <1>2 DEF Without, ValidPair
<1> QED
  BY <1>1, <1>2

(* A share that has been requested has its four fields. *)
LEMMA ShareFields ==
  ASSUME BrokerTypeOK, NEW i \in ShareId, shares[i].state # "none"
  PROVE  /\ shares[i] \in Share
         /\ shares[i].owner \in ValidSubjects
         /\ shares[i].recipient \in ValidSubjects
         /\ shares[i].cap \in ValidCaps
BY DEF BrokerTypeOK, Share, NoShare

(* Moving a share on keeps the others, and its parties and capability. *)
LEMMA Move ==
  ASSUME BrokerTypeOK, NEW i \in ShareId, shares[i].state # "none",
         NEW st \in {"approved", "denied", "revoked"},
         shares' = [shares EXCEPT ![i].state = st]
  PROVE  /\ shares' \in [ShareId -> Share \cup {NoShare}]
         /\ \A j \in ShareId \ {i} : shares'[j] = shares[j]
         /\ shares'[i].state = st
         /\ shares'[i].recipient = shares[i].recipient
         /\ shares'[i].cap = shares[i].cap
<1>1. shares[i] \in Share /\ shares \in [ShareId -> Share \cup {NoShare}]
  BY ShareFields DEF BrokerTypeOK
<1>2. [shares[i] EXCEPT !.state = st] \in Share
  BY <1>1 DEF Share
<1> QED
  BY <1>1, <1>2 DEF Share

LEMMA InitIInv == BrokerInit => IInv
BY DEF BrokerInit, IInv, BrokerTypeOK, GrantExplained

(* cap_grant_as: both the bit and the record of who gave it are set. *)
LEMMA GrantAsIInv ==
  ASSUME IInv, NEW actor, NEW s, NEW c, GrantAs(actor, s, c)
  PROVE  IInv'
<1>1. bits \in [ValidSubjects -> SUBSET ValidCaps]
      /\ direct \in [ValidSubjects -> SUBSET ValidCaps]
  BY DEF IInv, BrokerTypeOK
<1>2. CASE MayGrant(actor, c)
  <2>1. bits' = With(bits, s, c) /\ direct' = With(direct, s, c) /\ shares' = shares
    BY <1>2 DEF GrantAs
  <2>2. BrokerTypeOK'
    BY <1>1, <2>1, WithTable DEF IInv, BrokerTypeOK
  <2>3. ASSUME NEW t \in ValidSubjects, NEW d \in bits'[t], d \notin direct'[t]
        PROVE  d \in bits[t] /\ d \notin direct[t]
    <3>1. d \in ValidCaps
      BY <2>2 DEF BrokerTypeOK
    <3> QED
      BY <1>1, <2>1, <2>3, <3>1, WithTable
  <2> QED
    BY <2>1, <2>2, <2>3 DEF IInv, GrantExplained
<1>3. CASE ~MayGrant(actor, c)
  BY <1>3 DEF GrantAs, IInv, BrokerTypeOK, GrantExplained
<1> QED
  BY <1>2, <1>3

(* cap_revoke_as. *)
LEMMA RevokeAsIInv ==
  ASSUME IInv, NEW actor, NEW s, NEW c, RevokeAs(actor, s, c)
  PROVE  IInv'
<1>1. bits \in [ValidSubjects -> SUBSET ValidCaps]
      /\ direct \in [ValidSubjects -> SUBSET ValidCaps]
  BY DEF IInv, BrokerTypeOK
<1>2. CASE Holds(actor, AdminCap)
  <2>1. bits' = Without(bits, s, c) /\ direct' = Without(direct, s, c) /\ shares' = shares
    BY <1>2 DEF RevokeAs
  <2>2. BrokerTypeOK'
    BY <1>1, <2>1, WithoutTable DEF IInv, BrokerTypeOK
  <2>3. ASSUME NEW t \in ValidSubjects, NEW d \in bits'[t], d \notin direct'[t]
        PROVE  d \in bits[t] /\ d \notin direct[t]
    <3>1. d \in ValidCaps
      BY <2>2 DEF BrokerTypeOK
    <3> QED
      BY <1>1, <2>1, <2>3, <3>1, WithoutTable
  <2> QED
    BY <2>1, <2>2, <2>3 DEF IInv, GrantExplained
<1>3. CASE ~Holds(actor, AdminCap)
  BY <1>3 DEF RevokeAs, IInv, BrokerTypeOK, GrantExplained
<1> QED
  BY <1>2, <1>3

(* A request takes a share that nothing was approved in. *)
LEMMA RequestIInv ==
  ASSUME IInv, NEW o, NEW r, NEW c, NEW res \in Resources, Request(o, r, c, res)
  PROVE  IInv'
<1> DEFINE k == First(FreeShares)
           new == [state |-> "requested", owner |-> o, recipient |-> r,
                   cap |-> c, resource |-> res]
<1>1. k \in ShareId /\ shares[k] = NoShare
  BY FirstIsMember DEF Request, FreeShares
<1>2. new \in Share
  BY DEF Request, Holds, Share
<1>3. shares' = [shares EXCEPT ![k] = new] /\ bits' = bits /\ direct' = direct
  BY DEF Request
<1> HIDE DEF k, new
<1>4. BrokerTypeOK'
  BY <1>1, <1>2, <1>3 DEF IInv, BrokerTypeOK
<1>5. \A i \in ShareId : shares[i].state = "approved" => shares'[i] = shares[i]
  BY <1>1, <1>3 DEF IInv, BrokerTypeOK, NoShare
<1>6. GrantExplained'
  BY <1>3, <1>5 DEF IInv, GrantExplained
<1> QED
  BY <1>4, <1>6 DEF IInv

(* An approval explains the bit it sets. *)
LEMMA ApproveIInv ==
  ASSUME IInv, NEW actor, NEW i \in ShareId, Approve(actor, i)
  PROVE  IInv'
<1> DEFINE r == shares[i].recipient
           c == shares[i].cap
<1>1. /\ bits \in [ValidSubjects -> SUBSET ValidCaps]
      /\ shares[i].state = "requested"
      /\ BrokerTypeOK
  BY DEF IInv, BrokerTypeOK, Approve, Decides
<1>2. bits' = With(bits, r, c) /\ direct' = direct
      /\ shares' = [shares EXCEPT ![i].state = "approved"]
  BY DEF Approve
<1>3. /\ shares' \in [ShareId -> Share \cup {NoShare}]
      /\ \A j \in ShareId \ {i} : shares'[j] = shares[j]
      /\ shares'[i].state = "approved"
      /\ shares'[i].recipient = r
      /\ shares'[i].cap = c
  BY <1>1, <1>2, Move
<1> HIDE DEF r, c
<1>4. BrokerTypeOK'
  BY <1>1, <1>2, <1>3, WithTable DEF BrokerTypeOK
<1>5. ASSUME NEW t \in ValidSubjects, NEW d \in bits'[t], d \notin direct'[t]
      PROVE  \E j \in ShareId : /\ shares'[j].state = "approved"
                                 /\ shares'[j].recipient = t
                                 /\ shares'[j].cap = d
  <2>1. d \in ValidCaps
    BY <1>4 DEF BrokerTypeOK
  <2>2. d \in bits[t] \/ (t = r /\ d = c)
    BY <1>1, <1>2, <2>1, WithTable
  <2>3. CASE d \in bits[t]
    <3>1. PICK j \in ShareId : /\ shares[j].state = "approved"
                               /\ shares[j].recipient = t
                               /\ shares[j].cap = d
      BY <1>2, <1>5, <2>3 DEF IInv, GrantExplained
    <3> QED
      BY <1>1, <1>3, <3>1
  <2>4. CASE t = r /\ d = c
    BY <1>3, <2>4
  <2> QED
    BY <2>2, <2>3, <2>4
<1> QED
  BY <1>4, <1>5 DEF IInv, GrantExplained

(* A denial touches no approved share. *)
LEMMA DenyIInv ==
  ASSUME IInv, NEW actor, NEW i \in ShareId, Deny(actor, i)
  PROVE  IInv'
<1>1. shares[i].state = "requested" /\ BrokerTypeOK
  BY DEF IInv, Deny, Decides
<1>2. bits' = bits /\ direct' = direct /\ shares' = [shares EXCEPT ![i].state = "denied"]
  BY DEF Deny
<1>3. /\ shares' \in [ShareId -> Share \cup {NoShare}]
      /\ \A j \in ShareId \ {i} : shares'[j] = shares[j]
  BY <1>1, <1>2, Move
<1>4. \A j \in ShareId : shares[j].state = "approved" => shares'[j] = shares[j]
  BY <1>1, <1>3
<1> QED
  BY <1>1, <1>2, <1>3, <1>4 DEF IInv, BrokerTypeOK, GrantExplained

(* A revocation clears the bit, so the share that falls away explained       *)
(* nothing that is left.                                                     *)
LEMMA RevokeShareIInv ==
  ASSUME IInv, NEW actor, NEW i \in ShareId, RevokeShare(actor, i)
  PROVE  IInv'
<1> DEFINE r == shares[i].recipient
           c == shares[i].cap
<1>1. /\ bits \in [ValidSubjects -> SUBSET ValidCaps]
      /\ direct \in [ValidSubjects -> SUBSET ValidCaps]
      /\ shares[i].state = "approved"
      /\ BrokerTypeOK
  BY DEF IInv, BrokerTypeOK, RevokeShare
<1>2. bits' = Without(bits, r, c) /\ direct' = Without(direct, r, c)
      /\ shares' = [shares EXCEPT ![i].state = "revoked"]
  BY DEF RevokeShare
<1>3. /\ shares' \in [ShareId -> Share \cup {NoShare}]
      /\ \A j \in ShareId \ {i} : shares'[j] = shares[j]
  BY <1>1, <1>2, Move
<1>4. BrokerTypeOK'
  BY <1>1, <1>2, <1>3, WithoutTable DEF BrokerTypeOK
<1>5. ASSUME NEW t \in ValidSubjects, NEW d \in bits'[t], d \notin direct'[t]
      PROVE  \E j \in ShareId : /\ shares'[j].state = "approved"
                                 /\ shares'[j].recipient = t
                                 /\ shares'[j].cap = d
  <2>1. d \in ValidCaps
    BY <1>4 DEF BrokerTypeOK
  <2>2. d \in bits[t] /\ ~(t = r /\ d = c) /\ d \notin direct[t]
    BY <1>1, <1>2, <1>5, <2>1, WithoutTable
  <2>3. PICK j \in ShareId : /\ shares[j].state = "approved"
                             /\ shares[j].recipient = t
                             /\ shares[j].cap = d
    BY <2>2 DEF IInv, GrantExplained
  <2>4. j # i
    BY <2>2, <2>3
  <2> QED
    BY <1>3, <2>3, <2>4
<1> QED
  BY <1>4, <1>5 DEF IInv, GrantExplained

(* Every operation of the table and of the broker preserves the invariant. *)
LEMMA NextIInv == IInv /\ [BrokerNext]_brokerVars => IInv'
<1> SUFFICES ASSUME IInv, [BrokerNext]_brokerVars PROVE IInv'
  OBVIOUS
<1>1. ASSUME NEW s \in Subjects, NEW c \in Caps, Check(s, c) PROVE IInv'
  BY <1>1 DEF Check, IInv, BrokerTypeOK, GrantExplained
<1>2. ASSUME NEW a \in Subjects, NEW s \in Subjects, NEW c \in Caps,
             GrantAs(a, s, c) \/ RevokeAs(a, s, c)
      PROVE  IInv'
  BY <1>2, GrantAsIInv, RevokeAsIInv
<1>3. ASSUME NEW o \in Subjects, NEW r \in Subjects, NEW c \in Caps, NEW res \in Resources,
             Request(o, r, c, res)
      PROVE  IInv'
  BY <1>3, RequestIInv
<1>4. ASSUME NEW a \in Subjects, NEW i \in ShareId,
             Approve(a, i) \/ Deny(a, i) \/ RevokeShare(a, i)
      PROVE  IInv'
  BY <1>4, ApproveIInv, DenyIInv, RevokeShareIInv
<1>5. CASE UNCHANGED brokerVars
  BY <1>5 DEF brokerVars, IInv, BrokerTypeOK, GrantExplained
<1> QED
  BY <1>1, <1>2, <1>3, <1>4, <1>5 DEF BrokerNext

LEMMA Invariant == BrokerSpec => []IInv
BY InitIInv, NextIInv, PTL DEF BrokerSpec

(* Grants and shares outside the tables are refused, whatever is passed. *)
THEOREM BrokerTypes == BrokerSpec => []BrokerTypeOK
<1>1. IInv => BrokerTypeOK
  BY DEF IInv
<1> QED
  BY <1>1, Invariant, PTL

(* Every bit of the capability table has a standing reason. *)
THEOREM EveryGrantExplained == BrokerSpec => []GrantExplained
<1>1. IInv => GrantExplained
  BY DEF IInv
<1> QED
  BY <1>1, Invariant, PTL

(* The step records a successful event for the bit (s, c). *)
Logged(op, s, c) ==
  \E k \in DOMAIN audit' :
    /\ audit'[k].subject = s
    /\ audit'[k].cap = c
    /\ audit'[k].ok
    /\ audit'[k].op = op

Audited(s, c) ==
  /\ c \in bits'[s] /\ c \notin bits[s] => Logged("grant", s, c)
  /\ c \notin bits'[s] /\ c \in bits[s] => Logged("revoke", s, c)

LEMMA OneEvent ==
  ASSUME NEW op, NEW actor, NEW s, NEW c, Record(op, actor, s, c, TRUE)
  PROVE  Logged(op, s, c)
<1>1. audit' = <<Ev(op, actor, s, c, TRUE)>>
  BY DEF Record
<1>2. 1 \in DOMAIN audit' /\ audit'[1] = Ev(op, actor, s, c, TRUE)
  BY <1>1
<1>3. /\ audit'[1].subject = s
      /\ audit'[1].cap = c
      /\ audit'[1].ok
      /\ audit'[1].op = op
  BY <1>2 DEF Ev
<1> QED
  BY <1>2, <1>3, Zenon DEF Logged

LEMMA GrantAudited ==
  ASSUME BrokerTypeOK, NEW actor, NEW s, NEW c, bits' = With(bits, s, c),
         ValidPair(s, c) => Record("grant", actor, s, c, TRUE),
         NEW t \in ValidSubjects, NEW d \in ValidCaps
  PROVE  Audited(t, d)
<1>1. d \in bits'[t] <=> d \in bits[t] \/ (t = s /\ d = c)
  BY WithTable DEF BrokerTypeOK
<1>2. CASE t = s /\ d = c /\ d \notin bits[t]
  BY <1>2, OneEvent DEF Audited, ValidPair
<1>3. CASE ~(t = s /\ d = c /\ d \notin bits[t])
  BY <1>1, <1>3 DEF Audited
<1> QED
  BY <1>2, <1>3

LEMMA RevokeAudited ==
  ASSUME BrokerTypeOK, NEW actor, NEW s, NEW c, bits' = Without(bits, s, c),
         ValidPair(s, c) => Record("revoke", actor, s, c, TRUE),
         NEW t \in ValidSubjects, NEW d \in ValidCaps
  PROVE  Audited(t, d)
<1>1. d \in bits'[t] <=> d \in bits[t] /\ ~(t = s /\ d = c)
  BY WithoutTable DEF BrokerTypeOK
<1>2. CASE t = s /\ d = c /\ d \in bits[t]
  BY <1>2, OneEvent DEF Audited, ValidPair
<1>3. CASE ~(t = s /\ d = c /\ d \in bits[t])
  BY <1>1, <1>3 DEF Audited
<1> QED
  BY <1>2, <1>3

(* "Every check, grant, and revoke emits an event": none of the seven        *)
(* operations changes a bit without a successful event for that bit.         *)
THEOREM EveryMutationAudited == BrokerSpec => MutationsAudited
<1>1. ASSUME IInv, [BrokerNext]_brokerVars, NEW t \in ValidSubjects, NEW d \in ValidCaps
      PROVE  Audited(t, d)
  <2> USE <1>1 DEF IInv
  <2>1. ASSUME bits' = bits PROVE Audited(t, d)
    BY <2>1 DEF Audited
  <2>2. ASSUME NEW a \in Subjects, NEW s \in Subjects, NEW c \in Caps, GrantAs(a, s, c)
        PROVE  Audited(t, d)
    <3>1. CASE MayGrant(a, c)
      <4>1. bits' = With(bits, s, c) /\ (ValidPair(s, c) => Record("grant", a, s, c, TRUE))
        BY <2>2, <3>1 DEF GrantAs
      <4> QED
        BY <4>1, GrantAudited
    <3>2. CASE ~MayGrant(a, c)
      BY <2>1, <2>2, <3>2 DEF GrantAs
    <3> QED
      BY <3>1, <3>2
  <2>3. ASSUME NEW a \in Subjects, NEW s \in Subjects, NEW c \in Caps, RevokeAs(a, s, c)
        PROVE  Audited(t, d)
    <3>1. CASE Holds(a, AdminCap)
      <4>1. bits' = Without(bits, s, c) /\ (ValidPair(s, c) => Record("revoke", a, s, c, TRUE))
        BY <2>3, <3>1 DEF RevokeAs
      <4> QED
        BY <4>1, RevokeAudited
    <3>2. CASE ~Holds(a, AdminCap)
      BY <2>1, <2>3, <3>2 DEF RevokeAs
    <3> QED
      BY <3>1, <3>2
  <2>4. ASSUME NEW a \in Subjects, NEW i \in ShareId, Approve(a, i) PROVE Audited(t, d)
    BY <2>4, GrantAudited DEF Approve
  <2>5. ASSUME NEW a \in Subjects, NEW i \in ShareId, RevokeShare(a, i) PROVE Audited(t, d)
    BY <2>5, RevokeAudited DEF RevokeShare
  <2> QED
    BY <2>1, <2>2, <2>3, <2>4, <2>5 DEF BrokerNext, Check, Request, Deny, brokerVars
<1>2. ASSUME IInv, [BrokerNext]_brokerVars, NEW s \in ValidSubjects, NEW c \in ValidCaps,
             (c \in bits[s]) # (c \in bits'[s])
      PROVE  Logged(IF c \in bits[s] THEN "revoke" ELSE "grant", s, c)
  <2>1. CASE c \in bits[s]
    <3>1. c \notin bits'[s]
      BY <1>2, <2>1, Zenon
    <3>2. Logged("revoke", s, c)
      BY <1>1, <1>2, <2>1, <3>1 DEF Audited
    <3> QED
      BY <2>1, <3>2
  <2>2. CASE c \notin bits[s]
    <3>1. c \in bits'[s]
      BY <1>2, <2>2
    <3>2. Logged("grant", s, c)
      BY <1>1, <1>2, <2>2, <3>1 DEF Audited
    <3> QED
      BY <2>2, <3>2
  <2> QED
    BY <2>1, <2>2
<1>3. IInv /\ [BrokerNext]_brokerVars =>
        [\A s \in ValidSubjects, c \in ValidCaps :
           ((c \in bits[s]) # (c \in bits'[s])) =>
             Logged(IF c \in bits[s] THEN "revoke" ELSE "grant", s, c)]_brokerVars
  BY <1>2, Zenon
<1> QED
  BY <1>3, Invariant, PTL DEF BrokerSpec, MutationsAudited, Logged

(* Which share a step moves: only a revocation makes a share revoked, and    *)
(* nothing moves a denied or a revoked one.                                  *)
LEMMA ShareSteps ==
  ASSUME IInv, [BrokerNext]_brokerVars, NEW i \in ShareId
  PROVE  /\ shares[i].state \in {"denied", "revoked"} => shares'[i] = shares[i]
         /\ (shares[i].state = "approved" /\ shares'[i].state = "revoked") =>
              \E actor \in Subjects : RevokeShare(actor, i)
<1> DEFINE Goal == /\ shares[i].state \in {"denied", "revoked"} => shares'[i] = shares[i]
                   /\ (shares[i].state = "approved" /\ shares'[i].state = "revoked") =>
                        \E actor \in Subjects : RevokeShare(actor, i)
<1>0. BrokerTypeOK
  BY DEF IInv
<1>1. ASSUME shares' = shares PROVE Goal
  BY <1>1
<1>2. ASSUME NEW o, NEW r, NEW c, NEW res, Request(o, r, c, res) PROVE Goal
  <2>1. First(FreeShares) \in ShareId /\ shares[First(FreeShares)].state = "none"
    BY <1>2, FirstIsMember DEF Request, FreeShares, NoShare
  <2> QED
    BY <1>0, <1>2, <2>1 DEF Request, BrokerTypeOK
<1>3. ASSUME NEW a, NEW j \in ShareId, Approve(a, j) PROVE Goal
  <2>1. /\ shares[j].state = "requested"
        /\ \A k \in ShareId \ {j} : shares'[k] = shares[k]
    BY <1>0, <1>3, Move DEF Approve, Decides
  <2> QED
    BY <2>1
<1>4. ASSUME NEW a, NEW j \in ShareId, Deny(a, j) PROVE Goal
  <2>1. /\ shares[j].state = "requested"
        /\ \A k \in ShareId \ {j} : shares'[k] = shares[k]
    BY <1>0, <1>4, Move DEF Deny, Decides
  <2> QED
    BY <2>1
<1>5. ASSUME NEW a \in Subjects, NEW j \in ShareId, RevokeShare(a, j) PROVE Goal
  <2>1. /\ shares[j].state = "approved"
        /\ \A k \in ShareId \ {j} : shares'[k] = shares[k]
    BY <1>0, <1>5, Move DEF RevokeShare
  <2>2. CASE i = j
    BY <1>5, <2>1, <2>2
  <2>3. CASE i # j
    BY <2>1, <2>3
  <2> QED
    BY <2>2, <2>3
<1>6. ASSUME NEW s \in Subjects, NEW c \in Caps,
             \/ Check(s, c)
             \/ \E a \in Subjects : GrantAs(a, s, c) \/ RevokeAs(a, s, c)
      PROVE  Goal
  BY <1>1, <1>6 DEF Check, GrantAs, RevokeAs
<1>7. ASSUME UNCHANGED brokerVars PROVE Goal
  BY <1>1, <1>7 DEF brokerVars
<1> HIDE DEF Goal
<1>8. Goal
  BY <1>2, <1>3, <1>4, <1>5, <1>6, <1>7 DEF BrokerNext
<1> QED
  BY <1>8 DEF Goal

(* cap_broker_revoke takes the recipient's authority away in the same step,  *)
(* whatever other shares it holds.                                           *)
THEOREM RevokedAtOnce == BrokerSpec => RevocationImmediate
<1> DEFINE At(i) == shares[i].state = "approved" /\ shares'[i].state = "revoked" =>
                      \A res \in Resources :
                        ~RecipientMay(shares[i].recipient, shares[i].cap, res)'
<1>1. ASSUME IInv, [BrokerNext]_brokerVars, NEW i \in ShareId,
             shares[i].state = "approved", shares'[i].state = "revoked"
      PROVE  ~(shares'[i].cap \in bits'[shares'[i].recipient])
  <2>1. PICK actor \in Subjects : RevokeShare(actor, i)
    BY <1>1, ShareSteps
  <2>2. /\ shares[i].recipient \in ValidSubjects
        /\ shares[i].cap \in ValidCaps
        /\ BrokerTypeOK
    BY <1>1, ShareFields DEF IInv
  <2>3. shares'[i].recipient = shares[i].recipient /\ shares'[i].cap = shares[i].cap
    BY <1>1, <2>1, <2>2, Move DEF RevokeShare
  <2>4. bits' = Without(bits, shares[i].recipient, shares[i].cap)
    BY <2>1 DEF RevokeShare
  <2> QED
    BY <2>2, <2>3, <2>4, WithoutTable DEF BrokerTypeOK
<1>2. IInv /\ [BrokerNext]_brokerVars => [\A i \in ShareId : At(i)]_brokerVars
  BY <1>1 DEF RecipientMay, Holds
<1> QED
  BY <1>2, Invariant, PTL DEF BrokerSpec, RevocationImmediate

(* "the slot is consumed": no later call decides a denied or revoked share   *)
(* again.                                                                    *)
THEOREM DecisionsStay == BrokerSpec => DecisionsAreFinal
<1>1. IInv /\ [BrokerNext]_brokerVars =>
        [\A i \in ShareId :
           shares[i].state \in {"denied", "revoked"} => shares'[i] = shares[i]]_brokerVars
  BY ShareSteps
<1> QED
  BY <1>1, Invariant, PTL DEF BrokerSpec, DecisionsAreFinal
=============================================================================
