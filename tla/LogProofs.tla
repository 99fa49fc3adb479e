----------------------------- MODULE LogProofs ------------------------------
(***************************************************************************)
(* What the bounded logs keep, for every size: the lemmas about rings, and *)
(* from them the audit log and the event bus.                              *)
(***************************************************************************)
EXTENDS Logs, TLAPS

\* A new ring holds the empty log.
LEMMA EmptyRingHolds ==
  ASSUME NEW size \in Nat \ {0}, NEW X, NEW x \in X
  PROVE  IsRing(EmptyRing(size, x), size, X) /\ Holds(EmptyRing(size, x), size, <<>>)
BY DEF IsRing, EmptyRing, Holds

\* A reset ring holds the empty log, whatever is left in its array.
LEMMA ClearedHolds ==
  ASSUME NEW size \in Nat \ {0}, NEW X, NEW r, IsRing(r, size, X)
  PROVE  IsRing(Cleared(r), size, X) /\ Holds(Cleared(r), size, <<>>)
<1> DEFINE q == Cleared(r)
<1>1. r.slots \in [0 .. size - 1 -> X]
  BY DEF IsRing
<1>2. q = [slots |-> r.slots, next |-> 0, count |-> 0, dropped |-> 0]
  BY DEF Cleared
<1> HIDE DEF q
<1>3. IsRing(q, size, X)
  BY <1>1, <1>2 DEF IsRing
<1>4. q.count = 0 /\ q.dropped = 0
  BY <1>2
<1>5. Holds(q, size, <<>>)
  BY <1>4 DEF Holds
<1> QED
  BY <1>3, <1>5 DEF q

\* A push stays in the array.
LEMMA PushIsRing ==
  ASSUME NEW size \in Nat \ {0}, NEW X, NEW r, IsRing(r, size, X), NEW x \in X
  PROVE  IsRing(Push(r, size, x), size, X)
BY DEF IsRing, Push

\* A push adds the newest entry of the log and drops the oldest one when, and
\* only when, the ring is full.
LEMMA PushHolds ==
  ASSUME NEW size \in Nat \ {0}, NEW X, NEW r, IsRing(r, size, X), NEW x \in X,
         NEW log \in Seq(X), Holds(r, size, log)
  PROVE  Holds(Push(r, size, x), size, Append(log, x))
<1> DEFINE q == Push(r, size, x)
           l == Append(log, x)
<1>1. /\ r.next \in 0 .. size - 1 /\ r.count \in 0 .. size /\ r.dropped \in Nat
      /\ r.count < size => r.next = r.count
  BY DEF IsRing
<1>2. /\ q.next = (IF r.next = size - 1 THEN 0 ELSE r.next + 1)
      /\ q.count = (IF r.count < size THEN r.count + 1 ELSE r.count)
      /\ q.dropped = (IF r.count < size THEN r.dropped ELSE r.dropped + 1)
  BY DEF Push
<1>3. /\ q.slots[r.next] = x
      /\ \A i \in 0 .. size - 1 : i # r.next => q.slots[i] = r.slots[i]
  <2>1. q.slots = [r.slots EXCEPT ![r.next] = x] /\ r.slots \in [0 .. size - 1 -> X]
    BY DEF Push, IsRing
  <2> HIDE DEF q
  <2> QED
    BY <1>1, <2>1
<1>4. Len(log) \in Nat /\ Len(l) = Len(log) + 1
  OBVIOUS
<1>5. (\A i \in 1 .. Len(log) : l[i] = log[i]) /\ l[Len(log) + 1] = x
  OBVIOUS
<1> HIDE DEF q, l
<1>6. /\ r.count = (IF Len(log) < size THEN Len(log) ELSE size)
      /\ r.dropped = Len(log) - r.count
  BY DEF Holds
<1>7. /\ q.count = (IF Len(l) < size THEN Len(l) ELSE size)
      /\ q.dropped = Len(l) - q.count
  BY <1>1, <1>2, <1>4, <1>6
<1>8. \A k \in 0 .. r.count - 1 : EntryAt(r, size, k) = log[Len(log) - r.count + k + 1]
  BY DEF Holds
<1>9. ASSUME NEW k \in Nat, k < q.count
      PROVE  EntryAt(q, size, k) = l[Len(l) - q.count + k + 1]
  <2>1. CASE r.count < size
    <3>1. q.count = r.count + 1 /\ Len(log) = r.count /\ r.next = r.count
      BY <1>1, <1>2, <1>6, <2>1
    <3>2. Len(l) - q.count + k + 1 = k + 1
      BY <1>1, <1>4, <3>1
    <3>3. EntryAt(q, size, k) = q.slots[k]
      <4>1. Start(q, size) = (IF r.count + 1 = size THEN q.next ELSE 0)
        BY <3>1 DEF Start
      <4>2. Start(q, size) = 0
        BY <1>1, <1>2, <3>1, <4>1
      <4>3. k < size
        BY <1>1, <1>9, <2>1, <3>1
      <4> QED
        BY <4>2, <4>3 DEF EntryAt
    <3>4. CASE k = r.count
      BY <1>3, <1>5, <3>1, <3>2, <3>3, <3>4
    <3>5. CASE k # r.count
      <4>1. k \in 0 .. r.count - 1 /\ k + 1 \in 1 .. Len(log) /\ k \in 0 .. size - 1
        BY <1>1, <1>9, <2>1, <3>1, <3>5
      <4>2. Start(r, size) = 0
        BY <1>1, <2>1 DEF Start
      <4>3. EntryAt(r, size, k) = r.slots[k]
        BY <4>1, <4>2 DEF EntryAt
      <4>4. Len(log) - r.count + k + 1 = k + 1
        BY <1>1, <3>1
      <4>5. r.slots[k] = log[k + 1]
        BY <1>8, <4>1, <4>3, <4>4
      <4>6. q.slots[k] = r.slots[k]
        BY <1>3, <3>1, <3>5, <4>1
      <4> QED
        BY <1>5, <3>2, <3>3, <4>1, <4>5, <4>6
    <3> QED
      BY <3>4, <3>5
  <2>2. CASE r.count = size
    <3>1. q.count = size /\ Len(log) >= size
      BY <1>1, <1>2, <1>4, <1>6, <2>2
    <3>2. Start(q, size) = q.next /\ Start(r, size) = r.next
      BY <2>2, <3>1 DEF Start
    <3> DEFINE j == IF q.next + k < size THEN q.next + k ELSE q.next + k - size
    <3>0. EntryAt(q, size, k) = q.slots[j]
      <4>1. q.next \in Nat
        BY <1>1, <1>2
      <4> QED
        BY <3>2, <4>1 DEF EntryAt
    <3>3. Len(l) - q.count + k + 1 = Len(log) - size + k + 2
      BY <1>4, <3>1
    <3>4. CASE k = size - 1
      <4>1. EntryAt(q, size, k) = q.slots[r.next]
        <5>1. j = r.next
          BY <1>1, <1>2, <3>4
        <5> HIDE DEF j
        <5> QED
          BY <3>0, <5>1
      <4>2. Len(l) - q.count + k + 1 = Len(log) + 1
        BY <1>4, <3>3, <3>4
      <4> QED
        BY <1>3, <1>5, <4>1, <4>2
    <3>5. CASE k # size - 1
      <4> DEFINE a == r.next + (k + 1)
                 i == IF a < size THEN a ELSE a - size
      <4>1. k + 1 \in 0 .. r.count - 1 /\ k + 1 < size
        BY <1>9, <2>2, <3>1, <3>5
      <4>2. i \in 0 .. size - 1 /\ i # r.next
        BY <1>1, <4>1
      <4>3. j = i
        <5>1. CASE r.next = size - 1
          <6>1. q.next = 0 /\ a = size + k
            BY <1>1, <1>2, <5>1
          <6> QED
            BY <4>1, <6>1
        <5>2. CASE r.next # size - 1
          <6>1. q.next = r.next + 1
            BY <1>2, <5>2
          <6> QED
            BY <1>1, <6>1
        <5> QED
          BY <5>1, <5>2
      <4>4. EntryAt(r, size, k + 1) = r.slots[i]
        BY <3>2 DEF EntryAt
      <4>5. EntryAt(q, size, k) = q.slots[i]
        <5> HIDE DEF i, j
        <5> QED
          BY <3>0, <4>3
      <4> HIDE DEF i
      <4>6. Len(log) - r.count + (k + 1) + 1 = Len(log) - size + k + 2
        BY <1>4, <2>2
      <4>7. EntryAt(r, size, k + 1) = log[Len(log) - size + k + 2]
        BY <1>8, <4>1, <4>6
      <4>8. Len(log) - size + k + 2 \in 1 .. Len(log)
        BY <1>4, <3>1, <4>1
      <4> QED
        BY <1>3, <1>5, <3>3, <4>2, <4>4, <4>5, <4>7, <4>8
    <3> QED
      BY <3>4, <3>5
  <2> QED
    BY <1>1, <2>1, <2>2
<1>10. \A k \in 0 .. q.count - 1 : EntryAt(q, size, k) = l[Len(l) - q.count + k + 1]
  <2>1. q.count \in Nat
    BY <1>1, <1>2
  <2> QED
    BY <1>9, <2>1
<1> QED
  BY <1>7, <1>10 DEF Holds, q, l

-----------------------------------------------------------------------------

AuditEntry == [seq : Nat, event : AuditEvents \cup {"none"}]

\* The numbers go with the history, so that a push adds the next entry of it.
AuditIInv ==
  /\ recorded \in Seq(AuditEvents)
  /\ auditSeq = Len(recorded)
  /\ IsRing(events, EventMax, AuditEntry)
  /\ AuditRetainsNewest

LEMMA NumberedLog ==
  ASSUME NEW log \in Seq(AuditEvents), NEW e \in AuditEvents
  PROVE  /\ Numbered(log) \in Seq(AuditEntry)
         /\ Numbered(Append(log, e)) =
              Append(Numbered(log), [seq |-> Len(log), event |-> e])
<1>1. Numbered(log) \in Seq(AuditEntry) /\ Len(Numbered(log)) = Len(log)
  BY DEF Numbered, AuditEntry
<1>2. /\ Len(Numbered(Append(log, e))) = Len(log) + 1
      /\ Numbered(Append(log, e)) \in Seq(AuditEntry)
  <2>1. Append(log, e) \in Seq(AuditEvents) /\ Len(Append(log, e)) = Len(log) + 1
    OBVIOUS
  <2> QED
    BY <2>1 DEF Numbered, AuditEntry
<1> DEFINE a == Numbered(Append(log, e))
           b == Append(Numbered(log), [seq |-> Len(log), event |-> e])
<1>3. b \in Seq(AuditEntry) /\ Len(b) = Len(log) + 1
  BY <1>1 DEF AuditEntry
<1>4. \A i \in 1 .. Len(log) + 1 : a[i] = b[i]
  BY <1>1 DEF Numbered
<1> QED
  BY <1>1, <1>2, <1>3, <1>4

\* Every event that cap_audit_record was given since the last reset is in the
\* ring under its own number, or was counted as dropped, for every size of the
\* ring.
THEOREM AuditKeepsNewest == AuditSpec => []AuditRetainsNewest
<1>1. AuditInit => AuditIInv
  <2> SUFFICES ASSUME AuditInit PROVE AuditIInv
    OBVIOUS
  <2>1. NoAuditEvent \in AuditEntry
    BY DEF NoAuditEvent, AuditEntry
  <2>2. recorded = <<>> /\ auditSeq = 0 /\ Numbered(recorded) = <<>>
    BY DEF AuditInit, Numbered
  <2>3. IsRing(events, EventMax, AuditEntry) /\ Holds(events, EventMax, <<>>)
    BY <2>1, AuditAssumption, EmptyRingHolds DEF AuditInit
  <2> QED
    BY <2>2, <2>3 DEF AuditIInv, AuditRetainsNewest
<1>2. AuditIInv /\ [AuditNext]_auditVars => AuditIInv'
  <2> SUFFICES ASSUME AuditIInv, [AuditNext]_auditVars PROVE AuditIInv'
    OBVIOUS
  <2>1. ASSUME NEW e \in AuditEvents, Record(e) PROVE AuditIInv'
    <3> DEFINE x == [seq |-> auditSeq, event |-> e]
    <3>1. x \in AuditEntry
      BY DEF AuditIInv, AuditEntry
    <3>2. IsRing(events', EventMax, AuditEntry)
      BY <2>1, <3>1, AuditAssumption, PushIsRing DEF Record, AuditIInv
    <3>3. /\ Numbered(recorded) \in Seq(AuditEntry)
          /\ Numbered(recorded') = Append(Numbered(recorded), x)
      BY <2>1, NumberedLog DEF Record, AuditIInv
    <3>4. Holds(events', EventMax, Numbered(recorded'))
      BY <2>1, <3>1, <3>3, AuditAssumption, PushHolds
         DEF Record, AuditIInv, AuditRetainsNewest
    <3>5. recorded' \in Seq(AuditEvents) /\ auditSeq' = Len(recorded')
      BY <2>1 DEF Record, AuditIInv
    <3> QED
      BY <3>2, <3>4, <3>5 DEF AuditIInv, AuditRetainsNewest
  <2>2. CASE AuditReset
    <3>1. recorded' = <<>> /\ auditSeq' = 0 /\ Numbered(recorded') = <<>>
      BY <2>2 DEF AuditReset, Numbered
    <3>2. IsRing(events', EventMax, AuditEntry) /\ Holds(events', EventMax, <<>>)
      BY <2>2, AuditAssumption, ClearedHolds DEF AuditReset, AuditIInv
    <3> QED
      BY <3>1, <3>2 DEF AuditIInv, AuditRetainsNewest
  <2>3. CASE UNCHANGED auditVars
    BY <2>3 DEF auditVars, AuditIInv, AuditRetainsNewest
  <2> QED
    BY <2>1, <2>2, <2>3 DEF AuditNext
<1>3. AuditIInv => AuditRetainsNewest
  BY DEF AuditIInv
<1> QED
  BY <1>1, <1>2, <1>3, PTL DEF AuditSpec

-----------------------------------------------------------------------------

\* Numbers already given are below the next one, whatever the topic.
BusIInv ==
  /\ topicRing = [t \in Topics |-> topicRing[t]]
  /\ \A t \in Topics : IsRing(topicRing[t], QueueCapacity, BusEvent)
  /\ published \in [Topics -> Seq(BusEvent)]
  /\ busSeq \in Nat
  /\ \A t \in Topics : \A i \in 1 .. Len(published[t]) : published[t][i].seq < busSeq
  /\ TopicsInOrder

\* The events of one topic, and of all topics, are kept in order and with their
\* own numbers by event_publish, for every set of topics and every capacity.
THEOREM BusKeepsOrder == BusSpec => []TopicsInOrder
<1>1. BusInit => BusIInv
  <2> SUFFICES ASSUME BusInit PROVE BusIInv
    OBVIOUS
  <2>1. NoBusEvent \in BusEvent
    BY DEF NoBusEvent, BusEvent
  <2>2. \A t \in Topics : /\ IsRing(topicRing[t], QueueCapacity, BusEvent)
                          /\ Holds(topicRing[t], QueueCapacity, <<>>)
    BY <2>1, BusAssumption, EmptyRingHolds DEF BusInit
  <2>3. /\ published = [t \in Topics |-> <<>>] /\ busSeq = 0
        /\ topicRing = [t \in Topics |-> topicRing[t]]
    BY DEF BusInit
  <2> QED
    BY <2>2, <2>3 DEF BusIInv, TopicsInOrder, RetainsNewest, NumbersOrderEvents
<1>2. BusIInv /\ [BusNext]_busVars => BusIInv'
  <2> SUFFICES ASSUME BusIInv, [BusNext]_busVars PROVE BusIInv'
    OBVIOUS
  <2>1. ASSUME NEW s \in BusSubjects, NEW t \in Topics, Publish(s, t) PROVE BusIInv'
    <3> DEFINE e == [seq |-> busSeq, actor |-> s]
    <3>1. e \in BusEvent /\ e.seq = busSeq
      BY DEF BusIInv, BusEvent
    <3>2. /\ topicRing' = [topicRing EXCEPT ![t] = Push(topicRing[t], QueueCapacity, e)]
          /\ published' = [published EXCEPT ![t] = Append(published[t], e)]
          /\ busSeq' = busSeq + 1 /\ busSeq \in Nat
      BY <2>1 DEF Publish, NumberFor, BusIInv
    <3> HIDE DEF e
    <3>3. /\ IsRing(Push(topicRing[t], QueueCapacity, e), QueueCapacity, BusEvent)
          /\ Holds(Push(topicRing[t], QueueCapacity, e), QueueCapacity,
                   Append(published[t], e))
      BY <3>1, BusAssumption, PushIsRing, PushHolds DEF BusIInv, TopicsInOrder, RetainsNewest
    <3>4. /\ topicRing' = [u \in Topics |-> topicRing'[u]]
          /\ published' \in [Topics -> Seq(BusEvent)]
      <4> DEFINE P == Push(topicRing[t], QueueCapacity, e)
      <4>1. topicRing' = [topicRing EXCEPT ![t] = P]
        BY <3>2
      <4> HIDE DEF P
      <4>2. topicRing' = [u \in Topics |-> IF u = t THEN P ELSE topicRing[u]]
        BY <4>1 DEF BusIInv
      <4>3. topicRing' = [u \in Topics |-> topicRing'[u]]
        BY <4>2
      <4>4. Append(published[t], e) \in Seq(BusEvent)
        BY <3>1 DEF BusIInv
      <4>5. published' \in [Topics -> Seq(BusEvent)]
        BY <3>2, <4>4 DEF BusIInv
      <4> QED
        BY <4>3, <4>5
    <3>5. \A u \in Topics : /\ IsRing(topicRing'[u], QueueCapacity, BusEvent)
                            /\ Holds(topicRing'[u], QueueCapacity, published'[u])
      <4> SUFFICES ASSUME NEW u \in Topics
                   PROVE  /\ IsRing(topicRing'[u], QueueCapacity, BusEvent)
                          /\ Holds(topicRing'[u], QueueCapacity, published'[u])
        OBVIOUS
      <4>1. CASE u = t
        <5>1. /\ topicRing'[u] = Push(topicRing[t], QueueCapacity, e)
              /\ published'[u] = Append(published[t], e)
          BY <3>2, <4>1 DEF BusIInv
        <5> QED
          BY <3>3, <5>1
      <4>2. CASE u # t
        <5>1. topicRing'[u] = topicRing[u] /\ published'[u] = published[u]
          BY <3>2, <4>2 DEF BusIInv
        <5> QED
          BY <5>1 DEF BusIInv, TopicsInOrder, RetainsNewest
      <4> QED
        BY <4>1, <4>2
    <3>6. \A u \in Topics : \A i \in 1 .. Len(published'[u]) :
            \/ /\ i \in 1 .. Len(published[u])
               /\ published'[u][i] = published[u][i] /\ published[u][i].seq < busSeq
            \/ /\ u = t /\ i = Len(published[t]) + 1 /\ published'[u][i].seq = busSeq
      BY <3>1, <3>2 DEF BusIInv
    <3>7. \A u \in Topics : \A i \in 1 .. Len(published'[u]) : published'[u][i].seq \in Nat
      <4>1. \A u \in Topics : \A i \in 1 .. Len(published'[u]) : published'[u][i] \in BusEvent
        BY <3>4
      <4> QED
        BY <4>1 DEF BusEvent
    <3>8. NumbersOrderEvents'
      <4> SUFFICES ASSUME NEW u \in Topics, NEW v \in Topics,
                          NEW i \in 1 .. Len(published'[u]), NEW j \in 1 .. Len(published'[v])
                   PROVE  /\ published'[u][i].seq = published'[v][j].seq => u = v /\ i = j
                          /\ (u = v /\ i < j) => published'[u][i].seq < published'[v][j].seq
        BY <3>4 DEF NumbersOrderEvents
      <4>1. CASE i \in 1 .. Len(published[u]) /\ j \in 1 .. Len(published[v])
        <5>1. published'[u][i] = published[u][i] /\ published'[v][j] = published[v][j]
          BY <3>2, <4>1 DEF BusIInv
        <5> QED
          BY <4>1, <5>1 DEF BusIInv, TopicsInOrder, NumbersOrderEvents
      <4>2. CASE ~ (i \in 1 .. Len(published[u]) /\ j \in 1 .. Len(published[v]))
        <5>1. Len(published[u]) \in Nat /\ Len(published[v]) \in Nat
          BY DEF BusIInv
        <5> QED
          BY <3>2, <3>6, <3>7, <4>2, <5>1
      <4> QED
        BY <4>1, <4>2
    <3>9. \A u \in Topics : \A i \in 1 .. Len(published'[u]) : published'[u][i].seq < busSeq'
      BY <3>2, <3>6, <3>7
    <3> QED
      BY <3>2, <3>4, <3>5, <3>8, <3>9 DEF BusIInv, TopicsInOrder, RetainsNewest
  <2>2. CASE BusReset
    <3>1. /\ topicRing' = [t \in Topics |-> Cleared(topicRing[t])]
          /\ published' = [t \in Topics |-> <<>>] /\ busSeq' = 0
      BY <2>2 DEF BusReset
    <3>2. \A t \in Topics : /\ IsRing(topicRing'[t], QueueCapacity, BusEvent)
                            /\ Holds(topicRing'[t], QueueCapacity, <<>>)
      BY <3>1, BusAssumption, ClearedHolds DEF BusIInv
    <3> QED
      BY <3>1, <3>2 DEF BusIInv, TopicsInOrder, RetainsNewest, NumbersOrderEvents
  <2>3. CASE UNCHANGED <<topicRing, busSeq, published>>
    BY <2>3 DEF BusIInv, TopicsInOrder, RetainsNewest, NumbersOrderEvents
  <2>4. CASE \E s \in BusSubjects, t \in Topics : Subscribe(s, t) \/ Unsubscribe(s, t)
    BY <2>3, <2>4 DEF Subscribe, Unsubscribe
  <2>5. CASE \E P, S \in SUBSET BusSubjects : Authorize(P, S)
    BY <2>3, <2>5 DEF Authorize
  <2>6. CASE UNCHANGED busVars
    BY <2>3, <2>6 DEF busVars
  <2> QED
    BY <2>1, <2>2, <2>4, <2>5, <2>6 DEF BusNext
<1>3. BusIInv => TopicsInOrder
  BY DEF BusIInv
<1> QED
  BY <1>1, <1>2, <1>3, PTL DEF BusSpec
=============================================================================
