-------------------------------- MODULE Logs --------------------------------
(***************************************************************************)
(* The bounded logs of the kernel: the ring they are kept in, the audit    *)
(* log of kernel/cap/capability.c and the event bus of                     *)
(* kernel/event/event_bus.c.                                               *)
(***************************************************************************)
EXTENDS Integers, Sequences

-----------------------------------------------------------------------------
(***************************************************************************)
(* The bounded logs of the kernel: an array that is written round and      *)
(* round, the index of the next write, the number of entries that count,   *)
(* and how many were overwritten. kernel/cap/capability.c keeps the audit  *)
(* events and their checkpoints in one each, kernel/event/event_bus.c the  *)
(* events of a topic.                                                      *)
(***************************************************************************)

\* Indices go from 0 to size - 1; what is in the array at first is never read.
EmptyRing(size, x) ==
  [slots |-> [i \in 0 .. size - 1 |-> x], next |-> 0, count |-> 0, dropped |-> 0]

\* A reset leaves the array as it is.
Cleared(r) == [slots |-> r.slots, next |-> 0, count |-> 0, dropped |-> 0]

\* Variant: the entry that closes the array is not counted.
PushShort(r, size, x) ==
  [slots |-> [r.slots EXCEPT ![r.next] = x],
   next |-> IF r.next = size - 1 THEN 0 ELSE r.next + 1,
   count |-> IF r.count < size - 1 THEN r.count + 1 ELSE r.count,
   dropped |-> IF r.count < size - 1 THEN r.dropped ELSE r.dropped + 1]

Push(r, size, x) ==
  [slots |-> [r.slots EXCEPT ![r.next] = x],
   next |-> IF r.next = size - 1 THEN 0 ELSE r.next + 1,
   count |-> IF r.count < size THEN r.count + 1 ELSE r.count,
   dropped |-> IF r.count < size THEN r.dropped ELSE r.dropped + 1]

\* Where the oldest entry is.
Start(r, size) == IF r.count = size THEN r.next ELSE 0

\* The entry with the given index, counted from the oldest one.
EntryAt(r, size, k) ==
  LET at == Start(r, size) + k IN r.slots[IF at < size THEN at ELSE at - size]

\* A ring of entries from X. Until it is full it is filled from the front.
IsRing(r, size, X) ==
  /\ r \in [slots : [0 .. size - 1 -> X], next : 0 .. size - 1, count : 0 .. size,
            dropped : Nat]
  /\ r.count < size => r.next = r.count

\* The ring holds the newest entries of a log, the oldest first, and has
\* counted those it overwrote.
Holds(r, size, log) ==
  /\ r.count = IF Len(log) < size THEN Len(log) ELSE size
  /\ r.dropped = Len(log) - r.count
  /\ \A k \in 0 .. r.count - 1 : EntryAt(r, size, k) = log[Len(log) - r.count + k + 1]

-----------------------------------------------------------------------------
(***************************************************************************)
(* The audit log of kernel/cap/capability.c: a ring of numbered events, a  *)
(* running seal over all of them, and a ring of checkpoints, one for every *)
(* CAP_AUDIT_CHECKPOINT_INTERVAL events.                                   *)
(*                                                                         *)
(* An event is what cap_audit_record is given. The seal is the list of     *)
(* what was mixed into it: collisions of the 64-bit mix are left out, and  *)
(* so is the value it starts from (0 at boot, a constant after a reset).   *)
(***************************************************************************)

CONSTANTS
  EventMax,       \* CAP_AUDIT_EVENT_MAX
  CheckInterval,  \* CAP_AUDIT_CHECKPOINT_INTERVAL
  CheckMax,       \* CAP_AUDIT_CHECKPOINT_MAX
  AuditEvents,    \* operation, actor, subject, capability and result
  MaxRecorded     \* bound: events since a reset

\* The checkpoints that are kept reach back as far as the events (8 windows of
\* 8 events and 32 events).
ASSUME AuditAssumption ==
  /\ EventMax \in Nat \ {0} /\ CheckInterval \in Nat \ {0} /\ CheckMax \in Nat \ {0}
  /\ EventMax <= CheckInterval * CheckMax
  /\ MaxRecorded \in Nat

VARIABLES events,     \* cap_audit_events and its counters
          checks,     \* cap_audit_checkpoints; dropped is history
          auditSeq,   \* cap_audit_next_sequence_id
          checkId,    \* cap_audit_next_checkpoint_id
          seal,       \* cap_audit_seal
          recorded    \* history: what was recorded since the last reset

auditVars == <<events, checks, auditSeq, checkId, seal, recorded>>

NoAuditEvent == [seq |-> 0, event |-> "none"]

NoCheckpoint == [id |-> 0, from |-> 0, to |-> 0, seal |-> <<>>, dropped |-> 0]

AuditInit ==
  /\ events = EmptyRing(EventMax, NoAuditEvent)
  /\ checks = EmptyRing(CheckMax, NoCheckpoint)
  /\ auditSeq = 0 /\ checkId = 0
  /\ seal = <<>> /\ recorded = <<>>

\* Variant: a checkpoint is written one event late.
CheckpointLate(n, sl, lost) ==
  IF n % CheckInterval # 0 \/ n = 0
    THEN UNCHANGED <<checks, checkId>>
    ELSE /\ checks' = Push(checks, CheckMax,
                [id |-> checkId, from |-> n - CheckInterval, to |-> n - 1,
                 seal |-> sl, dropped |-> lost])
         /\ checkId' = checkId + 1

\* cap_audit_maybe_emit_checkpoint, after the event numbered n.
Checkpoint(n, sl, lost) ==
  IF (n + 1) % CheckInterval # 0
    THEN UNCHANGED <<checks, checkId>>
    ELSE /\ checks' = Push(checks, CheckMax,
                [id |-> checkId, from |-> n + 1 - CheckInterval, to |-> n,
                 seal |-> sl, dropped |-> lost])
         /\ checkId' = checkId + 1

\* cap_audit_record.
Record(e) ==
  /\ auditSeq < MaxRecorded
  /\ events' = Push(events, EventMax, [seq |-> auditSeq, event |-> e])
  /\ auditSeq' = auditSeq + 1
  /\ seal' = seal \o <<[seq |-> auditSeq, event |-> e], events'.dropped>>
  /\ Checkpoint(auditSeq, seal', events'.dropped)
  /\ recorded' = Append(recorded, e)

\* cap_audit_reset_for_tests.
AuditReset ==
  /\ events' = Cleared(events)
  /\ checks' = Cleared(checks)
  /\ auditSeq' = 0 /\ checkId' = 0
  /\ seal' = <<>> /\ recorded' = <<>>

AuditNext == (\E e \in AuditEvents : Record(e)) \/ AuditReset

AuditSpec == AuditInit /\ [][AuditNext]_auditVars

-----------------------------------------------------------------------------

Numbered(log) == [i \in 1 .. Len(log) |-> [seq |-> i - 1, event |-> log[i]]]

\* "a strictly monotonic sequence_id ... never repeats, even across ring wrap",
\* and a "fixed retained window with FIFO eviction and a separately tracked
\* dropped counter": what cap_audit_get_for_tests reads is the newest events,
\* numbered without a gap, and every event not among them was counted.
AuditRetainsNewest == Holds(events, EventMax, Numbered(recorded))

\* What the seal is after the first n events.
SealAfter(n) ==
  [i \in 1 .. 2 * n |->
     LET k == (i + 1) \div 2
     IN  IF i % 2 = 1 THEN Numbered(recorded)[k]
         ELSE IF k < EventMax THEN 0 ELSE k - EventMax]

\* "Periodic checkpoints summarize each window with a seal": the checkpoints
\* kept are the newest windows, without a gap, each with the seal over all
\* events up to its end; and no event of a finished window is still in the log
\* when its checkpoint is gone.
CheckpointsCoverWindows ==
  /\ Holds(checks, CheckMax,
       [w \in 1 .. Len(recorded) \div CheckInterval |->
          [id |-> w - 1, from |-> (w - 1) * CheckInterval, to |-> w * CheckInterval - 1,
           seal |-> SealAfter(w * CheckInterval),
           dropped |-> IF w * CheckInterval < EventMax THEN 0
                       ELSE w * CheckInterval - EventMax]])
  /\ \A k \in 0 .. events.count - 1 :
       LET n == EntryAt(events, EventMax, k).seq
       IN  n < (Len(recorded) \div CheckInterval) * CheckInterval =>
             \E c \in 0 .. checks.count - 1 :
               n \in EntryAt(checks, CheckMax, c).from .. EntryAt(checks, CheckMax, c).to

-----------------------------------------------------------------------------
(***************************************************************************)
(* The event bus of kernel/event/event_bus.c: a ring of events per topic   *)
(* with numbers from one sequence, and the subscribers of a topic.         *)
(*                                                                         *)
(* An event is its number and its actor; target, correlation id and        *)
(* payload are stored like the actor. Calls with a subject, topic or       *)
(* payload out of range are refused and change nothing.                    *)
(***************************************************************************)

CONSTANTS
  BusSubjects,   \* subject ids below CAP_TABLE_MAX_SUBJECTS
  Topics,        \* event_topic_t
  QueueCapacity, \* EVENT_QUEUE_CAPACITY
  MaxPublished   \* bound: events since a reset

ASSUME BusAssumption == QueueCapacity \in Nat \ {0} /\ MaxPublished \in Nat

VARIABLES topicRing,   \* event_topics
          subscribed,  \* event_subscriptions
          busSeq,      \* event_next_sequence_id
          mayPublish,  \* subjects with CAP_EVENT_PUBLISH (cap_table.c)
          maySubscribe,\* subjects with CAP_EVENT_SUBSCRIBE
          published    \* history: what each topic was sent since the last reset

busVars == <<topicRing, subscribed, busSeq, mayPublish, maySubscribe, published>>

BusEvent == [seq : Nat, actor : BusSubjects \cup {"none"}]

NoBusEvent == [seq |-> 0, actor |-> "none"]

BusInit ==
  /\ topicRing = [t \in Topics |-> EmptyRing(QueueCapacity, NoBusEvent)]
  /\ subscribed = [t \in Topics |-> {}]
  /\ busSeq = 0
  /\ mayPublish = {} /\ maySubscribe = {}
  /\ published = [t \in Topics |-> <<>>]

\* event_subscribe.
Subscribe(s, t) ==
  /\ s \in maySubscribe
  /\ subscribed' = [subscribed EXCEPT ![t] = @ \cup {s}]
  /\ UNCHANGED <<topicRing, busSeq, mayPublish, maySubscribe, published>>

\* event_unsubscribe: refused as well once the capability is gone.
Unsubscribe(s, t) ==
  /\ s \in maySubscribe
  /\ subscribed' = [subscribed EXCEPT ![t] = @ \ {s}]
  /\ UNCHANGED <<topicRing, busSeq, mayPublish, maySubscribe, published>>

\* Variant: every topic counts for itself.
NextNumberOf(t) == topicRing[t].count + topicRing[t].dropped

NumberFor(t) == busSeq

\* event_publish.
Publish(s, t) ==
  /\ busSeq < MaxPublished
  /\ s \in mayPublish
  /\ LET e == [seq |-> NumberFor(t), actor |-> s]
     IN  /\ topicRing' = [topicRing EXCEPT ![t] = Push(@, QueueCapacity, e)]
         /\ published' = [published EXCEPT ![t] = Append(@, e)]
  /\ busSeq' = busSeq + 1
  /\ UNCHANGED <<subscribed, mayPublish, maySubscribe>>

\* event_bus_reset_for_tests.
BusReset ==
  /\ topicRing' = [t \in Topics |-> Cleared(topicRing[t])]
  /\ subscribed' = [t \in Topics |-> {}]
  /\ busSeq' = 0
  /\ published' = [t \in Topics |-> <<>>]
  /\ UNCHANGED <<mayPublish, maySubscribe>>

\* Grants and revocations in the capability table (CapBroker).
Authorize(P, S) ==
  /\ mayPublish' = P /\ maySubscribe' = S
  /\ UNCHANGED <<topicRing, subscribed, busSeq, published>>

BusNext ==
  \/ \E s \in BusSubjects, t \in Topics :
       Subscribe(s, t) \/ Unsubscribe(s, t) \/ Publish(s, t)
  \/ BusReset
  \/ \E P, S \in SUBSET BusSubjects : Authorize(P, S)

BusSpec == BusInit /\ [][BusNext]_busVars

-----------------------------------------------------------------------------

RetainsNewest == \A t \in Topics : Holds(topicRing[t], QueueCapacity, published[t])

NumbersOrderEvents ==
  \A t, u \in Topics : \A i \in 1 .. Len(published[t]), j \in 1 .. Len(published[u]) :
    /\ published[t][i].seq = published[u][j].seq => t = u /\ i = j
    /\ (t = u /\ i < j) => published[t][i].seq < published[u][j].seq

\* What event_get_for_topic_for_tests reads is the newest events of the topic,
\* in the order they were published and with those pushed out counted; and
\* event_publish gives no number twice, whatever the topics, and growing
\* numbers to the events of one, so that events can be put in order.
TopicsInOrder == RetainsNewest /\ NumbersOrderEvents
=============================================================================
