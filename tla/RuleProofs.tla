----------------------------- MODULE RuleProofs -----------------------------
(***************************************************************************)
(* For every number of rules and of audit records: the answers of the      *)
(* workflow rule layer are explained by the calls made before.             *)
(***************************************************************************)
EXTENDS WorkflowRules, WellFoundedInduction, SequenceTheorems, TLAPS

Directions == {"none", "read", "write"}
Results ==
  {"ok", "missing", "tenant invalid", "rule invalid", "scope invalid", "subject invalid",
   "capability invalid", "reason invalid", "duplicate", "no slot"}
CallType ==
  [op : {"register", "eval"}, tenant : Nat, id : Nat, scope : Directions, subject : Nat, cap : Nat]
Record ==
  [op : {"register", "eval"}, tenant : Nat, id : Nat, scope : Directions, subject : Nat, cap : Nat,
   result : Results, seq : Nat]
RuleType == [tenant : Nat \ {0}, id : Nat \ {0}, scope : {"read", "write"}, subject : Nat \ {0}, cap : Nat]

RulesType ==
  /\ rules \in [1 .. RuleMax -> RuleType \cup {NoRule}]
  /\ calls \in Seq(Record) /\ ring \in Seq(Record) /\ dropped \in Nat /\ sequence \in Nat

RegisteredAt(j) == calls[j].op = "register" /\ calls[j].result = "ok"

\* The table holds what was registered: every rule of it, and nothing else.
TableIsRegistered ==
  /\ \A i \in 1 .. RuleMax : rules[i] # NoRule =>
       /\ CapabilityIsKnown(rules[i].cap)
       /\ \E j \in 1 .. Len(calls) : RegisteredAt(j) /\ Rule(calls[j]) = rules[i]
  /\ \A j \in 1 .. Len(calls) : RegisteredAt(j) =>
       \E i \in 1 .. RuleMax : rules[i] # NoRule /\ rules[i] = Rule(calls[j])

\* A tenant has one rule of an id.
RulesOnce ==
  \A i, k \in 1 .. RuleMax :
    rules[i] # NoRule /\ rules[k] # NoRule /\ rules[i].tenant = rules[k].tenant /\ rules[i].id = rules[k].id
      => i = k

EvalsExplained ==
  \A i \in 1 .. Len(calls) : calls[i].op = "eval" =>
    (calls[i].result = "ok" <=> \E j \in 1 .. i - 1 : RegisteredAt(j) /\ Rule(calls[j]) = Rule(calls[i]))

FirstStays ==
  \A i, j \in 1 .. Len(calls) :
    i < j /\ RegisteredAt(i) /\ RegisteredAt(j)
      => <<calls[i].tenant, calls[i].id>> # <<calls[j].tenant, calls[j].id>>

RingIsNewest ==
  /\ dropped + Len(ring) = Len(calls) /\ sequence = Len(calls)
  /\ \A k \in 1 .. Len(ring) : ring[k] = calls[dropped + k]

RulesInv == RulesType /\ TableIsRegistered /\ RulesOnce /\ EvalsExplained /\ FirstStays /\ RingIsNewest

LEMMA RulesInitInv == RulesInit => RulesInv
<1> SUFFICES ASSUME RulesInit PROVE RulesInv
  OBVIOUS
<1>1. RulesType
  BY DEF RulesInit, RulesType
<1> QED
  BY <1>1 DEF RulesInit, RulesInv, TableIsRegistered, RulesOnce, EvalsExplained, FirstStays, RingIsNewest

\* audit_record puts the call behind the earlier ones and keeps the ring the
\* newest part of them.
LEMMA AuditRecordFacts ==
  ASSUME RulesInv, NEW c \in CallType, NEW result \in Results, AuditRecord(c, result)
  PROVE  /\ calls' \in Seq(Record) /\ ring' \in Seq(Record) /\ dropped' \in Nat /\ sequence' \in Nat
         /\ Len(calls') = Len(calls) + 1 /\ Len(calls) \in Nat
         /\ \A j \in 1 .. Len(calls) : calls'[j] = calls[j]
         /\ calls'[Len(calls) + 1] = Recorded(c, result)
         /\ RingIsNewest'
<1> DEFINE e == Recorded(c, result)
<1>1. e \in Record
  BY DEF Recorded, CallType, Record, RulesInv, RulesType
<1>2. calls' = Append(calls, e) /\ sequence' = sequence + 1
  BY DEF AuditRecord
<1>3. /\ ring' = Append(IF Len(ring) < AuditMax THEN ring ELSE Tail(ring), e)
      /\ dropped' = IF Len(ring) < AuditMax THEN dropped ELSE dropped + 1
  BY DEF AuditRecord
<1>0. /\ calls \in Seq(Record) /\ ring \in Seq(Record) /\ dropped \in Nat
      /\ Len(ring) \in Nat /\ Len(calls) \in Nat /\ dropped + Len(ring) = Len(calls) /\ sequence = Len(calls)
      /\ \A k \in 1 .. Len(ring) : ring[k] = calls[dropped + k]
  BY DEF RulesInv, RulesType, RingIsNewest
<1>n. /\ dropped \in Nat /\ Len(ring) \in Nat /\ Len(calls) \in Nat
      /\ dropped + Len(ring) = Len(calls) /\ sequence = Len(calls)
  BY <1>0
<1>r. Recorded(c, result) = e
  OBVIOUS
<1> HIDE DEF e
<1>4. /\ calls' \in Seq(Record) /\ Len(calls') = Len(calls) + 1 /\ Len(calls) \in Nat
      /\ \A j \in 1 .. Len(calls) : calls'[j] = calls[j]
      /\ calls'[Len(calls) + 1] = e
  BY <1>0, <1>1, <1>2
<1>5. CASE Len(ring) < AuditMax
  <2>1. /\ ring' \in Seq(Record) /\ Len(ring') = Len(ring) + 1 /\ Len(ring) \in Nat
        /\ \A k \in 1 .. Len(ring) : ring'[k] = ring[k]
        /\ ring'[Len(ring) + 1] = e /\ dropped' = dropped
    BY <1>0, <1>1, <1>3, <1>5
  <2>2. ASSUME NEW k \in 1 .. Len(ring') PROVE ring'[k] = calls'[dropped' + k]
    <3>1. CASE k = Len(ring) + 1
      <4>1. dropped' + k = Len(calls) + 1
        <5>1. dropped' = dropped
          BY <2>1
        <5> QED
          BY <1>n, <3>1, <5>1
      <4> QED
        BY <1>4, <2>1, <3>1, <4>1
    <3>2. CASE k \in 1 .. Len(ring)
      <4>1. dropped' + k \in 1 .. Len(calls)
        BY <1>0, <2>1, <3>2
      <4> QED
        BY <1>0, <1>4, <2>1, <3>2, <4>1
    <3> QED
      BY <2>1, <3>1, <3>2
  <2>3. dropped' + Len(ring') = Len(calls') /\ sequence' = Len(calls')
    <3>1. dropped' = dropped /\ Len(ring') = Len(ring) + 1 /\ Len(calls') = Len(calls) + 1 /\ sequence' = sequence + 1
      BY <1>2, <1>4, <2>1
    <3> QED
      BY <1>n, <3>1
  <2>4. RingIsNewest'
    BY <2>2, <2>3 DEF RingIsNewest
  <2> QED
    BY <1>0, <1>2, <1>4, <1>r, <2>1, <2>3, <2>4
<1>6. CASE ~(Len(ring) < AuditMax)
  <2>1. Len(ring) \in Nat /\ Len(ring) > 0 /\ ring # <<>>
    BY <1>0, <1>6, RulesAssumption
  <2> DEFINE t == Tail(ring)
  <2>2. /\ t \in Seq(Record) /\ Len(t) = Len(ring) - 1
        /\ \A k \in 1 .. Len(t) : t[k] = ring[k + 1]
    BY <1>0, <2>1, HeadTailProperties
  <2> HIDE DEF t
  <2>3. ring' = Append(t, e) /\ dropped' = dropped + 1
    BY <1>3, <1>6 DEF t
  <2>4. /\ ring' \in Seq(Record) /\ Len(ring') = Len(ring)
        /\ \A k \in 1 .. Len(t) : ring'[k] = t[k]
        /\ ring'[Len(ring)] = e
    BY <1>1, <2>1, <2>2, <2>3
  <2>5. \A k \in 1 .. Len(ring') : ring'[k] = calls'[dropped' + k]
    <3> SUFFICES ASSUME NEW k \in 1 .. Len(ring) PROVE ring'[k] = calls'[dropped' + k]
      BY <2>4
    <3>1. CASE k = Len(ring)
      <4>1. dropped' + k = Len(calls) + 1
        BY <1>n, <2>3, <3>1
      <4> QED
        BY <1>4, <2>4, <3>1, <4>1
    <3>2. CASE k # Len(ring)
      <4>1. k \in 1 .. Len(t) /\ k + 1 \in 1 .. Len(ring)
        BY <2>1, <2>2, <3>2
      <4>2. ring'[k] = calls[dropped + (k + 1)]
        BY <1>0, <2>2, <2>4, <4>1
      <4>3. dropped + (k + 1) \in 1 .. Len(calls) /\ dropped + (k + 1) = dropped' + k
        BY <1>0, <2>3, <4>1
      <4> QED
        BY <1>4, <4>2, <4>3
    <3> QED
      BY <3>1, <3>2
  <2>6. dropped' + Len(ring') = Len(calls') /\ sequence' = Len(calls')
    <3>1. dropped' = dropped + 1 /\ Len(ring') = Len(ring) /\ Len(calls') = Len(calls) + 1 /\ sequence' = sequence + 1
      BY <1>2, <1>4, <2>3, <2>4
    <3> QED
      BY <1>n, <3>1
  <2>7. RingIsNewest'
    BY <2>5, <2>6 DEF RingIsNewest
  <2> QED
    BY <1>0, <1>2, <1>4, <1>r, <2>3, <2>4, <2>6, <2>7
<1> QED
  BY <1>5, <1>6

\* Tables are searched in their order: the first slot of a set of slots is one
\* of them.
LEMMA FirstIsMember ==
  ASSUME NEW S \in SUBSET (1 .. RuleMax), S # {}
  PROVE  First(S) \in S
<1>0. S \in SUBSET Nat
  BY RulesAssumption
<1> DEFINE below == OpToRel(<, Nat)
<1>1. \A a, b \in Nat : a < b => <<a, b>> \in below
  BY DEF OpToRel
<1>2. IsWellFoundedOn(below, Nat)
  BY NatLessThanWellFounded
<1> HIDE DEF below
<1>3. PICK x \in S : \A y \in S : ~(<<y, x>> \in below)
  BY <1>0, <1>2, WFMin
<1>4. \A y \in S : ~(y < x) /\ x \in Nat /\ y \in Nat
  BY <1>0, <1>1, <1>3, Zenon
<1>5. \A y \in S : x <= y
  BY <1>4
<1> QED
  BY <1>5 DEF First

\* What a call adds to the history of calls, and what stays in it.
LEMMA HistoryGrows ==
  ASSUME RulesInv, NEW c \in CallType, NEW result \in Results, AuditRecord(c, result)
  PROVE  /\ Len(calls') = Len(calls) + 1 /\ Len(calls) \in Nat
         /\ \A j \in 1 .. Len(calls) : /\ j \in 1 .. Len(calls') /\ Rule(calls'[j]) = Rule(calls[j])
                                       /\ calls'[j] = calls[j] /\ RegisteredAt(j)' = RegisteredAt(j)
         /\ calls'[Len(calls')].op = c.op /\ calls'[Len(calls')].result = result
         /\ Rule(calls'[Len(calls')]) = Rule(c)
         /\ calls'[Len(calls')].tenant = c.tenant /\ calls'[Len(calls')].id = c.id
         /\ Len(calls') \in 1 .. Len(calls')
         /\ \A j \in 1 .. Len(calls') : j # Len(calls') => j \in 1 .. Len(calls)
<1>1. /\ Len(calls') = Len(calls) + 1 /\ Len(calls) \in Nat
      /\ \A j \in 1 .. Len(calls) : calls'[j] = calls[j]
      /\ calls'[Len(calls) + 1] = Recorded(c, result)
  BY AuditRecordFacts
<1>2. calls'[Len(calls')] = Recorded(c, result)
  BY <1>1
<1>3. \A j \in 1 .. Len(calls) : /\ j \in 1 .. Len(calls') /\ Rule(calls'[j]) = Rule(calls[j])
                                 /\ calls'[j] = calls[j] /\ RegisteredAt(j)' = RegisteredAt(j)
  BY <1>1 DEF RegisteredAt
<1>4. Rule(Recorded(c, result)) = Rule(c)
  BY DEF Rule, Recorded
<1>5. /\ Recorded(c, result).op = c.op /\ Recorded(c, result).result = result
      /\ Recorded(c, result).tenant = c.tenant /\ Recorded(c, result).id = c.id
  BY DEF Recorded
<1>6. Len(calls') \in 1 .. Len(calls') /\ \A j \in 1 .. Len(calls') : j # Len(calls') => j \in 1 .. Len(calls)
  BY <1>1
<1> QED
  BY <1>1, <1>2, <1>3, <1>4, <1>5, <1>6

\* The parts of the invariant about earlier calls only.
LEMMA OldCallsStay ==
  ASSUME RulesInv, NEW c \in CallType, NEW result \in Results, AuditRecord(c, result)
  PROVE  \A i \in 1 .. Len(calls) : calls'[i].op = "eval" =>
           (calls'[i].result = "ok" <=>
              \E j \in 1 .. i - 1 : RegisteredAt(j)' /\ Rule(calls'[j]) = Rule(calls'[i]))
<1> SUFFICES ASSUME NEW i \in 1 .. Len(calls), calls'[i].op = "eval"
             PROVE  calls'[i].result = "ok" <=>
                      \E j \in 1 .. i - 1 : RegisteredAt(j)' /\ Rule(calls'[j]) = Rule(calls'[i])
  OBVIOUS
<1>1. /\ Len(calls) \in Nat
      /\ \A j \in 1 .. Len(calls) : /\ Rule(calls'[j]) = Rule(calls[j])
                                    /\ calls'[j] = calls[j] /\ RegisteredAt(j)' = RegisteredAt(j)
  BY HistoryGrows
<1>2. \A j \in 1 .. i - 1 : j \in 1 .. Len(calls)
  BY <1>1
<1>3. calls[i].result = "ok" <=> \E j \in 1 .. i - 1 : RegisteredAt(j) /\ Rule(calls[j]) = Rule(calls[i])
  BY <1>1 DEF RulesInv, EvalsExplained
<1> QED
  BY <1>1, <1>2, <1>3

LEMMA EvalInv ==
  ASSUME RulesInv, NEW c \in CallType, c.op = "eval", ScopeIsDirectional(c.scope), Eval(c)
  PROVE  RulesInv'
<1> DEFINE result == EvalResult(c)
<1>a. result \in Results
  BY DEF EvalResult, Results
<1>1. result \in Results /\ AuditRecord(c, result) /\ rules' = rules
  BY <1>a DEF Eval
<1>2. result = "ok" <=> /\ c.tenant # 0 /\ c.id # 0 /\ c.subject # 0 /\ CapabilityIsKnown(c.cap)
                        /\ Matches(c, FoundForTenant(c.tenant, c.id))
  BY DEF EvalResult
<1> HIDE DEF result
<1>3. RulesType' /\ RingIsNewest'
  BY <1>1, AuditRecordFacts DEF RulesInv, RulesType
<1>4. /\ Len(calls') = Len(calls) + 1 /\ Len(calls) \in Nat
      /\ \A j \in 1 .. Len(calls) : /\ j \in 1 .. Len(calls') /\ Rule(calls'[j]) = Rule(calls[j])
                                    /\ calls'[j] = calls[j] /\ RegisteredAt(j)' = RegisteredAt(j)
      /\ calls'[Len(calls')].op = c.op /\ calls'[Len(calls')].result = result
      /\ Rule(calls'[Len(calls')]) = Rule(c)
      /\ Len(calls') \in 1 .. Len(calls')
      /\ \A j \in 1 .. Len(calls') : j # Len(calls') => j \in 1 .. Len(calls)
  BY <1>1, HistoryGrows
<1>5. \A j \in 1 .. Len(calls') : RegisteredAt(j)' => j \in 1 .. Len(calls) /\ RegisteredAt(j)
  BY <1>4 DEF RegisteredAt
<1>6. TableIsRegistered'
  <2>1. ASSUME NEW i \in 1 .. RuleMax, rules'[i] # NoRule
        PROVE  CapabilityIsKnown(rules'[i].cap)
               /\ \E j \in 1 .. Len(calls') : RegisteredAt(j)' /\ Rule(calls'[j]) = rules'[i]
    <3>1. CapabilityIsKnown(rules[i].cap)
          /\ \E j \in 1 .. Len(calls) : RegisteredAt(j) /\ Rule(calls[j]) = rules[i]
      BY <1>1, <2>1 DEF RulesInv, TableIsRegistered
    <3> QED
      BY <1>1, <1>4, <3>1
  <2>2. ASSUME NEW j \in 1 .. Len(calls'), RegisteredAt(j)'
        PROVE  \E i \in 1 .. RuleMax : rules'[i] # NoRule /\ rules'[i] = Rule(calls'[j])
    <3>1. j \in 1 .. Len(calls) /\ RegisteredAt(j)
      BY <1>5, <2>2
    <3>2. \E i \in 1 .. RuleMax : rules[i] # NoRule /\ rules[i] = Rule(calls[j])
      BY <3>1 DEF RulesInv, TableIsRegistered
    <3> QED
      BY <1>1, <1>4, <3>1, <3>2
  <2> QED
    BY <2>1, <2>2 DEF TableIsRegistered, CapabilityIsKnown
<1>7. RulesOnce'
  BY <1>1 DEF RulesInv, RulesOnce
<1>8. FirstStays'
  <2> SUFFICES ASSUME NEW i \in 1 .. Len(calls'), NEW j \in 1 .. Len(calls'),
                      i < j, RegisteredAt(i)', RegisteredAt(j)'
               PROVE  <<calls'[i].tenant, calls'[i].id>> # <<calls'[j].tenant, calls'[j].id>>
    BY DEF FirstStays
  <2>1. i \in 1 .. Len(calls) /\ j \in 1 .. Len(calls) /\ RegisteredAt(i) /\ RegisteredAt(j)
    BY <1>5
  <2> QED
    BY <1>4, <2>1 DEF RulesInv, FirstStays
<1>9. result = "ok" <=> \E i \in 1 .. RuleMax : rules[i] # NoRule /\ rules[i] = Rule(c)
  <2> DEFINE found == FoundForTenant(c.tenant, c.id)
  <2>1. \A i \in found : /\ i \in 1 .. RuleMax /\ rules[i] # NoRule
                         /\ rules[i].tenant = c.tenant /\ rules[i].id = c.id
    BY DEF FoundForTenant
  <2>2. \A i, k \in found : i = k
    BY <2>1 DEF RulesInv, RulesOnce
  <2>3. \A i \in 1 .. RuleMax : rules[i] # NoRule => rules[i] \in RuleType
    BY DEF RulesInv, RulesType
  <2>4. found \in SUBSET (1 .. RuleMax) /\ found = FoundForTenant(c.tenant, c.id)
    BY <2>1
  <2>5. \A i \in 1 .. RuleMax : rules[i] # NoRule /\ rules[i].tenant = c.tenant /\ rules[i].id = c.id => i \in found
    BY DEF FoundForTenant
  <2> HIDE DEF found
  <2>6. ASSUME result = "ok" PROVE \E i \in 1 .. RuleMax : rules[i] # NoRule /\ rules[i] = Rule(c)
    <3>1. /\ found # {} /\ rules[First(found)].scope = c.scope /\ rules[First(found)].subject = c.subject
          /\ rules[First(found)].cap = c.cap
      BY <1>2, <2>4, <2>6 DEF Matches
    <3>2. First(found) \in found
      BY <2>4, <3>1, FirstIsMember
    <3>3. /\ rules[First(found)] \in RuleType /\ rules[First(found)] # NoRule /\ First(found) \in 1 .. RuleMax
          /\ rules[First(found)].tenant = c.tenant /\ rules[First(found)].id = c.id
      BY <2>1, <2>3, <3>2
    <3>4. rules[First(found)] = Rule(c)
      BY <3>1, <3>3 DEF RuleType, Rule
    <3> QED
      BY <3>3, <3>4
  <2>7. ASSUME NEW i \in 1 .. RuleMax, rules[i] # NoRule, rules[i] = Rule(c) PROVE result = "ok"
    <3>1. /\ rules[i].tenant = c.tenant /\ rules[i].id = c.id /\ rules[i].scope = c.scope
          /\ rules[i].subject = c.subject /\ rules[i].cap = c.cap
      BY <2>7 DEF Rule
    <3>2. i \in found
      BY <2>5, <2>7, <3>1
    <3>3. First(found) = i
      BY <2>2, <2>4, <3>2, FirstIsMember
    <3>4. Matches(c, found)
      BY <3>1, <3>2, <3>3 DEF Matches
    <3>5. c.tenant # 0 /\ c.id # 0 /\ c.subject # 0
      BY <2>3, <2>7, <3>1 DEF RuleType
    <3>6. CapabilityIsKnown(c.cap)
      BY <2>7, <3>1 DEF RulesInv, TableIsRegistered
    <3> QED
      BY <1>2, <2>4, <3>4, <3>5, <3>6
  <2> QED
    BY <2>6, <2>7
<1>10. (\E i \in 1 .. RuleMax : rules[i] # NoRule /\ rules[i] = Rule(c))
         <=> \E j \in 1 .. Len(calls) : RegisteredAt(j) /\ Rule(calls[j]) = Rule(c)
  BY DEF RulesInv, TableIsRegistered
<1>11. EvalsExplained'
  <2> SUFFICES ASSUME NEW i \in 1 .. Len(calls'), calls'[i].op = "eval"
               PROVE  calls'[i].result = "ok" <=>
                        \E j \in 1 .. i - 1 : RegisteredAt(j)' /\ Rule(calls'[j]) = Rule(calls'[i])
    BY DEF EvalsExplained
  <2>1. CASE i = Len(calls')
    <3>1. 1 .. i - 1 = 1 .. Len(calls)
      BY <1>4, <2>1
    <3> QED
      BY <1>4, <1>9, <1>10, <2>1, <3>1
  <2>2. CASE i # Len(calls')
    BY <1>1, <1>4, <2>2, OldCallsStay
  <2> QED
    BY <2>1, <2>2
<1> QED
  BY <1>3, <1>6, <1>7, <1>8, <1>11 DEF RulesInv

\* A registration that fails leaves the table; one that succeeds enters a rule
\* the tenant did not have.
LEMMA RegisterFacts ==
  ASSUME RulesInv, NEW c \in CallType, NEW reason, RegisterResult(c, reason) = "ok"
  PROVE  /\ Rule(c) \in RuleType /\ CapabilityIsKnown(c.cap)
         /\ FoundForTenant(c.tenant, c.id) = {}
         /\ First(FreeRules) \in 1 .. RuleMax /\ rules[First(FreeRules)] = NoRule
<1>1. /\ c.tenant # 0 /\ c.id # 0 /\ ScopeIsDirectional(c.scope) /\ c.subject # 0 /\ CapabilityIsKnown(c.cap)
      /\ FoundForTenant(c.tenant, c.id) = {} /\ FreeRules # {}
  BY DEF RegisterResult
<1>2. Rule(c) \in RuleType
  BY <1>1 DEF CallType, Rule, RuleType, ScopeIsDirectional
<1>3. FreeRules \in SUBSET (1 .. RuleMax) /\ \A i \in FreeRules : rules[i] = NoRule
  BY DEF FreeRules
<1>4. First(FreeRules) \in FreeRules
  BY <1>1, <1>3, FirstIsMember
<1> QED
  BY <1>1, <1>2, <1>3, <1>4

LEMMA RegisterInv ==
  ASSUME RulesInv, NEW c \in CallType, c.op = "register", NEW reason, RegisterRule(c, reason)
  PROVE  RulesInv'
<1> DEFINE result == RegisterResult(c, reason)
           n == Len(calls')
           s == First(FreeRules)
<1>a. result \in Results
  BY DEF RegisterResult, Results
<1>1. /\ result \in Results /\ AuditRecord(c, result)
      /\ rules' = IF result = "ok" THEN [rules EXCEPT ![s] = Rule(c)] ELSE rules
  BY <1>a DEF RegisterRule
<1>2. result = "ok" => /\ Rule(c) \in RuleType /\ CapabilityIsKnown(c.cap)
                       /\ FoundForTenant(c.tenant, c.id) = {}
                       /\ s \in 1 .. RuleMax /\ rules[s] = NoRule
  BY RegisterFacts
<1>3. /\ calls' \in Seq(Record) /\ ring' \in Seq(Record) /\ dropped' \in Nat /\ sequence' \in Nat
      /\ RingIsNewest'
  BY <1>1, AuditRecordFacts
<1>4. /\ n = Len(calls) + 1 /\ Len(calls) \in Nat
      /\ \A j \in 1 .. Len(calls) : /\ j \in 1 .. n /\ Rule(calls'[j]) = Rule(calls[j])
                                    /\ calls'[j] = calls[j] /\ RegisteredAt(j)' = RegisteredAt(j)
      /\ calls'[n].op = c.op /\ calls'[n].result = result
      /\ Rule(calls'[n]) = Rule(c) /\ calls'[n].tenant = c.tenant /\ calls'[n].id = c.id
      /\ n \in 1 .. n
      /\ \A j \in 1 .. n : j # n => j \in 1 .. Len(calls)
  BY <1>1, HistoryGrows
<1>n. n = Len(calls')
  OBVIOUS
<1> HIDE DEF result, n, s
<1>5. \A j \in 1 .. n : RegisteredAt(j)' <=> IF j = n THEN result = "ok" ELSE j \in 1 .. Len(calls) /\ RegisteredAt(j)
  BY <1>4 DEF RegisteredAt
<1>r. rules \in [1 .. RuleMax -> RuleType \cup {NoRule}] /\ NoRule \notin RuleType
  BY DEF RulesInv, RulesType, RuleType, NoRule
<1>6. RulesType'
  BY <1>1, <1>2, <1>3, <1>r DEF RulesType
<1>7. \A i \in 1 .. RuleMax : rules'[i] = IF result = "ok" /\ i = s THEN Rule(c) ELSE rules[i]
  BY <1>1, <1>r
<1>8. TableIsRegistered'
  <2>1. ASSUME NEW i \in 1 .. RuleMax, rules'[i] # NoRule
        PROVE  CapabilityIsKnown(rules'[i].cap)
               /\ \E j \in 1 .. n : RegisteredAt(j)' /\ Rule(calls'[j]) = rules'[i]
    <3>1. CASE result = "ok" /\ i = s
      <4>1. rules'[i] = Rule(c) /\ CapabilityIsKnown(c.cap) /\ Rule(c).cap = c.cap
        BY <1>2, <1>7, <3>1 DEF Rule
      <4> QED
        BY <1>4, <1>5, <3>1, <4>1
    <3>2. CASE ~ (result = "ok" /\ i = s)
      <4>1. rules'[i] = rules[i]
        BY <1>7, <3>2
      <4>2. CapabilityIsKnown(rules[i].cap)
            /\ \E j \in 1 .. Len(calls) : RegisteredAt(j) /\ Rule(calls[j]) = rules[i]
        BY <2>1, <4>1 DEF RulesInv, TableIsRegistered
      <4> QED
        BY <1>4, <4>1, <4>2
    <3> QED
      BY <3>1, <3>2
  <2>2. ASSUME NEW j \in 1 .. n, RegisteredAt(j)'
        PROVE  \E i \in 1 .. RuleMax : rules'[i] # NoRule /\ rules'[i] = Rule(calls'[j])
    <3>1. CASE j = n
      BY <1>2, <1>4, <1>5, <1>7, <1>r, <2>2, <3>1
    <3>2. CASE j # n
      <4>1. j \in 1 .. Len(calls) /\ RegisteredAt(j) /\ Rule(calls'[j]) = Rule(calls[j])
        BY <1>4, <1>5, <2>2, <3>2
      <4>2. PICK i \in 1 .. RuleMax : rules[i] # NoRule /\ rules[i] = Rule(calls[j])
        BY <4>1 DEF RulesInv, TableIsRegistered
      <4>3. rules'[i] = rules[i]
        BY <1>2, <1>7, <4>2
      <4> QED
        BY <4>1, <4>2, <4>3
    <3> QED
      BY <3>1, <3>2
  <2> QED
    BY <1>n, <2>1, <2>2 DEF TableIsRegistered, CapabilityIsKnown
<1>9. RulesOnce'
  <2> SUFFICES ASSUME NEW i \in 1 .. RuleMax, NEW k \in 1 .. RuleMax, rules'[i] # NoRule, rules'[k] # NoRule,
                      rules'[i].tenant = rules'[k].tenant, rules'[i].id = rules'[k].id
               PROVE  i = k
    BY DEF RulesOnce
  <2>1. Rule(c).tenant = c.tenant /\ Rule(c).id = c.id
    BY DEF Rule
  <2>2. result = "ok" => \A m \in 1 .. RuleMax : rules[m] # NoRule => ~ (rules[m].tenant = c.tenant /\ rules[m].id = c.id)
    BY <1>2 DEF FoundForTenant
  <2>3. \A l, m \in 1 .. RuleMax :
          rules[l] # NoRule /\ rules[m] # NoRule /\ rules[l].tenant = rules[m].tenant /\ rules[l].id = rules[m].id
            => l = m
    BY DEF RulesInv, RulesOnce
  <2> QED
    BY <1>7, <2>1, <2>2, <2>3
<1>10. FirstStays'
  <2> SUFFICES ASSUME NEW i \in 1 .. n, NEW j \in 1 .. n, i < j, RegisteredAt(i)', RegisteredAt(j)'
               PROVE  <<calls'[i].tenant, calls'[i].id>> # <<calls'[j].tenant, calls'[j].id>>
    BY <1>n DEF FirstStays
  <2>1. i # n /\ i \in 1 .. Len(calls) /\ RegisteredAt(i) /\ calls'[i] = calls[i]
    <3>1. i # n
      BY <1>4
    <3> QED
      BY <1>4, <1>5, <3>1
  <2>2. CASE j = n
    <3>1. PICK k \in 1 .. RuleMax : rules[k] # NoRule /\ rules[k] = Rule(calls[i])
      BY <2>1 DEF RulesInv, TableIsRegistered
    <3>2. rules[k].tenant = calls[i].tenant /\ rules[k].id = calls[i].id
      BY <3>1 DEF Rule
    <3>3. ~ (rules[k].tenant = c.tenant /\ rules[k].id = c.id)
      BY <1>2, <1>5, <2>2, <3>1 DEF FoundForTenant
    <3> QED
      BY <1>4, <2>1, <2>2, <3>2, <3>3
  <2>3. CASE j # n
    <3>1. j \in 1 .. Len(calls) /\ RegisteredAt(j) /\ calls'[j] = calls[j]
      BY <1>4, <1>5, <2>3
    <3> QED
      BY <2>1, <3>1 DEF RulesInv, FirstStays
  <2> QED
    BY <2>2, <2>3
<1>11. EvalsExplained'
  <2> SUFFICES ASSUME NEW i \in 1 .. n, calls'[i].op = "eval"
               PROVE  calls'[i].result = "ok" <=>
                        \E j \in 1 .. i - 1 : RegisteredAt(j)' /\ Rule(calls'[j]) = Rule(calls'[i])
    BY <1>n DEF EvalsExplained
  <2>1. i \in 1 .. Len(calls)
    BY <1>4
  <2> QED
    BY <1>1, <2>1, OldCallsStay
<1> QED
  BY <1>3, <1>6, <1>8, <1>9, <1>10, <1>11 DEF RulesInv

LEMMA RulesNextInv == RulesInv /\ [RulesNext]_ruleVars => RulesInv'
<1> SUFFICES ASSUME RulesInv, [RulesNext]_ruleVars PROVE RulesInv'
  OBVIOUS
<1>1. ASSUME NEW op \in {"register", "eval"}, NEW scopes \in SUBSET Directions, NEW c \in Call(op, scopes)
      PROVE  c \in CallType /\ c.op = op /\ c.scope \in scopes
  BY <1>1, RulesAssumption DEF Call, CallType
<1>2. CASE \E c \in Call("register", {"none", "read", "write"}), reason \in {"none", "operator"} : RegisterRule(c, reason)
  BY <1>1, <1>2, RegisterInv DEF Directions
<1>3. CASE EvalRead
  BY <1>1, <1>3, EvalInv DEF EvalRead, Directions, ScopeIsDirectional
<1>4. CASE EvalWrite
  BY <1>1, <1>4, EvalInv DEF EvalWrite, Directions, ScopeIsDirectional
<1>5. CASE UNCHANGED ruleVars
  BY <1>5 DEF ruleVars, RulesInv, RulesType, TableIsRegistered, RulesOnce, EvalsExplained, FirstStays,
              RingIsNewest, RegisteredAt
<1> QED
  BY <1>2, <1>3, <1>4, <1>5 DEF RulesNext

LEMMA RulesInvExplains == RulesInv => RulesExplained
<1> SUFFICES ASSUME RulesInv PROVE RulesExplained
  OBVIOUS
<1>1. /\ calls \in Seq(Record) /\ ring \in Seq(Record) /\ dropped \in Nat
      /\ Len(ring) \in Nat /\ Len(calls) \in Nat /\ dropped + Len(ring) = Len(calls) /\ sequence = Len(calls)
      /\ \A k \in 1 .. Len(ring) : ring[k] = calls[dropped + k]
  BY DEF RulesInv, RulesType, RingIsNewest
<1> DEFINE newest == SubSeq(calls, dropped + 1, Len(calls))
<1>2. newest \in Seq(Record) /\ Len(newest) = Len(ring) /\ \A k \in 1 .. Len(ring) : newest[k] = calls[dropped + k]
  <2>1. /\ dropped + 1 \in 1 .. Len(calls) + 1 /\ Len(calls) \in dropped .. Len(calls)
        /\ Len(calls) - (dropped + 1) + 1 = Len(ring)
    BY <1>1
  <2> QED
    BY <1>1, <2>1, SubSeqProperties
<1>3. ring = newest
  <2> HIDE DEF newest
  <2> QED
    BY <1>1, <1>2, SeqEqual
<1>4. dropped + Len(ring) = sequence
  BY <1>1
<1> QED
  BY <1>3, <1>4 DEF RulesExplained, RulesInv, EvalsExplained, FirstStays, RegisteredAt

(* The rule layer explains itself for every number of rules and records: an  *)
(* evaluation succeeds exactly on an earlier registration of the same rule,  *)
(* and the audit ring is the newest of the calls (workflow_rule.c:169-307).  *)
THEOREM RulesStayExplained == RulesSpec => []RulesExplained
<1> QED
  BY RulesInitInv, RulesNextInv, RulesInvExplains, PTL DEF RulesSpec
=============================================================================
