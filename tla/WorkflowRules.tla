---------------------------- MODULE WorkflowRules ----------------------------
(* The workflow rule layer, kernel/cap/workflow_rule.c: rules registered per *)
(* tenant, evaluated for one direction, every call recorded in a bounded     *)
(* audit ring that drops its oldest record.                                  *)
EXTENDS Naturals, Sequences

CONSTANTS
  RuleCalls,        \* [tenant, id, subject, cap] of the calls made; 0 is invalid
  WorkflowCaps,     \* the capabilities capability_is_known accepts
  RuleMax,          \* WORKFLOW_RULE_MAX_RULES
  AuditMax,         \* WORKFLOW_AUDIT_EVENT_MAX
  CallBound         \* bound: calls made

ASSUME RulesAssumption ==
  /\ RuleCalls \subseteq [tenant : Nat, id : Nat, subject : Nat, cap : Nat]
  /\ RuleMax \in Nat /\ AuditMax \in Nat \ {0}

VARIABLES
  rules,      \* [1 .. RuleMax -> a rule or NoRule]
  ring,       \* g_audit_ring[0 .. g_audit_count - 1]
  dropped,    \* g_audit_dropped
  sequence,   \* g_audit_next_sequence
  calls       \* history: every call with its result

ruleVars == <<rules, ring, dropped, sequence, calls>>

NoRule == [tenant |-> 0]

RulesInit ==
  /\ rules = [i \in 1 .. RuleMax |-> NoRule]
  /\ ring = <<>> /\ dropped = 0 /\ sequence = 0 /\ calls = <<>>

ScopeIsDirectional(scope) == scope \in {"read", "write"}
CapabilityIsKnown(cap) == cap \in WorkflowCaps
ReasonIsValid(reason) == reason # "none"

(* A search by rule id alone.                                                *)
FoundForAnyone(tenant, id) ==
  {i \in 1 .. RuleMax : rules[i] # NoRule /\ rules[i].id = id}

(* find_slot_for_tenant.                                                     *)
FoundForTenant(tenant, id) ==
  {i \in 1 .. RuleMax : rules[i] # NoRule /\ rules[i].tenant = tenant /\ rules[i].id = id}

(* find_free_slot, in the order of the table.                                *)
FreeRules == {i \in 1 .. RuleMax : rules[i] = NoRule}
First(s) == CHOOSE i \in s : \A j \in s : i <= j

Recorded(c, result) ==
  [op |-> c.op, tenant |-> c.tenant, id |-> c.id, scope |-> c.scope, subject |-> c.subject, cap |-> c.cap,
   result |-> result, seq |-> sequence]

(* audit_record.                                                             *)
AuditRecord(c, result) ==
  /\ calls' = Append(calls, Recorded(c, result))
  /\ sequence' = sequence + 1
  /\ ring' = Append(IF Len(ring) < AuditMax THEN ring ELSE Tail(ring), Recorded(c, result))
  /\ dropped' = IF Len(ring) < AuditMax THEN dropped ELSE dropped + 1

Rule(c) == [tenant |-> c.tenant, id |-> c.id, scope |-> c.scope, subject |-> c.subject, cap |-> c.cap]

(* The result workflow_rule_register comes to, by its checks in order.       *)
RegisterResult(c, reason) ==
  CASE c.tenant = 0 -> "tenant invalid"
    [] c.tenant # 0 /\ c.id = 0 -> "rule invalid"
    [] c.tenant # 0 /\ c.id # 0 /\ ~ ScopeIsDirectional(c.scope) -> "scope invalid"
    [] OTHER ->
         IF c.subject = 0 THEN "subject invalid"
         ELSE IF ~ CapabilityIsKnown(c.cap) THEN "capability invalid"
         ELSE IF ~ ReasonIsValid(reason) THEN "reason invalid"
         ELSE IF FoundForTenant(c.tenant, c.id) # {} THEN "duplicate"
         ELSE IF FreeRules = {} THEN "no slot" ELSE "ok"

RegisterRule(c, reason) ==
  /\ Len(calls) < CallBound
  /\ rules' = IF RegisterResult(c, reason) = "ok" THEN [rules EXCEPT ![First(FreeRules)] = Rule(c)]
              ELSE rules
  /\ AuditRecord(c, RegisterResult(c, reason))

(* eval_locked.                                                              *)
Matches(c, found) ==
  /\ found # {}
  /\ LET slot == rules[First(found)]
     IN  slot.scope = c.scope /\ slot.subject = c.subject /\ slot.cap = c.cap

EvalResult(c) ==
  IF /\ c.tenant # 0 /\ c.id # 0 /\ c.subject # 0 /\ CapabilityIsKnown(c.cap)
     /\ Matches(c, FoundForTenant(c.tenant, c.id))
  THEN "ok" ELSE "missing"

Eval(c) ==
  /\ Len(calls) < CallBound
  /\ AuditRecord(c, EvalResult(c)) /\ UNCHANGED rules

Call(op, scopes) ==
  {[op |-> op, scope |-> scope, tenant |-> c.tenant, id |-> c.id, subject |-> c.subject, cap |-> c.cap] :
     c \in RuleCalls, scope \in scopes}

(* workflow_rule_eval_read and workflow_rule_eval_write fix the direction.   *)
EvalRead == \E c \in Call("eval", {"read"}) : Eval(c)
EvalWrite == \E c \in Call("eval", {"write"}) : Eval(c)

RulesNext ==
  \/ \E c \in Call("register", {"none", "read", "write"}), reason \in {"none", "operator"} : RegisterRule(c, reason)
  \/ EvalRead \/ EvalWrite

RulesSpec == RulesInit /\ [][RulesNext]_ruleVars

-----------------------------------------------------------------------------
(* An evaluation is allowed exactly when the earlier calls hold a successful *)
(* registration of the very same rule (workflow_rule.c:290-307), one rule of *)
(* a tenant stays as first registered (238-242), and the audit ring is the   *)
(* newest records with none missing, the count of the dropped ones making up *)
(* the rest (169-180).                                                       *)
RulesExplained ==
  /\ \A i \in 1 .. Len(calls) : calls[i].op = "eval" =>
       (calls[i].result = "ok" <=>
          \E j \in 1 .. i - 1 : /\ calls[j].op = "register" /\ calls[j].result = "ok"
                                /\ Rule(calls[j]) = Rule(calls[i]))
  /\ \A i, j \in 1 .. Len(calls) :
       (/\ i < j /\ calls[i].op = "register" /\ calls[j].op = "register"
        /\ calls[i].result = "ok" /\ calls[j].result = "ok")
         => <<calls[i].tenant, calls[i].id>> # <<calls[j].tenant, calls[j].id>>
  /\ ring = SubSeq(calls, dropped + 1, Len(calls))
  /\ dropped + Len(ring) = sequence
=============================================================================
