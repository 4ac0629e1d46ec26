----------------------------- MODULE RuleEngine -----------------------------
(***************************************************************************)
(* What a flag serves to a user: packages/sdk/src/rule-engine.ts,          *)
(* bucketing.ts and the getters of index.ts.  All of it is a pure function *)
(* of the stored flag and of the context the caller passes.                *)
(*                                                                         *)
(* Values of attributes and of flags are abstract; what the operators ask  *)
(* about two values is the relation Holds, except for equality.  The hash  *)
(* is any function: Bucket(user, key) is the whole part of                 *)
(* hash / 0xFFFFFFFF * 100, which compares with a whole percentage as the  *)
(* fraction does.  A context is a function on the attributes it has.       *)
(***************************************************************************)
EXTENDS Integers, Sequences

LOCAL INSTANCE Functions

CONSTANTS
    Bucket(_, _),    \* the bucket of a user for a key, 0..100
    Holds(_, _, _),  \* does a comparison (all but eq and in) hold?
    TypeOf(_),       \* typeof: the type of a flag value
    Falsy            \* the flag values that Boolean() takes for FALSE

ASSUME FalsyAssumption == FALSE \in Falsy /\ TRUE \notin Falsy

Comparison == {"gt", "gte", "lt", "lte", "contains", "starts_with", "ends_with", "regex"}
Operator   == Comparison \union {"eq", "neq", "not_contains", "in", "not_in"}

\* The value of an `in' or `not_in' is a set: an array, or a string split at
\* its commas.  A comparison with what is not a number, and an invalid regular
\* expression, do not hold.
Compare(operator, x, value) ==
    \/ operator = "eq"  /\ x = value
    \/ operator = "neq" /\ x # value
    \/ operator = "in"     /\ x \in value
    \/ operator = "not_in" /\ x \notin value
    \/ operator \in Comparison /\ Holds(operator, x, value)
    \/ operator = "not_contains" /\ ~Holds("contains", x, value)

\* An attribute the context lacks fails every operator, the negated ones too.
EvaluateCondition(condition, context) ==
    /\ condition.attribute \in DOMAIN context
    /\ Compare(condition.operator, context[condition.attribute], condition.value)

UserId(context) ==
    CASE "userId" \in DOMAIN context -> context["userId"]
      [] "userId" \notin DOMAIN context /\ "id" \in DOMAIN context -> context["id"]
      [] OTHER -> ""

\* Mutant of IsInRollout: the percentage is part of what is hashed, so every
\* step of a ramp-up draws the users anew.
IsInRolloutRedrawn(user, key, percentage) ==
    \/ percentage >= 100
    \/ percentage > 0 /\ (Bucket(user, key) + 3 * percentage) % 100 < percentage

IsInRollout(user, key, percentage) ==
    \/ percentage >= 100
    \/ percentage > 0 /\ Bucket(user, key) < percentage

EvaluateRule(rule, context, key) ==
    /\ \A i \in DOMAIN rule.conditions : EvaluateCondition(rule.conditions[i], context)
    /\ IsInRollout(UserId(context), key, rule.rolloutPercentage)

\* The sort by ruleOrder is stable.
Precedes(rules, i, j) ==
    \/ rules[i].ruleOrder < rules[j].ruleOrder
    \/ rules[i].ruleOrder = rules[j].ruleOrder /\ i < j

\* Rule i is the first that matches.
Decides(flag, context, i) ==
    LET rules   == flag.targetingRules
        Matches(j) == EvaluateRule(rules[j], context, flag.key)
    IN  /\ i \in DOMAIN rules /\ Matches(i)
        /\ \A j \in DOMAIN rules : Matches(j) => i = j \/ Precedes(rules, i, j)

EvaluateFlag(flag, context) ==
    LET rules == flag.targetingRules
        First == {i \in DOMAIN rules : Decides(flag, context, i)}
    IN  CASE flag.status = "killed" -> FALSE
          [] flag.status = "active" /\ flag.targetingEnabled /\ First # {} ->
                 rules[CHOOSE i \in First : TRUE].serveValue
          [] OTHER -> flag.defaultValue

-----------------------------------------------------------------------------
(* The getters.  A flag the store does not have is no record at all.       *)

IsEnabled(found, flag, context) == found /\ EvaluateFlag(flag, context) \notin Falsy

\* getStringFlag, getNumberFlag, getJSONFlag: a value of another type, such as
\* the FALSE of a killed flag, gives the caller's default.
GetFlag(found, flag, type, context, default) ==
    IF found /\ TypeOf(EvaluateFlag(flag, context)) = type
    THEN EvaluateFlag(flag, context) ELSE default

\* assignVariant.  The weight up to and including variant i.
Cumulative(variants, i) ==
    SumFunctionOnSet([j \in DOMAIN variants |-> variants[j].weight], 1..i)

AssignVariant(user, key, variants) ==
    LET n == Len(variants)
        Reached == {i \in 1..n : Bucket(user, key) < Cumulative(variants, i)}
    IN  CASE n = 0 \/ Cumulative(variants, n) # 100 -> "null"
          [] n # 0 /\ Cumulative(variants, n) = 100 ->
                 variants[IF Reached = {} THEN n
                          ELSE CHOOSE i \in Reached : \A j \in Reached : i <= j].key
=============================================================================
