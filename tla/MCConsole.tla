----------------------------- MODULE MCConsole -----------------------------
(***************************************************************************)
(* Instances of Console and of RuleEngine for TLC.  Three users: the one   *)
(* in bucket 20 and the one in bucket 70 are on the plan "pro", the one    *)
(* without a plan matches no condition.                                    *)
(***************************************************************************)
EXTENDS Console, TLC

CONSTANTS r1, r2

MCBucket(user, key) == CASE user = "low" -> 20 [] user = "high" -> 70 [] OTHER -> 100
MCHolds(operator, x, value) == x = value
MCTypeOf(v) == "boolean"

MCContext == {[userId |-> "low", plan |-> "pro"], [id |-> "high", plan |-> "pro"],
              [userId |-> "low"]}

Given(percentage, serve) ==
    [NewRule("pro") EXCEPT !.name = "given", !.rolloutPercentage = percentage,
                           !.serveValue = serve]

\* Another user changes the default value; a caller of the API installs a rule
\* or turns targeting on.
OtherWriters == {[kind |-> "settings", arg |-> TRUE],
                 [kind |-> "rules", arg |-> <<Given(50, TRUE)>>],
                 [kind |-> "enable", arg |-> TRUE]}

Symmetry == Permutations(Request)

\* assignVariant gives variant i the buckets from the weights before it up to
\* its own, and nothing unless the weights make 100.
Weights == {0, 30, 40, 70, 100}
Variants == UNION {[1..n -> [key : {"a", "b"}, weight : Weights]] : n \in 0..3}

ASSUME \A variants \in Variants : \A user \in {"low", "high"} :
    LET Up(i) == IF i = 0 THEN 0 ELSE IF i = 1 THEN variants[1].weight
                 ELSE IF i = 2 THEN variants[1].weight + variants[2].weight
                 ELSE variants[1].weight + variants[2].weight + variants[3].weight
        n == Len(variants)
        key == AssignVariant(user, "experiment", variants)
    IN  IF Up(n) = 100
        THEN \E i \in 1..n : /\ key = variants[i].key
                            /\ Up(i - 1) <= MCBucket(user, "experiment")
                            /\ MCBucket(user, "experiment") < Up(i)
        ELSE key = "null"

\* A killed flag is off for isEnabled and the caller's default for the other
\* getters, whatever its rules, and a flag the store lacks likewise.
ASSUME \A context \in MCContext : \A found, on \in BOOLEAN :
    LET flag0 == [NewFlag EXCEPT !.status = "killed", !.targetingEnabled = on,
                                 !.targetingRules = <<Given(100, TRUE)>>]
    IN  /\ ~IsEnabled(found, flag0, context)
        /\ GetFlag(found, flag0, "string", context, "fallback") = "fallback"
=============================================================================
