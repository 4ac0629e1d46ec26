--------------------------- MODULE ConsoleProofs ----------------------------
(***************************************************************************)
(* Proofs about RuleEngine and Console, for any number of requests, users  *)
(* and rules and any hash: the flag's rules stay numbered and well typed,  *)
(* raising a rollout takes no user out of a rule, a page at rest shows the *)
(* flag, and saving it without an edit reverts nothing.                    *)
(***************************************************************************)
EXTENDS Console, SequenceTheorems, TLAPS

-----------------------------------------------------------------------------
(* Rules.                                                                  *)

Condition == [attribute : {"plan"}, operator : Operator, value : Plan]

LEMMA NewRuleType ==
    ASSUME NEW plan \in Plan
    PROVE  NewRule(plan) \in Rule
<1>1. [attribute |-> "plan", operator |-> "eq", value |-> plan] \in Condition
  BY DEF Condition, Operator
<1>2. ASSUME NEW c \in Condition PROVE <<c>> \in Seq(Condition)
  OBVIOUS
<1>3. <<[attribute |-> "plan", operator |-> "eq", value |-> plan]>> \in Seq(Condition)
  BY <1>1, <1>2
<1>4. ASSUME NEW cs \in Seq(Condition), NEW v \in Value
      PROVE  [name |-> "absent", ruleOrder |-> 0, rolloutPercentage |-> 100,
              serveValue |-> v, conditions |-> cs] \in Rule
  BY <1>4 DEF Rule, Condition
<1>5. TRUE \in Value
  BY ValueAssumption, Zenon
<1> QED
  BY <1>3, <1>4, <1>5, Zenon DEF NewRule

\* What the server stores: rules, numbered from zero.
LEMMA StoredType ==
    ASSUME NEW rules \in Seq(Rule)
    PROVE  /\ Stored(rules) \in Seq(Rule)
           /\ DOMAIN Stored(rules) = DOMAIN rules
           /\ \A i \in DOMAIN rules : Stored(rules)[i].ruleOrder = i - 1
<1>1. DOMAIN rules = 1..Len(rules) /\ Len(rules) \in Nat
  OBVIOUS
<1>2. ASSUME NEW i \in 1..Len(rules)
      PROVE  /\ [rules[i] EXCEPT !.ruleOrder = i - 1,
                     !.name = IF @ = "absent" THEN "null" ELSE @] \in Rule
             /\ [rules[i] EXCEPT !.ruleOrder = i - 1,
                     !.name = IF @ = "absent" THEN "null" ELSE @].ruleOrder = i - 1
  <2>1. rules[i] \in Rule /\ i - 1 \in Nat
    OBVIOUS
  <2> QED
    BY <2>1 DEF Rule
<1>3. Stored(rules) \in [1..Len(rules) -> Rule]
  BY <1>1, <1>2 DEF Stored
<1>4. Stored(rules) \in Seq(Rule)
  BY <1>1, <1>3, IsASeq
<1> QED
  BY <1>1, <1>2, <1>4 DEF Stored

LEMMA EditedRuleType ==
    ASSUME NEW rules \in Seq(Rule), NEW i \in DOMAIN rules, NEW rule \in Rule
    PROVE  [rules EXCEPT ![i] = rule] \in Seq(Rule)
BY ExceptSeq

LEMMA RemovedRuleType ==
    ASSUME NEW rules \in Seq(Rule), NEW i \in DOMAIN rules
    PROVE  SubSeq(rules, 1, i - 1) \o SubSeq(rules, i + 1, Len(rules)) \in Seq(Rule)
<1>1. i \in 1..Len(rules) /\ Len(rules) \in Nat
  OBVIOUS
<1>2. \A k \in 1..Len(rules) : rules[k] \in Rule
  OBVIOUS
<1>3. SubSeq(rules, 1, i - 1) \in Seq(Rule)
  BY <1>1, <1>2, SubSeqProperties
<1>4. SubSeq(rules, i + 1, Len(rules)) \in Seq(Rule)
  BY <1>1, <1>2, SubSeqProperties
<1> QED
  BY <1>3, <1>4

-----------------------------------------------------------------------------
(* What a flag serves.                                                     *)

\* Who is below a percentage is below every higher one: the bucket does not
\* depend on the percentage (bucketing.ts:17-32).
LEMMA RolloutIsMonotone ==
    ASSUME NEW user, NEW key, NEW p \in 0..100, NEW q \in 0..100, p <= q,
           Bucket(user, key) \in 0..100, IsInRollout(user, key, p)
    PROVE  IsInRollout(user, key, q)
BY DEF IsInRollout

\* A rule keeps a user when its rollout is raised.
LEMMA RaisedRuleKeeps ==
    ASSUME NEW rule \in Rule, NEW p \in 0..100, rule.rolloutPercentage <= p,
           NEW context, NEW key, Bucket(UserId(context), key) \in 0..100,
           EvaluateRule(rule, context, key)
    PROVE  EvaluateRule([rule EXCEPT !.rolloutPercentage = p], context, key)
<1>1. /\ rule.rolloutPercentage \in 0..100
      /\ [rule EXCEPT !.rolloutPercentage = p].rolloutPercentage = p
      /\ [rule EXCEPT !.rolloutPercentage = p].conditions = rule.conditions
  BY DEF Rule
<1>2. IsInRollout(UserId(context), key, p)
  BY <1>1, RolloutIsMonotone DEF EvaluateRule
<1> QED
  BY <1>1, <1>2 DEF EvaluateRule

\* If rule i of f is raised in g, a rule j that decided in f, and that is rule i
\* or stands above it, decides in g.
LEMMA RaisedFlagKeeps ==
    ASSUME NEW f \in Flag, NEW g \in Flag, NEW i \in DOMAIN f.targetingRules,
           RampsUp(f, g, i), NEW context \in Context,
           NEW j \in DOMAIN f.targetingRules,
           i = j \/ Precedes(f.targetingRules, j, i), Decides(f, context, j)
    PROVE  Decides(g, context, j)
<1> DEFINE rules == f.targetingRules
           p == g.targetingRules[i].rolloutPercentage
<1>1. /\ rules \in Seq(Rule) /\ g.targetingRules \in Seq(Rule)
      /\ f.key = "flag" /\ g.key = "flag"
  BY DEF Flag
<1>2. /\ i \in DOMAIN g.targetingRules
      /\ rules[i].rolloutPercentage <= p
      /\ g = [f EXCEPT !.version = g.version,
                       !.targetingRules = [rules EXCEPT ![i].rolloutPercentage = p]]
  BY DEF RampsUp, Flag
<1>3. g.targetingRules = [rules EXCEPT ![i].rolloutPercentage = p]
  BY <1>2 DEF Flag
<1>4. /\ DOMAIN g.targetingRules = DOMAIN rules
      /\ \A k \in DOMAIN rules : k # i => g.targetingRules[k] = rules[k]
      /\ g.targetingRules[i] = [rules[i] EXCEPT !.rolloutPercentage = p]
  BY <1>1, <1>3
<1>5. \A k \in DOMAIN rules : rules[k] \in Rule /\ g.targetingRules[k] \in Rule
  BY <1>1, <1>4
<1>6. p \in 0..100
  BY <1>5 DEF Rule
<1>7. \A k \in DOMAIN rules : g.targetingRules[k].ruleOrder = rules[k].ruleOrder
  <2>1. [rules[i] EXCEPT !.rolloutPercentage = p].ruleOrder = rules[i].ruleOrder
    BY <1>5 DEF Rule
  <2> HIDE DEF p, rules
  <2> QED
    BY <1>4, <2>1
<1>8. Bucket(UserId(context), "flag") \in 0..100
  BY BucketAssumption
<1>9. EvaluateRule(g.targetingRules[j], context, "flag")
  <2>1. EvaluateRule(rules[j], context, "flag")
    BY <1>1 DEF Decides
  <2>2. CASE j = i
    <3>1. EvaluateRule(rules[i], context, "flag") /\ rules[i] \in Rule
      BY <1>5, <2>1, <2>2
    <3>2. EvaluateRule([rules[i] EXCEPT !.rolloutPercentage = p], context, "flag")
      <4> HIDE DEF p, rules
      <4> QED
        BY <1>2, <1>6, <1>8, <3>1, RaisedRuleKeeps
    <3> QED
      BY <1>4, <2>2, <3>2
  <2>3. CASE j # i
    BY <1>4, <2>1, <2>3
  <2> QED
    BY <2>2, <2>3
<1>10. ASSUME NEW k \in DOMAIN rules, EvaluateRule(g.targetingRules[k], context, "flag")
       PROVE  j = k \/ Precedes(g.targetingRules, j, k)
  <2>1. CASE k = i
    BY <1>7, <2>1 DEF Precedes
  <2>2. CASE k # i
    <3>1. EvaluateRule(rules[k], context, "flag")
      BY <1>4, <1>10, <2>2
    <3>2. j = k \/ Precedes(rules, j, k)
      BY <1>1, <3>1 DEF Decides
    <3> QED
      BY <1>7, <3>2 DEF Precedes
  <2> QED
    BY <2>1, <2>2
<1> QED
  BY <1>1, <1>4, <1>9, <1>10 DEF Decides

-----------------------------------------------------------------------------
(* Types.                                                                  *)

Data(p) == IF p = "list" THEN Status ELSE Flag
QueryType(p) == [known : BOOLEAN, data : Data(p), invalid : BOOLEAN, answer : Data(p),
                 fetch : {"none", "asked", "read"}, excused : BOOLEAN, late : BOOLEAN]
FormType == [defaultValue : Value, rules : Seq(Rule), edits : 0..MaxEdits]
Argument == Value \union Status \union Seq(Rule) \union {"none"}
RequestType == [phase : {"unused", "sent", "done", "over"},
                kind : {"none", "status", "settings", "rules"}, arg : Argument,
                page : Page, here : BOOLEAN, calm : BOOLEAN]

Numbered(f) == \A i \in DOMAIN f.targetingRules : f.targetingRules[i].ruleOrder = i - 1

\* What a request asks for fits its kind, and only the detail page saves.
Fits(q) ==
    /\ q.kind = "settings" => q.arg \in Value /\ q.page = "detail"
    /\ q.kind = "status"   => q.arg \in Status
    /\ q.kind = "rules"    => q.arg \in Seq(Rule) /\ q.page = "detail"
    /\ q.phase = "sent"    => q.kind # "none"

TypeInv ==
    /\ flag \in Flag /\ Numbered(flag)
    /\ page \in Page
    /\ DOMAIN query = Page /\ query = [p \in Page |-> query[p]]
    /\ \A p \in Page : query[p] \in QueryType(p)
    /\ form \in FormType
    /\ request \in [Request -> RequestType]
    /\ \A r \in Request : request[r].phase \in {"sent", "done"} => Fits(request[r])

LEMMA NewFlagType == NewFlag \in Flag /\ Numbered(NewFlag)
<1>1. FALSE \in Value
  BY ValueAssumption, Zenon
<1>2. 1 \in 0..MaxVersion
  BY BoundAssumption
<1>3. <<>> \in Seq(Rule) /\ DOMAIN <<>> = {}
  OBVIOUS
<1>4. ASSUME NEW v \in Value, NEW rules \in Seq(Rule)
      PROVE  [key |-> "flag", status |-> "inactive", version |-> 1,
              targetingEnabled |-> FALSE, defaultValue |-> v,
              targetingRules |-> rules] \in Flag
  BY <1>2 DEF Flag, Status
<1>5. NewFlag.targetingRules = <<>>
  BY DEF NewFlag
<1> QED
  BY <1>1, <1>3, <1>4, <1>5, Zenon DEF NewFlag, Numbered

LEMMA ViewType ==
    ASSUME NEW p \in Page, NEW f \in Flag
    PROVE  View(p, f) \in Data(p)
BY DEF View, Data, Flag, Page

LEMMA QueryTypes ==
    ASSUME NEW p \in Page, NEW q \in QueryType(p), NEW observed \in BOOLEAN
    PROVE  /\ Asked(q) \in QueryType(p)
           /\ Invalidated(q, observed) \in QueryType(p)
           /\ Excuse(q) \in QueryType(p)
<1>1. Asked(q) \in QueryType(p)
  BY DEF Asked, QueryType
<1>2. Excuse(q) \in QueryType(p)
  BY DEF Excuse, QueryType
<1>3. [Asked(q) EXCEPT !.invalid = TRUE] \in QueryType(p)
  BY <1>1 DEF QueryType
<1>4. [q EXCEPT !.invalid = TRUE, !.late = q.fetch = "read"] \in QueryType(p)
  BY DEF QueryType
<1> QED
  BY <1>1, <1>2, <1>3, <1>4 DEF Invalidated

LEMMA NoQueryType ==
    ASSUME NEW p \in Page
    PROVE  NoQuery(p) \in QueryType(p)
<1>1. View(p, NewFlag) \in Data(p)
  BY NewFlagType, ViewType
<1> QED
  BY <1>1 DEF NoQuery, QueryType

LEMMA FormOfType ==
    ASSUME NEW f \in Flag
    PROVE  FormOf(f) \in FormType
BY BoundAssumption DEF FormOf, FormType, Flag

LEMMA NoFormType == NoForm \in FormType
<1>1. FALSE \in Value
  BY ValueAssumption, Zenon
<1>2. <<>> \in Seq(Rule) /\ 0 \in 0..MaxEdits
  BY BoundAssumption
<1>3. ASSUME NEW v \in Value
      PROVE  [defaultValue |-> v, rules |-> <<>>, edits |-> 0] \in FormType
  BY <1>2 DEF FormType
<1> QED
  BY <1>1, <1>3, Zenon DEF NoForm

\* A write leaves a flag, with its rules numbered.
LEMMA AppliedType ==
    ASSUME NEW f \in Flag, Numbered(f), f.version < MaxVersion, NEW w \in Write
    PROVE  /\ Applied(f, w.kind, w.arg) \in Flag
           /\ Numbered(Applied(f, w.kind, w.arg))
<1> DEFINE next == [f EXCEPT !.version = f.version + 1]
<1>1. next \in Flag /\ next.targetingRules = f.targetingRules
  BY BoundAssumption DEF Flag
<1>2. CASE w.kind = "settings"
  <2>1. w.arg \in Value
    BY <1>2 DEF Write
  <2>2. [next EXCEPT !.defaultValue = w.arg] \in Flag
        /\ [next EXCEPT !.defaultValue = w.arg].targetingRules = f.targetingRules
    BY <1>1, <2>1 DEF Flag
  <2> QED
    BY <1>2, <2>2 DEF Applied, Numbered
<1>3. CASE w.kind = "status"
  <2>1. w.arg \in Status
    BY <1>3 DEF Write
  <2>2. [next EXCEPT !.status = w.arg] \in Flag
        /\ [next EXCEPT !.status = w.arg].targetingRules = f.targetingRules
    BY <1>1, <2>1 DEF Flag
  <2> QED
    BY <1>3, <2>2 DEF Applied, Numbered
<1>4. CASE w.kind = "rules"
  <2>1. w.arg \in Seq(Rule)
    BY <1>4 DEF Write
  <2>2. Stored(w.arg) \in Seq(Rule) /\ DOMAIN Stored(w.arg) = DOMAIN w.arg
        /\ \A i \in DOMAIN w.arg : Stored(w.arg)[i].ruleOrder = i - 1
    BY <2>1, StoredType
  <2>3. [next EXCEPT !.targetingRules = Stored(w.arg)] \in Flag
        /\ [next EXCEPT !.targetingRules = Stored(w.arg)].targetingRules = Stored(w.arg)
    BY <1>1, <2>2 DEF Flag
  <2> QED
    BY <1>4, <2>2, <2>3 DEF Applied, Numbered
<1>5. CASE w.kind = "enable"
  <2>1. w.arg \in BOOLEAN
    BY <1>5 DEF Write
  <2>2. [next EXCEPT !.targetingEnabled = w.arg] \in Flag
        /\ [next EXCEPT !.targetingEnabled = w.arg].targetingRules = f.targetingRules
    BY <1>1, <2>1 DEF Flag
  <2> QED
    BY <1>5, <2>2 DEF Applied, Numbered
<1> QED
  BY <1>2, <1>3, <1>4, <1>5 DEF Write

LEMMA EditedType ==
    ASSUME TypeInv, NEW f \in FormType, f.edits = form.edits, Edit(f)
    PROVE  TypeInv'
<1>1. form' = [f EXCEPT !.edits = f.edits + 1] /\ form.edits < MaxEdits
  BY DEF Edit
<1>2. f.edits + 1 \in 0..MaxEdits
  BY <1>1, BoundAssumption DEF FormType
<1>3. form' \in FormType
  BY <1>1, <1>2 DEF FormType
<1> QED
  BY <1>3 DEF Edit, TypeInv, Numbered

\* A step that replaces some queries, and neither the flag nor the requests.
LEMMA QueryStepType ==
    ASSUME TypeInv, NEW q, query' = q,
           DOMAIN q = Page, q = [p \in Page |-> q[p]], \A p \in Page : q[p] \in QueryType(p),
           page' \in Page, form' \in FormType, flag' = flag,
           request' \in [Request -> RequestType],
           \A r \in Request : request'[r].phase \in {"sent", "done"} => Fits(request'[r])
    PROVE  TypeInv'
BY DEF TypeInv, Numbered

LEMMA ReadTypes ==
    ASSUME TypeInv, NEW p \in Page,
           Read(p) \/ Arrive(p) \/ FetchFails(p) \/ Open(p) \/ Focus(p)
    PROVE  TypeInv'
<1> USE DEF TypeInv
<1>0. /\ query[p] \in QueryType(p) /\ query[page] \in QueryType(page)
      /\ View(p, flag) \in Data(p) /\ View(p, NewFlag) \in Data(p)
      /\ FormOf(flag) \in FormType /\ NoForm \in FormType
  BY ViewType, NewFlagType, FormOfType, NoFormType
<1>1. ASSUME NEW u \in Page, NEW x \in QueryType(u)
      PROVE  /\ DOMAIN [query EXCEPT ![u] = x] = Page
             /\ [query EXCEPT ![u] = x] = [v \in Page |-> [query EXCEPT ![u] = x][v]]
             /\ \A v \in Page : [query EXCEPT ![u] = x][v] \in QueryType(v)
  OBVIOUS
<1>7. ASSUME NEW u \in Page, NEW x \in QueryType(u), query' = [query EXCEPT ![u] = x],
             UNCHANGED <<flag, page, form, request>>
      PROVE  TypeInv'
  BY <1>1, <1>7, QueryStepType
<1>2. CASE Read(p)
  <2>1. [query[p] EXCEPT !.fetch = "read", !.answer = View(p, flag)] \in QueryType(p)
    BY <1>0 DEF QueryType
  <2>2. query' = [query EXCEPT ![p] = [query[p] EXCEPT !.fetch = "read",
                                                       !.answer = View(p, flag)]]
    BY <1>2 DEF Read
  <2> QED
    BY <1>2, <1>7, <2>1, <2>2 DEF Read
<1>3. CASE Arrive(p)
  <2> DEFINE x == [NoQuery(p) EXCEPT !.known = TRUE, !.data = query[p].answer,
                       !.invalid = FALSE, !.excused = query[p].late]
  <2>1. x \in QueryType(p)
    <3>1. /\ NoQuery(p) \in QueryType(p) /\ query[p].answer \in Data(p)
          /\ query[p].late \in BOOLEAN
      BY <1>0, NoQueryType DEF QueryType
    <3> QED
      BY <3>1 DEF QueryType
  <2>2. query' = [query EXCEPT ![p] = x]
    BY <1>3 DEF Arrive
  <2>3. p = "detail" => query[p].answer \in Flag
    BY <1>0 DEF QueryType, Data
  <2>4. form' \in FormType
    BY <1>3, <2>3, FormOfType DEF Arrive
  <2> HIDE DEF x
  <2> QED
    BY <1>1, <1>3, <2>1, <2>2, <2>4, QueryStepType DEF Arrive
<1>4. CASE FetchFails(p)
  <2> DEFINE x == [query[p] EXCEPT !.fetch = "none", !.answer = View(p, NewFlag),
                                   !.late = FALSE, !.excused = TRUE]
  <2>1. x \in QueryType(p)
    BY <1>0 DEF QueryType
  <2>2. query' = [query EXCEPT ![p] = x]
    BY <1>4 DEF FetchFails
  <2> HIDE DEF x
  <2> QED
    BY <1>4, <1>7, <2>1, <2>2 DEF FetchFails
<1>5. CASE Focus(p)
  <2>1. Asked(query[p]) \in QueryType(p)
    BY <1>0, QueryTypes
  <2>2. query' = [query EXCEPT ![p] = Asked(query[p])]
    BY <1>5 DEF Focus
  <2> QED
    BY <1>5, <1>7, <2>1, <2>2 DEF Focus
<1>6. CASE Open(p)
  <2>1. Asked(query[p]) \in QueryType(p)
    BY <1>0, QueryTypes
  <2>2. query' = [query EXCEPT ![p] = Asked(query[p])] \/ query' = query
    BY <1>6 DEF Open
  <2>3. form' \in FormType
    <3>1. p = "detail" => query[p].data \in Flag
      BY <1>0 DEF QueryType, Data
    <3> QED
      BY <1>0, <1>6, <3>1, FormOfType DEF Open
  <2>4. /\ request' \in [Request -> RequestType]
        /\ \A r \in Request : request'[r].phase \in {"sent", "done"} => Fits(request'[r])
    <3>1. request' = [r \in Request |-> [request[r] EXCEPT !.here = FALSE]]
      BY <1>6 DEF Open
    <3>2. ASSUME NEW r \in Request
          PROVE  /\ [request[r] EXCEPT !.here = FALSE] \in RequestType
                 /\ Fits(request[r]) => Fits([request[r] EXCEPT !.here = FALSE])
                 /\ [request[r] EXCEPT !.here = FALSE].phase = request[r].phase
      <4>1. request[r] \in RequestType
        OBVIOUS
      <4>2. [request[r] EXCEPT !.here = FALSE] \in RequestType
        BY <4>1 DEF RequestType
      <4>3. /\ [request[r] EXCEPT !.here = FALSE].phase = request[r].phase
            /\ [request[r] EXCEPT !.here = FALSE].kind = request[r].kind
            /\ [request[r] EXCEPT !.here = FALSE].arg = request[r].arg
            /\ [request[r] EXCEPT !.here = FALSE].page = request[r].page
        BY <4>1 DEF RequestType
      <4> QED
        BY <4>2, <4>3 DEF Fits
    <3>3. /\ request' \in [Request -> RequestType]
          /\ \A r \in Request : request'[r] = [request[r] EXCEPT !.here = FALSE]
      BY <3>1, <3>2
    <3>4. \A r \in Request : request[r].phase \in {"sent", "done"} => Fits(request[r])
      OBVIOUS
    <3> HIDE DEF TypeInv
    <3> QED
      BY <3>2, <3>3, <3>4
  <2>5. page' \in Page /\ flag' = flag
    BY <1>6 DEF Open
  <2>6. CASE query' = query
    BY <2>3, <2>4, <2>5, <2>6, QueryStepType
  <2>7. CASE query' = [query EXCEPT ![p] = Asked(query[p])]
    BY <1>1, <2>1, <2>3, <2>4, <2>5, <2>7, QueryStepType
  <2> QED
    BY <2>2, <2>6, <2>7
<1> QED
  BY <1>2, <1>3, <1>4, <1>5, <1>6

LEMMA FormTypes ==
    ASSUME TypeInv,
           \/ \E v \in Value : EditDefault(v)
           \/ \E plan \in Plan : \/ AddRule(plan)
                                 \/ \E i \in DOMAIN form.rules : UpdateCondition(i, plan)
           \/ \E i \in DOMAIN form.rules : \/ RemoveRule(i)
                                          \/ \E n \in Rollout : UpdateRule(i, n)
    PROVE  TypeInv'
<1>0. form \in FormType /\ form.rules \in Seq(Rule)
  BY DEF TypeInv, FormType
<1>1. ASSUME NEW rules \in Seq(Rule)
      PROVE  [form EXCEPT !.rules = rules] \in FormType
             /\ [form EXCEPT !.rules = rules].edits = form.edits
  BY <1>0 DEF FormType
<1>2. ASSUME NEW v \in Value, EditDefault(v) PROVE TypeInv'
  <2>1. [form EXCEPT !.defaultValue = v] \in FormType
        /\ [form EXCEPT !.defaultValue = v].edits = form.edits
    BY <1>0 DEF FormType
  <2> QED
    BY <1>2, <2>1, EditedType DEF EditDefault
<1>3. ASSUME NEW plan \in Plan, AddRule(plan) PROVE TypeInv'
  <2>1. Append(form.rules, NewRule(plan)) \in Seq(Rule)
    BY <1>0, NewRuleType
  <2> QED
    BY <1>1, <1>3, <2>1, EditedType DEF AddRule
<1>4. ASSUME NEW i \in DOMAIN form.rules, RemoveRule(i) PROVE TypeInv'
  <2>1. SubSeq(form.rules, 1, i - 1) \o SubSeq(form.rules, i + 1, Len(form.rules))
            \in Seq(Rule)
    BY <1>0, RemovedRuleType
  <2> QED
    BY <1>1, <1>4, <2>1, EditedType DEF RemoveRule
<1>5. ASSUME NEW i \in DOMAIN form.rules, NEW rule \in Rule
      PROVE  [form.rules EXCEPT ![i] = rule] \in Seq(Rule)
  BY <1>0, EditedRuleType
<1>6. ASSUME NEW i \in DOMAIN form.rules, NEW n \in Rollout, UpdateRule(i, n)
      PROVE  TypeInv'
  <2>1. form.rules[i] \in Rule /\ n \in 0..100
    BY <1>0, ValueAssumption
  <2>2. [form.rules[i] EXCEPT !.rolloutPercentage = n] \in Rule
    BY <2>1 DEF Rule
  <2>3. Edit([form EXCEPT !.rules =
              [form.rules EXCEPT ![i] = [form.rules[i] EXCEPT !.rolloutPercentage = n]]])
    BY <1>0, <1>6 DEF UpdateRule, FormType
  <2> QED
    BY <1>1, <1>5, <2>2, <2>3, EditedType
<1>7. ASSUME NEW i \in DOMAIN form.rules, NEW plan \in Plan, UpdateCondition(i, plan)
      PROVE  TypeInv'
  <2> DEFINE cs == form.rules[i].conditions
             ds == [cs EXCEPT ![1].value = plan]
  <2>1. form.rules[i] \in Rule /\ cs \in Seq(Condition)
    <3>1. form.rules[i] \in Rule
      BY <1>0
    <3>2. ASSUME NEW rule \in Rule PROVE rule.conditions \in Seq(Condition)
      BY DEF Rule, Condition
    <3> QED
      BY <3>1, <3>2
  <2>2. ds \in Seq(Condition)
    <3>1. CASE 1 \in DOMAIN cs
      <4>1. 1 \in 1..Len(cs) /\ cs[1] \in Condition
        BY <2>1, <3>1
      <4>2. [cs[1] EXCEPT !.value = plan] \in Condition
        BY <4>1 DEF Condition
      <4>3. ds = [cs EXCEPT ![1] = [cs[1] EXCEPT !.value = plan]]
        OBVIOUS
      <4> HIDE DEF cs, ds
      <4> QED
        BY <2>1, <4>1, <4>2, <4>3, ExceptSeq
    <3>2. CASE 1 \notin DOMAIN cs
      <4>1. cs = <<>>
        BY <2>1, <3>2
      <4>2. ds = cs
        BY <4>1
      <4> QED
        BY <2>1, <4>2
    <3> QED
      BY <3>1, <3>2
  <2>3. [form.rules[i] EXCEPT !.conditions = ds] \in Rule
    <3> HIDE DEF ds
    <3> QED
      BY <2>1, <2>2 DEF Rule, Condition
  <2>4. Edit([form EXCEPT !.rules =
              [form.rules EXCEPT ![i] = [form.rules[i] EXCEPT !.conditions = ds]]])
    BY <1>0, <1>7, <2>1 DEF UpdateCondition, FormType, Rule
  <2> QED
    BY <1>1, <1>5, <2>3, <2>4, EditedType
<1> QED
  BY <1>2, <1>3, <1>4, <1>6, <1>7

LEMMA SendTypes ==
    ASSUME TypeInv, NEW r \in Request,
           (\E s \in Status : SetStatus(r, s)) \/ SaveSettings(r) \/ SaveRules(r)
    PROVE  TypeInv'
<1> USE DEF TypeInv
<1>1. ASSUME NEW kind \in {"status", "settings", "rules"}, NEW arg \in Argument,
             kind = "settings" => arg \in Value /\ page = "detail",
             kind = "status" => arg \in Status,
             kind = "rules" => arg \in Seq(Rule) /\ page = "detail",
             Send(r, kind, arg)
      PROVE  TypeInv'
  <2>1. request' = [s \in Request |->
           IF s = r THEN [phase |-> "sent", kind |-> kind, arg |-> arg, page |-> page,
                          here |-> kind # "status", calm |-> kind = "settings" /\ Calm]
           ELSE [request[s] EXCEPT !.calm = FALSE]]
    BY <1>1 DEF Send
  <2>2. ASSUME NEW here \in BOOLEAN, NEW calm \in BOOLEAN
        PROVE  [phase |-> "sent", kind |-> kind, arg |-> arg, page |-> page,
                here |-> here, calm |-> calm] \in RequestType
               /\ Fits([phase |-> "sent", kind |-> kind, arg |-> arg, page |-> page,
                        here |-> here, calm |-> calm])
    BY <1>1 DEF RequestType, Fits
  <2>3. (kind # "status") \in BOOLEAN /\ (kind = "settings" /\ Calm) \in BOOLEAN
    BY Zenon
  <2>4. ASSUME NEW s \in Request
        PROVE  /\ [request[s] EXCEPT !.calm = FALSE] \in RequestType
               /\ Fits(request[s]) => Fits([request[s] EXCEPT !.calm = FALSE])
               /\ [request[s] EXCEPT !.calm = FALSE].phase = request[s].phase
    <3>1. ASSUME NEW x \in RequestType
          PROVE  /\ [x EXCEPT !.calm = FALSE] \in RequestType
                 /\ Fits(x) => Fits([x EXCEPT !.calm = FALSE])
                 /\ [x EXCEPT !.calm = FALSE].phase = x.phase
      BY DEF RequestType, Fits
    <3> QED
      BY <3>1
  <2>5. ASSUME NEW s \in Request
        PROVE  /\ request'[s] \in RequestType
               /\ request'[s].phase \in {"sent", "done"} => Fits(request'[s])
    <3>1. CASE s = r
      <4>1. request'[s] = [phase |-> "sent", kind |-> kind, arg |-> arg, page |-> page,
                           here |-> kind # "status", calm |-> kind = "settings" /\ Calm]
        BY <2>1, <3>1, Zenon
      <4> QED
        BY <2>2, <2>3, <4>1, Zenon
    <3>2. CASE s # r
      <4>1. request'[s] = [request[s] EXCEPT !.calm = FALSE]
        BY <2>1, <3>2, Zenon
      <4> QED
        BY <2>4, <4>1
    <3> QED
      BY <3>1, <3>2
  <2>6. request' \in [Request -> RequestType]
    <3>1. request' = [s \in Request |-> request'[s]]
      BY <2>1, Zenon
    <3> QED
      BY <2>5, <3>1
  <2> QED
    BY <1>1, <2>5, <2>6 DEF Send, Numbered
<1>2. ASSUME NEW s \in Status, SetStatus(r, s) PROVE TypeInv'
  BY <1>1, <1>2 DEF SetStatus, Argument
<1>3. CASE SaveSettings(r)
  BY <1>1, <1>3 DEF SaveSettings, OnForm, Argument, FormType
<1>4. CASE SaveRules(r)
  BY <1>1, <1>4 DEF SaveRules, OnForm, Argument, FormType
<1> QED
  BY <1>2, <1>3, <1>4

LEMMA ServerTypes ==
    ASSUME TypeInv,
           \/ \E r \in Request : Commit(r) \/ Fail(r) \/ Succeed(r) \/ AnswerLost(r)
           \/ OtherWrite
    PROVE  TypeInv'
<1> USE DEF TypeInv
<1>1. ASSUME NEW q, DOMAIN q = Page, q = [p \in Page |-> q[p]],
             \A p \in Page : q[p] \in QueryType(p), query' = q,
             flag' \in Flag, Numbered(flag'), UNCHANGED <<page, form>>,
             request' \in [Request -> RequestType],
             \A r \in Request : request'[r].phase \in {"sent", "done"} => Fits(request'[r])
      PROVE  TypeInv'
  BY <1>1 DEF Numbered
<1>2. ASSUME NEW r \in Request
      PROVE  /\ Over \in RequestType /\ Over.phase = "over"
             /\ \A x \in RequestType : (x.phase \in {"sent", "done"} => Fits(x)) =>
                    /\ [request EXCEPT ![r] = x] \in [Request -> RequestType]
                    /\ \A s \in Request :
                           [request EXCEPT ![r] = x][s].phase \in {"sent", "done"}
                           => Fits([request EXCEPT ![r] = x][s])
  <2>0. \A s \in Request : request[s].phase \in {"sent", "done"} => Fits(request[s])
    OBVIOUS
  <2>1. NoRequest \in RequestType
    BY DEF NoRequest, RequestType, Argument, Page
  <2>2. Over \in RequestType /\ Over.phase = "over"
    BY <2>1 DEF Over, RequestType
  <2>3. \A x : [request EXCEPT ![r] = x][r] = x /\
            \A s \in Request \ {r} : [request EXCEPT ![r] = x][s] = request[s]
    OBVIOUS
  <2>4. \A x \in RequestType : [request EXCEPT ![r] = x] \in [Request -> RequestType]
    OBVIOUS
  <2> HIDE DEF TypeInv
  <2> QED
    BY <2>0, <2>2, <2>3, <2>4
<1>3. \A p \in Page : Excuse(query[p]) \in QueryType(p)
  BY QueryTypes
<1>4. ASSUME NEW r \in Request, Commit(r) PROVE TypeInv'
  <2> DEFINE w == [kind |-> request[r].kind, arg |-> request[r].arg]
             x == [request[r] EXCEPT !.phase = "done", !.calm = FALSE]
  <2>1. request[r] \in RequestType /\ Fits(request[r]) /\ request[r].phase = "sent"
    BY <1>4 DEF Commit
  <2>2. w \in Write /\ w.kind = request[r].kind /\ w.arg = request[r].arg
    <3>1. request[r].kind \in {"status", "settings", "rules"}
      BY <2>1 DEF Fits, RequestType
    <3> QED
      BY <2>1, <3>1 DEF Fits, Write
  <2>3. flag' \in Flag /\ Numbered(flag')
    <3>1. flag' = Applied(flag, w.kind, w.arg) /\ flag.version < MaxVersion
      BY <1>4, <2>2 DEF Commit
    <3> HIDE DEF w
    <3> QED
      BY <2>2, <3>1, AppliedType
  <2>4. x \in RequestType /\ Fits(x)
    BY <2>1 DEF RequestType, Fits
  <2>5. request' = [request EXCEPT ![r] = x]
    BY <1>4 DEF Commit
  <2>6. \/ query' = query
        \/ query' = [query EXCEPT !["detail"] = Excuse(query["detail"])]
    BY <1>4 DEF Commit
  <2>7. Excuse(query["detail"]) \in QueryType("detail")
    BY <1>3 DEF Page
  <2>8. /\ DOMAIN query' = Page /\ query' = [p \in Page |-> query'[p]]
        /\ \A p \in Page : query'[p] \in QueryType(p)
    BY <2>6, <2>7
  <2>9. /\ request' \in [Request -> RequestType]
        /\ \A s \in Request : request'[s].phase \in {"sent", "done"} => Fits(request'[s])
    <3> HIDE DEF x
    <3> QED
      BY <1>2, <2>4, <2>5
  <2> QED
    BY <1>1, <1>4, <2>3, <2>8, <2>9 DEF Commit
<1>5. ASSUME NEW r \in Request, request' = [request EXCEPT ![r] = Over]
      PROVE  /\ request' \in [Request -> RequestType]
             /\ \A s \in Request : request'[s].phase \in {"sent", "done"} => Fits(request'[s])
  BY <1>2, <1>5
<1>6. ASSUME NEW r \in Request, Fail(r) PROVE TypeInv'
  BY <1>1, <1>5, <1>6 DEF Fail
<1>7. ASSUME NEW r \in Request, Succeed(r) PROVE TypeInv'
  <2>1. PICK told : query' = [p \in Page |-> IF p \in told
                                             THEN Invalidated(query[p], Observed(p))
                                             ELSE query[p]]
    BY <1>7 DEF Succeed
  <2>2. \A p \in Page : Invalidated(query[p], Observed(p)) \in QueryType(p)
    <3>1. \A p \in Page : Observed(p) \in BOOLEAN
      BY DEF Observed
    <3> QED
      BY <3>1, QueryTypes
  <2>3. /\ DOMAIN query' = Page /\ query' = [p \in Page |-> query'[p]]
        /\ \A p \in Page : query'[p] \in QueryType(p)
    BY <2>1, <2>2
  <2> QED
    BY <1>1, <1>5, <1>7, <2>3 DEF Succeed
<1>8. ASSUME NEW r \in Request, AnswerLost(r) PROVE TypeInv'
  <2>1. /\ DOMAIN query' = Page /\ query' = [p \in Page |-> query'[p]]
        /\ \A p \in Page : query'[p] \in QueryType(p)
    BY <1>3, <1>8 DEF AnswerLost
  <2> QED
    BY <1>1, <1>5, <1>8, <2>1 DEF AnswerLost
<1>9. CASE OtherWrite
  <2>1. /\ DOMAIN query' = Page /\ query' = [p \in Page |-> query'[p]]
        /\ \A p \in Page : query'[p] \in QueryType(p)
    BY <1>3, <1>9 DEF OtherWrite
  <2>2. flag' \in Flag /\ Numbered(flag')
    <3>1. PICK w \in OtherWrites : flag' = Applied(flag, w.kind, w.arg)
      BY <1>9 DEF OtherWrite
    <3>2. w \in Write /\ flag.version < MaxVersion
      BY <1>9, <3>1, WriteAssumption DEF OtherWrite
    <3> QED
      BY <3>1, <3>2, AppliedType
  <2>3. request' = [r \in Request |-> [request[r] EXCEPT !.calm = FALSE]]
    BY <1>9 DEF OtherWrite
  <2>4. ASSUME NEW r \in Request
        PROVE  /\ [request[r] EXCEPT !.calm = FALSE] \in RequestType
               /\ Fits(request[r]) => Fits([request[r] EXCEPT !.calm = FALSE])
               /\ [request[r] EXCEPT !.calm = FALSE].phase = request[r].phase
    <3>1. ASSUME NEW x \in RequestType
          PROVE  /\ [x EXCEPT !.calm = FALSE] \in RequestType
                 /\ Fits(x) => Fits([x EXCEPT !.calm = FALSE])
                 /\ [x EXCEPT !.calm = FALSE].phase = x.phase
      BY DEF RequestType, Fits
    <3> QED
      BY <3>1
  <2>5. /\ request' \in [Request -> RequestType]
        /\ \A s \in Request : request'[s].phase \in {"sent", "done"} => Fits(request'[s])
    BY <2>3, <2>4
  <2> QED
    BY <1>1, <1>9, <2>1, <2>2, <2>5 DEF OtherWrite
<1> QED
  BY <1>4, <1>6, <1>7, <1>8, <1>9

LEMMA InitType == Init => TypeInv
<1> SUFFICES ASSUME Init PROVE TypeInv
  OBVIOUS
<1>1. \A p \in Page : NoQuery(p) \in QueryType(p) /\ Asked(NoQuery(p)) \in QueryType(p)
  BY NoQueryType, QueryTypes
<1>2. flag \in Flag /\ Numbered(flag) /\ page \in Page /\ form \in FormType
  BY NewFlagType, NoFormType DEF Init, Page
<1>3. /\ DOMAIN query = Page /\ query = [p \in Page |-> query[p]]
      /\ \A p \in Page : query[p] \in QueryType(p)
  BY <1>1 DEF Init
<1>4. NoRequest \in RequestType /\ NoRequest.phase = "unused"
  BY DEF NoRequest, RequestType, Argument, Page
<1> QED
  BY <1>2, <1>3, <1>4 DEF Init, TypeInv

LEMMA TypeStep == TypeInv /\ [Next]_vars => TypeInv'
<1> SUFFICES ASSUME TypeInv, [Next]_vars PROVE TypeInv'
  OBVIOUS
<1>1. CASE UNCHANGED vars
  BY <1>1 DEF vars, TypeInv, Numbered
<1>2. CASE Next
  BY <1>2, ReadTypes, FormTypes, SendTypes, ServerTypes DEF Next, TypeInv
<1> QED
  BY <1>1, <1>2

\* Every reachable state has its types, and what a request under way asks for
\* fits its kind.
LEMMA TypeInvariant == Spec => []TypeInv
BY InitType, TypeStep, PTL DEF Spec

\* Type correctness of the pages, the cache, the form and the requests, with
\* the stored rules numbered as the unique index wants them.
THEOREM TypeCorrect == Spec => []TypeOK
<1>1. TypeInv => TypeOK
  BY DEF TypeInv, TypeOK, QueryType, Data, FormType, RequestType, Numbered
<1> QED
  BY <1>1, TypeInvariant, PTL

\* Raising the rollout of a rule takes no user out of that rule or of one above
\* it, whatever the hash, the rules and the users.
THEOREM RampUpIsSafe == Spec => RampUpKeepsUsers
<1> DEFINE Kept == \A i \in DOMAIN flag.targetingRules : RampsUp(flag, flag', i) =>
               \A j \in DOMAIN flag.targetingRules, context \in Context :
                   /\ i = j \/ Precedes(flag.targetingRules, j, i)
                   /\ Decides(flag, context, j)
                   => Decides(flag', context, j)
<1>1. TypeInv /\ TypeInv' => Kept
  BY RaisedFlagKeeps DEF TypeInv
<1>2. TypeInv /\ TypeInv' => [Kept]_vars
  BY <1>1
<1> QED
  BY <1>2, TypeInvariant, PTL DEF RampUpKeepsUsers
-----------------------------------------------------------------------------
(* What the pages show.                                                    *)

\* Request q has committed, and its onSuccess will invalidate page p's query.
Tells(q, p) ==
    /\ q.phase = "done"
    /\ CASE q.page = "list"  -> p = "list"
         [] q.kind = "rules" -> p = "detail"
         [] OTHER -> TRUE

Announced(p) == \E r \in Request : Tells(request[r], p)

\* The data of query q, of a page that is open or not, is what the server has
\* (view), or is marked, or is about to be (told), or is excused.
Honest(q, open, view, told) ==
    /\ ~q.known => q.invalid
    /\ open /\ q.fetch = "none" /\ ~q.excused => ~q.invalid
    /\ q.fetch = "none" /\ ~q.excused /\ ~q.invalid => q.data = view \/ told
    /\ q.fetch = "read" /\ ~q.late => q.answer = view \/ told

Truthful == \A p \in Page : Honest(query[p], page = p, View(p, flag), Announced(p))

\* A form without edits is the flag as the page has it.
Filled == page = "detail" /\ query["detail"].known /\ form.edits = 0 =>
              form = FormOf(query["detail"].data)

\* What is sent from a page at rest leaves the default value as it is, until
\* something else is sent or written.
CalmInv ==
    \A r \in Request : request[r].phase = "sent" /\ request[r].calm =>
        /\ request[r].arg = flag.defaultValue
        /\ \A s \in Request \ {r} : request[s].phase \in {"unused", "over"}

PageInv == Truthful /\ Filled /\ CalmInv

LEMMA ExcuseIsHonest ==
    ASSUME NEW p \in Page, NEW q \in QueryType(p), NEW open, NEW view, NEW told,
           NEW view2, NEW told2, Honest(q, open, view, told)
    PROVE  /\ Honest(Excuse(q), open, view2, told2)
           /\ Excuse(q).known = q.known /\ Excuse(q).data = q.data
<1> DEFINE x == Excuse(q)
<1>1. /\ x.known = q.known /\ x.invalid = q.invalid /\ x.fetch = q.fetch
      /\ x.data = q.data /\ x.excused
      /\ x.late = (q.fetch = "read")
  BY DEF Excuse, QueryType
<1>2. q.fetch = "read" => x.late
  BY <1>1
<1> HIDE DEF x
<1>3. Honest(x, open, view2, told2)
  BY <1>1, <1>2 DEF Honest
<1> QED
  BY <1>1, <1>3 DEF x

LEMMA AskedIsHonest ==
    ASSUME NEW p \in Page, NEW q \in QueryType(p), NEW open, NEW view, NEW told,
           NEW open2, NEW view2, NEW told2, Honest(q, open, view, told)
    PROVE  /\ Honest(Asked(q), open2, view2, told2)
           /\ Asked(q).known = q.known /\ Asked(q).data = q.data
BY DEF Asked, QueryType, Honest

LEMMA InvalidatedIsHonest ==
    ASSUME NEW p \in Page, NEW q \in QueryType(p), NEW open \in BOOLEAN, NEW view, NEW told,
           NEW told2, NEW observed \in BOOLEAN, open => observed, Honest(q, open, view, told)
    PROVE  /\ Honest(Invalidated(q, observed), open, view, told2)
           /\ Invalidated(q, observed).known = q.known /\ Invalidated(q, observed).data = q.data
<1> DEFINE x == Invalidated(q, observed)
<1>1. CASE observed /\ (q.fetch = "none" \/ q.known)
  <2>1. x = [Asked(q) EXCEPT !.invalid = TRUE]
    BY <1>1 DEF Invalidated
  <2>2. x.known = q.known /\ x.data = q.data /\ x.fetch = "asked" /\ x.invalid
    BY <2>1 DEF Asked, QueryType
  <2> HIDE DEF x
  <2>3. Honest(x, open, view, told2)
    BY <2>2 DEF Honest
  <2> QED
    BY <2>2, <2>3 DEF x
<1>2. CASE ~(observed /\ (q.fetch = "none" \/ q.known))
  <2>1. x = [q EXCEPT !.invalid = TRUE, !.late = q.fetch = "read"]
    BY <1>2 DEF Invalidated
  <2>2. /\ x.known = q.known /\ x.data = q.data /\ x.fetch = q.fetch /\ x.invalid
        /\ x.late = (q.fetch = "read")
    BY <2>1 DEF QueryType
  <2>3. q.fetch = "read" => x.late
    BY <2>2
  <2> HIDE DEF x
  <2>4. Honest(x, open, view, told2)
    BY <1>2, <2>2, <2>3 DEF Honest
  <2> QED
    BY <2>2, <2>4 DEF x
<1> QED
  BY <1>1, <1>2

\* A step in which the queries stay as they are.
LEMMA Announces ==
    ASSUME Truthful, UNCHANGED <<flag, page, query>>,
           \A p \in Page : Announced(p) => Announced(p)'
    PROVE  Truthful'
BY DEF Truthful, Honest

\* The cache's steps and the opening of a page.
LEMMA CacheIsTruthful ==
    ASSUME TypeInv, PageInv, NEW p \in Page,
           Read(p) \/ Arrive(p) \/ FetchFails(p) \/ Open(p) \/ Focus(p)
    PROVE  PageInv'
<1>0. /\ query[p] \in QueryType(p) /\ page \in Page /\ query[page] \in QueryType(page)
      /\ DOMAIN query = Page
      /\ \A u \in Page : Honest(query[u], page = u, View(u, flag), Announced(u))
  BY DEF TypeInv, PageInv, Truthful
<1>1. ASSUME UNCHANGED request PROVE \A u \in Page : Announced(u)' = Announced(u)
  BY <1>1 DEF Announced, Tells
<1>2. ASSUME NEW u \in Page, NEW x, query' = [query EXCEPT ![u] = x],
             UNCHANGED <<flag, page, request>>,
             Honest(x, page = u, View(u, flag), Announced(u))
      PROVE  Truthful'
  BY <1>0, <1>1, <1>2 DEF Truthful
<1>3. UNCHANGED <<flag, request>> => CalmInv'
  BY DEF PageInv, CalmInv
<1>4. CASE Read(p)
  <2> DEFINE x == [query[p] EXCEPT !.fetch = "read", !.answer = View(p, flag)]
  <2>1. query' = [query EXCEPT ![p] = x] /\ UNCHANGED <<flag, page, form, request>>
    BY <1>4 DEF Read
  <2>2. /\ x.known = query[p].known /\ x.data = query[p].data
        /\ x.fetch = "read" /\ x.answer = View(p, flag) /\ x.invalid = query[p].invalid
    BY <1>0 DEF QueryType
  <2> HIDE DEF x
  <2>3. Honest(x, page = p, View(p, flag), Announced(p))
    BY <1>0, <2>2 DEF Honest
  <2>4. Filled'
    BY <1>0, <2>1, <2>2 DEF PageInv, Filled, Page
  <2> QED
    BY <1>2, <1>3, <2>1, <2>3, <2>4 DEF PageInv
<1>5. CASE Arrive(p)
  <2> DEFINE x == [NoQuery(p) EXCEPT !.known = TRUE, !.data = query[p].answer,
                       !.invalid = FALSE, !.excused = query[p].late]
  <2>1. /\ query' = [query EXCEPT ![p] = x] /\ UNCHANGED <<flag, page, request>>
        /\ query[p].fetch = "read"
    BY <1>5 DEF Arrive
  <2>2. /\ x.known /\ ~x.invalid /\ x.data = query[p].answer
        /\ x.fetch = "none" /\ x.excused = query[p].late
    BY DEF NoQuery
  <2> HIDE DEF x
  <2>3. Honest(x, page = p, View(p, flag), Announced(p))
    BY <1>0, <2>1, <2>2 DEF Honest
  <2>4. Filled'
    <3>1. CASE p = "detail" /\ page = "detail"
      <4>1. query'["detail"].data = query["detail"].answer
        BY <1>0, <2>1, <2>2, <3>1
      <4>2. CASE query["detail"].known /\ query["detail"].data = query["detail"].answer
        BY <1>5, <2>1, <3>1, <4>1, <4>2 DEF Arrive, PageInv, Filled
      <4>3. CASE ~(query["detail"].known /\ query["detail"].data = query["detail"].answer)
        <5>1. form' = FormOf(query["detail"].answer)
          BY <1>5, <3>1, <4>3 DEF Arrive
        <5> QED
          BY <4>1, <5>1 DEF Filled
      <4> QED
        BY <4>2, <4>3
    <3>2. CASE page # "detail"
      BY <2>1, <3>2 DEF Filled
    <3>3. CASE p # "detail"
      <4>1. form' = form /\ query'["detail"] = query["detail"]
        BY <1>0, <1>5, <2>1, <3>3 DEF Arrive, Page
      <4> QED
        BY <2>1, <4>1 DEF PageInv, Filled
    <3> QED
      BY <3>1, <3>2, <3>3
  <2> QED
    BY <1>2, <1>3, <2>1, <2>3, <2>4 DEF PageInv
<1>6. CASE FetchFails(p)
  <2> DEFINE x == [query[p] EXCEPT !.fetch = "none", !.answer = View(p, NewFlag),
                                   !.late = FALSE, !.excused = TRUE]
  <2>1. query' = [query EXCEPT ![p] = x] /\ UNCHANGED <<flag, page, form, request>>
    BY <1>6 DEF FetchFails
  <2>2. /\ x.known = query[p].known /\ x.data = query[p].data
        /\ x.fetch = "none" /\ x.excused /\ x.invalid = query[p].invalid
    BY <1>0 DEF QueryType
  <2> HIDE DEF x
  <2>3. Honest(x, page = p, View(p, flag), Announced(p))
    BY <1>0, <2>2 DEF Honest
  <2>4. Filled'
    BY <1>0, <2>1, <2>2 DEF PageInv, Filled, Page
  <2> QED
    BY <1>2, <1>3, <2>1, <2>3, <2>4 DEF PageInv
<1>7. CASE Focus(p)
  <2> DEFINE x == Asked(query[p])
  <2>1. query' = [query EXCEPT ![p] = x] /\ UNCHANGED <<flag, page, form, request>>
    BY <1>7 DEF Focus
  <2>2. /\ Honest(x, page = p, View(p, flag), Announced(p))
        /\ x.known = query[p].known /\ x.data = query[p].data
    BY <1>0, AskedIsHonest
  <2> HIDE DEF x
  <2>3. Filled'
    BY <1>0, <2>1, <2>2 DEF PageInv, Filled, Page
  <2> QED
    BY <1>0, <1>2, <1>3, <2>1, <2>2, <2>3 DEF PageInv
<1>8. CASE Open(p)
  <2>1. /\ page' = p /\ page # p /\ flag' = flag
        /\ request' = [r \in Request |-> [request[r] EXCEPT !.here = FALSE]]
    BY <1>8 DEF Open
  <2>2. \A r \in Request : /\ request'[r].phase = request[r].phase
                           /\ request'[r].page = request[r].page
                           /\ request'[r].kind = request[r].kind
                           /\ request'[r].calm = request[r].calm
                           /\ request'[r].arg = request[r].arg
    BY <2>1 DEF TypeInv, RequestType
  <2>3. \A u \in Page : Announced(u)' = Announced(u)
    BY <2>2 DEF Announced, Tells
  <2>4. CalmInv'
    <3>1. CalmInv /\ flag' = flag
      BY <2>1 DEF PageInv
    <3> QED
      BY <2>2, <3>1 DEF CalmInv
  <2>5. CASE query' = [query EXCEPT ![p] = Asked(query[p])]
    <3>1. /\ Honest(Asked(query[p]), page' = p, View(p, flag), Announced(p)')
          /\ Asked(query[p]).known = query[p].known
          /\ Asked(query[p]).data = query[p].data
      BY <1>0, AskedIsHonest
    <3>2. ASSUME NEW u \in Page, u # p
          PROVE  Honest(query'[u], page' = u, View(u, flag'), Announced(u)')
      BY <1>0, <2>1, <2>3, <2>5, <3>2 DEF Honest
    <3>3. Truthful'
      BY <1>0, <2>1, <2>5, <3>1, <3>2 DEF Truthful
    <3>4. Filled'
      <4>1. p = "detail" => form' = IF query["detail"].known
                                    THEN FormOf(query["detail"].data) ELSE NoForm
        BY <1>8 DEF Open
      <4> QED
        BY <1>0, <2>1, <2>5, <3>1, <4>1 DEF Filled
    <3> QED
      BY <2>4, <3>3, <3>4 DEF PageInv
  <2>6. CASE (query[p].invalid => query[p].fetch # "none") /\ query' = query
    <3>1. Honest(query[p], TRUE, View(p, flag), Announced(p))
      BY <1>0, <2>6 DEF Honest
    <3>2. ASSUME NEW u \in Page
          PROVE  Honest(query'[u], page' = u, View(u, flag'), Announced(u)')
      BY <1>0, <2>1, <2>3, <2>6, <3>1 DEF Honest
    <3>3. Truthful'
      BY <3>2 DEF Truthful
    <3>4. Filled'
      <4>1. p = "detail" => form' = IF query["detail"].known
                                    THEN FormOf(query["detail"].data) ELSE NoForm
        BY <1>8 DEF Open
      <4> QED
        BY <1>0, <2>1, <2>6, <4>1 DEF Filled
    <3> QED
      BY <2>4, <3>3, <3>4 DEF PageInv
  <2> QED
    BY <1>8, <2>5, <2>6 DEF Open
<1> QED
  BY <1>4, <1>5, <1>6, <1>7, <1>8

LEMMA EditIsTruthful ==
    ASSUME TypeInv, PageInv,
           \/ \E v \in Value : EditDefault(v)
           \/ \E plan \in Plan : \/ AddRule(plan)
                                 \/ \E i \in DOMAIN form.rules : UpdateCondition(i, plan)
           \/ \E i \in DOMAIN form.rules : \/ RemoveRule(i)
                                          \/ \E n \in Rollout : UpdateRule(i, n)
    PROVE  PageInv'
<1>0. form \in FormType
  BY DEF TypeInv
<1>1. \/ \E x : Edit([form EXCEPT !.rules = x])
      \/ \E x : Edit([form EXCEPT !.defaultValue = x])
  <2>1. ASSUME NEW v, EditDefault(v) PROVE \E x : Edit([form EXCEPT !.defaultValue = x])
    BY <2>1 DEF EditDefault
  <2>2. ASSUME NEW plan, AddRule(plan) PROVE \E x : Edit([form EXCEPT !.rules = x])
    BY <2>2 DEF AddRule
  <2>3. ASSUME NEW i, RemoveRule(i) PROVE \E x : Edit([form EXCEPT !.rules = x])
    BY <2>3 DEF RemoveRule
  <2>4. ASSUME NEW i, NEW plan, UpdateCondition(i, plan)
        PROVE  \E x : Edit([form EXCEPT !.rules = x])
    BY <2>4 DEF UpdateCondition
  <2>5. ASSUME NEW i, NEW n, UpdateRule(i, n) PROVE \E x : Edit([form EXCEPT !.rules = x])
    BY <2>5 DEF UpdateRule
  <2> QED
    BY <2>1, <2>2, <2>3, <2>4, <2>5
<1>2. UNCHANGED <<page, query, flag, request>>
  BY <1>1 DEF Edit
<1>3. form'.edits = form.edits + 1 /\ form.edits \in Nat
  <2>1. ASSUME NEW x, Edit([form EXCEPT !.rules = x]) PROVE form'.edits = form.edits + 1
    BY <1>0, <2>1 DEF Edit, FormType
  <2>2. ASSUME NEW x, Edit([form EXCEPT !.defaultValue = x])
        PROVE  form'.edits = form.edits + 1
    BY <1>0, <2>2 DEF Edit, FormType
  <2>3. form.edits \in Nat
    BY <1>0 DEF FormType
  <2> QED
    BY <1>1, <2>1, <2>2, <2>3
<1>4. Filled'
  BY <1>3 DEF Filled
<1>5. Truthful' /\ CalmInv'
  BY <1>2, Announces DEF PageInv, CalmInv, Announced, Tells
<1> QED
  BY <1>4, <1>5 DEF PageInv

\* A request that is sent from a calm page asks for the value the flag has.
LEMMA SendIsTruthful ==
    ASSUME TypeInv, PageInv, NEW r \in Request,
           (\E s \in Status : SetStatus(r, s)) \/ SaveSettings(r) \/ SaveRules(r)
    PROVE  PageInv'
<1>1. PICK kind, arg : /\ Send(r, kind, arg)
                       /\ kind = "settings" => OnForm /\ arg = form.defaultValue
  <2>1. ASSUME NEW s, SetStatus(r, s) PROVE Send(r, "status", s)
    BY <2>1 DEF SetStatus
  <2>2. SaveSettings(r) => Send(r, "settings", form.defaultValue) /\ OnForm
    BY DEF SaveSettings
  <2>3. SaveRules(r) => Send(r, "rules", form.rules)
    BY DEF SaveRules
  <2> QED
    BY <2>1, <2>2, <2>3
<1>2. /\ UNCHANGED <<flag, page, query, form>> /\ request[r].phase = "unused"
      /\ request'[r].phase = "sent" /\ request'[r].arg = arg
      /\ request'[r].calm = (kind = "settings" /\ Calm)
      /\ \A s \in Request \ {r} : /\ request'[s].phase = request[s].phase
                                  /\ request'[s].page = request[s].page
                                  /\ request'[s].kind = request[s].kind
                                  /\ request'[s].calm = FALSE
  BY <1>1 DEF Send, TypeInv, RequestType
<1>3. \A p \in Page : Announced(p) => Announced(p)'
  BY <1>2 DEF Announced, Tells
<1>4. Truthful' /\ Filled'
  BY <1>2, <1>3, Announces DEF PageInv, Filled
<1>5. ASSUME request'[r].calm
      PROVE  /\ arg = flag.defaultValue
             /\ \A s \in Request \ {r} : request[s].phase \in {"unused", "over"}
  <2>1. kind = "settings" /\ Calm
    BY <1>2, <1>5
  <2>2. /\ page = "detail" /\ query["detail"].known /\ arg = form.defaultValue
        /\ query["detail"].fetch = "none" /\ ~query["detail"].excused /\ form.edits = 0
        /\ \A s \in Request : request[s].phase \in {"unused", "over"}
    BY <1>1, <2>1 DEF Calm, Quiet, OnForm
  <2>3. ~Announced("detail")
    BY <2>2 DEF Announced, Tells
  <2>4. query["detail"].data = View("detail", flag)
    BY <2>2, <2>3 DEF PageInv, Truthful, Honest, Page
  <2>5. form = FormOf(flag)
    BY <2>2, <2>4 DEF PageInv, Filled, View
  <2> QED
    BY <2>2, <2>5 DEF FormOf
<1>6. CalmInv'
  <2> SUFFICES ASSUME NEW q \in Request, request'[q].phase = "sent", request'[q].calm
               PROVE  /\ request'[q].arg = flag'.defaultValue
                      /\ \A s \in Request \ {q} : request'[s].phase \in {"unused", "over"}
    BY DEF CalmInv
  <2>1. q = r
    BY <1>2
  <2> QED
    BY <1>2, <1>5, <2>1
<1> QED
  BY <1>4, <1>6 DEF PageInv

\* What a write leaves as it was.
LEMMA AppliedKeeps ==
    ASSUME NEW f \in Flag, NEW w \in Write
    PROVE  /\ w.kind = "settings" => Applied(f, w.kind, w.arg).defaultValue = w.arg
           /\ w.kind # "status" => Applied(f, w.kind, w.arg).status = f.status
<1> DEFINE next == [f EXCEPT !.version = f.version + 1]
<1>1. CASE w.kind = "settings"
  BY <1>1 DEF Applied, Flag
<1>2. CASE w.kind = "status"
  BY <1>2
<1>3. CASE w.kind = "rules"
  BY <1>3 DEF Applied, Flag
<1>4. CASE w.kind = "enable"
  BY <1>4 DEF Applied, Flag
<1> QED
  BY <1>1, <1>2, <1>3, <1>4 DEF Write

LEMMA ServerIsTruthful ==
    ASSUME TypeInv, PageInv,
           \/ \E r \in Request : Commit(r) \/ Fail(r) \/ Succeed(r) \/ AnswerLost(r)
           \/ OtherWrite
    PROVE  PageInv'
<1>0. /\ DOMAIN query = Page /\ \A p \in Page : query[p] \in QueryType(p)
      /\ \A p \in Page : Honest(query[p], page = p, View(p, flag), Announced(p))
      /\ \A r \in Request : request[r] \in RequestType
      /\ request = [r \in Request |-> request[r]] /\ Page = {"list", "detail"}
  BY DEF TypeInv, PageInv, Truthful, Page
<1>1. ASSUME \A p \in Page : /\ query'[p].known = query[p].known
                             /\ query'[p].data = query[p].data,
             UNCHANGED <<page, form>>
      PROVE  Filled'
  BY <1>0, <1>1 DEF PageInv, Filled
<1>2. ASSUME query' = [p \in Page |-> Excuse(query[p])], UNCHANGED <<page, form>>
      PROVE  Truthful' /\ Filled'
  <2>1. \A p \in Page : /\ Honest(query'[p], page' = p, View(p, flag'), Announced(p)')
                        /\ query'[p].known = query[p].known
                        /\ query'[p].data = query[p].data
    BY <1>0, <1>2, ExcuseIsHonest
  <2> QED
    BY <1>1, <1>2, <2>1 DEF Truthful
<1>3. ASSUME NEW r \in Request, request' = [request EXCEPT ![r] = Over], flag' = flag
      PROVE  CalmInv'
  BY <1>0, <1>3 DEF PageInv, CalmInv, Over, NoRequest
<1>4. ASSUME NEW r \in Request, Commit(r) PROVE PageInv'
  <2> DEFINE q == request[r]
             w == [kind |-> q.kind, arg |-> q.arg]
  <2>1. /\ q.phase = "sent" /\ flag' = Applied(flag, q.kind, q.arg)
        /\ request' = [request EXCEPT ![r].phase = "done", ![r].calm = FALSE]
        /\ query' = IF q.page = "list" THEN [query EXCEPT !["detail"] = Excuse(@)]
                    ELSE query
        /\ UNCHANGED <<page, form>>
    BY <1>4 DEF Commit
  <2>2. w \in Write /\ q.kind \in {"status", "settings", "rules"} /\ Fits(q)
        /\ q.page \in Page
    <3>1. Fits(q) /\ q \in RequestType
      BY <1>0, <2>1 DEF TypeInv
    <3>2. q.kind \in {"status", "settings", "rules"}
      BY <2>1, <3>1 DEF Fits, RequestType
    <3> QED
      BY <3>1, <3>2 DEF Fits, Write, RequestType
  <2>3. q.kind # "status" => flag'.status = flag.status
    <3>1. w.kind # "status" => Applied(flag, w.kind, w.arg).status = flag.status
      <4> HIDE DEF w
      <4> QED
        BY <2>2, AppliedKeeps DEF TypeInv
    <3> QED
      BY <2>1, <3>1
  <2>4. /\ request'[r].phase = "done" /\ request'[r].page = q.page
        /\ request'[r].kind = q.kind
        /\ \A s \in Request \ {r} : request'[s] = request[s]
    BY <1>0, <2>1 DEF RequestType
  <2>5. \A p \in Page : Announced(p) => Announced(p)'
    <3> SUFFICES ASSUME NEW p \in Page, NEW s \in Request, Tells(request[s], p)
                 PROVE  Announced(p)'
      BY DEF Announced
    <3>1. s # r
      BY <2>1 DEF Tells
    <3> QED
      BY <2>4, <3>1 DEF Announced
  <2>8. CalmInv'
    <3> SUFFICES ASSUME NEW s \in Request, request'[s].phase = "sent", request'[s].calm
                 PROVE  FALSE
      BY DEF CalmInv
    <3>1. s # r /\ request[s].phase = "sent" /\ request[s].calm
      BY <2>4
    <3> QED
      BY <2>1, <3>1 DEF PageInv, CalmInv
  <2>6. CASE q.page = "list"
    <3>1. q.kind = "status" /\ Tells(request'[r], "list")
      BY <2>2, <2>4, <2>6 DEF Fits, Tells
    <3>2. Announced("list")'
      BY <3>1 DEF Announced
    <3>3. Honest(query'["list"], page' = "list", View("list", flag'), Announced("list")')
      BY <1>0, <2>1, <2>6, <3>2 DEF Honest
    <3>4. /\ Honest(query'["detail"], page' = "detail", View("detail", flag'),
                    Announced("detail")')
          /\ query'["detail"].known = query["detail"].known
          /\ query'["detail"].data = query["detail"].data
      <4>1. query'["detail"] = Excuse(query["detail"])
        BY <1>0, <2>1, <2>6
      <4> QED
        BY <1>0, <2>1, <4>1, ExcuseIsHonest
    <3>5. Truthful'
      BY <1>0, <3>3, <3>4 DEF Truthful
    <3>6. Filled'
      BY <2>1, <3>4 DEF PageInv, Filled
    <3> QED
      BY <2>8, <3>5, <3>6 DEF PageInv
  <2>7. CASE q.page = "detail"
    <3>1. Announced("detail")'
      <4>1. Tells(request'[r], "detail")
        BY <2>4, <2>7 DEF Tells
      <4> QED
        BY <4>1 DEF Announced
    <3>2. flag'.status = flag.status \/ Announced("list")'
      <4>1. CASE q.kind = "status"
        <5>1. Tells(request'[r], "list")
          BY <2>4, <2>7, <4>1 DEF Tells
        <5> QED
          BY <5>1 DEF Announced
      <4> QED
        BY <2>3, <4>1
    <3>3. Truthful'
      BY <1>0, <2>1, <2>5, <2>7, <3>1, <3>2 DEF Truthful, Honest, View
    <3>4. Filled'
      BY <2>1, <2>7 DEF PageInv, Filled
    <3> QED
      BY <2>8, <3>3, <3>4 DEF PageInv
  <2> QED
    BY <1>0, <2>2, <2>6, <2>7
<1>5. ASSUME NEW r \in Request, Fail(r) PROVE PageInv'
  <2>1. /\ request' = [request EXCEPT ![r] = Over] /\ UNCHANGED <<flag, page, query, form>>
        /\ request[r].phase = "sent"
    BY <1>5 DEF Fail
  <2>2. \A p \in Page : Announced(p) => Announced(p)'
    BY <1>0, <2>1 DEF Announced, Tells
  <2> QED
    BY <1>3, <2>1, <2>2, Announces DEF PageInv, Filled
<1>6. ASSUME NEW r \in Request, Succeed(r) PROVE PageInv'
  <2> DEFINE told == CASE request[r].page = "list"  -> {"list"}
                       [] request[r].kind = "rules" -> {"detail"}
                       [] OTHER -> Page
  <2>1. /\ request[r].phase = "done" /\ request' = [request EXCEPT ![r] = Over]
        /\ query' = [p \in Page |-> IF p \in told THEN Invalidated(query[p], Observed(p))
                                    ELSE query[p]]
        /\ UNCHANGED <<flag, page, form>>
    BY <1>6 DEF Succeed
  <2>2. ASSUME NEW p \in Page, p \notin told PROVE ~Tells(request[r], p)
    BY <1>0, <2>2 DEF Tells
  <2> HIDE DEF told
  <2>3. ASSUME NEW p \in Page, p \notin told PROVE Announced(p) => Announced(p)'
    <3> SUFFICES ASSUME NEW s \in Request, Tells(request[s], p)
                 PROVE  Announced(p)'
      BY DEF Announced
    <3>1. s # r
      BY <2>2, <2>3
    <3> QED
      BY <1>0, <2>1, <3>1 DEF Announced
  <2>4. ASSUME NEW p \in Page
        PROVE  /\ Honest(query'[p], page' = p, View(p, flag'), Announced(p)')
               /\ query'[p].known = query[p].known /\ query'[p].data = query[p].data
    <3>1. CASE p \in told
      <4>1. /\ query'[p] = Invalidated(query[p], Observed(p))
            /\ Observed(p) \in BOOLEAN /\ (p = page => Observed(p))
            /\ (page = p) = (p = page)
        BY <2>1, <3>1 DEF Observed
      <4>2. Honest(query[p], p = page, View(p, flag), Announced(p))
        BY <1>0, <4>1
      <4>3. /\ Honest(query'[p], p = page, View(p, flag), Announced(p)')
            /\ query'[p].known = query[p].known /\ query'[p].data = query[p].data
        <5> DEFINE o == p = page
        <5>1. query'[p] = Invalidated(query[p], Observed(p)) /\ o \in BOOLEAN /\ (o => Observed(p))
          BY <4>1
        <5>2. Honest(query[p], o, View(p, flag), Announced(p)) /\ query[p] \in QueryType(p)
          BY <1>0, <4>2
        <5> HIDE DEF o
        <5>3. /\ Honest(query'[p], o, View(p, flag), Announced(p)')
              /\ query'[p].known = query[p].known /\ query'[p].data = query[p].data
          BY <4>1, <5>1, <5>2, InvalidatedIsHonest
        <5> QED
          BY <5>3 DEF o
      <4> QED
        BY <2>1, <4>1, <4>3
    <3>2. CASE p \notin told
      <4>1. query'[p] = query[p]
        BY <2>1, <3>2
      <4> QED
        BY <1>0, <2>1, <2>3, <3>2, <4>1 DEF Honest
    <3> QED
      BY <3>1, <3>2
  <2>5. Truthful'
    BY <2>4 DEF Truthful
  <2> QED
    BY <1>1, <1>3, <2>1, <2>4, <2>5 DEF PageInv
<1>7. ASSUME NEW r \in Request, AnswerLost(r) PROVE PageInv'
  BY <1>2, <1>3, <1>7 DEF AnswerLost, PageInv
<1>8. CASE OtherWrite
  <2>1. \A r \in Request : request'[r].calm = FALSE
    BY <1>0, <1>8 DEF OtherWrite, RequestType
  <2>2. CalmInv'
    BY <2>1 DEF CalmInv
  <2> QED
    BY <1>2, <1>8, <2>2 DEF OtherWrite, PageInv
<1> QED
  BY <1>4, <1>5, <1>6, <1>7, <1>8

LEMMA PageInvariant == Spec => [](TypeInv /\ PageInv)
<1>1. Init => PageInv
  <2> SUFFICES ASSUME Init PROVE PageInv
    OBVIOUS
  <2>1. \A p \in Page : /\ ~query[p].known /\ query[p].invalid
                        /\ query[p].fetch # "read"
                        /\ page = p => query[p].fetch = "asked"
    BY DEF Init, NoQuery, Asked, Page
  <2>2. Truthful
    BY <2>1 DEF Truthful, Honest
  <2>3. Filled /\ CalmInv
    BY DEF Init, Filled, CalmInv, NoRequest
  <2> QED
    BY <2>2, <2>3 DEF PageInv
<1>2. TypeInv /\ PageInv /\ [Next]_vars => PageInv'
  <2> SUFFICES ASSUME TypeInv, PageInv, [Next]_vars PROVE PageInv'
    OBVIOUS
  <2>1. CASE UNCHANGED vars
    BY <2>1, Announces DEF vars, PageInv, Filled, CalmInv, Announced, Tells
  <2>2. CASE Next
    BY <2>2, CacheIsTruthful, EditIsTruthful, SendIsTruthful, ServerIsTruthful
       DEF Next, TypeInv
  <2> QED
    BY <2>1, <2>2
<1>3. TypeInv /\ [Next]_vars => TypeInv'
  BY TypeStep
<1> QED
  BY <1>1, <1>2, <1>3, InitType, PTL DEF Spec

\* At rest the open page shows the flag as it is, whatever the order in which
\* the tab's writes, its fetches and their answers went, unless something
\* outside the page explains that it does not.
THEOREM PagesTellTheTruth == Spec => []PageShowsTheFlag
<1>1. TypeInv /\ PageInv => PageShowsTheFlag
  <2> SUFFICES ASSUME TypeInv, PageInv, Quiet, ~query[page].excused
               PROVE  query[page].known /\ query[page].data = View(page, flag)
    BY DEF PageShowsTheFlag
  <2>1. ~Announced(page)
    BY DEF Quiet, Announced, Tells
  <2>2. Honest(query[page], TRUE, View(page, flag), FALSE)
    BY <2>1 DEF TypeInv, PageInv, Truthful, Honest
  <2> QED
    BY <2>2 DEF Honest, Quiet
<1> QED
  BY <1>1, PageInvariant, PTL

\* "Save changes" from a page at rest, without an edit, puts no older default
\* value back.
THEOREM SavingRevertsNothing == Spec => NoSilentRevert
<1> DEFINE Kept == \A r \in Request :
               /\ request[r].phase = "sent" /\ request'[r].phase = "done"
               /\ request[r].kind = "settings" /\ request[r].calm
               => flag'.defaultValue = flag.defaultValue
<1>1. TypeInv /\ PageInv /\ [Next]_vars => [Kept]_vars
  <2> SUFFICES ASSUME TypeInv, PageInv, Next, NEW r \in Request,
                      request[r].phase = "sent", request'[r].phase = "done",
                      request[r].kind = "settings", request[r].calm
               PROVE  flag'.defaultValue = flag.defaultValue
    OBVIOUS
  <2>0. \A q \in Request : request[q] \in RequestType
    BY DEF TypeInv
  <2>1. CASE Commit(r)
    <3> DEFINE w == [kind |-> "settings", arg |-> request[r].arg]
    <3>1. flag' = Applied(flag, w.kind, w.arg)
      BY <2>1 DEF Commit
    <3>2. w \in Write
      BY DEF TypeInv, Fits, Write
    <3>3. flag'.defaultValue = w.arg
      <4> HIDE DEF w
      <4>1. w.kind = "settings"
        BY DEF w
      <4> QED
        BY <3>1, <3>2, <4>1, AppliedKeeps DEF TypeInv
    <3>4. request[r].arg = flag.defaultValue
      BY DEF PageInv, CalmInv
    <3> QED
      BY <3>3, <3>4
  <2>2. CASE flag' = flag
    BY <2>2
  <2>3. ASSUME NEW s \in Request, s # r, Commit(s) PROVE FALSE
    BY <2>3 DEF PageInv, CalmInv, Commit
  <2>4. CASE OtherWrite
    <3>1. request'[r].phase = request[r].phase
      BY <2>0, <2>4 DEF OtherWrite, RequestType
    <3> QED
      BY <3>1
  <2>5. CASE \E p \in Page : Read(p) \/ Arrive(p) \/ FetchFails(p) \/ Open(p) \/ Focus(p)
    BY <2>2, <2>5 DEF Read, Arrive, FetchFails, Open, Focus
  <2>6. CASE \E s \in Request : \/ \E t \in Status : SetStatus(s, t)
                                \/ SaveSettings(s) \/ SaveRules(s)
    BY <2>2, <2>6 DEF SetStatus, SaveSettings, SaveRules, Send
  <2>7. CASE \E s \in Request : Fail(s) \/ Succeed(s) \/ AnswerLost(s)
    BY <2>2, <2>7 DEF Fail, Succeed, AnswerLost
  <2>8. CASE \/ \E v \in Value : EditDefault(v)
             \/ \E plan \in Plan : \/ AddRule(plan)
                                   \/ \E i \in DOMAIN form.rules : UpdateCondition(i, plan)
             \/ \E i \in DOMAIN form.rules : \/ RemoveRule(i)
                                            \/ \E n \in Rollout : UpdateRule(i, n)
    BY <2>2, <2>8 DEF EditDefault, AddRule, UpdateCondition, RemoveRule, UpdateRule, Edit
  <2> QED
    BY <2>1, <2>3, <2>4, <2>5, <2>6, <2>7, <2>8 DEF Next, Page
<1> QED
  BY <1>1, PageInvariant, PTL DEF NoSilentRevert, Spec
=============================================================================
