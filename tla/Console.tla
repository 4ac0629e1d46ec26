------------------------------ MODULE Console ------------------------------
(***************************************************************************)
(* The flag pages of the dashboard (apps/web/src/app/dashboard/flags) in   *)
(* one tab, with the query cache both read from, the requests they send,   *)
(* and other writers of the same flag.  What the flag then serves is       *)
(* RuleEngine's.                                                           *)
(*                                                                         *)
(* The tab shows the list or the detail page.  Each has a query of         *)
(* @tanstack/react-query; the rules taken from there are                   *)
(*   - a page that opens, or gets the focus, fetches if it has no data,    *)
(*     invalid data or data older than 30 s, which it may be at any time,  *)
(*     and joins a fetch that is under way;                                *)
(*   - invalidating marks the data; if something mounted reads the query   *)
(*     it fetches again, in place of a fetch under way unless that is the  *)
(*     first;                                                              *)
(*   - whatever a fetch then brings counts as fresh.                       *)
(* A request is one step on the server (its own steps are FlagService's).  *)
(* One flag is modelled, that exists (Onboarding creates flags); its name  *)
(* and description go with its default value.                              *)
(***************************************************************************)
EXTENDS RuleEngine

CONSTANTS
    Value,         \* values a flag can serve
    Plan,          \* values of the attribute of the form's conditions
    Rollout,       \* rollout percentages typed into the form
    OtherWrites,   \* what other writers do: records of a kind and an argument
    Context,       \* contexts the flag is evaluated for
    Request,       \* requests of the tab; each runs once
    MaxRules,      \* bound: rules in the form
    MaxEdits,      \* bound: edits of a form between two fillings
    MaxVersion     \* bound: writes of the flag

Page   == {"list", "detail"}
Status == {"inactive", "active", "killed"}

Rule == [name : {"absent", "null", "given"}, ruleOrder : Nat,
         rolloutPercentage : 0..100, serveValue : Value,
         conditions : Seq([attribute : {"plan"}, operator : Operator, value : Plan])]

Write == [kind : {"settings"}, arg : Value] \union [kind : {"status"}, arg : Status]
         \union [kind : {"rules"}, arg : Seq(Rule)]
         \union [kind : {"enable"}, arg : BOOLEAN]

ASSUME ValueAssumption == {TRUE, FALSE} \subseteq Value /\ Rollout \subseteq 0..100
ASSUME WriteAssumption == OtherWrites \subseteq Write
ASSUME BucketAssumption ==
    \A context \in Context : Bucket(UserId(context), "flag") \in 0..100
ASSUME BoundAssumption == MaxEdits \in Nat /\ MaxVersion \in Nat \ {0}

VARIABLES
    flag,     \* the flag, as the server has it
    page,     \* the page that is open: "list" or "detail"
    query,    \* the query of each page
    form,     \* the detail page's form
    request   \* the requests of the tab

vars == <<flag, page, query, form, request>>

\* The condition that addRule proposes, for one plan or another.  A rule of
\* the form has no name; once stored, the name it comes back with is null.
NewRule(plan) == [name |-> "absent", ruleOrder |-> 0, rolloutPercentage |-> 100,
                  serveValue |-> TRUE,
                  conditions |-> <<[attribute |-> "plan", operator |-> "eq",
                                    value |-> plan]>>]

\* The flag as its creation leaves it.
NewFlag == [key |-> "flag", status |-> "inactive", version |-> 1,
            targetingEnabled |-> FALSE, defaultValue |-> FALSE,
            targetingRules |-> <<>>]

\* What a page shows of the flag.
View(p, f) == IF p = "list" THEN f.status ELSE f

\* `answer' is what the fetch under way has read.  `excused' and `late' are
\* history: something other than this tab's own acknowledged writes explains
\* that the data, or the answer, does not show the flag as it is.
NoQuery(p) == [known |-> FALSE, data |-> View(p, NewFlag), invalid |-> TRUE,
               fetch |-> "none", answer |-> View(p, NewFlag),
               excused |-> FALSE, late |-> FALSE]
NoForm    == [defaultValue |-> FALSE, rules |-> <<>>, edits |-> 0]
NoRequest == [phase |-> "unused", kind |-> "none", arg |-> "none", page |-> "list",
              here |-> FALSE, calm |-> FALSE]

Over == [NoRequest EXCEPT !.phase = "over"]

Asked(q) == [q EXCEPT !.fetch = "asked", !.late = FALSE]

Init ==
    /\ flag = NewFlag
    /\ page = "list"
    /\ query = [p \in Page |-> IF p = "list" THEN Asked(NoQuery(p)) ELSE NoQuery(p)]
    /\ form = NoForm
    /\ request = [r \in Request |-> NoRequest]

-----------------------------------------------------------------------------
(* The query cache.                                                        *)

FormOf(f) == [defaultValue |-> f.defaultValue, rules |-> f.targetingRules,
              edits |-> 0]

\* The GET reads.
Read(p) ==
    /\ query[p].fetch = "asked"
    /\ query' = [query EXCEPT ![p].fetch = "read", ![p].answer = View(p, flag)]
    /\ UNCHANGED <<flag, page, form, request>>

\* Mutant of Arrive: the form is filled once.
ArriveFillsOnce(p) ==
    /\ query[p].fetch = "read"
    /\ query' = [query EXCEPT ![p] = [NoQuery(p) EXCEPT !.known = TRUE,
                     !.data = query[p].answer, !.invalid = FALSE, !.excused = query[p].late]]
    /\ form' = IF p = "detail" /\ page = "detail" /\ ~query[p].known
               THEN FormOf(query[p].answer) ELSE form
    /\ UNCHANGED <<flag, page, request>>

\* Its answer arrives; the effect of the detail page takes data that differs
\* into the form, over whatever was edited there.
Arrive(p) ==
    /\ query[p].fetch = "read"
    /\ query' = [query EXCEPT ![p] = [NoQuery(p) EXCEPT !.known = TRUE,
                     !.data = query[p].answer, !.invalid = FALSE, !.excused = query[p].late]]
    /\ form' = IF p = "detail" /\ page = "detail"
                  /\ (query[p].known => query[p].data # query[p].answer)
               THEN FormOf(query[p].answer) ELSE form
    /\ UNCHANGED <<flag, page, request>>

\* The fetch and its one retry fail: what the page shows stays.
FetchFails(p) ==
    /\ query[p].fetch # "none"
    /\ query' = [query EXCEPT ![p].fetch = "none", ![p].answer = View(p, NewFlag),
                              ![p].late = FALSE, ![p].excused = TRUE]
    /\ UNCHANGED <<flag, page, form, request>>

\* The onboarding dialog, which every page mounts, reads the list too.
Observed(p) == p \in {"list", page}

\* The window gets the focus, and a query that something mounted reads is old.
Focus(p) ==
    /\ Observed(p)
    /\ query[p].fetch = "none"
    /\ query' = [query EXCEPT ![p] = Asked(@)]
    /\ UNCHANGED <<flag, page, form, request>>

\* Mutant of Invalidated: a fetch under way is not replaced.
InvalidatedJoins(q, observed) ==
    IF observed /\ q.fetch = "none" THEN [Asked(q) EXCEPT !.invalid = TRUE]
    ELSE [q EXCEPT !.invalid = TRUE]

Invalidated(q, observed) ==
    IF observed /\ (q.fetch = "none" \/ q.known) THEN [Asked(q) EXCEPT !.invalid = TRUE]
    ELSE [q EXCEPT !.invalid = TRUE, !.late = q.fetch = "read"]

\* The detail page opens from a link in the list; its form is filled from the
\* cache if that has the flag.  Leaving a page abandons no request and no fetch.
Open(p) ==
    /\ page # p
    /\ p = "detail" => query["list"].known
    /\ page' = p
    /\ \/ query[p].fetch = "none" /\ query' = [query EXCEPT ![p] = Asked(@)]
       \/ (query[p].invalid => query[p].fetch # "none") /\ UNCHANGED query
    /\ form' = IF p = "detail" /\ query[p].known THEN FormOf(query[p].data) ELSE NoForm
    /\ request' = [r \in Request |-> [request[r] EXCEPT !.here = FALSE]]
    /\ UNCHANGED flag

-----------------------------------------------------------------------------
(* The buttons.                                                            *)

Shown == query[page].data
Pending(kind) == \E r \in Request : request[r].kind = kind /\ request[r].here

\* Nothing of this tab is under way, and nothing excuses what it shows.
Quiet == /\ \A r \in Request : request[r].phase \in {"unused", "over"}
         /\ query[page].fetch = "none"
Calm  == Quiet /\ ~query[page].excused /\ form.edits = 0

Send(r, kind, arg) ==
    /\ request[r].phase = "unused"
    /\ request' = [s \in Request |->
           IF s = r THEN [phase |-> "sent", kind |-> kind, arg |-> arg, page |-> page,
                          here |-> kind # "status", calm |-> kind = "settings" /\ Calm]
           ELSE [request[s] EXCEPT !.calm = FALSE]]
    /\ UNCHANGED <<flag, page, query, form>>

\* Enable, Disable, Restore and Kill, as the data on the page offers them; none
\* is disabled while another is under way.
SetStatus(r, s) ==
    /\ query[page].known
    /\ IF page = "list"
       THEN CASE s = "active"   -> Shown # "active"
              [] s = "inactive" -> Shown = "active"
              [] s = "killed"   -> Shown # "killed"
       ELSE CASE s = "active"   -> Shown.status = "inactive"
              [] s = "inactive" -> Shown.status \in {"active", "killed"}
              [] s = "killed"   -> Shown.status # "killed"
    /\ Send(r, "status", s)

OnForm == page = "detail" /\ query["detail"].known

SaveSettings(r) == OnForm /\ ~Pending("settings")
                   /\ Send(r, "settings", form.defaultValue)
SaveRules(r) == OnForm /\ ~Pending("rules") /\ form.rules # <<>>
                /\ Send(r, "rules", form.rules)

Edit(f) ==
    /\ OnForm /\ form.edits < MaxEdits
    /\ form' = [f EXCEPT !.edits = @ + 1]
    /\ UNCHANGED <<flag, page, query, request>>

EditDefault(v) == Edit([form EXCEPT !.defaultValue = v])

AddRule(plan) ==
    Len(form.rules) < MaxRules /\ Edit([form EXCEPT !.rules = Append(@, NewRule(plan))])

RemoveRule(i) == Edit([form EXCEPT !.rules = SubSeq(@, 1, i - 1) \o SubSeq(@, i + 1, Len(@))])

UpdateCondition(i, plan) == Edit([form EXCEPT !.rules[i].conditions[1].value = plan])

UpdateRule(i, percentage) == Edit([form EXCEPT !.rules[i].rolloutPercentage = percentage])

-----------------------------------------------------------------------------
(* The server.                                                             *)

\* Mutant of Stored: the rules are numbered from one.
StoredFromOne(rules) ==
    [i \in DOMAIN rules |-> [rules[i] EXCEPT !.ruleOrder = i,
                                 !.name = IF @ = "absent" THEN "null" ELSE @]]

\* upsertTargetingRules: the rules are numbered in the order they come in.
Stored(rules) ==
    [i \in DOMAIN rules |-> [rules[i] EXCEPT !.ruleOrder = i - 1,
                                 !.name = IF @ = "absent" THEN "null" ELSE @]]

\* targetingRuleSchema: a name may be left out, but not be null.
Refused(r) == request[r].kind = "rules"
              /\ \E i \in DOMAIN request[r].arg : request[r].arg[i].name = "null"

Applied(f, kind, arg) ==
    LET next == [f EXCEPT !.version = @ + 1]
    IN  CASE kind = "settings" -> [next EXCEPT !.defaultValue = arg]
          [] kind = "status"   -> [next EXCEPT !.status = arg]
          [] kind = "rules"    -> [next EXCEPT !.targetingRules = Stored(arg)]
          [] kind = "enable"   -> [next EXCEPT !.targetingEnabled = arg]

Excuse(q) == [q EXCEPT !.excused = TRUE, !.late = q.fetch = "read"]

\* The handler commits.  A change made on the list page is not announced to
\* the detail page's query.
Commit(r) ==
    /\ request[r].phase = "sent" /\ ~Refused(r)
    /\ flag.version < MaxVersion
    /\ flag' = Applied(flag, request[r].kind, request[r].arg)
    /\ request' = [request EXCEPT ![r].phase = "done", ![r].calm = FALSE]
    /\ query' = IF request[r].page = "list"
                THEN [query EXCEPT !["detail"] = Excuse(@)] ELSE query
    /\ UNCHANGED <<page, form>>

\* A 400, a failure, or a request that never arrives; the pages do not say so.
Fail(r) ==
    /\ request[r].phase = "sent"
    /\ request' = [request EXCEPT ![r] = Over]
    /\ UNCHANGED <<flag, page, query, form>>

\* onSuccess.
Succeed(r) ==
    /\ request[r].phase = "done"
    /\ request' = [request EXCEPT ![r] = Over]
    /\ LET told == CASE request[r].page = "list"  -> {"list"}
                     [] request[r].kind = "rules" -> {"detail"}
                     [] OTHER -> Page
       IN  query' = [p \in Page |-> IF p \in told THEN Invalidated(query[p], Observed(p))
                                    ELSE query[p]]
    /\ UNCHANGED <<flag, page, form>>

\* The answer is lost: the write stands and nobody is told.
AnswerLost(r) ==
    /\ request[r].phase = "done"
    /\ request' = [request EXCEPT ![r] = Over]
    /\ query' = [p \in Page |-> Excuse(query[p])]
    /\ UNCHANGED <<flag, page, form>>

\* Another user, another tab or a caller of the API writes the flag.
OtherWrite ==
    /\ flag.version < MaxVersion
    /\ \E w \in OtherWrites : flag' = Applied(flag, w.kind, w.arg)
    /\ query' = [p \in Page |-> Excuse(query[p])]
    /\ request' = [r \in Request |-> [request[r] EXCEPT !.calm = FALSE]]
    /\ UNCHANGED <<page, form>>

Next ==
    \/ \E p \in Page : Read(p) \/ Arrive(p) \/ FetchFails(p) \/ Open(p) \/ Focus(p)
    \/ \E r \in Request : \/ \E s \in Status : SetStatus(r, s)
                          \/ SaveSettings(r) \/ SaveRules(r)
                          \/ Commit(r) \/ Fail(r) \/ Succeed(r) \/ AnswerLost(r)
    \/ \E v \in Value : EditDefault(v)
    \/ \E plan \in Plan : \/ AddRule(plan)
                          \/ \E i \in DOMAIN form.rules : UpdateCondition(i, plan)
    \/ \E i \in DOMAIN form.rules : \/ RemoveRule(i)
                                   \/ \E n \in Rollout : UpdateRule(i, n)
    \/ OtherWrite

Spec == Init /\ [][Next]_vars

-----------------------------------------------------------------------------
(* Properties.                                                             *)

Flag == [key : {"flag"}, status : Status, version : 0..MaxVersion,
         targetingEnabled : BOOLEAN, defaultValue : Value, targetingRules : Seq(Rule)]

\* Type invariant.  The stored rules are numbered 0, 1, ... as the unique
\* index (flag_id, rule_order) wants them (schema.ts:158).
TypeOK ==
    /\ flag \in Flag
    /\ \A i \in DOMAIN flag.targetingRules : flag.targetingRules[i].ruleOrder = i - 1
    /\ page \in Page
    /\ \A p \in Page :
           LET Data == IF p = "list" THEN Status ELSE Flag
           IN  query[p] \in [known : BOOLEAN, data : Data, invalid : BOOLEAN, answer : Data,
                             fetch : {"none", "asked", "read"},
                             excused : BOOLEAN, late : BOOLEAN]
    /\ form \in [defaultValue : Value, rules : Seq(Rule), edits : 0..MaxEdits]
    /\ \A r \in Request :
           /\ request[r].phase \in {"unused", "sent", "done", "over"}
           /\ request[r].kind \in {"none", "status", "settings", "rules"}
           /\ request[r].page \in Page

\* Once nothing of the tab is under way, the open page shows the flag as it
\* is, whatever the order in which its writes, its fetches and their answers
\* went and wherever the user was meanwhile, unless there is a cause outside
\* the page: another writer, a lost answer, a failed fetch, a change made on
\* the list, or a fetch that the page left behind (page.tsx of flags and of
\* flags/[flagId]: onSuccess of each mutation).
PageShowsTheFlag ==
    Quiet /\ ~query[page].excused =>
        query[page].known /\ query[page].data = View(page, flag)

\* "Save changes" sends the whole form (flags/[flagId]/page.tsx:188).  Sent from
\* a page at rest without an edit, it leaves the default value as it is, when
\* nobody else writes before it arrives.
NoSilentRevert ==
    [][\A r \in Request :
           /\ request[r].phase = "sent" /\ request'[r].phase = "done"
           /\ request[r].kind = "settings" /\ request[r].calm
           => flag'.defaultValue = flag.defaultValue]_vars

\* g is f after a write that raises the rollout of rule i.
RampsUp(f, g, i) ==
    LET p == g.targetingRules[i].rolloutPercentage
    IN  /\ f.version < g.version
        /\ i \in DOMAIN f.targetingRules /\ i \in DOMAIN g.targetingRules
        /\ f.targetingRules[i].rolloutPercentage <= p
        /\ g = [f EXCEPT !.version = g.version,
                         !.targetingRules[i].rolloutPercentage = p]

\* Raising the rollout of a rule takes no user out of that rule, nor out of a
\* rule above it: the bucket does not depend on the percentage
\* (bucketing.ts:16-32, rule-engine.ts:82-86).
RampUpKeepsUsers ==
    [][\A i \in DOMAIN flag.targetingRules : RampsUp(flag, flag', i) =>
           \A j \in DOMAIN flag.targetingRules, context \in Context :
               /\ i = j \/ Precedes(flag.targetingRules, j, i)
               /\ Decides(flag, context, j)
               => Decides(flag', context, j)]_vars
=============================================================================
