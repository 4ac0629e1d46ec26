---------------------------- MODULE FlagService ----------------------------
(***************************************************************************)
(* The write path and the read path of one project's feature flags, as     *)
(* apps/api/src/modules/flags/flags.service.ts runs them over PostgreSQL   *)
(* (flags, targeting_rules, flag_versions), a Redis string that caches the *)
(* project's SDK configuration, and a Redis channel.                       *)
(*                                                                         *)
(* Every handler is an async function and no handler opens a transaction:  *)
(* each awaited call is one action here, and any other request may run     *)
(* between two of them.  A write request walks through                     *)
(*                                                                         *)
(*   create      check insert record audit invalidate publish              *)
(*   update      read write record audit invalidate publish                *)
(*   status      read write record audit invalidate publish                *)
(*   delete      read write        audit invalidate publish                *)
(*   rules       read clear install write record audit invalidate publish  *)
(*                                                                         *)
(* and ends "ok" (2xx), "rejected" (404 or 409) or "error" (500).          *)
(*                                                                         *)
(* Data the properties do not tell apart is left out: names, tags,         *)
(* descriptions and default values are one column `body'; a rule list is a *)
(* single value, because its rows are inserted by one statement and its    *)
(* first row always has ruleOrder 0, which is what the unique index        *)
(* (flag_id, rule_order) compares.                                         *)
(***************************************************************************)
EXTENDS Naturals, FiniteSets

CONSTANTS
    Flag,           \* identifiers the database may give to flags
    Key,            \* flag keys
    Body,           \* values of the columns that `update' writes
    RuleList,       \* non-empty lists of targeting rules
    NoRules,        \* the empty list of targeting rules
    Request,        \* write requests; each runs once
    Fetch,          \* concurrent GET /sdk/v1/flags handlers
    Command,        \* what a write request may ask for
    SeedFlag,       \* flags created before the behaviour starts
    SeedKey,        \* the key of each of them
    SeedBody,       \* their body
    IOFailures,     \* may an awaited call reject, or the process die?
    None            \* SQL NULL, a missing cache entry, "not yet known"

Status == {"inactive", "active", "killed"}

CommandType == {"create", "update", "status", "delete", "rules"}

\* `arg' is the key, body, status or rule list of the request's input;
\* `flag' is the id in the URL, and None for create.
Commands ==
    [type : {"create"}, flag : {None}, arg : Key]
    \union [type : {"update"}, flag : Flag, arg : Body]
    \union [type : {"status"}, flag : Flag, arg : Status]
    \union [type : {"delete"}, flag : Flag, arg : {None}]
    \union [type : {"rules"},  flag : Flag, arg : RuleList \union {NoRules}]

ASSUME NoneAssumption ==
    /\ None \notin Flag
    /\ None \notin Request
    /\ None \notin Body
    /\ None \notin Key
    /\ None \notin Commands
    /\ None \notin [key : Key, status : Status, body : Body,
                    version : Nat \ {0}, deleted : BOOLEAN]
    /\ None \notin RuleList \union {NoRules}
ASSUME RulesAssumption == NoRules \notin RuleList
ASSUME CommandAssumption == Command \subseteq Commands
ASSUME SeedAssumption ==
    /\ SeedFlag \subseteq Flag
    /\ SeedKey \in [SeedFlag -> Key]
    /\ \A f, g \in SeedFlag : SeedKey[f] = SeedKey[g] => f = g
    /\ SeedBody \in Body
ASSUME FailureAssumption == IOFailures \in BOOLEAN

VARIABLES
    row,        \* flags table: row[f], or None before it is inserted
    rules,      \* targeting_rules table: the rule list of each flag
    history,    \* flag_versions table
    cache,      \* Redis: the cached configuration of the project, or None
    published,  \* Redis: the messages published on the project's channel
    pc,         \* where each write request is
    cmd,        \* its input
    target,     \* the flag it works on
    seen,       \* the row its getById returned (`existing')
    post,       \* the row its INSERT or UPDATE returned (`updated')
    fpc,        \* where each fetch handler is
    loaded,     \* what a fetch handler holds between two awaits
    lateFill    \* history variable: was the cache last filled with a
                \* configuration that was no longer the database's?

tables   == <<row, rules, history>>
redis    == <<cache, published>>
locals   == <<cmd, target, seen, post>>
fetching == <<fpc, loaded>>
vars == <<row, rules, history, cache, published, pc, cmd, target, seen,
          post, fpc, loaded, lateFill>>

-----------------------------------------------------------------------------
(* What the tables hold.                                                   *)

Row == [key : Key, status : Status, body : Body, version : Nat \ {0},
        deleted : BOOLEAN]

Exists(f) == row[f] # None
Live(f)   == Exists(f) /\ ~row[f].deleted

\* A row of the SDK configuration: the flag's columns and its rules.
ConfigOf(f, r, rl) ==
    [key |-> r.key, status |-> r.status, body |-> r.body,
     version |-> r.version, rules |-> rl]

\* What getFlagConfig would return if it read both tables at one instant.
CurrentConfig ==
    [f \in {g \in Flag : Live(g)} |-> ConfigOf(f, row[f], rules[f])]

Recorded(f, v) == \E h \in history : h.flag = f /\ h.version = v

Snapshot(f, r, rl, by) ==
    [flag |-> f, version |-> r.version, status |-> r.status,
     body |-> r.body, rules |-> rl, by |-> by]

-----------------------------------------------------------------------------
SeedRow(f) == [key |-> SeedKey[f], status |-> "inactive", body |-> SeedBody,
               version |-> 1, deleted |-> FALSE]

Init ==
    /\ row = [f \in Flag |-> IF f \in SeedFlag THEN SeedRow(f) ELSE None]
    /\ rules = [f \in Flag |-> NoRules]
    /\ history = {Snapshot(f, SeedRow(f), None, None) : f \in SeedFlag}
    /\ cache = None
    /\ published = {}
    /\ pc = [r \in Request |-> "idle"]
    /\ cmd = [r \in Request |-> None]
    /\ target = [r \in Request |-> None]
    /\ seen = [r \in Request |-> None]
    /\ post = [r \in Request |-> None]
    /\ fpc = [q \in Fetch |-> "idle"]
    /\ loaded = [q \in Fetch |-> None]
    /\ lateFill = FALSE

-----------------------------------------------------------------------------
(* Write requests.                                                         *)

Goto(r, l) == pc' = [pc EXCEPT ![r] = l]

Begin(r, c) ==
    /\ pc[r] = "idle"
    /\ cmd' = [cmd EXCEPT ![r] = c]
    /\ target' = [target EXCEPT ![r] = c.flag]
    /\ Goto(r, IF c.type = "create" THEN "check" ELSE "read")
    /\ UNCHANGED <<tables, redis, seen, post, fetching, lateFill>>

\* create: the uniqueness check looks at flags that are not deleted.
CheckKey(r) ==
    /\ pc[r] = "check"
    /\ Goto(r, IF \E f \in Flag : Live(f) /\ row[f].key = cmd[r].arg
               THEN "rejected" ELSE "insert")
    /\ UNCHANGED <<tables, redis, locals, fetching, lateFill>>

\* Mutant of KeyTaken: no unique index on (project_id, key).
KeyTakenNoIndex(k) == FALSE

\* create: the unique index (project_id, key) also covers deleted flags.
KeyTaken(k) == \E f \in Flag : Exists(f) /\ row[f].key = k

InsertFlag(r) ==
    /\ pc[r] = "insert"
    /\ ~KeyTaken(cmd[r].arg)
    /\ \E f \in Flag, b \in Body :
        /\ ~Exists(f)
        /\ LET new == [key |-> cmd[r].arg, status |-> "inactive", body |-> b,
                       version |-> 1, deleted |-> FALSE]
           IN  /\ row' = [row EXCEPT ![f] = new]
               /\ post' = [post EXCEPT ![r] = new]
        /\ target' = [target EXCEPT ![r] = f]
    /\ Goto(r, "record")
    /\ UNCHANGED <<rules, history, redis, cmd, seen, fetching, lateFill>>

InsertConflict(r) ==
    /\ pc[r] = "insert"
    /\ KeyTaken(cmd[r].arg)
    /\ Goto(r, "error")
    /\ UNCHANGED <<tables, redis, locals, fetching, lateFill>>

\* getById: a deleted or unknown flag is a 404.
ReadFlag(r) ==
    /\ pc[r] = "read"
    /\ IF Live(target[r])
       THEN /\ seen' = [seen EXCEPT ![r] = row[target[r]]]
            /\ Goto(r, IF cmd[r].type = "rules" THEN "clear" ELSE "write")
       ELSE /\ Goto(r, "rejected")
            /\ UNCHANGED seen
    /\ UNCHANGED <<tables, redis, cmd, target, post, fetching, lateFill>>

\* upsertTargetingRules: DELETE, then one INSERT unless the list is empty.
ClearRules(r) ==
    /\ pc[r] = "clear"
    /\ rules' = [rules EXCEPT ![target[r]] = NoRules]
    /\ Goto(r, IF cmd[r].arg = NoRules THEN "write" ELSE "install")
    /\ UNCHANGED <<row, history, redis, locals, fetching, lateFill>>

InstallRules(r) ==
    /\ pc[r] = "install"
    /\ rules[target[r]] = NoRules
    /\ rules' = [rules EXCEPT ![target[r]] = cmd[r].arg]
    /\ Goto(r, "write")
    /\ UNCHANGED <<row, history, redis, locals, fetching, lateFill>>

InstallConflict(r) ==
    /\ pc[r] = "install"
    /\ rules[target[r]] # NoRules
    /\ Goto(r, "error")
    /\ UNCHANGED <<tables, redis, locals, fetching, lateFill>>

\* Mutant of Written: the version goes down instead of up.
WrittenDown(r) ==
    [row[target[r]] EXCEPT !.version = seen[r].version - 1]

\* Mutant of Written: the row that was read is written back as a whole, and
\* a delete bumps the version too.
WrittenWhole(r) ==
    LET v == seen[r].version + 1
    IN  CASE cmd[r].type = "update" ->
               [seen[r] EXCEPT !.body = cmd[r].arg, !.version = v]
          [] cmd[r].type = "status" ->
               [seen[r] EXCEPT !.status = cmd[r].arg, !.version = v]
          [] cmd[r].type = "rules"  -> [seen[r] EXCEPT !.version = v]
          [] cmd[r].type = "delete" ->
               [seen[r] EXCEPT !.deleted = TRUE, !.version = v]

\* UPDATE flags ... WHERE id (and project): only the columns of SET change,
\* the WHERE clause tests neither the version that was read nor deleted_at.
Written(r) ==
    LET old == row[target[r]]
        v   == seen[r].version + 1
    IN  CASE cmd[r].type = "update" ->
               [old EXCEPT !.body = cmd[r].arg, !.version = v]
          [] cmd[r].type = "status" ->
               [old EXCEPT !.status = cmd[r].arg, !.version = v]
          [] cmd[r].type = "rules"  -> [old EXCEPT !.version = v]
          [] cmd[r].type = "delete" -> [old EXCEPT !.deleted = TRUE]

WriteFlag(r) ==
    /\ pc[r] = "write"
    /\ row' = [row EXCEPT ![target[r]] = Written(r)]
    /\ post' = [post EXCEPT ![r] = Written(r)]
    /\ Goto(r, IF cmd[r].type = "delete" THEN "audit" ELSE "record")
    /\ UNCHANGED <<rules, history, redis, cmd, target, seen, fetching, lateFill>>

\* A rules edit records the flag as getById returned it, with the new rules,
\* under the new version; the others record the row they wrote.  `version' is
\* the column: inside the JSON of a rules edit stays the version that was read,
\* which nothing reads.
NewSnapshot(r) ==
    IF cmd[r].type = "rules"
    THEN Snapshot(target[r], [seen[r] EXCEPT !.version = @ + 1], cmd[r].arg, r)
    ELSE Snapshot(target[r], post[r], None, r)

\* Mutant of RecordVersion: no unique index on (flag_id, version).
RecordVersionNoIndex(r) ==
    /\ pc[r] = "record"
    /\ history' = history \union {NewSnapshot(r)}
    /\ Goto(r, "audit")
    /\ UNCHANGED <<row, rules, redis, locals, fetching, lateFill>>

RecordVersion(r) ==
    /\ pc[r] = "record"
    /\ ~Recorded(target[r], NewSnapshot(r).version)
    /\ history' = history \union {NewSnapshot(r)}
    /\ Goto(r, "audit")
    /\ UNCHANGED <<row, rules, redis, locals, fetching, lateFill>>

\* Mutant of RecordConflict: the error is swallowed, as that of the audit is.
RecordConflictSwallowed(r) ==
    /\ pc[r] = "record"
    /\ Recorded(target[r], NewSnapshot(r).version)
    /\ Goto(r, "audit")
    /\ UNCHANGED <<tables, redis, locals, fetching, lateFill>>

\* The unique index (flag_id, version) refuses the row: the handler throws.
RecordConflict(r) ==
    /\ pc[r] = "record"
    /\ Recorded(target[r], NewSnapshot(r).version)
    /\ Goto(r, "error")
    /\ UNCHANGED <<tables, redis, locals, fetching, lateFill>>

\* auditService.log: an error of the INSERT is swallowed, so the request
\* goes on whatever happens to the audit row.
Audit(r) ==
    /\ pc[r] = "audit"
    /\ Goto(r, "invalidate")
    /\ UNCHANGED <<tables, redis, locals, fetching, lateFill>>

\* Mutant of Invalidate: the DEL is forgotten.
InvalidateNothing(r) ==
    /\ pc[r] = "invalidate"
    /\ Goto(r, "publish")
    /\ UNCHANGED <<tables, redis, locals, fetching, lateFill>>

Invalidate(r) ==
    /\ pc[r] = "invalidate"
    /\ cache' = None
    /\ lateFill' = FALSE
    /\ Goto(r, "publish")
    /\ UNCHANGED <<tables, published, locals, fetching>>

MessageType(t) ==
    CASE t = "create" -> "flag_created"
      [] t = "delete" -> "flag_deleted"
      [] OTHER        -> "flag_updated"

\* `by' and `row' are not in the message: they name its request, and what a
\* listener that reads the flag on hearing of it can find at the earliest.
Publish(r) ==
    /\ pc[r] = "publish"
    /\ published' = published \union
         {[type |-> MessageType(cmd[r].type), flag |-> target[r], by |-> r,
           row |-> row[target[r]]]}
    /\ Goto(r, "ok")
    /\ UNCHANGED <<tables, cache, locals, fetching, lateFill>>

Busy == {"check", "insert", "read", "clear", "install", "write", "record",
         "audit", "invalidate", "publish"}
Finished == {"ok", "rejected", "error"}

\* An awaited call rejects, or the process stops there.
Fail(r) ==
    /\ IOFailures
    /\ pc[r] \in Busy
    /\ Goto(r, "error")
    /\ UNCHANGED <<tables, redis, locals, fetching, lateFill>>

Step(r) ==
    \/ CheckKey(r) \/ InsertFlag(r) \/ InsertConflict(r)
    \/ ReadFlag(r)
    \/ ClearRules(r) \/ InstallRules(r) \/ InstallConflict(r)
    \/ WriteFlag(r)
    \/ RecordVersion(r) \/ RecordConflict(r)
    \/ Audit(r) \/ Invalidate(r) \/ Publish(r)

-----------------------------------------------------------------------------
(* getSDKConfig: read through the cache.  A hit changes nothing.           *)

FGoto(q, l) == fpc' = [fpc EXCEPT ![q] = l]

CacheMiss(q) ==
    /\ fpc[q] = "idle"
    /\ cache = None
    /\ FGoto(q, "load")
    /\ UNCHANGED <<tables, redis, pc, locals, loaded, lateFill>>

\* First SELECT of getFlagConfig; without flags there is no second one.
LoadFlags(q) ==
    /\ fpc[q] = "load"
    /\ LET live == {f \in Flag : Live(f)}
       IN  /\ loaded' = [loaded EXCEPT ![q] =
                  [f \in live |-> ConfigOf(f, row[f], NoRules)]]
           /\ FGoto(q, IF live = {} THEN "fill" ELSE "loadRules")
    /\ UNCHANGED <<tables, redis, pc, locals, lateFill>>

\* Second SELECT, of the rules of the flags the first one returned.
LoadRules(q) ==
    /\ fpc[q] = "loadRules"
    /\ loaded' = [loaded EXCEPT ![q] =
           [f \in DOMAIN loaded[q] |-> [loaded[q][f] EXCEPT !.rules = rules[f]]]]
    /\ FGoto(q, "fill")
    /\ UNCHANGED <<tables, redis, pc, locals, lateFill>>

FillCache(q) ==
    /\ fpc[q] = "fill"
    /\ cache' = loaded[q]
    /\ lateFill' = (loaded[q] # CurrentConfig)
    /\ loaded' = [loaded EXCEPT ![q] = None]
    /\ FGoto(q, "idle")
    /\ UNCHANGED <<tables, published, pc, locals>>

FailFetch(q) ==
    /\ IOFailures
    /\ fpc[q] # "idle"
    /\ loaded' = [loaded EXCEPT ![q] = None]
    /\ FGoto(q, "idle")
    /\ UNCHANGED <<tables, redis, pc, locals, lateFill>>

FetchStep(q) == LoadFlags(q) \/ LoadRules(q) \/ FillCache(q)

\* Mutant of Expire: SET instead of SETEX.
NeverExpire == FALSE /\ UNCHANGED vars

\* SETEX with FLAG_CONFIG_TTL: Redis drops the entry by itself.
Expire ==
    /\ cache # None
    /\ cache' = None
    /\ lateFill' = FALSE
    /\ UNCHANGED <<tables, published, pc, locals, fetching>>

-----------------------------------------------------------------------------
Next ==
    \/ \E r \in Request : \E c \in Command : Begin(r, c)
    \/ \E r \in Request : Step(r) \/ Fail(r)
    \/ \E q \in Fetch : CacheMiss(q) \/ FetchStep(q) \/ FailFetch(q)
    \/ Expire

Spec == Init /\ [][Next]_vars

\* The event loop runs every handler that can go on, and Redis expires keys.
\* Nothing obliges a client to send a request or to fetch.
FairSpec ==
    /\ Spec
    /\ \A r \in Request : WF_vars(Step(r))
    /\ \A q \in Fetch : WF_vars(FetchStep(q))
    /\ WF_vars(Expire)
-----------------------------------------------------------------------------
(* Properties.                                                             *)

ConfigRow == [key : Key, status : Status, body : Body, version : Nat \ {0},
              rules : RuleList \union {NoRules}]
IsConfig(c) == \E S \in SUBSET Flag : c \in [S -> ConfigRow]

Version == [flag : Flag, version : Nat \ {0}, status : Status, body : Body,
            rules : RuleList \union {NoRules, None},
            by : Request \union {None}]

Message == [type : {"flag_created", "flag_updated", "flag_deleted"},
            flag : Flag, by : Request, row : Row]

\* Type invariant.
TypeOK ==
    /\ row \in [Flag -> Row \union {None}]
    /\ rules \in [Flag -> RuleList \union {NoRules}]
    /\ history \subseteq Version
    /\ cache = None \/ IsConfig(cache)
    /\ published \subseteq Message
    /\ pc \in [Request -> Busy \union Finished \union {"idle"}]
    /\ cmd \in [Request -> Command \union {None}]
    /\ target \in [Request -> Flag \union {None}]
    /\ seen \in [Request -> Row \union {None}]
    /\ post \in [Request -> Row \union {None}]
    /\ fpc \in [Fetch -> {"idle", "load", "loadRules", "fill"}]
    /\ loaded = [q \in Fetch |-> loaded[q]]
    /\ \A q \in Fetch : loaded[q] = None \/ IsConfig(loaded[q])
    /\ lateFill \in BOOLEAN

\* Two live flags never share a key, although `create' checks the key in one
\* statement and inserts in another (flags.service.ts:112-136).
LiveKeysUnique ==
    \A f, g \in Flag : Live(f) /\ Live(g) /\ row[f].key = row[g].key => f = g

\* Two requests that race on a flag are never both answered 2xx for the same
\* version of it: of those that read the same version one at most gets its
\* snapshot in, although the UPDATE does not compare versions and all of them
\* have written the row (flags.service.ts:183-197, 222-232, 304-314).
AckedVersionsDiffer ==
    \A r, s \in Request :
        (/\ pc[r] = "ok" /\ cmd[r].type # "delete"
         /\ pc[s] = "ok" /\ cmd[s].type # "delete"
         /\ target[r] = target[s]
         /\ post[r].version = post[s].version)
        => r = s

\* Request r has written version v of flag f and has still to record it, or
\* failed between the two.
Owes(r, f, v) ==
    /\ target[r] = f
    /\ post[r] # None
    /\ post[r].version = v
    /\ pc[r] \in {"record", "error"}

\* The history has no holes: each version number up to the row's is recorded,
\* or the request that produced it is about to record it or failed
\* (flags.service.ts:191-197, 227-232, 309-314).
VersionsRecorded ==
    \A f \in Flag : Exists(f) =>
        \A v \in 1..row[f].version :
            Recorded(f, v) \/ \E r \in Request : Owes(r, f, v)

\* A request that was answered 2xx is in the history with the value it asked
\* for, unless it was a delete, and it has been broadcast
\* (flags.service.ts:127-167, 185-214, 222-252, 260-278, 288-331).
AckedIsRecorded ==
    \A r \in Request : pc[r] = "ok" =>
        /\ \E m \in published : m.by = r /\ m.flag = target[r]
        /\ cmd[r].type # "delete" => \E h \in history :
               /\ h.by = r /\ h.flag = target[r]
               /\ cmd[r].type = "update" => h.body = cmd[r].arg
               /\ cmd[r].type = "status" => h.status = cmd[r].arg
               /\ cmd[r].type = "rules"  => h.rules = cmd[r].arg

\* No request is at work on f and none of them was answered 500.
Quiet(f) == \A r \in Request : target[r] = f => pc[r] \in {"ok", "rejected"}

\* The newest snapshot of a quiet flag tells what the flag is: its version,
\* status and body, and the newest rules snapshot tells its rules.  Requests
\* that race on one flag therefore cannot all be answered 2xx unless their
\* effect is that of some order of them (flags.service.ts:171-332).
QuietHistoryIsTrue ==
    \A f \in Flag : Exists(f) /\ Quiet(f) =>
        LET mine == {h \in history : h.flag = f}
            edits == {h \in mine : h.rules # None}
        IN  /\ \E h \in mine :
                   /\ \A g \in mine : g.version <= h.version
                   /\ h.version = row[f].version
                   /\ h.status = row[f].status
                   /\ h.body = row[f].body
            /\ \A h \in edits :
                   (\A g \in edits : g.version <= h.version)
                       => h.rules = rules[f]

\* Only a status request takes a flag out of `killed', and it takes it to the
\* status it asked for: an update or a rules edit that read the flag before
\* the kill does not undo it (flags.service.ts:175-188, 303-307).
KillSticks ==
    [][\A f \in Flag :
          (Exists(f) /\ row[f].status = "killed" /\ row'[f].status # "killed")
          => \E r \in Request :
                 /\ pc[r] = "write" /\ pc'[r] # "write"
                 /\ cmd[r].type = "status" /\ target[r] = f
                 /\ row'[f].status = cmd[r].arg]_row

\* r may have changed the database and has not come past its invalidation.
Uncleaned(r) ==
    /\ \/ post[r] # None
       \/ cmd[r] # None /\ cmd[r].type = "rules" /\ seen[r] # None
    /\ pc[r] \notin {"publish", "ok"}

\* A cached configuration differs from the database for one of three reasons
\* only: a writer is between its write and its invalidation, a writer failed
\* there, or a fetch that read before a write filled the cache after the
\* invalidation (flags.service.ts:244-250, 342-353).
StaleOnlyByRace ==
    \/ cache = None
    \/ cache = CurrentConfig
    \/ lateFill
    \/ \E r \in Request : Uncleaned(r)

\* However the cache went stale, it heals once the writers are done: the TTL
\* is a safety net (lib/cache/flag-cache.ts:3).
StaleCacheHeals == <>[](cache = None \/ cache = CurrentConfig)

\* The claim of docs/page.tsx:625 (and the comment at flags.service.ts:244):
\* when a flag is changed every connected SDK receives the update.  Once all
\* requests have ended, the last change of a flag was followed by a message.
ChangesAreBroadcast ==
    (\A r \in Request : pc[r] \in Finished) =>
        \A f \in Flag : Exists(f) =>
            \/ f \in SeedFlag /\ row[f] = SeedRow(f)
            \/ \E m \in published : m.flag = f /\ m.row = row[f]
=============================================================================
