------------------------- MODULE FlagServiceProofs -------------------------
(***************************************************************************)
(* Proofs about FlagService, for every set of flags, requests, fetch       *)
(* handlers and commands, with and without failing calls.                  *)
(***************************************************************************)
EXTENDS FlagService, TLAPS

-----------------------------------------------------------------------------
(* Types.                                                                  *)

\* What the position of a request says of its variables.
Stage(r) ==
    /\ pc[r] # "idle" => cmd[r] \in Command
    /\ pc[r] \in {"idle", "check", "insert", "read"} =>
           seen[r] = None /\ post[r] = None
    /\ pc[r] \in {"check", "insert"} => cmd[r].type = "create"
    /\ pc[r] \in {"read", "clear", "install", "write"} =>
           /\ cmd[r].type # "create"
           /\ target[r] \in Flag
    /\ pc[r] \in {"clear", "install", "write"} =>
           seen[r] \in Row /\ row[target[r]] \in Row /\ post[r] = None
    /\ pc[r] \in {"clear", "install"} => cmd[r].type = "rules"
    /\ pc[r] = "install" => cmd[r].arg \in RuleList
    /\ pc[r] \in {"record", "audit", "invalidate", "publish", "ok"} =>
           target[r] \in Flag /\ row[target[r]] \in Row /\ post[r] \in Row
    /\ pc[r] = "record" => cmd[r].type # "delete"
    /\ pc[r] = "record" /\ cmd[r].type = "rules" =>
           seen[r] \in Row /\ post[r].version = seen[r].version + 1

TypeInv ==
    /\ TypeOK
    /\ \A r \in Request : Stage(r)
    /\ \A q \in Fetch : fpc[q] \in {"loadRules", "fill"} => IsConfig(loaded[q])

\* A command has the fields of its type.
LEMMA CommandShape ==
    ASSUME NEW c \in Command
    PROVE  /\ c.type \in CommandType
           /\ c.type = "create" => c.flag = None /\ c.arg \in Key
           /\ c.type # "create" => c.flag \in Flag
           /\ c.type = "update" => c.arg \in Body
           /\ c.type = "status" => c.arg \in Status
           /\ c.type = "rules"  => c.arg \in RuleList \union {NoRules}
BY CommandAssumption DEF Commands, CommandType

\* The row that an UPDATE leaves, column by column.
LEMMA WrittenRow ==
    ASSUME NEW r \in Request, cmd[r] \in Command, cmd[r].type # "create",
           seen[r] \in Row, row[target[r]] \in Row
    PROVE  /\ Written(r) \in Row
           /\ Written(r).version = IF cmd[r].type = "delete"
                                   THEN row[target[r]].version
                                   ELSE seen[r].version + 1
           /\ Written(r).key = row[target[r]].key
           /\ row[target[r]].deleted => Written(r).deleted
           /\ cmd[r].type = "update" => Written(r).body = cmd[r].arg
           /\ cmd[r].type = "status" => Written(r).status = cmd[r].arg
           /\ cmd[r].type # "status" =>
                  Written(r).status = row[target[r]].status
<1> DEFINE old == row[target[r]]
<1> old \in Row
  OBVIOUS
<1>1. cmd[r].type \in {"update", "status", "rules", "delete"}
  BY CommandShape DEF CommandType
<1>2. CASE cmd[r].type = "update"
  <2>1. Written(r) = [old EXCEPT !.body = cmd[r].arg,
                                 !.version = seen[r].version + 1]
    BY <1>2 DEF Written
  <2>2. cmd[r].arg \in Body
    BY <1>2, CommandShape
  <2>3. seen[r].version + 1 \in Nat \ {0}
    BY DEF Row
  <2>4. Written(r) \in Row
    BY <2>1, <2>2, <2>3 DEF Row
  <2> QED
    BY <1>2, <2>1, <2>4 DEF Row
<1>3. CASE cmd[r].type = "status"
  <2>1. Written(r) = [old EXCEPT !.status = cmd[r].arg,
                                 !.version = seen[r].version + 1]
    BY <1>3 DEF Written
  <2>2. cmd[r].arg \in Status
    BY <1>3, CommandShape
  <2>3. seen[r].version + 1 \in Nat \ {0}
    BY DEF Row
  <2>4. Written(r) \in Row
    BY <2>1, <2>2, <2>3 DEF Row
  <2> QED
    BY <1>3, <2>1, <2>4 DEF Row
<1>4. CASE cmd[r].type = "rules"
  <2>1. Written(r) = [old EXCEPT !.version = seen[r].version + 1]
    BY <1>4 DEF Written
  <2> QED
    BY <1>4, <2>1 DEF Row
<1>5. CASE cmd[r].type = "delete"
  <2>1. Written(r) = [old EXCEPT !.deleted = TRUE]
    BY <1>5 DEF Written
  <2> QED
    BY <1>5, <2>1 DEF Row
<1> QED
  BY <1>1, <1>2, <1>3, <1>4, <1>5

\* A snapshot that is about to be recorded carries the version of the row
\* that was written.
LEMMA NewSnapshotType ==
    ASSUME TypeInv, NEW r \in Request, pc[r] = "record"
    PROVE  /\ NewSnapshot(r) \in Version
           /\ NewSnapshot(r).flag = target[r]
           /\ NewSnapshot(r).version = post[r].version
           /\ NewSnapshot(r).by = r
<1> Stage(r) /\ cmd[r] \in Command /\ target[r] \in Flag /\ post[r] \in Row
  BY DEF TypeInv, Stage
<1>1. CASE cmd[r].type = "rules"
  <2>1. cmd[r].arg \in RuleList \union {NoRules}
    BY <1>1, CommandShape
  <2>2. seen[r] \in Row /\ post[r].version = seen[r].version + 1
    BY <1>1 DEF Stage
  <2>3. NewSnapshot(r) =
          Snapshot(target[r], [seen[r] EXCEPT !.version = seen[r].version + 1],
                   cmd[r].arg, r)
    BY <1>1, <2>2 DEF NewSnapshot, Row
  <2> QED
    BY <2>1, <2>2, <2>3 DEF Snapshot, Version, Row
<1>2. CASE cmd[r].type # "rules"
  BY <1>2 DEF NewSnapshot, Snapshot, Version, Row
<1> QED
  BY <1>1, <1>2

\* A step leaves the stage of a request alone if it leaves its variables
\* alone and takes no row away.
LEMMA StageFrame ==
    ASSUME NEW s \in Request, Stage(s),
           pc'[s] = pc[s], cmd'[s] = cmd[s], target'[s] = target[s],
           seen'[s] = seen[s], post'[s] = post[s],
           \A f \in Flag : row[f] \in Row => row'[f] \in Row
    PROVE  Stage(s)'
BY DEF Stage

LEMMA TypeInvInit == Init => TypeInv
<1> SUFFICES ASSUME Init PROVE TypeInv
  OBVIOUS
<1>1. \A f \in SeedFlag : SeedRow(f) \in Row
  BY SeedAssumption DEF SeedRow, Row, Status
<1>2. row \in [Flag -> Row \union {None}]
  BY <1>1 DEF Init
<1>3. history \subseteq Version
  BY <1>1, SeedAssumption DEF Init, Snapshot, Version, Row
<1>4. TypeOK
  BY <1>2, <1>3 DEF Init, TypeOK
<1>5. \A r \in Request : Stage(r)
  BY DEF Init, Stage
<1> QED
  BY <1>4, <1>5 DEF TypeInv, Init

LEMMA TypeInvBegin ==
    ASSUME TypeInv, NEW r \in Request, NEW c \in Command, Begin(r, c)
    PROVE  TypeInv'
<1> USE DEF tables, redis, fetching
<1>1. c.flag \in Flag \union {None} /\ (c.type # "create" => c.flag \in Flag)
  BY CommandShape
<1>2. TypeOK'
  <2>1. pc' \in [Request -> Busy \union Finished \union {"idle"}]
    BY DEF TypeInv, TypeOK, Begin, Goto, Busy
  <2>2. /\ cmd' \in [Request -> Command \union {None}]
        /\ target' \in [Request -> Flag \union {None}]
    BY <1>1 DEF TypeInv, TypeOK, Begin
  <2> QED
    BY <2>1, <2>2 DEF TypeInv, TypeOK, Begin
<1>3. \A s \in Request : s # r => Stage(s)'
  BY StageFrame DEF TypeInv, TypeOK, Begin, Goto
<1>4. Stage(r)'
  BY <1>1 DEF TypeInv, TypeOK, Stage, Begin, Goto
<1> QED
  BY <1>2, <1>3, <1>4 DEF TypeInv, Begin

\* The steps of a request that only move it: they read what they need in Stage.
LEMMA TypeInvMove ==
    ASSUME TypeInv, NEW r \in Request,
           \/ CheckKey(r) \/ InsertConflict(r) \/ InstallConflict(r)
           \/ RecordConflict(r) \/ Audit(r) \/ Invalidate(r) \/ Fail(r)
    PROVE  TypeInv'
<1> USE DEF tables, redis, locals, fetching, CheckKey, InsertConflict,
            InstallConflict, RecordConflict, Audit, Invalidate, Fail, Goto
<1>1. TypeOK'
  BY DEF TypeInv, TypeOK, Busy, Finished
<1>2. \A s \in Request : s # r => Stage(s)'
  BY StageFrame DEF TypeInv, TypeOK
<1>3. Stage(r)'
  BY DEF TypeInv, TypeOK, Stage, Busy
<1> QED
  BY <1>1, <1>2, <1>3 DEF TypeInv

LEMMA TypeInvInsertFlag ==
    ASSUME TypeInv, NEW r \in Request, InsertFlag(r)
    PROVE  TypeInv'
<1> USE DEF redis, fetching, InsertFlag, Goto
<1>1. cmd[r] \in Command /\ cmd[r].type = "create" /\ cmd[r].arg \in Key
  BY CommandShape DEF TypeInv, Stage
<1>2. PICK f \in Flag, new \in Row :
          /\ row' = [row EXCEPT ![f] = new]
          /\ post' = [post EXCEPT ![r] = new]
          /\ target' = [target EXCEPT ![r] = f]
  <2>1. PICK f \in Flag, b \in Body :
            LET new == [key |-> cmd[r].arg, status |-> "inactive",
                        body |-> b, version |-> 1, deleted |-> FALSE]
            IN  /\ row' = [row EXCEPT ![f] = new]
                /\ post' = [post EXCEPT ![r] = new]
                /\ target' = [target EXCEPT ![r] = f]
    OBVIOUS
  <2>2. [key |-> cmd[r].arg, status |-> "inactive", body |-> b, version |-> 1,
         deleted |-> FALSE] \in Row
    BY <1>1 DEF Row, Status
  <2> QED
    BY <2>1, <2>2
<1>3. TypeOK'
  BY <1>2 DEF TypeInv, TypeOK, Busy
<1>4. \A s \in Request : s # r => Stage(s)'
  BY <1>2, StageFrame DEF TypeInv, TypeOK
<1>5. Stage(r)'
  <2>1. /\ DOMAIN pc = Request /\ DOMAIN target = Request /\ DOMAIN post = Request
        /\ DOMAIN row = Flag
    BY DEF TypeInv, TypeOK
  <2>2. pc'[r] = "record" /\ cmd'[r] = cmd[r]
    BY <2>1
  <2>3. target'[r] = f /\ row'[f] = new /\ post'[r] = new
    BY <1>2, <2>1
  <2>4. target'[r] \in Flag /\ row'[target'[r]] \in Row /\ post'[r] \in Row
    BY <2>3
  <2>5. cmd'[r] \in Command /\ cmd'[r].type = "create"
    BY <1>1, <2>2
  <2> QED
    BY <2>2, <2>5, <2>4 DEF Stage
<1> QED
  BY <1>3, <1>4, <1>5 DEF TypeInv

LEMMA TypeInvReadFlag ==
    ASSUME TypeInv, NEW r \in Request, ReadFlag(r)
    PROVE  TypeInv'
<1> USE DEF tables, redis, fetching, ReadFlag, Goto
<1>1. Live(target[r]) => row[target[r]] \in Row
  BY DEF TypeInv, TypeOK, Stage, Live, Exists
<1>2. TypeOK'
  BY <1>1 DEF TypeInv, TypeOK, Busy, Finished
<1>3. \A s \in Request : s # r => Stage(s)'
  BY StageFrame DEF TypeInv, TypeOK
<1>4. Stage(r)'
  BY <1>1 DEF TypeInv, TypeOK, Stage
<1> QED
  BY <1>2, <1>3, <1>4 DEF TypeInv

LEMMA TypeInvRules ==
    ASSUME TypeInv, NEW r \in Request, ClearRules(r) \/ InstallRules(r)
    PROVE  TypeInv'
<1> USE DEF redis, locals, fetching, ClearRules, InstallRules, Goto
<1>1. cmd[r] \in Command /\ cmd[r].arg \in RuleList \union {NoRules}
  BY CommandShape DEF TypeInv, Stage
<1>2. TypeOK'
  BY <1>1 DEF TypeInv, TypeOK, Busy
<1>3. \A s \in Request : s # r => Stage(s)'
  BY StageFrame DEF TypeInv, TypeOK
<1>4. Stage(r)'
  BY <1>1 DEF TypeInv, TypeOK, Stage
<1> QED
  BY <1>2, <1>3, <1>4 DEF TypeInv

LEMMA TypeInvWriteFlag ==
    ASSUME TypeInv, NEW r \in Request, WriteFlag(r)
    PROVE  TypeInv'
<1> USE DEF redis, fetching, WriteFlag, Goto
<1>1. /\ cmd[r] \in Command /\ cmd[r].type # "create" /\ seen[r] \in Row
      /\ target[r] \in Flag /\ row[target[r]] \in Row
  BY DEF TypeInv, Stage
<1>2. /\ Written(r) \in Row
      /\ cmd[r].type # "delete" => Written(r).version = seen[r].version + 1
  BY <1>1, WrittenRow
<1>3. TypeOK'
  BY <1>1, <1>2 DEF TypeInv, TypeOK, Busy
<1>4. \A s \in Request : s # r => Stage(s)'
  BY <1>1, <1>2, StageFrame DEF TypeInv, TypeOK
<1>5. Stage(r)'
  BY <1>1, <1>2 DEF TypeInv, TypeOK, Stage
<1> QED
  BY <1>3, <1>4, <1>5 DEF TypeInv

LEMMA TypeInvRecordVersion ==
    ASSUME TypeInv, NEW r \in Request, RecordVersion(r)
    PROVE  TypeInv'
<1> USE DEF redis, locals, fetching, RecordVersion, Goto
<1>1. TypeOK'
  BY NewSnapshotType DEF TypeInv, TypeOK, Busy
<1>2. \A s \in Request : s # r => Stage(s)'
  BY StageFrame DEF TypeInv, TypeOK
<1>3. Stage(r)'
  BY DEF TypeInv, TypeOK, Stage
<1> QED
  BY <1>1, <1>2, <1>3 DEF TypeInv

LEMMA TypeInvPublish ==
    ASSUME TypeInv, NEW r \in Request, Publish(r)
    PROVE  TypeInv'
<1> USE DEF tables, locals, fetching, Publish, Goto
<1>1. [type |-> MessageType(cmd[r].type), flag |-> target[r], by |-> r,
       row |-> row[target[r]]] \in Message
  BY DEF TypeInv, Stage, Message, MessageType
<1>2. TypeOK'
  BY <1>1 DEF TypeInv, TypeOK, Finished
<1>3. \A s \in Request : s # r => Stage(s)'
  BY StageFrame DEF TypeInv, TypeOK
<1>4. Stage(r)'
  BY DEF TypeInv, TypeOK, Stage
<1> QED
  BY <1>2, <1>3, <1>4 DEF TypeInv

\* Nothing the fetch handlers or Redis do concerns a request.
LEMMA TypeInvFetch ==
    ASSUME TypeInv, NEW q \in Fetch,
           CacheMiss(q) \/ FetchStep(q) \/ FailFetch(q)
    PROVE  TypeInv'
<1> USE DEF tables, redis, locals, FetchStep, CacheMiss, LoadFlags, LoadRules,
            FillCache, FailFetch, FGoto
<1>1. \A s \in Request : Stage(s)'
  BY StageFrame DEF TypeInv, TypeOK
<1>2. ASSUME LoadFlags(q)
      PROVE  IsConfig(loaded'[q])
  <2> DEFINE live == {f \in Flag : Live(f)}
  <2>1. loaded'[q] = [f \in live |-> ConfigOf(f, row[f], NoRules)]
    BY <1>2 DEF TypeInv, TypeOK
  <2>2. \A f \in live : ConfigOf(f, row[f], NoRules) \in ConfigRow
    BY DEF TypeInv, TypeOK, Live, Exists, ConfigOf, ConfigRow, Row
  <2>3. loaded'[q] \in [live -> ConfigRow]
    BY <2>1, <2>2
  <2> QED
    BY <2>3 DEF IsConfig
<1>3. ASSUME LoadRules(q)
      PROVE  IsConfig(loaded'[q])
  <2>1. PICK S \in SUBSET Flag : loaded[q] \in [S -> ConfigRow]
    BY <1>3 DEF TypeInv, IsConfig
  <2>2. loaded'[q] = [f \in S |-> [loaded[q][f] EXCEPT !.rules = rules[f]]]
    BY <1>3, <2>1 DEF TypeInv, TypeOK
  <2>3. \A f \in S : [loaded[q][f] EXCEPT !.rules = rules[f]] \in ConfigRow
    BY <2>1 DEF TypeInv, TypeOK, ConfigRow
  <2>4. loaded'[q] \in [S -> ConfigRow]
    BY <2>2, <2>3
  <2> QED
    BY <2>4 DEF IsConfig
<1>4. TypeOK'
  BY <1>2, <1>3 DEF TypeInv, TypeOK
<1>5. \A p \in Fetch : (fpc[p] \in {"loadRules", "fill"} => IsConfig(loaded[p]))'
  BY <1>2, <1>3 DEF TypeInv, TypeOK
<1> QED
  BY <1>1, <1>4, <1>5 DEF TypeInv

LEMMA TypeInvNext == TypeInv /\ [Next]_vars => TypeInv'
<1> SUFFICES ASSUME TypeInv, [Next]_vars
             PROVE  TypeInv'
  OBVIOUS
<1>1. ASSUME NEW r \in Request, NEW c \in Command, Begin(r, c)
      PROVE  TypeInv'
  BY <1>1, TypeInvBegin
<1>2. ASSUME NEW r \in Request, Step(r) \/ Fail(r)
      PROVE  TypeInv'
  BY <1>2, TypeInvMove, TypeInvInsertFlag, TypeInvReadFlag, TypeInvRules,
     TypeInvWriteFlag, TypeInvRecordVersion, TypeInvPublish DEF Step
<1>3. ASSUME NEW q \in Fetch, CacheMiss(q) \/ FetchStep(q) \/ FailFetch(q)
      PROVE  TypeInv'
  BY <1>3, TypeInvFetch
<1>4. CASE Expire
  <2>1. \A s \in Request : Stage(s)'
    BY <1>4, StageFrame DEF TypeInv, Expire, tables, locals
  <2> QED
    BY <1>4, <2>1 DEF TypeInv, TypeOK, Expire, tables, locals, fetching
<1>5. CASE UNCHANGED vars
  <2>1. \A s \in Request : Stage(s)'
    BY <1>5, StageFrame DEF TypeInv, vars
  <2> QED
    BY <1>5, <2>1 DEF TypeInv, TypeOK, vars
<1> QED
  BY <1>1, <1>2, <1>3, <1>4, <1>5 DEF Next

LEMMA TypeInvariant == Spec => []TypeInv
BY TypeInvInit, TypeInvNext, PTL DEF Spec

\* Every variable keeps its type, whatever the requests and fetches do.
THEOREM TypeCorrect == Spec => []TypeOK
<1>1. TypeInv => TypeOK
  BY DEF TypeInv
<1> QED
  BY <1>1, TypeInvariant, PTL

-----------------------------------------------------------------------------
(* The flags table.                                                        *)

\* Only two steps write the flags table: one adds a flag whose key no row
\* has, the other writes a row that is there and keeps its key.
LEMMA RowChanges ==
    ASSUME TypeInv, [Next]_vars, row' # row
    PROVE  \/ \E r \in Request, f \in Flag : \E new \in Row :
                  /\ InsertFlag(r)
                  /\ row[f] = None
                  /\ row' = [row EXCEPT ![f] = new]
                  /\ ~KeyTaken(new.key)
           \/ \E r \in Request :
                  /\ WriteFlag(r)
                  /\ cmd[r] \in Command /\ cmd[r].type # "create"
                  /\ target[r] \in Flag /\ seen[r] \in Row
                  /\ row[target[r]] \in Row
<1>1. PICK r \in Request : InsertFlag(r) \/ WriteFlag(r)
  BY DEF Next, vars, tables, Begin, Step, CheckKey, InsertConflict, ReadFlag,
         ClearRules, InstallRules, InstallConflict, RecordVersion,
         RecordConflict, Audit, Invalidate, Publish, Fail, CacheMiss, FetchStep,
         LoadFlags, LoadRules, FillCache, FailFetch, Expire
<1>2. CASE InsertFlag(r)
  <2>1. cmd[r].arg \in Key
    BY <1>2, CommandShape DEF TypeInv, Stage, InsertFlag
  <2>2. PICK f \in Flag, b \in Body :
            /\ row[f] = None
            /\ row' = [row EXCEPT ![f] =
                   [key |-> cmd[r].arg, status |-> "inactive", body |-> b,
                    version |-> 1, deleted |-> FALSE]]
    BY <1>2 DEF InsertFlag, Exists
  <2> DEFINE new == [key |-> cmd[r].arg, status |-> "inactive", body |-> b,
                     version |-> 1, deleted |-> FALSE]
  <2>3. new \in Row
    BY <2>1 DEF Row, Status
  <2>4. ~KeyTaken(new.key)
    BY <1>2 DEF InsertFlag
  <2> HIDE DEF new
  <2>5. row' = [row EXCEPT ![f] = new]
    BY <2>2 DEF new
  <2> QED
    BY <1>2, <2>2, <2>3, <2>4, <2>5
<1>3. CASE WriteFlag(r)
  BY <1>3 DEF TypeInv, Stage, WriteFlag
<1> QED
  BY <1>1, <1>2, <1>3

\* No two rows have one key, not even deleted ones.
KeysUnique ==
    \A f, g \in Flag :
        Exists(f) /\ Exists(g) /\ row[f].key = row[g].key => f = g

\* Two live flags of a project never share a key: requests that create the
\* same key race from the check to the insert, and deletions race with both.
THEOREM KeysStayUnique == Spec => []LiveKeysUnique
<1>1. Init => KeysUnique
  BY SeedAssumption DEF Init, KeysUnique, Exists, SeedRow
<1>2. TypeInv /\ KeysUnique /\ [Next]_vars => KeysUnique'
  <2> SUFFICES ASSUME TypeInv, KeysUnique, [Next]_vars, row' # row
               PROVE  KeysUnique'
    BY DEF KeysUnique, Exists
  <2>1. ASSUME NEW r \in Request, NEW f \in Flag, NEW new \in Row,
               row' = [row EXCEPT ![f] = new], ~KeyTaken(new.key)
        PROVE  KeysUnique'
    BY <2>1 DEF KeysUnique, KeyTaken, Exists, TypeInv, TypeOK
  <2>2. ASSUME NEW r \in Request, WriteFlag(r),
               cmd[r] \in Command, cmd[r].type # "create",
               target[r] \in Flag, seen[r] \in Row, row[target[r]] \in Row
        PROVE  KeysUnique'
    <3>1. Written(r).key = row[target[r]].key
      BY <2>2, WrittenRow
    <3>2. Exists(target[r])
      BY <2>2, NoneAssumption DEF Exists, Row
    <3> QED
      BY <2>2, <3>1, <3>2 DEF KeysUnique, Exists, WriteFlag, TypeInv, TypeOK
  <2> QED
    BY <2>1, <2>2, RowChanges
<1>3. KeysUnique => LiveKeysUnique
  BY DEF KeysUnique, LiveKeysUnique, Live
<1> QED
  BY <1>1, <1>2, <1>3, TypeInvariant, PTL DEF Spec

\* A killed flag stays killed until a status request says otherwise, whatever
\* updates and rules edits read the flag before the kill.
THEOREM KilledStaysKilled == Spec => KillSticks
<1> DEFINE A == \A f \in Flag :
          (Exists(f) /\ row[f].status = "killed" /\ row'[f].status # "killed")
          => \E r \in Request :
                 /\ pc[r] = "write" /\ pc'[r] # "write"
                 /\ cmd[r].type = "status" /\ target[r] = f
                 /\ row'[f].status = cmd[r].arg
<1>1. TypeInv /\ [Next]_vars => [A]_row
  <2> SUFFICES ASSUME TypeInv, [Next]_vars, row' # row, NEW f \in Flag,
                      Exists(f), row[f].status = "killed",
                      row'[f].status # "killed"
               PROVE  \E r \in Request :
                          /\ pc[r] = "write" /\ pc'[r] # "write"
                          /\ cmd[r].type = "status" /\ target[r] = f
                          /\ row'[f].status = cmd[r].arg
    OBVIOUS
  <2>1. ASSUME NEW g \in Flag, NEW new \in Row, row[g] = None,
               row' = [row EXCEPT ![g] = new]
        PROVE  FALSE
    BY <2>1 DEF Exists, TypeInv, TypeOK
  <2>2. ASSUME NEW r \in Request, WriteFlag(r),
               cmd[r] \in Command, cmd[r].type # "create",
               target[r] \in Flag, seen[r] \in Row, row[target[r]] \in Row
        PROVE  /\ pc[r] = "write" /\ pc'[r] # "write"
               /\ cmd[r].type = "status" /\ target[r] = f
               /\ row'[f].status = cmd[r].arg
    <3>1. target[r] = f /\ row'[f] = Written(r)
      BY <2>2 DEF WriteFlag, TypeInv, TypeOK
    <3>2. cmd[r].type = "status" /\ Written(r).status = cmd[r].arg
      BY <2>2, <3>1, WrittenRow
    <3>3. pc[r] = "write" /\ pc'[r] # "write"
      BY <2>2 DEF WriteFlag, Goto, TypeInv, TypeOK
    <3> QED
      BY <3>1, <3>2, <3>3
  <2> QED
    BY <2>1, <2>2, RowChanges
<1> QED
  BY <1>1, TypeInvariant, PTL DEF Spec, KillSticks

\* A deleted flag stays deleted and no flag changes its key: an UPDATE whose
\* request read the flag before the deletion writes the row after it, but names
\* neither deleted_at nor the key (flags.service.ts:175-189, 222-226, 303-307).
THEOREM DeletionIsFinal ==
    Spec => [][\A f \in Flag : Exists(f) =>
                   /\ Exists(f)' /\ row'[f].key = row[f].key
                   /\ row[f].deleted => row'[f].deleted]_row
<1>1. TypeInv /\ [Next]_vars =>
          [\A f \in Flag : Exists(f) =>
               /\ Exists(f)' /\ row'[f].key = row[f].key
               /\ row[f].deleted => row'[f].deleted]_row
  <2> SUFFICES ASSUME TypeInv, [Next]_vars, row' # row
               PROVE  \A f \in Flag : Exists(f) =>
                          /\ Exists(f)' /\ row'[f].key = row[f].key
                          /\ row[f].deleted => row'[f].deleted
    OBVIOUS
  <2> TAKE f \in Flag
  <2> HAVE Exists(f)
  <2>0. row \in [Flag -> Row \union {None}]
    BY DEF TypeInv, TypeOK
  <2>1. ASSUME NEW g \in Flag, NEW new \in Row, row[g] = None,
               row' = [row EXCEPT ![g] = new]
        PROVE  row'[f] = row[f]
    BY <2>0, <2>1 DEF Exists
  <2>2. ASSUME NEW r \in Request, WriteFlag(r),
               cmd[r] \in Command, cmd[r].type # "create",
               target[r] \in Flag, seen[r] \in Row, row[target[r]] \in Row
        PROVE  row'[f] = row[f] \/ (f = target[r] /\ row'[f] = Written(r))
    BY <2>0, <2>2 DEF WriteFlag
  <2>3. ASSUME NEW r \in Request,
               cmd[r] \in Command, cmd[r].type # "create",
               target[r] \in Flag, seen[r] \in Row, row[target[r]] \in Row
        PROVE  /\ Written(r) # None /\ Written(r).key = row[target[r]].key
               /\ row[target[r]].deleted => Written(r).deleted
    BY <2>3, WrittenRow, NoneAssumption DEF Row
  <2> QED
    BY <2>1, <2>2, <2>3, RowChanges DEF Exists
<1> QED
  BY <1>1, TypeInvariant, PTL DEF Spec

-----------------------------------------------------------------------------
(* The history.                                                            *)

\* The history has one snapshot of a version at most: its unique index.
OneChangePerVersion ==
    \A h, g \in history : h.flag = g.flag /\ h.version = g.version => h = g

\* The row that a request wrote has what it asked for.
WroteAsAsked(r) ==
    /\ cmd[r].type = "update" => post[r].body = cmd[r].arg
    /\ cmd[r].type = "status" => post[r].status = cmd[r].arg

\* So has its snapshot, under the version of that row.
RecordedAsAsked(r) ==
    \E h \in history :
        /\ h.by = r /\ h.flag = target[r] /\ h.version = post[r].version
        /\ cmd[r].type = "update" => h.body = cmd[r].arg
        /\ cmd[r].type = "status" => h.status = cmd[r].arg
        /\ cmd[r].type = "rules"  => h.rules = cmd[r].arg

\* What a request has left behind when it gets to its position.
Trail(r) ==
    /\ pc[r] = "record" => WroteAsAsked(r)
    /\ pc[r] \in {"audit", "invalidate", "publish", "ok"} =>
           cmd[r].type = "delete" \/ RecordedAsAsked(r)
    /\ pc[r] = "ok" => \E m \in published : m.by = r /\ m.flag = target[r]

HistoryInv == OneChangePerVersion /\ \A r \in Request : Trail(r)

\* A step leaves the trail of a request alone if it leaves its variables
\* alone; snapshots and messages are never taken back.
LEMMA TrailFrame ==
    ASSUME NEW s \in Request, Trail(s),
           pc'[s] = pc[s], cmd'[s] = cmd[s], target'[s] = target[s],
           post'[s] = post[s],
           history \subseteq history', published \subseteq published'
    PROVE  Trail(s)'
BY DEF Trail, WroteAsAsked, RecordedAsAsked

\* A step moves one request at most and leaves the variables of the others
\* alone; it takes nothing from the history and no message back.
LEMMA OneMoves ==
    ASSUME TypeInv, [Next]_vars
    PROVE  /\ history \subseteq history' /\ published \subseteq published'
           /\ \/ UNCHANGED <<history, published, pc, cmd, target, seen, post>>
              \/ \E r \in Request :
                    /\ Step(r) \/ Fail(r) \/ \E c \in Command : Begin(r, c)
                    /\ \A s \in Request : s # r =>
                          /\ pc'[s] = pc[s] /\ cmd'[s] = cmd[s]
                          /\ target'[s] = target[s] /\ seen'[s] = seen[s]
                          /\ post'[s] = post[s]
<1> USE DEF tables, redis, locals, fetching, Goto
<1>1. ASSUME NEW r \in Request,
             Step(r) \/ Fail(r) \/ \E c \in Command : Begin(r, c)
      PROVE  /\ history \subseteq history' /\ published \subseteq published'
             /\ \A s \in Request : s # r =>
                    /\ pc'[s] = pc[s] /\ cmd'[s] = cmd[s]
                    /\ target'[s] = target[s] /\ seen'[s] = seen[s]
                    /\ post'[s] = post[s]
  BY <1>1 DEF TypeInv, TypeOK, Step, CheckKey, InsertFlag, InsertConflict,
              ReadFlag, ClearRules, InstallRules, InstallConflict, WriteFlag,
              RecordVersion, RecordConflict, Audit, Invalidate, Publish, Fail,
              Begin
<1>2. ASSUME NEW q \in Fetch, CacheMiss(q) \/ FetchStep(q) \/ FailFetch(q)
      PROVE  UNCHANGED <<history, published, pc, cmd, target, seen, post>>
  BY <1>2 DEF CacheMiss, FetchStep, LoadFlags, LoadRules, FillCache, FailFetch
<1>3. Expire \/ UNCHANGED vars =>
          UNCHANGED <<history, published, pc, cmd, target, seen, post>>
  BY DEF Expire, vars
<1> QED
  BY <1>1, <1>2, <1>3 DEF Next

LEMMA TrailStep ==
    ASSUME TypeInv, NEW r \in Request, Trail(r),
           Step(r) \/ Fail(r) \/ \E c \in Command : Begin(r, c)
    PROVE  Trail(r)'
<1> USE DEF tables, redis, locals, fetching, Goto, Trail
<1>1. CASE InsertFlag(r)
  BY <1>1 DEF TypeInv, TypeOK, Stage, InsertFlag, WroteAsAsked
<1>2. CASE WriteFlag(r)
  <2>1. /\ cmd[r] \in Command /\ cmd[r].type # "create" /\ seen[r] \in Row
        /\ row[target[r]] \in Row
    BY <1>2 DEF TypeInv, Stage, WriteFlag
  <2> QED
    BY <1>2, <2>1, WrittenRow DEF TypeInv, TypeOK, WriteFlag, WroteAsAsked
<1>3. CASE RecordVersion(r)
  <2> DEFINE h == NewSnapshot(r)
  <2>1. /\ h.by = r /\ h.flag = target[r] /\ h.version = post[r].version
    BY <1>3, NewSnapshotType DEF RecordVersion
  <2>2. /\ cmd[r].type = "update" => h.body = cmd[r].arg
        /\ cmd[r].type = "status" => h.status = cmd[r].arg
        /\ cmd[r].type = "rules"  => h.rules = cmd[r].arg
    BY <1>3 DEF RecordVersion, WroteAsAsked, NewSnapshot, Snapshot
  <2>3. h \in history'
    BY <1>3 DEF RecordVersion
  <2>4. RecordedAsAsked(r)'
    <3> HIDE DEF h
    <3> QED
      BY <1>3, <2>1, <2>2, <2>3 DEF RecordVersion, RecordedAsAsked
  <2> QED
    BY <1>3, <2>4 DEF TypeInv, TypeOK, RecordVersion
<1>4. CASE Audit(r) \/ Invalidate(r)
  BY <1>4 DEF TypeInv, TypeOK, Audit, Invalidate, RecordedAsAsked
<1>5. CASE Publish(r)
  <2> DEFINE m == [type |-> MessageType(cmd[r].type), flag |-> target[r],
                   by |-> r, row |-> row[target[r]]]
  <2>1. m \in published' /\ m.by = r /\ m.flag = target[r]
    BY <1>5 DEF Publish
  <2>2. UNCHANGED <<history, cmd, target, post>> /\ pc'[r] = "ok"
    BY <1>5 DEF TypeInv, TypeOK, Publish
  <2>3. cmd[r].type = "delete" \/ RecordedAsAsked(r)
    BY <1>5 DEF Publish
  <2>4. (cmd[r].type = "delete" \/ RecordedAsAsked(r))'
    BY <2>2, <2>3 DEF RecordedAsAsked
  <2> HIDE DEF m
  <2> QED
    BY <2>1, <2>2, <2>4
<1>6. CASE \/ CheckKey(r) \/ InsertConflict(r) \/ ReadFlag(r) \/ ClearRules(r)
           \/ InstallRules(r) \/ InstallConflict(r) \/ RecordConflict(r)
           \/ Fail(r) \/ \E c \in Command : Begin(r, c)
  <2>1. pc'[r] \notin {"record", "audit", "invalidate", "publish", "ok"}
    BY <1>6 DEF TypeInv, TypeOK, CheckKey, InsertConflict, ReadFlag, ClearRules,
       InstallRules, InstallConflict, RecordConflict, Fail, Begin
  <2> QED
    BY <2>1
<1> QED
  BY <1>1, <1>2, <1>3, <1>4, <1>5, <1>6 DEF Step

LEMMA HistoryInvariant == Spec => []HistoryInv
<1>1. Init => HistoryInv
  BY DEF Init, HistoryInv, OneChangePerVersion, Trail, Snapshot
<1>2. TypeInv /\ HistoryInv /\ [Next]_vars => HistoryInv'
  <2> SUFFICES ASSUME TypeInv, HistoryInv, [Next]_vars
               PROVE  HistoryInv'
    OBVIOUS
  <2>1. CASE UNCHANGED <<history, published, pc, cmd, target, seen, post>>
    BY <2>1, TrailFrame DEF HistoryInv, OneChangePerVersion
  <2>2. ASSUME NEW r \in Request,
               Step(r) \/ Fail(r) \/ \E c \in Command : Begin(r, c),
               history \subseteq history', published \subseteq published',
               \A s \in Request : s # r =>
                   /\ pc'[s] = pc[s] /\ cmd'[s] = cmd[s]
                   /\ target'[s] = target[s] /\ seen'[s] = seen[s]
                   /\ post'[s] = post[s]
        PROVE  HistoryInv'
    <3>1. \A s \in Request : Trail(s)'
      BY <2>2, TrailFrame, TrailStep DEF HistoryInv
    <3>2. CASE RecordVersion(r)
      <4>1. NewSnapshot(r).flag = target[r]
        BY <3>2, NewSnapshotType DEF RecordVersion
      <4>2. OneChangePerVersion'
        BY <3>2, <4>1
           DEF RecordVersion, HistoryInv, OneChangePerVersion, Recorded
      <4> QED
        BY <3>1, <4>2 DEF HistoryInv
    <3>3. CASE ~RecordVersion(r)
      <4>1. history' = history
        BY <2>2, <3>3
           DEF Step, CheckKey, InsertFlag, InsertConflict, ReadFlag, ClearRules,
               InstallRules, InstallConflict, WriteFlag, RecordConflict, Audit,
               Invalidate, Publish, Fail, Begin, tables
      <4> QED
        BY <3>1, <4>1 DEF HistoryInv, OneChangePerVersion
    <3> QED
      BY <3>2, <3>3
  <2> QED
    BY <2>1, <2>2, OneMoves
<1> QED
  BY <1>1, <1>2, TypeInvariant, PTL DEF Spec

\* A request answered 2xx is in the history with what it asked for, and was
\* broadcast: no interleaving with other writers lets it end otherwise.
THEOREM AcknowledgedIsRecorded == Spec => []AckedIsRecorded
<1>1. HistoryInv => AckedIsRecorded
  BY DEF HistoryInv, Trail, AckedIsRecorded, RecordedAsAsked
<1> QED
  BY <1>1, HistoryInvariant, PTL

\* Of requests that race on one version of a flag, one at most is answered
\* 2xx.
THEOREM RacersAreNotBothAcknowledged == Spec => []AckedVersionsDiffer
<1>1. HistoryInv => AckedVersionsDiffer
  BY DEF HistoryInv, OneChangePerVersion, Trail, RecordedAsAsked,
         AckedVersionsDiffer
<1> QED
  BY <1>1, HistoryInvariant, PTL

-----------------------------------------------------------------------------
(* The history has no holes.                                               *)

Covered(f, v) == Recorded(f, v) \/ \E r \in Request : Owes(r, f, v)

\* The versions that a request read about were covered when it read them, and
\* what is covered stays so: the version it writes is the next one.
VersionsInv ==
    /\ VersionsRecorded
    /\ \A r \in Request : seen[r] # None =>
           \A v \in 1..seen[r].version : Covered(target[r], v)

\* A version that is recorded or owed stays one or the other: the request
\* that owes it records it, or fails and owes it for ever.
LEMMA CoveredStays ==
    ASSUME TypeInv, [Next]_vars, NEW f, NEW v, Covered(f, v)
    PROVE  Covered(f, v)'
<1>1. CASE Recorded(f, v)
  BY <1>1, OneMoves DEF Covered, Recorded
<1>2. CASE \E r \in Request : Owes(r, f, v)
  <2>1. PICK o \in Request : Owes(o, f, v)
    BY <1>2
  <2>2. CASE UNCHANGED <<history, published, pc, cmd, target, seen, post>>
    BY <2>1, <2>2 DEF Covered, Owes
  <2>3. ASSUME NEW r \in Request,
               Step(r) \/ Fail(r) \/ \E c \in Command : Begin(r, c),
               \A s \in Request : s # r =>
                   /\ pc'[s] = pc[s] /\ cmd'[s] = cmd[s]
                   /\ target'[s] = target[s] /\ seen'[s] = seen[s]
                   /\ post'[s] = post[s]
        PROVE  Covered(f, v)'
    <3>1. CASE r # o
      BY <2>1, <2>3, <3>1 DEF Covered, Owes
    <3>2. CASE r = o
      <4>1. RecordVersion(o) \/ RecordConflict(o) \/ Fail(o)
        BY <2>1, <2>3, <3>2
           DEF Owes, Step, CheckKey, InsertFlag, InsertConflict, ReadFlag,
               ClearRules, InstallRules, InstallConflict, WriteFlag, Audit,
               Invalidate, Publish, Fail, Begin, Busy
      <4>2. CASE RecordVersion(o)
        <5>1. NewSnapshot(o).flag = f /\ NewSnapshot(o).version = v
          BY <2>1, <4>2, NewSnapshotType DEF RecordVersion, Owes
        <5> QED
          BY <4>2, <5>1 DEF RecordVersion, Covered, Recorded
      <4>3. CASE RecordConflict(o) \/ Fail(o)
        BY <2>1, <4>3 DEF RecordConflict, Fail, Goto, locals, Covered, Owes,
                          TypeInv, TypeOK
      <4> QED
        BY <4>1, <4>2, <4>3
    <3> QED
      BY <3>1, <3>2
  <2> QED
    BY <2>1, <2>2, <2>3, OneMoves
<1> QED
  BY <1>1, <1>2 DEF Covered

\* The versions of the rows stay covered.
LEMMA VersionsRecordedStep ==
    ASSUME TypeInv, VersionsInv, [Next]_vars
    PROVE  VersionsRecorded'
<1>1. CASE row' = row
  BY <1>1, CoveredStays DEF VersionsInv, VersionsRecorded, Covered, Exists
<1>2. ASSUME NEW r \in Request, InsertFlag(r)
      PROVE  VersionsRecorded'
  <2>1. PICK f, new : /\ f \in Flag
                      /\ row' = [row EXCEPT ![f] = new]
                      /\ post' = [post EXCEPT ![r] = new]
                      /\ target' = [target EXCEPT ![r] = f]
                      /\ new # None /\ new.version = 1
    <3>1. PICK f \in Flag, b \in Body :
              LET new == [key |-> cmd[r].arg, status |-> "inactive",
                          body |-> b, version |-> 1, deleted |-> FALSE]
              IN  /\ row' = [row EXCEPT ![f] = new]
                  /\ post' = [post EXCEPT ![r] = new]
                  /\ target' = [target EXCEPT ![r] = f]
      BY <1>2 DEF InsertFlag
    <3> DEFINE new == [key |-> cmd[r].arg, status |-> "inactive", body |-> b,
                       version |-> 1, deleted |-> FALSE]
    <3>2. new \in Row
      BY <1>2, CommandShape DEF TypeInv, Stage, InsertFlag, Row, Status
    <3>3. new # None
      BY <3>2, NoneAssumption DEF Row
    <3>4. new.version = 1
      OBVIOUS
    <3>5. /\ row' = [row EXCEPT ![f] = new]
          /\ post' = [post EXCEPT ![r] = new]
          /\ target' = [target EXCEPT ![r] = f]
      BY <3>1
    <3> HIDE DEF new
    <3> QED
      BY <3>3, <3>4, <3>5
  <2>2. Owes(r, f, 1)'
    BY <1>2, <2>1 DEF Owes, InsertFlag, Goto, TypeInv, TypeOK
  <2>3. \A v \in 1..row'[f].version : Covered(f, v)'
    BY <2>1, <2>2 DEF Covered, TypeInv, TypeOK
  <2>4. \A g \in Flag : g # f => row'[g] = row[g]
    BY <2>1 DEF TypeInv, TypeOK
  <2>5. \A g \in Flag : g # f /\ Exists(g) =>
            \A v \in 1..row[g].version : Covered(g, v)'
    BY CoveredStays DEF VersionsInv, VersionsRecorded, Covered
  <2> QED
    BY <2>3, <2>4, <2>5 DEF VersionsRecorded, Covered, Exists
<1>3. ASSUME NEW r \in Request, WriteFlag(r),
             cmd[r] \in Command, cmd[r].type # "create",
             target[r] \in Flag, seen[r] \in Row, row[target[r]] \in Row
      PROVE  VersionsRecorded'
  <2>0. PICK f \in Flag : f = target[r]
    BY <1>3
  <2>1. /\ row' = [row EXCEPT ![f] = Written(r)]
        /\ post' = [post EXCEPT ![r] = Written(r)]
        /\ target' = target
    BY <1>3, <2>0 DEF WriteFlag
  <2>2. /\ Written(r) \in Row /\ Written(r) # None
        /\ Written(r).version = IF cmd[r].type = "delete"
                                THEN row[f].version ELSE seen[r].version + 1
    BY <1>3, <2>0, WrittenRow, NoneAssumption DEF Row
  <2>3. Exists(f) /\ seen[r] # None
    BY <1>3, <2>0, NoneAssumption DEF Exists, Row
  <2>4. \A v \in 1..row'[f].version : Covered(f, v)'
    <3>1. CASE cmd[r].type = "delete"
      BY <2>1, <2>2, <2>3, <3>1, CoveredStays
         DEF VersionsInv, VersionsRecorded, Covered, TypeInv, TypeOK
    <3>2. CASE cmd[r].type # "delete"
      <4>1. \A v : v = seen[r].version + 1 => Owes(r, f, v)'
        BY <1>3, <2>0, <2>1, <2>2, <3>2 DEF Owes, WriteFlag, Goto, TypeInv, TypeOK
      <4>2. \A v \in 1..seen[r].version : Covered(f, v)'
        BY <2>0, <2>3, CoveredStays DEF VersionsInv
      <4>3. row'[f].version = seen[r].version + 1
        BY <2>1, <2>2, <3>2 DEF TypeInv, TypeOK
      <4>4. seen[r].version \in Nat
        BY <1>3 DEF Row
      <4>5. \A v \in 1..(seen[r].version + 1) :
                v \in 1..seen[r].version \/ v = seen[r].version + 1
        BY <4>4
      <4> QED
        BY <4>1, <4>2, <4>3, <4>5 DEF Covered
    <3> QED
      BY <3>1, <3>2
  <2>5. \A g \in Flag : g # f => row'[g] = row[g]
    BY <2>1 DEF TypeInv, TypeOK
  <2>6. \A g \in Flag : g # f /\ Exists(g) =>
            \A v \in 1..row[g].version : Covered(g, v)'
    BY CoveredStays DEF VersionsInv, VersionsRecorded, Covered
  <2> QED
    BY <2>4, <2>5, <2>6 DEF VersionsRecorded, Covered, Exists
<1> QED
  BY <1>1, <1>2, <1>3, RowChanges

\* Every version of a flag up to the one in its row is in the history, or
\* its writer is about to record it or failed in between.
THEOREM HistoryHasNoHoles == Spec => []VersionsRecorded
<1>1. Init => VersionsInv
  <2> SUFFICES ASSUME Init, NEW f \in Flag, row[f] # None
               PROVE  \A v \in 1..row[f].version : Recorded(f, v)
    BY DEF Init, VersionsInv, VersionsRecorded, Exists
  <2>1. f \in SeedFlag /\ row[f] = SeedRow(f)
    BY DEF Init
  <2>2. Snapshot(f, SeedRow(f), None, None) \in history
    BY <2>1 DEF Init
  <2>3. Recorded(f, 1)
    BY <2>2 DEF Recorded, Snapshot, SeedRow
  <2> QED
    BY <2>1, <2>3 DEF SeedRow
<1>2. TypeInv /\ VersionsInv /\ [Next]_vars => VersionsInv'
  <2> SUFFICES ASSUME TypeInv, VersionsInv, [Next]_vars, NEW s \in Request,
                      seen'[s] # None, NEW v \in 1..seen'[s].version,
                      NEW f, f = target'[s]
               PROVE  Covered(f, v)'
    BY VersionsRecordedStep DEF VersionsInv
  <2>1. CASE seen'[s] = seen[s] /\ target'[s] = target[s]
    <3>1. Covered(f, v)
      BY <2>1 DEF VersionsInv
    <3> QED
      BY <3>1, CoveredStays
  <2>2. CASE ~(seen'[s] = seen[s] /\ target'[s] = target[s])
    <3>1. Step(s) \/ Fail(s) \/ \E c \in Command : Begin(s, c)
      BY <2>2, OneMoves
    <3>2. ReadFlag(s)
      BY <2>2, <3>1
         DEF TypeInv, TypeOK, Stage, Step, CheckKey, InsertFlag, InsertConflict,
             ClearRules, InstallRules, InstallConflict, WriteFlag, RecordVersion,
             RecordConflict, Audit, Invalidate, Publish, Fail, Begin, locals
    <3>3. /\ Live(target[s]) /\ target[s] \in Flag /\ target' = target
          /\ seen'[s] = row[target[s]]
      BY <2>2, <3>2 DEF ReadFlag, TypeInv, TypeOK, Stage
    <3>4. Covered(f, v)
      BY <3>3 DEF VersionsInv, VersionsRecorded, Live, Covered
    <3> QED
      BY <3>4, CoveredStays
  <2> QED
    BY <2>1, <2>2
<1>3. VersionsInv => VersionsRecorded
  BY DEF VersionsInv
<1> QED
  BY <1>1, <1>2, <1>3, TypeInvariant, PTL DEF Spec

-----------------------------------------------------------------------------
(* The cache.                                                              *)

\* A request stops being accountable for a stale cache in one way only: it
\* deletes the cached configuration.
LEMMA UncleanedStays ==
    ASSUME TypeInv, [Next]_vars, NEW r \in Request, Uncleaned(r),
           ~Invalidate(r)
    PROVE  Uncleaned(r)'
<1>1. CASE UNCHANGED <<pc, cmd, seen, post>>
  BY <1>1 DEF Uncleaned
<1>2. CASE Step(r) \/ Fail(r) \/ \E c \in Command : Begin(r, c)
  <2>1. pc[r] \notin {"idle", "check", "insert", "read"}
    BY DEF TypeInv, TypeOK, Stage, Uncleaned
  <2>2. ~\E c \in Command : Begin(r, c)
    BY <2>1 DEF Begin
  <2>3. ~(CheckKey(r) \/ InsertFlag(r) \/ InsertConflict(r) \/ ReadFlag(r))
    BY <2>1 DEF CheckKey, InsertFlag, InsertConflict, ReadFlag
  <2>4. ~Publish(r)
    BY DEF Uncleaned, Publish
  <2>5. CASE WriteFlag(r)
    <3>1. Written(r) \in Row
      BY <2>5, WrittenRow DEF TypeInv, Stage, WriteFlag
    <3> QED
      BY <2>5, <3>1, NoneAssumption
         DEF Uncleaned, WriteFlag, Goto, TypeInv, TypeOK, Row
  <2>6. CASE ~WriteFlag(r)
    BY <1>2, <2>2, <2>3, <2>4, <2>6
       DEF Step, ClearRules, InstallRules, InstallConflict, RecordVersion,
           RecordConflict, Audit, Fail, Goto, locals, Uncleaned, TypeInv, TypeOK
  <2> QED
    BY <2>5, <2>6
<1>3. CASE ~(Step(r) \/ Fail(r) \/ \E c \in Command : Begin(r, c))
  <2>1. pc'[r] = pc[r] /\ cmd'[r] = cmd[r] /\ seen'[r] = seen[r] /\ post'[r] = post[r]
    BY <1>3, OneMoves
  <2> QED
    BY <2>1 DEF Uncleaned
<1> QED
  BY <1>2, <1>3

\* A request that changes a table has still to clean the cache.
LEMMA WriterIsUncleaned ==
    ASSUME TypeInv, [Next]_vars, <<row, rules>>' # <<row, rules>>
    PROVE  \E r \in Request : Uncleaned(r)'
<1>1. PICK r \in Request :
          InsertFlag(r) \/ WriteFlag(r) \/ ClearRules(r) \/ InstallRules(r)
  BY DEF Next, vars, tables, Begin, Step, CheckKey, InsertConflict, ReadFlag,
         InstallConflict, RecordVersion, RecordConflict, Audit, Invalidate,
         Publish, Fail, CacheMiss, FetchStep, LoadFlags, LoadRules, FillCache,
         FailFetch, Expire
<1>2. TypeInv'
  BY TypeInvNext
<1>3. CASE InsertFlag(r)
  <2>1. pc'[r] = "record"
    BY <1>3 DEF InsertFlag, Goto, TypeInv, TypeOK
  <2>2. post'[r] \in Row
    BY <1>2, <2>1 DEF TypeInv, Stage
  <2> QED
    BY <2>1, <2>2, NoneAssumption DEF Uncleaned, Row
<1>4. CASE WriteFlag(r)
  <2>1. pc'[r] \in {"record", "audit"}
    BY <1>4 DEF WriteFlag, Goto, TypeInv, TypeOK
  <2>2. post'[r] \in Row
    BY <1>2, <2>1 DEF TypeInv, Stage
  <2> QED
    BY <2>1, <2>2, NoneAssumption DEF Uncleaned, Row
<1>5. CASE ClearRules(r) \/ InstallRules(r)
  <2>1. /\ pc[r] \in {"clear", "install"} /\ pc'[r] \in {"install", "write"}
        /\ UNCHANGED <<cmd, seen>>
    BY <1>5 DEF ClearRules, InstallRules, Goto, locals, TypeInv, TypeOK
  <2>2. /\ cmd[r] \in Command /\ cmd[r].type = "rules" /\ seen[r] \in Row
    BY <2>1 DEF TypeInv, Stage
  <2>3. cmd[r] # None /\ seen[r] # None
    BY <2>2, NoneAssumption, CommandAssumption DEF Row
  <2> QED
    BY <2>1, <2>2, <2>3 DEF Uncleaned
<1> QED
  BY <1>1, <1>3, <1>4, <1>5

\* A stale cache has one of three causes: a writer that has still to clean
\* it, a writer that failed before it could, or a fetch that read before a
\* write and filled the cache after the writer had cleaned it.
THEOREM StalenessHasACause == Spec => []StaleOnlyByRace
<1>1. Init => StaleOnlyByRace
  BY DEF Init, StaleOnlyByRace
<1>2. TypeInv /\ StaleOnlyByRace /\ [Next]_vars => StaleOnlyByRace'
  <2> SUFFICES ASSUME TypeInv, StaleOnlyByRace, [Next]_vars, cache' # None,
                      UNCHANGED <<row, rules>>
               PROVE  StaleOnlyByRace'
    BY WriterIsUncleaned DEF StaleOnlyByRace
  <2>1. CurrentConfig' = CurrentConfig
    BY DEF CurrentConfig, Live, Exists, ConfigOf
  <2>2. ASSUME NEW q \in Fetch, FillCache(q)
        PROVE  StaleOnlyByRace'
    BY <2>1, <2>2 DEF FillCache, StaleOnlyByRace
  <2>3. CASE UNCHANGED <<cache, lateFill>>
    <3>1. \A r \in Request : ~Invalidate(r)
      BY <2>3 DEF Invalidate
    <3>2. \A r \in Request : Uncleaned(r) => Uncleaned(r)'
      BY <3>1, UncleanedStays
    <3> QED
      BY <2>1, <2>3, <3>2 DEF StaleOnlyByRace
  <2>4. ~Expire /\ \A r \in Request : ~Invalidate(r)
    BY DEF Expire, Invalidate
  <2>5. ASSUME \A q \in Fetch : ~FillCache(q)
        PROVE  UNCHANGED <<cache, lateFill>>
    BY <2>4, <2>5
       DEF Next, vars, redis, Begin, Step, CheckKey, InsertFlag, InsertConflict,
           ReadFlag, ClearRules, InstallRules, InstallConflict, WriteFlag,
           RecordVersion, RecordConflict, Audit, Publish, Fail, CacheMiss,
           FetchStep, LoadFlags, LoadRules, FailFetch
  <2> QED
    BY <2>2, <2>3, <2>5
<1> QED
  BY <1>1, <1>2, TypeInvariant, PTL DEF Spec
=============================================================================
