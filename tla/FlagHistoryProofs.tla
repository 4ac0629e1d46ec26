------------------------- MODULE FlagHistoryProofs -------------------------
(***************************************************************************)
(* Proof that the history of a quiet flag tells the truth, for any number  *)
(* of flags and of requests that race on them.                             *)
(*                                                                         *)
(* Nothing compares versions when a row is written, so requests that race  *)
(* on one flag can leave a history that is not the row's; but then the     *)
(* unique index refuses one of their snapshots and somebody is answered    *)
(* 500.  The argument runs backwards: if no request on a flag has failed   *)
(* and no two of them are on the way to one version (Orderly), then they   *)
(* have in fact come one after the other, and the row, the rules and the   *)
(* snapshots agree all along (Agrees).  A flag that is quiet is orderly,   *)
(* since of two requests for one version one at most is acknowledged.      *)
(***************************************************************************)
EXTENDS FlagServiceProofs

-----------------------------------------------------------------------------
(* Contenders.                                                             *)

\* r has read flag f to change it, or has created it; a delete has no version.
Contender(r, f) ==
    /\ target[r] = f
    /\ seen[r] # None \/ post[r] # None
    /\ cmd[r].type # "delete"

\* The version that r gives the flag.
NewVersion(r) == IF seen[r] = None THEN 1 ELSE seen[r].version + 1

HasWritten(r) == post[r] # None
IsRules(r)    == cmd[r].type = "rules"

\* Whose snapshot h is, and what it says of the rules.
Attributed(h) ==
    /\ Exists(h.flag)
    /\ \/ h.by = None /\ h.version = 1 /\ h.rules = None
       \/ /\ h.by \in Request /\ Contender(h.by, h.flag) /\ HasWritten(h.by)
          /\ h.version = NewVersion(h.by)
          /\ h.rules = IF IsRules(h.by) THEN cmd[h.by].arg ELSE None

Committed(r) ==
    /\ seen[r] # None \/ post[r] # None =>
           target[r] \in Flag /\ Exists(target[r]) /\ pc[r] # "rejected"
    /\ post[r] # None /\ cmd[r].type # "delete" => post[r].version = NewVersion(r)
    /\ cmd[r].type = "create" => seen[r] = None

ContenderInv ==
    /\ \A r \in Request : Committed(r)
    /\ \A h \in history : Attributed(h)

LEMMA RowsStay ==
    ASSUME TypeInv, [Next]_vars, NEW f \in Flag, Exists(f)
    PROVE  Exists(f)'
<1>1. CASE row' = row
  BY <1>1 DEF Exists
<1>2. ASSUME NEW g \in Flag, NEW new \in Row, row' = [row EXCEPT ![g] = new]
      PROVE  Exists(f)'
  BY <1>2, NoneAssumption DEF TypeInv, TypeOK, Exists, Row
<1>3. ASSUME NEW r \in Request, WriteFlag(r), cmd[r] \in Command,
             cmd[r].type # "create", target[r] \in Flag, seen[r] \in Row,
             row[target[r]] \in Row
      PROVE  Exists(f)'
  BY <1>2, <1>3, WrittenRow DEF WriteFlag
<1> QED
  BY <1>1, <1>2, <1>3, RowChanges

\* What a request has read and written it does not forget, nor that it failed.
LEMMA Remembers ==
    ASSUME TypeInv, [Next]_vars, NEW r \in Request
    PROVE  /\ seen[r] # None \/ post[r] # None =>
                  /\ target'[r] = target[r] /\ cmd'[r] = cmd[r] /\ seen'[r] = seen[r]
                  /\ post[r] # None => post'[r] = post[r]
           /\ pc[r] = "error" => pc'[r] = "error" /\ target'[r] = target[r]
<1> DEFINE Moves == Step(r) \/ Fail(r) \/ \E c \in Command : Begin(r, c)
<1>1. CASE ~Moves
  BY <1>1, OneMoves
<1>2. CASE Moves
  <2>0. Stage(r) /\ pc \in [Request -> Busy \union Finished \union {"idle"}]
        /\ seen \in [Request -> Row \union {None}]
        /\ post \in [Request -> Row \union {None}]
        /\ target \in [Request -> Flag \union {None}]
    BY DEF TypeInv, TypeOK
  <2>1. CASE CheckKey(r) \/ InsertConflict(r) \/ InstallConflict(r)
             \/ RecordConflict(r) \/ Audit(r) \/ Invalidate(r) \/ Fail(r) \/ Publish(r)
             \/ ClearRules(r) \/ InstallRules(r) \/ RecordVersion(r)
    BY <2>1 DEF CheckKey, InsertConflict, InstallConflict, RecordConflict, Audit,
                Invalidate, Fail, Publish, ClearRules, InstallRules, RecordVersion,
                locals, Busy
  <2>2. CASE InsertFlag(r) \/ ReadFlag(r) \/ \E c \in Command : Begin(r, c)
    BY <2>0, <2>2 DEF InsertFlag, ReadFlag, Begin, Stage
  <2>3. CASE WriteFlag(r)
    BY <2>0, <2>3 DEF WriteFlag, Stage
  <2> QED
    BY <1>2, <2>1, <2>2, <2>3 DEF Step
<1> QED
  BY <1>1, <1>2

\* A contender stays one, for the same version.
LEMMA ContendersStay ==
    ASSUME TypeInv, [Next]_vars, NEW r \in Request, NEW f, Contender(r, f)
    PROVE  /\ Contender(r, f)' /\ NewVersion(r)' = NewVersion(r)
           /\ IsRules(r)' <=> IsRules(r)
           /\ HasWritten(r) => HasWritten(r)'
BY Remembers DEF Contender, NewVersion, IsRules, HasWritten

LEMMA OnlyRecordVersion ==
    ASSUME [Next]_vars PROVE history' = history \/ \E r \in Request : RecordVersion(r)
BY DEF Next, vars, tables, Begin, Step, CheckKey, InsertFlag, InsertConflict, ReadFlag,
       ClearRules, InstallRules, InstallConflict, WriteFlag, RecordConflict, Audit,
       Invalidate, Publish, Fail, CacheMiss, FetchStep, LoadFlags, LoadRules, FillCache,
       FailFetch, Expire

LEMMA CommittedStep ==
    ASSUME TypeInv, NEW r \in Request, Committed(r), [Next]_vars
    PROVE  Committed(r)'
<1> DEFINE Moves == Step(r) \/ Fail(r) \/ \E c \in Command : Begin(r, c)
<1>0. /\ Stage(r) /\ pc \in [Request -> Busy \union Finished \union {"idle"}]
      /\ seen \in [Request -> Row \union {None}]
      /\ post \in [Request -> Row \union {None}]
      /\ target \in [Request -> Flag \union {None}]
      /\ row \in [Flag -> Row \union {None}]
  BY DEF TypeInv, TypeOK
<1>1. ASSUME pc'[r] = pc[r] \/ pc'[r] # "rejected", cmd'[r] = cmd[r],
             target'[r] = target[r], seen'[r] = seen[r], post'[r] = post[r]
      PROVE  Committed(r)'
  BY <1>1, RowsStay DEF Committed, NewVersion
<1>2. CASE ~Moves
  BY <1>1, <1>2, OneMoves
<1>3. CASE InsertFlag(r)
  <2>1. PICK f \in Flag : /\ target'[r] = f
                          /\ row'[f] = post'[r] /\ post'[r].version = 1
    BY <1>0, <1>3 DEF InsertFlag
  <2>2. /\ post'[r] \in Row \union {None} /\ pc'[r] = "record" /\ seen'[r] = None
        /\ row'[f] \in Row
    <3>1. TypeInv'
      BY TypeInvNext
    <3>2. pc'[r] = "record" /\ seen'[r] = seen[r] /\ seen[r] = None
      BY <1>0, <1>3 DEF InsertFlag, Goto, Stage
    <3> QED
      BY <2>1, <3>1, <3>2 DEF TypeInv, TypeOK, Stage
  <2> QED
    BY <2>1, <2>2, NoneAssumption DEF Committed, Exists, NewVersion, Row
<1>4. CASE ReadFlag(r)
  <2>1. CASE Live(target[r])
    <3>1. /\ target'[r] = target[r] /\ row' = row /\ cmd' = cmd /\ post' = post
          /\ post[r] = None /\ pc'[r] # "rejected" /\ cmd[r].type # "create"
      BY <1>0, <1>4, <2>1 DEF ReadFlag, tables, Goto, Stage
    <3>2. target[r] \in Flag
      BY <1>0, <1>4 DEF ReadFlag, Stage
    <3> QED
      BY <2>1, <3>1, <3>2 DEF Committed, Live, Exists
  <2>2. CASE ~Live(target[r])
    BY <1>0, <1>4, <2>2 DEF ReadFlag, Stage, Committed
  <2> QED
    BY <2>1, <2>2
<1>5. CASE WriteFlag(r)
  <2>1. /\ cmd[r] \in Command /\ cmd[r].type # "create" /\ seen[r] \in Row
        /\ row[target[r]] \in Row /\ target[r] \in Flag
    BY <1>0, <1>5 DEF WriteFlag, Stage
  <2>2. /\ target' = target /\ cmd' = cmd /\ seen' = seen /\ post'[r] = Written(r)
        /\ pc'[r] # "rejected"
    BY <1>0, <1>5 DEF WriteFlag, Goto
  <2>3. Exists(target[r]) /\ seen[r] # None
    BY <2>1, NoneAssumption DEF Exists, Row
  <2>4. Exists(target[r])'
    BY <2>1, <2>2, <2>3, RowsStay DEF Exists
  <2> QED
    BY <2>1, <2>2, <2>3, <2>4, WrittenRow DEF Committed, NewVersion
<1>6. CASE CheckKey(r)
  BY <1>0, <1>6 DEF CheckKey, locals, Stage, Committed
<1>7. CASE \E c \in Command : Begin(r, c)
  BY <1>0, <1>7 DEF Begin, Stage, Committed
<1>8. CASE \/ InsertConflict(r) \/ InstallConflict(r) \/ RecordConflict(r) \/ Audit(r)
           \/ Invalidate(r) \/ Fail(r) \/ Publish(r) \/ ClearRules(r) \/ InstallRules(r)
           \/ RecordVersion(r)
  <2>1. pc'[r] # "rejected" /\ UNCHANGED <<cmd, target, seen, post>>
    BY <1>0, <1>8 DEF InsertConflict, InstallConflict, RecordConflict, Audit,
                Invalidate, Fail, Publish, ClearRules, InstallRules, RecordVersion,
                locals, Goto
  <2> QED
    BY <1>1, <2>1
<1> QED
  BY <1>2, <1>3, <1>4, <1>5, <1>6, <1>7, <1>8 DEF Step

\* What RecordVersion adds: r's version, and its rules if it has some.
LEMMA SnapshotIsAttributed ==
    ASSUME TypeInv, ContenderInv, NEW r \in Request, pc[r] = "record"
    PROVE  /\ Contender(r, target[r]) /\ HasWritten(r)
           /\ NewSnapshot(r).version = NewVersion(r)
           /\ Attributed(NewSnapshot(r))
<1>1. /\ post[r] \in Row /\ cmd[r].type # "delete" /\ post[r] # None
      /\ Committed(r) /\ Stage(r)
  BY NoneAssumption DEF TypeInv, Stage, ContenderInv, Row
<1>2. NewSnapshot(r).rules = IF IsRules(r) THEN cmd[r].arg ELSE None
  BY DEF NewSnapshot, Snapshot, IsRules
<1>3. /\ NewSnapshot(r).flag = target[r] /\ NewSnapshot(r).by = r
      /\ NewSnapshot(r).version = post[r].version
  BY NewSnapshotType
<1>4. Contender(r, target[r]) /\ HasWritten(r) /\ post[r].version = NewVersion(r)
      /\ Exists(target[r])
  BY <1>1 DEF Contender, HasWritten, Committed
<1> QED
  BY <1>2, <1>3, <1>4 DEF Attributed

LEMMA ContenderInvariant == Spec => [](TypeInv /\ ContenderInv)
<1>1. Init => ContenderInv
  <2> SUFFICES ASSUME Init PROVE ContenderInv
    OBVIOUS
  <2>1. \A r \in Request : Committed(r)
    BY DEF Init, Committed
  <2>2. ASSUME NEW f \in SeedFlag PROVE Attributed(Snapshot(f, SeedRow(f), None, None))
    <3>1. f \in Flag /\ SeedRow(f) # None
      <4>1. f \in Flag /\ SeedRow(f) \in Row
        BY SeedAssumption DEF SeedRow, Row, Status
      <4> QED
        BY <4>1, NoneAssumption DEF Row
    <3> QED
      BY <3>1 DEF Init, Attributed, Snapshot, SeedRow, Exists
  <2> QED
    BY <2>1, <2>2 DEF Init, ContenderInv
<1>2. TypeInv /\ ContenderInv /\ [Next]_vars => ContenderInv'
  <2> SUFFICES ASSUME TypeInv, ContenderInv, [Next]_vars PROVE ContenderInv'
    OBVIOUS
  <2>1. \A r \in Request : Committed(r)'
    BY CommittedStep DEF ContenderInv
  <2>2. ASSUME NEW h, h.flag \in Flag, Attributed(h)
        PROVE  Attributed(h)'
    <3>1. Exists(h.flag)'
      BY <2>2, RowsStay DEF Attributed
    <3>2. CASE h.by = None /\ h.version = 1 /\ h.rules = None
      BY <3>1, <3>2 DEF Attributed
    <3>3. CASE h.by \in Request /\ Contender(h.by, h.flag) /\ HasWritten(h.by)
      <4>1. cmd'[h.by] = cmd[h.by]
        BY <3>3, Remembers DEF HasWritten
      <4>2. /\ h.version = NewVersion(h.by)
            /\ h.rules = IF IsRules(h.by) THEN cmd[h.by].arg ELSE None
        BY <2>2, <3>3, NoneAssumption DEF Attributed
      <4>3. /\ Contender(h.by, h.flag)' /\ HasWritten(h.by)'
            /\ NewVersion(h.by)' = NewVersion(h.by) /\ (IsRules(h.by)' <=> IsRules(h.by))
        BY <3>3, ContendersStay
      <4> QED
        BY <3>1, <3>3, <4>1, <4>2, <4>3 DEF Attributed
    <3> QED
      BY <2>2, <3>2, <3>3 DEF Attributed
  <2>3. \A h \in history : h.flag \in Flag
    BY DEF TypeInv, TypeOK, Version
  <2>4. \A h \in history : Attributed(h)'
    BY <2>2, <2>3 DEF ContenderInv
  <2>5. CASE history' = history
    BY <2>1, <2>4, <2>5 DEF ContenderInv
  <2>6. ASSUME NEW r \in Request, RecordVersion(r)
        PROVE  ContenderInv'
    <3>1. /\ Attributed(NewSnapshot(r)) /\ NewSnapshot(r).flag \in Flag
          /\ history' = history \union {NewSnapshot(r)}
      BY <2>6, SnapshotIsAttributed, NewSnapshotType DEF RecordVersion, Version
    <3>2. ASSUME NEW h, h = NewSnapshot(r) PROVE Attributed(h)'
      BY <2>2, <3>1, <3>2
    <3>3. \A h \in history' : Attributed(h)'
      BY <2>4, <3>1, <3>2
    <3> QED
      BY <2>1, <3>3 DEF ContenderInv
  <2>7. history' = history \/ \E r \in Request : RecordVersion(r)
    BY OnlyRecordVersion
  <2> QED
    BY <2>5, <2>6, <2>7
<1>3. TypeInv /\ [Next]_vars => TypeInv'
  BY TypeInvNext
<1> QED
  BY <1>1, <1>2, <1>3, TypeInvInit, PTL DEF Spec

-----------------------------------------------------------------------------
(* An orderly flag.                                                        *)

\* No request on f has failed, and no two are on the way to one version of it.
Orderly(f) ==
    /\ \A r \in Request : target[r] = f => pc[r] # "error"
    /\ \A r, s \in Request :
           Contender(r, f) /\ Contender(s, f) /\ NewVersion(r) = NewVersion(s) => r = s

\* x, a row or a snapshot, has the flag's status and body.
Tells(x, f) == x.status = row[f].status /\ x.body = row[f].body

\* No contender is ahead of the row by more than the version it has to write,
\* and each version of the row since the first is a contender's.
Counted(f) ==
    /\ \A r \in Request : Contender(r, f) =>
           /\ HasWritten(r) => NewVersion(r) <= row[f].version
           /\ NewVersion(r) <= row[f].version + 1
    /\ \A v \in 2..row[f].version : \E r \in Request :
           Contender(r, f) /\ HasWritten(r) /\ NewVersion(r) = v

\* What a contender has read is still so until it writes, and what it is about
\* to record is so if it was the last to write.
Current(f) ==
    \A r \in Request : Contender(r, f) =>
        /\ ~HasWritten(r) => Tells(seen[r], f)
        /\ pc[r] = "record" /\ NewVersion(r) = row[f].version => Tells(NewSnapshot(r), f)

Snapshots(f) ==
    \A h \in history : h.flag = f =>
        /\ h.version <= row[f].version
        /\ h.version = row[f].version => Tells(h, f)

LatestRules(r, f) ==
    \A s \in Request : Contender(s, f) /\ IsRules(s) => NewVersion(s) <= NewVersion(r)

\* The rules are those of the newest rules edit, as soon as it has installed them.
RulesHold(f) ==
    \A r \in Request : Contender(r, f) /\ IsRules(r) =>
        /\ pc[r] = "write" => rules[f] = cmd[r].arg
        /\ HasWritten(r) /\ LatestRules(r, f) => rules[f] = cmd[r].arg

Agrees(f) == Counted(f) /\ Current(f) /\ Snapshots(f) /\ RulesHold(f)

AgreeInv == \A f \in Flag : Exists(f) /\ Orderly(f) => Agrees(f)

\* Disorder is not undone.
LEMMA OrderlyBefore ==
    ASSUME TypeInv, [Next]_vars, NEW f, Orderly(f)'
    PROVE  Orderly(f)
<1>1. \A r \in Request : target[r] = f => pc[r] # "error"
  BY Remembers DEF Orderly
<1>2. \A r \in Request : Contender(r, f) =>
          Contender(r, f)' /\ NewVersion(r)' = NewVersion(r)
  BY ContendersStay
<1>3. ASSUME NEW r \in Request, NEW s \in Request, Contender(r, f), Contender(s, f),
             NewVersion(r) = NewVersion(s)
      PROVE  r = s
  BY <1>2, <1>3 DEF Orderly
<1> QED
  BY <1>1, <1>3 DEF Orderly

LEMMA VersionTypes ==
    ASSUME TypeInv
    PROVE  /\ \A r \in Request : NewVersion(r) \in Nat \ {0}
           /\ \A f \in Flag : Exists(f) => row[f] \in Row /\ row[f].version \in Nat \ {0}
           /\ \A r \in Request : seen[r] # None => seen[r] \in Row /\ NewVersion(r) \in Nat \ {0, 1}
<1>1. \A r \in Request : seen[r] # None => seen[r] \in Row
  BY DEF TypeInv, TypeOK
<1>2. \A x \in Row : x.version \in Nat \ {0}
  BY DEF Row
<1>3. \A f \in Flag : Exists(f) => row[f] \in Row
  BY DEF TypeInv, TypeOK, Exists
<1> QED
  BY <1>1, <1>2, <1>3 DEF NewVersion

\* On an orderly flag the one contender that has not written writes the next version.
LEMMA NextWriter ==
    ASSUME TypeInv, NEW f \in Flag, Exists(f), Orderly(f), Agrees(f),
           NEW r \in Request, Contender(r, f), ~HasWritten(r)
    PROVE  /\ NewVersion(r) = row[f].version + 1
           /\ \A s \in Request \ {r} : Contender(s, f) => HasWritten(s)
<1>1. ASSUME NEW s \in Request, Contender(s, f), ~HasWritten(s)
      PROVE  NewVersion(s) = row[f].version + 1
  <2>1. seen[s] # None
    BY <1>1 DEF Contender, HasWritten
  <2>2. NewVersion(s) \in Nat \ {0, 1} /\ row[f].version \in Nat
    BY <2>1, VersionTypes
  <2>3. NewVersion(s) \notin 2..row[f].version
    <3> SUFFICES ASSUME NewVersion(s) \in 2..row[f].version PROVE FALSE
      OBVIOUS
    <3>1. PICK q \in Request : Contender(q, f) /\ HasWritten(q) /\ NewVersion(q) = NewVersion(s)
      BY DEF Agrees, Counted
    <3> QED
      BY <1>1, <3>1 DEF Orderly
  <2>4. NewVersion(s) <= row[f].version + 1
    BY <1>1 DEF Agrees, Counted
  <2> QED
    BY <2>2, <2>3, <2>4
<1>2. ASSUME NEW s \in Request \ {r}, Contender(s, f), ~HasWritten(s)
      PROVE  FALSE
  BY <1>1, <1>2 DEF Orderly
<1> QED
  BY <1>1, <1>2

\* A step that neither the flag nor its contenders notice.
LEMMA AgreesFrame ==
    ASSUME NEW f \in Flag, Agrees(f),
           row'[f].version = row[f].version, row'[f].status = row[f].status,
           row'[f].body = row[f].body, rules'[f] = rules[f],
           \A h \in history' : h.flag = f => h \in history,
           \A r \in Request : Contender(r, f)' <=> Contender(r, f),
           \A r \in Request : Contender(r, f) =>
               /\ cmd'[r] = cmd[r] /\ target'[r] = target[r]
               /\ seen'[r] = seen[r] /\ post'[r] = post[r]
               /\ pc'[r] \in {"write", "record"} => pc'[r] = pc[r]
    PROVE  Agrees(f)'
<1>1. \A r \in Request : Contender(r, f) =>
          /\ NewVersion(r)' = NewVersion(r) /\ (HasWritten(r)' <=> HasWritten(r))
          /\ (IsRules(r)' <=> IsRules(r)) /\ NewSnapshot(r)' = NewSnapshot(r)
  BY DEF NewVersion, HasWritten, IsRules, NewSnapshot
<1>2. \A x : Tells(x, f)' <=> Tells(x, f)
  BY DEF Tells
<1>3. Counted(f)'
  BY <1>1 DEF Agrees, Counted
<1>4. Current(f)'
  BY <1>1, <1>2 DEF Agrees, Current
<1>5. Snapshots(f)'
  BY <1>2 DEF Agrees, Snapshots
<1>6. \A r \in Request : Contender(r, f) => (LatestRules(r, f)' <=> LatestRules(r, f))
  BY <1>1 DEF LatestRules
<1>7. RulesHold(f)'
  BY <1>1, <1>6 DEF Agrees, RulesHold
<1> QED
  BY <1>3, <1>4, <1>5, <1>7 DEF Agrees

\* A step moves r alone.
Alone(r) ==
    \A s \in Request : s # r =>
        /\ pc'[s] = pc[s] /\ cmd'[s] = cmd[s] /\ target'[s] = target[s]
        /\ seen'[s] = seen[s] /\ post'[s] = post[s]

LEMMA OthersContend ==
    ASSUME NEW r \in Request, Alone(r), NEW s \in Request, s # r, NEW f
    PROVE  /\ Contender(s, f)' <=> Contender(s, f)
           /\ NewVersion(s)' = NewVersion(s) /\ (HasWritten(s)' <=> HasWritten(s))
           /\ (IsRules(s)' <=> IsRules(s)) /\ NewSnapshot(s)' = NewSnapshot(s)
BY DEF Alone, Contender, NewVersion, HasWritten, IsRules, NewSnapshot

\* The steps of a request that change no table of f.
LEMMA AgreesAside ==
    ASSUME TypeInv, ContenderInv, NEW f \in Flag, Exists(f), Agrees(f),
           NEW r \in Request, Alone(r),
           \/ \E c \in Command : Begin(r, c)
           \/ CheckKey(r) \/ InsertConflict(r) \/ InstallConflict(r)
           \/ RecordConflict(r) \/ Audit(r) \/ Invalidate(r) \/ Publish(r) \/ Fail(r)
           \/ InsertFlag(r)
           \/ ReadFlag(r) /\ (~Live(target[r]) \/ target[r] # f \/ cmd[r].type = "delete")
           \/ WriteFlag(r) /\ (target[r] # f \/ cmd[r].type = "delete")
           \/ (ClearRules(r) \/ InstallRules(r) \/ RecordVersion(r)) /\ target[r] # f
    PROVE  Agrees(f)'
<1>0. /\ Stage(r) /\ pc \in [Request -> Busy \union Finished \union {"idle"}]
      /\ seen \in [Request -> Row \union {None}]
      /\ post \in [Request -> Row \union {None}]
      /\ target \in [Request -> Flag \union {None}]
      /\ row \in [Flag -> Row \union {None}]
      /\ rules \in [Flag -> RuleList \union {NoRules}]
  BY DEF TypeInv, TypeOK
<1>1. ASSUME row'[f].version = row[f].version, row'[f].status = row[f].status,
             row'[f].body = row[f].body, rules'[f] = rules[f],
             \A h \in history' : h.flag = f => h \in history,
             ~Contender(r, f), ~Contender(r, f)'
      PROVE  Agrees(f)'
  BY <1>1, AgreesFrame, OthersContend DEF Alone
<1>2. CASE \/ InsertConflict(r) \/ InstallConflict(r) \/ RecordConflict(r) \/ Audit(r)
           \/ Invalidate(r) \/ Publish(r) \/ Fail(r) \/ CheckKey(r)
  <2>1. /\ UNCHANGED <<row, rules, history, cmd, target, seen, post>>
        /\ pc'[r] \notin {"write", "record"}
    BY <1>0, <1>2 DEF InsertConflict, InstallConflict, RecordConflict, Audit, Invalidate,
                      Publish, Fail, CheckKey, Goto, tables, locals
  <2>2. \A s \in Request : Contender(s, f)' <=> Contender(s, f)
    BY <2>1 DEF Contender
  <2>3. \A s \in Request : pc'[s] \in {"write", "record"} => pc'[s] = pc[s]
    BY <2>1 DEF Alone
  <2> QED
    BY <2>1, <2>2, <2>3, AgreesFrame
<1>3. CASE \E c \in Command : Begin(r, c)
  <2>1. /\ UNCHANGED <<row, rules, history, seen, post>> /\ seen[r] = None /\ post[r] = None
    BY <1>0, <1>3 DEF Begin, tables, Stage
  <2> QED
    BY <1>1, <2>1 DEF Contender
<1>4. CASE InsertFlag(r)
  <2>1. PICK g \in Flag : \E new :
            /\ row[g] = None /\ row' = [row EXCEPT ![g] = new]
            /\ target' = [target EXCEPT ![r] = g]
    BY <1>4 DEF InsertFlag, Exists
  <2>2. g # f /\ row'[f] = row[f] /\ target'[r] # f
    BY <1>0, <2>1 DEF Exists
  <2>3. UNCHANGED <<rules, history>> /\ seen[r] = None /\ post[r] = None
    BY <1>0, <1>4 DEF InsertFlag, Stage
  <2> QED
    BY <1>1, <2>2, <2>3 DEF Contender
<1>5. CASE ReadFlag(r) /\ ~Live(target[r])
  <2>1. /\ UNCHANGED <<row, rules, history, seen, post>> /\ seen[r] = None /\ post[r] = None
    BY <1>0, <1>5 DEF ReadFlag, tables, Stage
  <2> QED
    BY <1>1, <2>1 DEF Contender
<1>6. CASE ReadFlag(r) /\ (target[r] # f \/ cmd[r].type = "delete")
  <2>1. UNCHANGED <<row, rules, history, cmd, target>>
    BY <1>6 DEF ReadFlag, tables
  <2> QED
    BY <1>1, <1>6, <2>1 DEF Contender
<1>7. CASE WriteFlag(r) /\ (target[r] # f \/ cmd[r].type = "delete")
  <2>1. /\ UNCHANGED <<rules, history, cmd, target>>
        /\ row' = [row EXCEPT ![target[r]] = Written(r)]
        /\ row[target[r]] \in Row /\ target[r] \in Flag
    BY <1>0, <1>7 DEF WriteFlag, Stage
  <2>2. /\ row'[f].version = row[f].version /\ row'[f].status = row[f].status
        /\ row'[f].body = row[f].body
    <3>1. CASE target[r] # f
      BY <1>0, <2>1, <3>1
    <3>2. CASE target[r] = f /\ cmd[r].type = "delete"
      <4>1. row'[f] = [row[f] EXCEPT !.deleted = TRUE] /\ row[f] \in Row
        BY <1>0, <2>1, <3>2 DEF Written
      <4> QED
        BY <4>1 DEF Row
    <3> QED
      BY <1>7, <3>1, <3>2
  <2> QED
    BY <1>1, <1>7, <2>1, <2>2 DEF Contender
<1>8. CASE (ClearRules(r) \/ InstallRules(r) \/ RecordVersion(r)) /\ target[r] # f
  <2>1. UNCHANGED <<row, cmd, target>>
    BY <1>8 DEF ClearRules, InstallRules, RecordVersion, locals
  <2>2. rules'[f] = rules[f]
    BY <1>0, <1>8 DEF ClearRules, InstallRules, RecordVersion
  <2>3. \A h \in history' : h.flag = f => h \in history
    BY <1>8, NewSnapshotType DEF ClearRules, InstallRules, RecordVersion
  <2> QED
    BY <1>1, <1>8, <2>1, <2>2, <2>3 DEF Contender
<1> QED
  BY <1>2, <1>3, <1>4, <1>5, <1>6, <1>7, <1>8

\* A request reads the flag, to write its next version.
LEMMA AgreesReading ==
    ASSUME TypeInv, ContenderInv, NEW f \in Flag, Exists(f), Agrees(f),
           NEW r \in Request, Alone(r), ReadFlag(r), target[r] = f, Live(f),
           cmd[r].type # "delete"
    PROVE  Agrees(f)'
<1>0. /\ Stage(r) /\ pc \in [Request -> Busy \union Finished \union {"idle"}]
      /\ seen \in [Request -> Row \union {None}]
      /\ row[f] # None /\ row[f] \in Row /\ row[f].version \in Nat
  BY VersionTypes DEF TypeInv, TypeOK, Live, Exists
<1>1. /\ UNCHANGED <<row, rules, history, cmd, target, post>>
      /\ seen'[r] = row[f] /\ post[r] = None /\ seen[r] = None
      /\ pc'[r] = IF cmd[r].type = "rules" THEN "clear" ELSE "write"
  BY <1>0 DEF ReadFlag, tables, Goto, Stage
<1>2. /\ Contender(r, f)' /\ NewVersion(r)' = row[f].version + 1 /\ ~HasWritten(r)'
      /\ ~Contender(r, f)
  BY <1>0, <1>1 DEF Contender, NewVersion, HasWritten
<1>3. \A x : Tells(x, f)' <=> Tells(x, f)
  BY <1>1 DEF Tells
<1>4. Counted(f)'
  <2>1. \A s \in Request : Contender(s, f)' =>
            /\ HasWritten(s)' => NewVersion(s)' <= row[f].version
            /\ NewVersion(s)' <= row[f].version + 1
    BY <1>0, <1>2, OthersContend DEF Agrees, Counted
  <2>2. ASSUME NEW v \in 2..row[f].version
        PROVE  \E s \in Request : Contender(s, f)' /\ HasWritten(s)' /\ NewVersion(s)' = v
    <3>1. PICK s \in Request : Contender(s, f) /\ HasWritten(s) /\ NewVersion(s) = v
      BY DEF Agrees, Counted
    <3> QED
      BY <1>2, <3>1, OthersContend
  <2> QED
    BY <1>1, <2>1, <2>2 DEF Counted
<1>5. Current(f)'
  <2>1. Tells(seen'[r], f) /\ pc'[r] # "record"
    BY <1>1 DEF Tells
  <2> QED
    BY <1>1, <1>2, <1>3, <2>1, OthersContend DEF Agrees, Current, Alone
<1>6. Snapshots(f)'
  BY <1>1, <1>3 DEF Agrees, Snapshots
<1>7. RulesHold(f)'
  <2> SUFFICES ASSUME NEW s \in Request, Contender(s, f)', IsRules(s)'
               PROVE  /\ pc'[s] = "write" => rules'[f] = cmd'[s].arg
                      /\ HasWritten(s)' /\ LatestRules(s, f)' => rules'[f] = cmd'[s].arg
    BY DEF RulesHold
  <2>1. CASE s = r
    BY <1>1, <1>2, <2>1 DEF IsRules
  <2>2. CASE s # r
    <3>1. LatestRules(s, f)' => LatestRules(s, f)
      BY <1>2, <2>2, OthersContend DEF LatestRules
    <3>2. Contender(s, f) /\ IsRules(s) /\ (HasWritten(s)' <=> HasWritten(s))
      BY <2>2, OthersContend
    <3> QED
      BY <1>1, <2>2, <3>1, <3>2 DEF Agrees, RulesHold, Alone
  <2> QED
    BY <2>1, <2>2
<1> QED
  BY <1>4, <1>5, <1>6, <1>7 DEF Agrees

\* A rules edit clears the rules and installs its own.
LEMMA AgreesInstalling ==
    ASSUME TypeInv, ContenderInv, NEW f \in Flag, Exists(f), Orderly(f), Agrees(f),
           NEW r \in Request, Alone(r), ClearRules(r) \/ InstallRules(r), target[r] = f
    PROVE  Agrees(f)'
<1>0. /\ Stage(r) /\ pc \in [Request -> Busy \union Finished \union {"idle"}]
      /\ rules \in [Flag -> RuleList \union {NoRules}]
      /\ row[f].version \in Nat /\ \A s \in Request : NewVersion(s) \in Nat
  BY VersionTypes DEF TypeInv, TypeOK
<1>1. /\ UNCHANGED <<row, history, cmd, target, seen, post>>
      /\ pc'[r] # "record" /\ (pc'[r] = "write" => rules'[f] = cmd[r].arg)
  BY <1>0 DEF ClearRules, InstallRules, Goto, locals
<1>2. Contender(r, f) /\ ~HasWritten(r) /\ IsRules(r)
  BY <1>0, NoneAssumption
     DEF ClearRules, InstallRules, Stage, Contender, HasWritten, IsRules, Row
<1>3. /\ NewVersion(r) = row[f].version + 1
      /\ \A s \in Request \ {r} : Contender(s, f) => HasWritten(s)
  BY <1>2, NextWriter
<1>4. \A s \in Request : /\ Contender(s, f)' <=> Contender(s, f)
                         /\ NewVersion(s)' = NewVersion(s)
                         /\ HasWritten(s)' <=> HasWritten(s)
                         /\ IsRules(s)' <=> IsRules(s)
                         /\ NewSnapshot(s)' = NewSnapshot(s)
  BY <1>1 DEF Contender, NewVersion, HasWritten, IsRules, NewSnapshot
<1>5. \A x : Tells(x, f)' <=> Tells(x, f)
  BY <1>1 DEF Tells
<1>6. Counted(f)' /\ Snapshots(f)'
  BY <1>1, <1>4, <1>5 DEF Agrees, Counted, Snapshots
<1>7. Current(f)'
  BY <1>1, <1>4, <1>5 DEF Agrees, Current, Alone
<1>8. RulesHold(f)'
  <2> SUFFICES ASSUME NEW s \in Request, Contender(s, f)', IsRules(s)'
               PROVE  /\ pc'[s] = "write" => rules'[f] = cmd'[s].arg
                      /\ ~(HasWritten(s)' /\ LatestRules(s, f)')
    BY DEF RulesHold
  <2>1. CASE s = r
    BY <1>1, <1>2, <1>4, <2>1
  <2>2. CASE s # r
    <3>1. Contender(s, f) /\ HasWritten(s)
      BY <1>3, <1>4, <2>2
    <3>2. pc'[s] # "write"
      BY <2>2, <3>1 DEF Alone, HasWritten, TypeInv, Stage
    <3>3. NewVersion(s) <= row[f].version
      BY <3>1 DEF Agrees, Counted
    <3>4. ~LatestRules(s, f)'
      BY <1>0, <1>2, <1>3, <1>4, <3>3 DEF LatestRules
    <3> QED
      BY <3>2, <3>4
  <2> QED
    BY <2>1, <2>2
<1> QED
  BY <1>6, <1>7, <1>8 DEF Agrees

\* What a write leaves in the row, and what the writer will record of it.
LEMMA WritingTells ==
    ASSUME TypeInv, NEW r \in Request, WriteFlag(r), cmd[r].type # "delete",
           NEW f \in Flag, target[r] = f, Tells(seen[r], f)
    PROVE  /\ row'[f].version = NewVersion(r) /\ row'[f] \in Row /\ post'[r] = row'[f]
           /\ Tells(NewSnapshot(r), f)'
<1>0. /\ cmd[r] \in Command /\ cmd[r].type # "create" /\ seen[r] \in Row
      /\ row[f] \in Row /\ seen[r] # None /\ row \in [Flag -> Row \union {None}]
      /\ post \in [Request -> Row \union {None}]
  BY NoneAssumption DEF TypeInv, TypeOK, WriteFlag, Stage, Row
<1>1. /\ row'[f] = Written(r) /\ post'[r] = Written(r)
      /\ UNCHANGED <<cmd, seen, target>>
  BY <1>0 DEF WriteFlag
<1>2. Written(r) \in Row /\ Written(r).version = NewVersion(r)
  BY <1>0, WrittenRow DEF NewVersion
<1>3. CASE cmd[r].type = "rules"
  <2>1. /\ Written(r) = [row[f] EXCEPT !.version = seen[r].version + 1]
        /\ NewSnapshot(r)' = Snapshot(f, [seen[r] EXCEPT !.version = seen[r].version + 1],
                                      cmd[r].arg, r)
    BY <1>0, <1>1, <1>3 DEF Written, NewSnapshot, Row
  <2>2. /\ Written(r).status = row[f].status /\ Written(r).body = row[f].body
        /\ NewSnapshot(r)'.status = seen[r].status /\ NewSnapshot(r)'.body = seen[r].body
    BY <1>0, <2>1 DEF Snapshot, Row
  <2> QED
    BY <1>1, <1>2, <2>2 DEF Tells
<1>4. CASE cmd[r].type # "rules"
  BY <1>1, <1>2, <1>4 DEF NewSnapshot, Snapshot, Tells
<1> QED
  BY <1>1, <1>2, <1>3, <1>4

\* A request writes the flag's next version.
LEMMA AgreesWriting ==
    ASSUME TypeInv, ContenderInv, NEW f \in Flag, Exists(f), Orderly(f), Agrees(f),
           NEW r \in Request, Alone(r), WriteFlag(r), target[r] = f,
           cmd[r].type # "delete"
    PROVE  Agrees(f)'
<1> DEFINE v == row[f].version + 1
<1>0. /\ Stage(r) /\ pc \in [Request -> Busy \union Finished \union {"idle"}]
      /\ row[f].version \in Nat /\ \A s \in Request : NewVersion(s) \in Nat
      /\ \A h \in history : h.version \in Nat
  BY VersionTypes DEF TypeInv, TypeOK, Version
<1>1. /\ UNCHANGED <<rules, history, cmd, target, seen>>
      /\ pc[r] = "write" /\ pc'[r] = "record"
  BY <1>0 DEF WriteFlag, Goto
<1>2. Contender(r, f) /\ ~HasWritten(r)
  BY <1>0, NoneAssumption DEF WriteFlag, Stage, Contender, HasWritten, Row
<1>3. /\ NewVersion(r) = v /\ v \in Nat
      /\ \A s \in Request \ {r} : Contender(s, f) => /\ HasWritten(s)
                                                     /\ NewVersion(s) <= row[f].version
      /\ Tells(seen[r], f)
  BY <1>0, <1>2, NextWriter DEF Agrees, Counted, Current
<1>4. /\ row'[f].version = v /\ row'[f] \in Row /\ post'[r] = row'[f]
      /\ Tells(NewSnapshot(r), f)'
  BY <1>3, WritingTells
<1>5. /\ Contender(r, f)' /\ HasWritten(r)' /\ NewVersion(r)' = v
      /\ IsRules(r)' <=> IsRules(r)
  BY <1>1, <1>2, <1>3, <1>4, NoneAssumption DEF Contender, HasWritten, NewVersion, IsRules, Row
<1> HIDE DEF v
<1>6. \A s \in Request \ {r} : Contender(s, f)' =>
          /\ Contender(s, f) /\ HasWritten(s)' /\ NewVersion(s)' = NewVersion(s)
          /\ NewVersion(s) <= row[f].version /\ NewVersion(s) # v /\ NewVersion(s) <= v
  BY <1>0, <1>3, OthersContend DEF v
<1>7. Counted(f)'
  <2>1. \A s \in Request : Contender(s, f)' =>
            /\ HasWritten(s)' => NewVersion(s)' <= row'[f].version
            /\ NewVersion(s)' <= row'[f].version + 1
    BY <1>0, <1>3, <1>4, <1>5, <1>6
  <2>2. ASSUME NEW u \in 2..v
        PROVE  \E s \in Request : Contender(s, f)' /\ HasWritten(s)' /\ NewVersion(s)' = u
    <3>1. CASE u = v
      BY <1>5, <3>1
    <3>2. CASE u # v
      <4>1. u \in 2..row[f].version
        BY <1>0, <3>2 DEF v
      <4>2. PICK s \in Request : Contender(s, f) /\ HasWritten(s) /\ NewVersion(s) = u
        BY <4>1 DEF Agrees, Counted
      <4>3. s # r
        BY <1>2, <4>2
      <4> QED
        BY <4>2, <4>3, OthersContend
    <3> QED
      BY <3>1, <3>2
  <2> QED
    BY <1>4, <2>1, <2>2 DEF Counted
<1>8. Current(f)'
  BY <1>4, <1>5, <1>6 DEF Current
<1>9. Snapshots(f)'
  <2> SUFFICES ASSUME NEW h \in history, h.flag = f
               PROVE  h.version <= v /\ h.version # v
    BY <1>1, <1>4 DEF Snapshots
  <2>1. h.version <= row[f].version /\ h.version \in Nat
    BY <1>0 DEF Agrees, Snapshots
  <2> QED
    BY <1>0, <2>1 DEF v
<1>10. RulesHold(f)'
  <2> SUFFICES ASSUME NEW s \in Request, Contender(s, f)', IsRules(s)'
               PROVE  /\ pc'[s] # "write"
                      /\ HasWritten(s)' /\ LatestRules(s, f)' => rules'[f] = cmd'[s].arg
    BY DEF RulesHold
  <2>1. CASE s = r
    BY <1>1, <1>2, <1>5, <2>1 DEF Agrees, RulesHold
  <2>2. CASE s # r
    <3>1. Contender(s, f) /\ HasWritten(s) /\ IsRules(s)
      BY <1>3, <2>2, OthersContend
    <3>2. pc'[s] # "write"
      BY <2>2, <3>1 DEF Alone, HasWritten, TypeInv, Stage
    <3>3. LatestRules(s, f)' => LatestRules(s, f)
      <4> SUFFICES ASSUME LatestRules(s, f)', NEW q \in Request, Contender(q, f), IsRules(q)
                   PROVE  NewVersion(q) <= NewVersion(s)
        BY DEF LatestRules
      <4>1. CASE q = r
        <5>1. NewVersion(r)' <= NewVersion(s)'
          BY <1>5, <4>1 DEF LatestRules
        <5> QED
          BY <1>3, <1>5, <1>6, <2>2, <4>1, <5>1
      <4>2. CASE q # r
        <5>1. Contender(q, f)' /\ IsRules(q)' /\ NewVersion(q)' = NewVersion(q)
          BY <4>2, OthersContend
        <5>2. NewVersion(s)' = NewVersion(s)
          BY <2>2, OthersContend
        <5> QED
          BY <5>1, <5>2 DEF LatestRules
      <4> QED
        BY <4>1, <4>2
    <3> QED
      BY <1>1, <3>1, <3>2, <3>3 DEF Agrees, RulesHold
  <2> QED
    BY <2>1, <2>2
<1> QED
  BY <1>7, <1>8, <1>9, <1>10 DEF Agrees

\* A request records what it wrote.
LEMMA AgreesRecording ==
    ASSUME TypeInv, ContenderInv, NEW f \in Flag, Agrees(f),
           NEW r \in Request, Alone(r), RecordVersion(r), target[r] = f
    PROVE  Agrees(f)'
<1>1. /\ UNCHANGED <<row, rules, cmd, target, seen, post>>
      /\ history' = history \union {NewSnapshot(r)} /\ pc[r] = "record" /\ pc'[r] = "audit"
  BY DEF RecordVersion, Goto, locals, TypeInv, TypeOK
<1>2. /\ Contender(r, f) /\ HasWritten(r) /\ NewSnapshot(r).version = NewVersion(r)
  BY <1>1, SnapshotIsAttributed
<1>3. /\ NewVersion(r) <= row[f].version
      /\ NewVersion(r) = row[f].version => Tells(NewSnapshot(r), f)
  BY <1>1, <1>2 DEF Agrees, Counted, Current
<1>4. \A s \in Request : /\ Contender(s, f)' <=> Contender(s, f)
                         /\ NewVersion(s)' = NewVersion(s)
                         /\ HasWritten(s)' <=> HasWritten(s)
                         /\ IsRules(s)' <=> IsRules(s)
                         /\ NewSnapshot(s)' = NewSnapshot(s)
                         /\ LatestRules(s, f)' <=> LatestRules(s, f)
  BY <1>1 DEF Contender, NewVersion, HasWritten, IsRules, NewSnapshot, LatestRules
<1>5. \A x : Tells(x, f)' <=> Tells(x, f)
  BY <1>1 DEF Tells
<1>6. \A s \in Request : pc'[s] \in {"write", "record"} => pc'[s] = pc[s]
  BY <1>1 DEF Alone
<1>7. Counted(f)'
  BY <1>1, <1>4 DEF Agrees, Counted
<1>8. Current(f)'
  BY <1>1, <1>4, <1>5, <1>6 DEF Agrees, Current
<1>9. Snapshots(f)'
  BY <1>1, <1>2, <1>3, <1>5 DEF Agrees, Snapshots
<1>10. RulesHold(f)'
  BY <1>1, <1>4, <1>6 DEF Agrees, RulesHold
<1> QED
  BY <1>7, <1>8, <1>9, <1>10 DEF Agrees

\* A flag that is created has one contender, its creator.
LEMMA AgreesCreating ==
    ASSUME TypeInv, ContenderInv, [Next]_vars, NEW f \in Flag, ~Exists(f), Exists(f)'
    PROVE  Agrees(f)'
<1>0. /\ pc \in [Request -> Busy \union Finished \union {"idle"}]
      /\ row \in [Flag -> Row \union {None}] /\ \A r \in Request : Stage(r)
  BY DEF TypeInv, TypeOK
<1>1. PICK r \in Request : InsertFlag(r)
  <2>1. row' # row
    BY DEF Exists
  <2>2. ASSUME NEW s \in Request, WriteFlag(s), target[s] \in Flag, row[target[s]] \in Row
        PROVE  FALSE
    BY <1>0, <2>2, NoneAssumption DEF WriteFlag, Exists, Row
  <2> QED
    BY <2>1, <2>2, RowChanges
<1>2. Alone(r)
  <2>1. pc'[r] # pc[r]
    BY <1>0, <1>1 DEF InsertFlag, Goto
  <2> QED
    BY <2>1, OneMoves DEF Alone
<1>3. /\ target'[r] = f /\ row'[f] = post'[r] /\ row'[f].version = 1
      /\ UNCHANGED <<rules, history, cmd, seen>>
      /\ pc'[r] = "record" /\ seen[r] = None /\ cmd[r].type = "create"
  <2> DEFINE new(b) == [key |-> cmd[r].arg, status |-> "inactive", body |-> b,
                        version |-> 1, deleted |-> FALSE]
  <2>1. PICK g \in Flag, b \in Body :
            /\ row' = [row EXCEPT ![g] = new(b)] /\ post' = [post EXCEPT ![r] = new(b)]
            /\ target' = [target EXCEPT ![r] = g]
    BY <1>1 DEF InsertFlag
  <2>2. new(b).version = 1
    OBVIOUS
  <2> HIDE DEF new
  <2>3. g = f
    BY <1>0, <2>1 DEF Exists
  <2>4. post \in [Request -> Row \union {None}] /\ target \in [Request -> Flag \union {None}]
    BY DEF TypeInv, TypeOK
  <2>5. target'[r] = f /\ row'[f] = post'[r] /\ row'[f].version = 1
    BY <1>0, <2>1, <2>2, <2>3, <2>4
  <2> QED
    BY <1>0, <1>1, <2>5 DEF InsertFlag, Goto, Stage
<1>4. row'[f] # None /\ post'[r] # None
  BY <1>3 DEF Exists
<1>5. /\ \A s \in Request : ~Contender(s, f)
      /\ \A h \in history : h.flag # f
  BY DEF ContenderInv, Committed, Contender, Attributed
<1>6. \A s \in Request : s # r => ~Contender(s, f)'
  BY <1>2, <1>5, OthersContend
<1>7. /\ Contender(r, f)' /\ HasWritten(r)' /\ NewVersion(r)' = 1 /\ ~IsRules(r)'
      /\ NewSnapshot(r)' = Snapshot(f, row'[f], None, r)
  BY <1>3, <1>4 DEF Contender, HasWritten, NewVersion, IsRules, NewSnapshot
<1>8. Tells(NewSnapshot(r), f)'
  BY <1>7 DEF Tells, Snapshot
<1>9. Counted(f)'
  BY <1>3, <1>6, <1>7 DEF Counted
<1>10. Current(f)'
  BY <1>6, <1>7, <1>8 DEF Current
<1>11. Snapshots(f)'
  BY <1>3, <1>5 DEF Snapshots
<1>12. RulesHold(f)'
  BY <1>6, <1>7 DEF RulesHold
<1> QED
  BY <1>9, <1>10, <1>11, <1>12 DEF Agrees

\* Only a request changes the rules.
LEMMA RequestsMove ==
    ASSUME TypeInv, [Next]_vars
    PROVE  \/ UNCHANGED <<row, rules, history, pc, cmd, target, seen, post>>
           \/ \E r \in Request :
                  /\ Step(r) \/ Fail(r) \/ \E c \in Command : Begin(r, c)
                  /\ Alone(r)
<1>1. CASE UNCHANGED <<history, published, pc, cmd, target, seen, post>>
  <2>1. \A r \in Request : ~(InsertFlag(r) \/ WriteFlag(r) \/ ClearRules(r) \/ InstallRules(r))
    BY <1>1 DEF InsertFlag, WriteFlag, ClearRules, InstallRules, Goto, TypeInv, TypeOK
  <2>2. UNCHANGED <<row, rules>>
    BY <2>1
       DEF Next, vars, tables, Begin, Step, CheckKey, InsertConflict, ReadFlag,
           InstallConflict, RecordVersion, RecordConflict, Audit, Invalidate, Publish,
           Fail, CacheMiss, FetchStep, LoadFlags, LoadRules, FillCache, FailFetch, Expire
  <2> QED
    BY <1>1, <2>2
<1> QED
  BY <1>1, OneMoves DEF Alone

LEMMA AgreeStep == TypeInv /\ ContenderInv /\ AgreeInv /\ [Next]_vars => AgreeInv'
<1> SUFFICES ASSUME TypeInv, ContenderInv, AgreeInv, [Next]_vars,
                    NEW f \in Flag, Exists(f)', Orderly(f)'
             PROVE  Agrees(f)'
  BY DEF AgreeInv
<1>1. CASE ~Exists(f)
  BY <1>1, AgreesCreating
<1>2. CASE Exists(f)
  <2>1. Orderly(f) /\ Agrees(f)
    BY <1>2, OrderlyBefore DEF AgreeInv
  <2>2. CASE UNCHANGED <<row, rules, history, pc, cmd, target, seen, post>>
    BY <2>1, <2>2, AgreesFrame DEF Contender
  <2>3. ASSUME NEW r \in Request, Alone(r),
               Step(r) \/ Fail(r) \/ \E c \in Command : Begin(r, c)
        PROVE  Agrees(f)'
    <3>1. CASE ReadFlag(r) /\ target[r] = f /\ Live(f) /\ cmd[r].type # "delete"
      BY <1>2, <2>1, <2>3, <3>1, AgreesReading
    <3>2. CASE (ClearRules(r) \/ InstallRules(r)) /\ target[r] = f
      BY <1>2, <2>1, <2>3, <3>2, AgreesInstalling
    <3>3. CASE WriteFlag(r) /\ target[r] = f /\ cmd[r].type # "delete"
      BY <1>2, <2>1, <2>3, <3>3, AgreesWriting
    <3>4. CASE RecordVersion(r) /\ target[r] = f
      BY <2>1, <2>3, <3>4, AgreesRecording
    <3>5. CASE \/ \E c \in Command : Begin(r, c)
               \/ CheckKey(r) \/ InsertConflict(r) \/ InstallConflict(r)
               \/ RecordConflict(r) \/ Audit(r) \/ Invalidate(r) \/ Publish(r) \/ Fail(r)
               \/ InsertFlag(r)
               \/ ReadFlag(r) /\ (~Live(target[r]) \/ target[r] # f \/ cmd[r].type = "delete")
               \/ WriteFlag(r) /\ (target[r] # f \/ cmd[r].type = "delete")
               \/ (ClearRules(r) \/ InstallRules(r) \/ RecordVersion(r)) /\ target[r] # f
      BY <1>2, <2>1, <2>3, <3>5, AgreesAside
    <3> QED
      BY <2>3, <3>1, <3>2, <3>3, <3>4, <3>5 DEF Step
  <2> QED
    BY <2>2, <2>3, RequestsMove
<1> QED
  BY <1>1, <1>2

LEMMA AgreeInvariant == Spec => []AgreeInv
<1>1. Init => AgreeInv
  <2> SUFFICES ASSUME Init, NEW f \in Flag, Exists(f) PROVE Agrees(f)
    BY DEF AgreeInv
  <2>1. f \in SeedFlag /\ row[f] = SeedRow(f)
    BY DEF Init, Exists
  <2>2. \A r \in Request : ~Contender(r, f)
    BY DEF Init, Contender
  <2>3. row[f].version = 1
    BY <2>1 DEF SeedRow
  <2>4. ASSUME NEW h \in history, h.flag = f
        PROVE  h.version = 1 /\ Tells(h, f)
    <3>1. PICK g \in SeedFlag : h = Snapshot(g, SeedRow(g), None, None)
      BY DEF Init
    <3> QED
      BY <2>1, <2>4, <3>1 DEF Snapshot, SeedRow, Tells
  <2> QED
    BY <2>2, <2>3, <2>4 DEF Agrees, Counted, Current, Snapshots, RulesHold
<1> QED
  BY <1>1, AgreeStep, TypeInvNext, ContenderInvariant, PTL DEF Spec

-----------------------------------------------------------------------------
(* A quiet flag.                                                           *)

\* Everybody who changed a quiet flag was answered 2xx, each for a version of
\* his own: a quiet flag is orderly.
LEMMA QuietIsOrderly ==
    ASSUME TypeInv, ContenderInv, AckedVersionsDiffer, NEW f \in Flag, Quiet(f)
    PROVE  /\ Orderly(f)
           /\ \A r \in Request : Contender(r, f) =>
                  pc[r] = "ok" /\ HasWritten(r) /\ post[r].version = NewVersion(r)
<1>1. ASSUME NEW r \in Request, Contender(r, f)
      PROVE  pc[r] = "ok" /\ HasWritten(r) /\ post[r].version = NewVersion(r)
  <2>1. pc[r] = "ok"
    BY <1>1 DEF Quiet, Contender, ContenderInv, Committed
  <2>2. HasWritten(r)
    BY <2>1, NoneAssumption DEF TypeInv, Stage, HasWritten, Row
  <2> QED
    BY <1>1, <2>1, <2>2 DEF ContenderInv, Committed, Contender, HasWritten
<1>2. \A r, s \in Request :
          Contender(r, f) /\ Contender(s, f) /\ NewVersion(r) = NewVersion(s) => r = s
  BY <1>1 DEF AckedVersionsDiffer, Contender
<1> QED
  BY <1>1, <1>2 DEF Orderly, Quiet

\* Nobody owes the row's version any more: it is recorded, and told truly.
LEMMA NewestSnapshotIsTheRow ==
    ASSUME TypeInv, VersionsRecorded, NEW f \in Flag, Exists(f), Quiet(f), Agrees(f)
    PROVE  \E h \in history :
               /\ h.flag = f
               /\ \A g \in history : g.flag = f => g.version <= h.version
               /\ h.version = row[f].version
               /\ h.status = row[f].status /\ h.body = row[f].body
<1>1. row[f].version \in 1..row[f].version
  BY VersionTypes
<1>2. ~\E r \in Request : Owes(r, f, row[f].version)
  BY DEF Owes, Quiet
<1>3. Recorded(f, row[f].version)
  BY <1>1, <1>2 DEF VersionsRecorded
<1> QED
  BY <1>3 DEF Recorded, Agrees, Snapshots, Tells

\* Every rules edit of a quiet flag is in the history, so the newest of them
\* there is the last one.
LEMMA NewestRulesAreTheRules ==
    ASSUME TypeInv, ContenderInv, HistoryInv, NEW f \in Flag, Agrees(f),
           \A r \in Request : Contender(r, f) =>
               pc[r] = "ok" /\ HasWritten(r) /\ post[r].version = NewVersion(r),
           NEW h \in history, h.flag = f, h.rules # None,
           \A g \in history : g.flag = f /\ g.rules # None => g.version <= h.version
    PROVE  h.rules = rules[f]
<1>1. PICK q \in Request :
          /\ Contender(q, f) /\ HasWritten(q) /\ h.version = NewVersion(q)
          /\ IsRules(q) /\ h.rules = cmd[q].arg
  BY DEF ContenderInv, Attributed
<1>2. LatestRules(q, f)
  <2> SUFFICES ASSUME NEW s \in Request, Contender(s, f), IsRules(s)
               PROVE  NewVersion(s) <= NewVersion(q)
    BY DEF LatestRules
  <2>1. /\ pc[s] = "ok" /\ post[s].version = NewVersion(s)
        /\ target[s] = f /\ cmd[s].type = "rules"
    BY DEF Contender, IsRules
  <2>2. PICK g \in history : /\ g.flag = f /\ g.version = NewVersion(s)
                             /\ g.rules = cmd[s].arg
    BY <2>1 DEF HistoryInv, Trail, RecordedAsAsked
  <2>3. cmd[s].arg # None
    <3>1. cmd[s] \in Command
      BY <2>1 DEF TypeInv, Stage
    <3> QED
      BY <2>1, <3>1, CommandShape, NoneAssumption
  <2> QED
    BY <1>1, <2>2, <2>3
<1> QED
  BY <1>1, <1>2 DEF Agrees, RulesHold

\* The newest snapshot of a flag on which no request is at work and none was
\* answered 500 has its version, status and body, and the newest rules
\* snapshot its rules: requests that raced on it and were all answered 2xx
\* have had the effect of one order of them.
THEOREM QuietHistoriesAreTrue == Spec => []QuietHistoryIsTrue
<1>1. /\ TypeInv /\ ContenderInv
      /\ HistoryInv
      /\ AgreeInv
      /\ VersionsRecorded
      /\ AckedVersionsDiffer
      => QuietHistoryIsTrue
  <2> SUFFICES ASSUME TypeInv, ContenderInv, HistoryInv, AgreeInv, VersionsRecorded,
                      AckedVersionsDiffer, NEW f \in Flag, Exists(f), Quiet(f)
               PROVE  /\ \E h \in history :
                             /\ h.flag = f
                             /\ \A g \in history : g.flag = f => g.version <= h.version
                             /\ h.version = row[f].version
                             /\ h.status = row[f].status /\ h.body = row[f].body
                      /\ \A h \in history :
                             (/\ h.flag = f /\ h.rules # None
                              /\ \A g \in history :
                                     g.flag = f /\ g.rules # None => g.version <= h.version)
                             => h.rules = rules[f]
    BY DEF QuietHistoryIsTrue
  <2>1. /\ Orderly(f)
        /\ \A r \in Request : Contender(r, f) =>
               pc[r] = "ok" /\ HasWritten(r) /\ post[r].version = NewVersion(r)
    BY QuietIsOrderly
  <2>2. Agrees(f)
    BY <2>1 DEF AgreeInv
  <2> QED
    BY <2>1, <2>2, NewestSnapshotIsTheRow, NewestRulesAreTheRules
<1> QED
  BY <1>1, ContenderInvariant, HistoryInvariant, AgreeInvariant, HistoryHasNoHoles,
     RacersAreNotBothAcknowledged, PTL
=============================================================================
