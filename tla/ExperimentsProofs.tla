------------------------- MODULE ExperimentsProofs -------------------------
(***************************************************************************)
(* Proofs about Experiments, for any experiments, requests, jobs and       *)
(* batches and any number of attempts and stalls: what the worker counts,  *)
(* how often and in which order, which way experiments go, and that no job *)
(* goes round in circles.                                                  *)
(***************************************************************************)
EXTENDS Experiments, TLAPS

-----------------------------------------------------------------------------
(* Types.  TypeOK says nothing of the domains of the counts, nor of where  *)
(* a request or a job is; TypeInv adds that.                               *)

Position(r) ==
    /\ pc[r] # "idle" => cmd[r] \in Command
    /\ pc[r] \in {"check", "insert", "variants"} => cmd[r].type = "create"
    /\ pc[r] \in {"read", "write"} => cmd[r].type \in {"launch", "pause", "stop"}

TypeInv ==
    /\ TypeOK
    /\ DOMAIN shown = Job /\ DOMAIN converted = Job
    /\ \A r \in Request : Position(r)
    /\ \A j \in Job : job[j].state \in {"new", "waiting", "active"} => job[j].made < Attempts
    /\ agg.state \in {"idle", "waiting", "active"} => agg.made < Attempts

\* What one step can do to a job and to its counts.
Same(j) == shown'[j] = shown[j] /\ converted'[j] = converted[j]

PassesOver(j) ==
    LET on == Current(j).on
    IN  \/ job[j].step = "select" /\ ~(on # None /\ status[on] = "running")
        \/ job[j].step = "variants" /\ on \notin variants

Stays(j)      == job'[j] = job[j] /\ Same(j)
IsQueued(j)   == /\ job[j].state = "new" /\ Same(j)
                 /\ job'[j] = [job[j] EXCEPT !.state = "waiting"]
IsTaken(j)    == /\ job[j].state = "waiting" /\ Same(j)
                 /\ job'[j] = [job[j] EXCEPT !.state = "active", !.at = 1, !.step = "select"]
Skips(j)      == /\ Active(j) /\ job[j].at \in DOMAIN Batch[j] /\ Same(j)
                 /\ PassesOver(j) /\ job'[j] = NextEvent(job[j])
Selects(j)    == /\ Active(j) /\ job[j].at \in DOMAIN Batch[j] /\ Same(j)
                 /\ job[j].step \in {"select", "variants"}
                 /\ \E step \in {"variants", "impression"} :
                        job'[j] = [job[j] EXCEPT !.step = step]
IsShown(j)    == /\ Working(j, "impression")
                 /\ shown'[j] = [shown[j] EXCEPT ![job[j].at] = @ + 1]
                 /\ converted'[j] = converted[j]
                 /\ job'[j] = IF Current(j).converts
                              THEN [job[j] EXCEPT !.step = "conversion"]
                              ELSE NextEvent(job[j])
Converts(j)   == /\ Working(j, "conversion")
                 /\ converted'[j] = [converted[j] EXCEPT ![job[j].at] = @ + 1]
                 /\ shown'[j] = shown[j]
                 /\ job'[j] = NextEvent(job[j])
Completes(j)  == /\ Active(j) /\ job[j].at \notin DOMAIN Batch[j] /\ Same(j)
                 /\ job'[j] = [job[j] EXCEPT !.state = "completed"]
Throws(j)     == /\ Active(j) /\ Same(j)
                 /\ \E s \in {"waiting", "failed"} :
                        /\ job'[j] = [job[j] EXCEPT !.made = @ + 1, !.state = s]
                        /\ s = "waiting" => job[j].made + 1 < Attempts
IsStalled(j)  == /\ Active(j) /\ Same(j) /\ job[j].stalls < MaxStalls
                 /\ job'[j] = [job[j] EXCEPT !.state = "waiting", !.stalls = @ + 1]
IsGivenUp(j)  == /\ Active(j) /\ Same(j)
                 /\ job'[j] = [job[j] EXCEPT !.state = "failed"]

Moves(j) == \/ Stays(j) \/ IsQueued(j) \/ IsTaken(j) \/ Skips(j) \/ Selects(j)
            \/ IsShown(j) \/ Converts(j) \/ Completes(j) \/ Throws(j)
            \/ IsStalled(j) \/ IsGivenUp(j)

\* The step of job k, or a step of all jobs, is a move of each job.
LEMMA JobStepMoves ==
    ASSUME TypeInv, NEW k \in Job, Enqueue(k) \/ JobStep(k) \/ JobThrows(k)
    PROVE  /\ job' = [j \in Job |-> job'[j]] /\ DOMAIN shown' = Job /\ DOMAIN converted' = Job
           /\ \A j \in Job : Moves(j)
<1>1. /\ job' = [j \in Job |-> job'[j]]
      /\ \A j \in Job : j # k => Stays(j)
      /\ DOMAIN shown' = Job /\ DOMAIN converted' = Job
  BY DEF TypeInv, TypeOK, Stays, Same, counts, Enqueue, JobStep, JobThrows, Take,
     SelectExperiment, SelectVariants, InsertImpression, InsertConversion, Complete
<1> USE DEF TypeInv, TypeOK, Same, counts
<1>2. CASE Enqueue(k)
  <2>1. IsQueued(k)
    BY <1>2 DEF Enqueue, IsQueued
  <2> QED
    BY <1>1, <2>1 DEF Moves
<1>3. CASE Take(k)
  <2>1. IsTaken(k)
    BY <1>3 DEF Take, IsTaken
  <2> QED
    BY <1>1, <2>1 DEF Moves
<1>4. CASE SelectExperiment(k)
  <2>1. CASE Current(k).on # None /\ status[Current(k).on] = "running"
    <3>1. Selects(k)
      BY <1>4, <2>1 DEF SelectExperiment, Working, Selects
    <3> QED
      BY <1>1, <3>1 DEF Moves
  <2>2. CASE ~(Current(k).on # None /\ status[Current(k).on] = "running")
    <3>1. Skips(k)
      BY <1>4, <2>2 DEF SelectExperiment, Working, Skips, PassesOver
    <3> QED
      BY <1>1, <3>1 DEF Moves
  <2> QED
    BY <2>1, <2>2
<1>5. CASE SelectVariants(k)
  <2>1. CASE Current(k).on \in variants
    <3>1. Selects(k)
      BY <1>5, <2>1 DEF SelectVariants, Working, Selects
    <3> QED
      BY <1>1, <3>1 DEF Moves
  <2>2. CASE Current(k).on \notin variants
    <3>1. Skips(k)
      BY <1>5, <2>2 DEF SelectVariants, Working, Skips, PassesOver
    <3> QED
      BY <1>1, <3>1 DEF Moves
  <2> QED
    BY <2>1, <2>2
<1>6. CASE InsertImpression(k)
  <2>1. IsShown(k)
    BY <1>6 DEF InsertImpression, Working, IsShown
  <2> QED
    BY <1>1, <2>1 DEF Moves
<1>7. CASE InsertConversion(k)
  <2>1. Converts(k)
    BY <1>7 DEF InsertConversion, Working, Converts
  <2> QED
    BY <1>1, <2>1 DEF Moves
<1>8. CASE Complete(k)
  <2>1. Completes(k)
    BY <1>8 DEF Complete, Completes
  <2> QED
    BY <1>1, <2>1 DEF Moves
<1>9. CASE JobThrows(k)
  <2>1. Throws(k)
    BY <1>9, BoundAssumption DEF JobThrows, Throws, JobState
  <2> QED
    BY <1>1, <2>1 DEF Moves
<1> QED
  BY <1>2, <1>3, <1>4, <1>5, <1>6, <1>7, <1>8, <1>9 DEF JobStep

LEMMA JobsMove ==
    ASSUME TypeInv, [Next]_vars
    PROVE  /\ job' = [j \in Job |-> job'[j]] /\ DOMAIN shown' = Job /\ DOMAIN converted' = Job
           /\ \A j \in Job : Moves(j)
<1>1. CASE \E k \in Job : Enqueue(k) \/ JobStep(k) \/ JobThrows(k)
  BY <1>1, JobStepMoves
<1>2. CASE WorkerDies
  BY <1>2 DEF WorkerDies, TypeInv, TypeOK, Moves, Stays, IsStalled, IsGivenUp, Same,
     counts, Active
<1>3. CASE UNCHANGED <<job, shown, converted>>
  BY <1>3 DEF TypeInv, TypeOK, Moves, Stays, Same
<1>4. ASSUME NEW r \in Request, Step(r) \/ Fail(r) \/ \E c \in Command : Begin(r, c)
      PROVE  UNCHANGED <<job, shown, converted>>
  BY <1>4 DEF Step, Fail, Begin, CheckKey, InsertExperiment, InsertVariants,
     ReadExperiment, WriteStatus, Audit, counts
<1>5. ASSUME Tick \/ AggStart \/ AggDone \/ \E e \in Experiment : Aggregate(e)
      PROVE  UNCHANGED <<job, shown, converted>>
  BY <1>5 DEF Tick, AggStart, AggDone, Aggregate, counts
<1>6. CASE UNCHANGED vars
  BY <1>3, <1>6 DEF vars
<1> QED
  BY <1>1, <1>2, <1>3, <1>4, <1>5, <1>6 DEF Next

LEMMA NextEventType ==
    ASSUME NEW J \in JobState
    PROVE  NextEvent(J) \in JobState /\ NextEvent(J).at = J.at + 1
           /\ NextEvent(J).step = "select" /\ NextEvent(J).state = J.state
           /\ NextEvent(J).made = J.made /\ NextEvent(J).stalls = J.stalls
<1> DEFINE next == J.at + 1
<1>1. next \in Nat \ {0}
  BY DEF JobState
<1> HIDE DEF next
<1>2. [J EXCEPT !.at = next, !.step = "select"] \in JobState
  BY <1>1 DEF JobState
<1>3. NextEvent(J) = [J EXCEPT !.at = next, !.step = "select"]
  BY DEF NextEvent, next
<1> QED
  BY <1>2, <1>3 DEF JobState, next

\* Every step keeps the types.
LEMMA JobTypes ==
    ASSUME TypeInv, [Next]_vars
    PROVE  \A j \in Job :
               /\ job'[j] \in JobState
               /\ shown'[j] \in [DOMAIN Batch[j] -> Nat]
               /\ converted'[j] \in [DOMAIN Batch[j] -> Nat]
               /\ job'[j].state \in {"new", "waiting", "active"} => job'[j].made < Attempts
<1> SUFFICES ASSUME NEW j \in Job
             PROVE  /\ job'[j] \in JobState
                    /\ shown'[j] \in [DOMAIN Batch[j] -> Nat]
                    /\ converted'[j] \in [DOMAIN Batch[j] -> Nat]
                    /\ job'[j].state \in {"new", "waiting", "active"}
                           => job'[j].made < Attempts
  OBVIOUS
<1>1. Moves(j)
  BY JobsMove
<1>2. /\ job[j] \in JobState
      /\ shown[j] \in [DOMAIN Batch[j] -> Nat]
      /\ converted[j] \in [DOMAIN Batch[j] -> Nat]
      /\ job[j].state \in {"new", "waiting", "active"} => job[j].made < Attempts
  BY DEF TypeInv, TypeOK
<1>3. CASE Stays(j) \/ IsQueued(j) \/ IsTaken(j) \/ Selects(j)
  BY <1>2, <1>3, 1 \in Nat \ {0} DEF Stays, IsQueued, IsTaken, Selects, Same, JobState
<1>4. CASE Skips(j)
  BY <1>2, <1>4, NextEventType DEF Skips, Same
<1>5. CASE IsShown(j)
  <2>1. [job[j] EXCEPT !.step = "conversion"] \in JobState
    BY <1>2 DEF JobState
  <2>2. job'[j] \in JobState /\ job'[j].made = job[j].made /\ job'[j].state = job[j].state
    BY <1>2, <1>5, <2>1, NextEventType DEF IsShown, JobState
  <2> QED
    BY <1>2, <1>5, <2>2 DEF IsShown, Working
<1>6. CASE Converts(j)
  BY <1>2, <1>6, NextEventType DEF Converts, Working
<1>7. CASE Throws(j)
  <2> DEFINE made == job[j].made + 1
  <2>1. job[j].made < Attempts
    BY <1>2, <1>7 DEF Throws, Active
  <2>2. made \in 0..Attempts
    BY <1>2, <2>1, BoundAssumption DEF JobState
  <2>3. PICK s \in {"waiting", "failed"} :
            /\ job'[j] = [job[j] EXCEPT !.made = made, !.state = s]
            /\ s = "waiting" => made < Attempts
    BY <1>7 DEF Throws
  <2> HIDE DEF made
  <2>4. job'[j] \in JobState /\ job'[j].made = made /\ job'[j].state = s
    BY <1>2, <2>2, <2>3 DEF JobState
  <2> QED
    BY <1>2, <1>7, <2>3, <2>4 DEF Throws, Same
<1>8. CASE IsStalled(j)
  <2> DEFINE stalls == job[j].stalls + 1
  <2>1. stalls \in 0..MaxStalls
    BY <1>2, <1>8, BoundAssumption DEF IsStalled, JobState
  <2>2. job'[j] = [job[j] EXCEPT !.state = "waiting", !.stalls = stalls]
    BY <1>8 DEF IsStalled
  <2> HIDE DEF stalls
  <2>3. job'[j] \in JobState /\ job'[j].made = job[j].made
    BY <1>2, <2>1, <2>2 DEF JobState
  <2> QED
    BY <1>2, <1>8, <2>3 DEF IsStalled, Active, Same
<1>9. CASE Completes(j) \/ IsGivenUp(j)
  BY <1>2, <1>9 DEF Completes, IsGivenUp, Same, JobState
<1> QED
  BY <1>1, <1>3, <1>4, <1>5, <1>6, <1>7, <1>8, <1>9 DEF Moves

LEMMA RequestTypes ==
    ASSUME TypeInv, [Next]_vars
    PROVE  /\ status' \in [Experiment -> Status]
           /\ winner' \in [Experiment -> Variant \union {None}]
           /\ variants' \subseteq Experiment
           /\ pc' \in [Request -> {"idle", "check", "insert", "variants", "read", "write",
                                  "audit", "ok", "rejected", "error"}]
           /\ cmd' \in [Request -> Command \union {None}]
           /\ found' \in [Request -> Status]
           /\ \A r \in Request : Position(r)'
<1> USE DEF TypeInv, TypeOK, Position
<1>c. \A c \in Command : /\ c.on \in Experiment /\ c.winner \in Variant \union {None}
                         /\ c.type \in {"create", "launch", "pause", "stop"}
  BY CommandAssumption DEF Commands
<1>1. CASE UNCHANGED <<tables, requests>>
  BY <1>1 DEF tables, requests
<1>2. ASSUME NEW r \in Request, NEW c \in Command, Begin(r, c)
      PROVE  UNCHANGED <<tables, found>>
             /\ cmd' = [cmd EXCEPT ![r] = c]
             /\ pc' = [pc EXCEPT ![r] = IF c.type = "create" THEN "check" ELSE "read"]
  BY <1>2 DEF Begin, Goto
<1>3. CASE \E r \in Request, c \in Command : Begin(r, c)
  <2>1. PICK r \in Request, c \in Command : Begin(r, c)
    BY <1>3
  <2>2. /\ c.type \in {"create", "launch", "pause", "stop"}
        /\ UNCHANGED <<status, winner, variants, found>>
        /\ cmd' = [cmd EXCEPT ![r] = c]
        /\ pc' = [pc EXCEPT ![r] = IF c.type = "create" THEN "check" ELSE "read"]
    BY <1>2, <1>c, <2>1 DEF tables
  <2>3. Position(r)'
    BY <2>2
  <2>4. ASSUME NEW s \in Request, s # r PROVE Position(s)'
    BY <2>2, <2>4
  <2>5. pc' \in [Request -> {"idle", "check", "insert", "variants", "read", "write",
                           "audit", "ok", "rejected", "error"}]
        /\ cmd' \in [Request -> Command \union {None}]
    BY <2>2
  <2>6. \A s \in Request : Position(s)'
    BY <2>3, <2>4, Zenon
  <2> QED
    BY <2>2, <2>5, <2>6
<1>4. ASSUME NEW r \in Request, CheckKey(r) \/ Audit(r) \/ Fail(r)
      PROVE  /\ UNCHANGED <<tables, cmd, found>>
             /\ \E l \in {"insert", "rejected", "ok", "error"} :
                    /\ pc' = [pc EXCEPT ![r] = l]
                    /\ l = "insert" => pc[r] = "check"
  BY <1>4 DEF CheckKey, Audit, Fail, Goto
<1>5. CASE \E r \in Request : CheckKey(r) \/ Audit(r) \/ Fail(r)
  <2>1. PICK r \in Request : CheckKey(r) \/ Audit(r) \/ Fail(r)
    BY <1>5
  <2>2. pc[r] # "idle"
    BY <2>1 DEF CheckKey, Audit, Fail
  <2>3. PICK l \in {"insert", "rejected", "ok", "error"} :
            pc' = [pc EXCEPT ![r] = l] /\ (l = "insert" => pc[r] = "check")
    BY <1>4, <2>1
  <2>4. UNCHANGED <<status, winner, variants, cmd, found>>
    BY <1>4, <2>1 DEF tables
  <2>5. Position(r)' /\ \A q \in Request \ {r} : Position(q)'
    <3>1. pc'[r] = l /\ \A q \in Request \ {r} : pc'[q] = pc[q]
      BY <2>3
    <3> QED
      BY <2>2, <2>3, <2>4, <3>1
  <2> QED
    BY <2>3, <2>4, <2>5
<1>6. ASSUME NEW r \in Request, InsertExperiment(r)
      PROVE  /\ UNCHANGED <<winner, variants, cmd, found>>
             /\ pc[r] = "insert"
             /\ pc' \in {[pc EXCEPT ![r] = "variants"], [pc EXCEPT ![r] = "error"]}
             /\ status' \in {status, [status EXCEPT ![cmd[r].on] = "draft"]}
  BY <1>6 DEF InsertExperiment, Goto
<1>7. CASE \E r \in Request : InsertExperiment(r)
  BY <1>6, <1>7 DEF Status
<1>8. ASSUME NEW r \in Request, InsertVariants(r)
      PROVE  /\ UNCHANGED <<status, winner, cmd, found>>
             /\ pc[r] = "variants"
             /\ pc' = [pc EXCEPT ![r] = "audit"]
             /\ variants' = variants \union {cmd[r].on}
  BY <1>8 DEF InsertVariants, Goto
<1>9. CASE \E r \in Request : InsertVariants(r)
  BY <1>8, <1>9, <1>c
<1>10. ASSUME NEW r \in Request, ReadExperiment(r)
       PROVE  /\ UNCHANGED <<tables, cmd>>
              /\ pc[r] = "read"
              /\ pc' \in {[pc EXCEPT ![r] = "write"], [pc EXCEPT ![r] = "rejected"]}
              /\ found' \in {found, [found EXCEPT ![r] = status[cmd[r].on]]}
  BY <1>10 DEF ReadExperiment, Goto
<1>11. CASE \E r \in Request : ReadExperiment(r)
  <2>1. PICK r \in Request : ReadExperiment(r)
    BY <1>11
  <2>2. /\ UNCHANGED <<status, winner, variants, cmd>> /\ pc[r] = "read"
        /\ pc' \in {[pc EXCEPT ![r] = "write"], [pc EXCEPT ![r] = "rejected"]}
    BY <1>10, <2>1 DEF tables
  <2>3. cmd[r] \in Command
    BY <2>2
  <2>4. found' \in [Request -> Status]
    BY <1>10, <1>c, <2>1, <2>3
  <2>5. \A s \in Request : Position(s)'
    BY <2>2
  <2> QED
    BY <2>2, <2>4, <2>5
<1>12. ASSUME NEW r \in Request, WriteStatus(r)
       PROVE  /\ UNCHANGED <<variants, cmd>>
              /\ pc[r] = "write"
              /\ pc' = [pc EXCEPT ![r] = "audit"]
              /\ status' = [status EXCEPT ![cmd[r].on] = Outcome(cmd[r].type)]
              /\ winner' \in {winner, [winner EXCEPT ![cmd[r].on] = cmd[r].winner]}
              /\ found' = [found EXCEPT ![r] = "absent"]
  BY <1>12 DEF WriteStatus, Goto
<1>13. \A type \in {"launch", "pause", "stop"} : Outcome(type) \in Status
  BY DEF Outcome, Status
<1>14. CASE \E r \in Request : WriteStatus(r)
  BY <1>12, <1>13, <1>14, <1>c DEF Status
<1>15. CASE \E j \in Job : Enqueue(j) \/ JobStep(j) \/ JobThrows(j)
  BY <1>1, <1>15 DEF Enqueue, JobStep, JobThrows, Take, SelectExperiment, SelectVariants,
     InsertImpression, InsertConversion, Complete
<1>16. CASE WorkerDies \/ Tick \/ AggStart \/ AggDone \/ \E e \in Experiment : Aggregate(e)
  BY <1>1, <1>16 DEF WorkerDies, Tick, AggStart, AggDone, Aggregate
<1>17. CASE UNCHANGED vars
  BY <1>1, <1>17 DEF vars, tables, requests
<1> QED
  BY <1>3, <1>5, <1>7, <1>9, <1>11, <1>14, <1>15, <1>16, <1>17 DEF Next, Step

LEMMA AggregationTypes ==
    ASSUME TypeInv, [Next]_vars
    PROVE  /\ agg' \in [state : {"idle", "waiting", "active", "completed", "failed"},
                        made : 0..Attempts, todo : SUBSET Experiment]
           /\ agg'.state \in {"idle", "waiting", "active"} => agg'.made < Attempts
<1> USE DEF TypeInv, TypeOK
<1>1. CASE Tick \/ AggDone
  <2>1. CASE Tick
    <3>1. PICK tries \in {1, Attempts} :
              agg' = [agg EXCEPT !.state = "waiting", !.made = Attempts - tries]
      BY <2>1 DEF Tick
    <3>2. Attempts - tries \in 0..Attempts /\ Attempts - tries < Attempts
      BY BoundAssumption
    <3> QED
      BY <3>1, <3>2
  <2> QED
    BY <1>1, <2>1 DEF AggDone
<1>2. CASE AggStart
  BY <1>2 DEF AggStart
<1>3. CASE AggThrows /\ agg.state = "active"
  <2> DEFINE made == agg.made + 1
             state == IF made < Attempts THEN "waiting" ELSE "failed"
  <2>1. made \in 0..Attempts /\ (state = "waiting" => made < Attempts)
        /\ state \in {"waiting", "failed"}
    BY <1>3, BoundAssumption
  <2>2. agg' = [agg EXCEPT !.made = made, !.state = state]
    BY <1>3 DEF AggThrows
  <2> HIDE DEF made, state
  <2> QED
    BY <2>1, <2>2
<1>4. CASE \E e \in Experiment : Aggregate(e)
  BY <1>3, <1>4 DEF Aggregate
<1>5. CASE UNCHANGED agg
  BY <1>5
<1>6. ASSUME NEW r \in Request, Step(r) \/ Fail(r) \/ \E c \in Command : Begin(r, c)
      PROVE  UNCHANGED agg
  BY <1>6 DEF Step, Fail, Begin, CheckKey, InsertExperiment, InsertVariants,
     ReadExperiment, WriteStatus, Audit
<1>7. ASSUME NEW j \in Job, Enqueue(j) \/ JobStep(j) \/ JobThrows(j)
      PROVE  UNCHANGED agg
  BY <1>7 DEF Enqueue, JobStep, JobThrows, Take, SelectExperiment, SelectVariants,
     InsertImpression, InsertConversion, Complete
<1>8. CASE WorkerDies \/ UNCHANGED vars
  BY <1>8 DEF WorkerDies, vars
<1> QED
  BY <1>1, <1>2, <1>4, <1>5, <1>6, <1>7, <1>8 DEF Next

LEMMA TypeInvariant == Spec => []TypeInv
<1>1. Init => TypeInv
  <2> SUFFICES ASSUME Init PROVE TypeInv
    OBVIOUS
  <2>1. 0 \in 0..Attempts /\ 0 \in 0..MaxStalls /\ 0 < Attempts /\ 1 \in Nat \ {0}
    BY BoundAssumption
  <2>2. job \in [Job -> JobState]
    BY <2>1 DEF Init, JobState
  <2>3. TypeOK
    BY <2>1, <2>2, SeedAssumption DEF Init, TypeOK, Zero, Status
  <2> QED
    BY <2>1, <2>3 DEF Init, TypeInv, Position
<1>2. TypeInv /\ [Next]_vars => TypeInv'
  <2> SUFFICES ASSUME TypeInv, [Next]_vars PROVE TypeInv'
    OBVIOUS
  <2>1. job' \in [Job -> JobState]
    BY JobsMove, JobTypes
  <2>2. TypeOK'
    BY <2>1, JobTypes, RequestTypes, AggregationTypes DEF TypeOK
  <2> QED
    BY <2>2, JobsMove, JobTypes, RequestTypes, AggregationTypes DEF TypeInv
<1> QED
  BY <1>1, <1>2, PTL DEF Spec

\* Every state is well typed (experiments.service.ts, worker.ts, queues.ts).
THEOREM TypeCorrect == Spec => []TypeOK
<1>1. TypeInv => TypeOK
  BY DEF TypeInv
<1> QED
  BY <1>1, TypeInvariant, PTL

-----------------------------------------------------------------------------
(* Counts.  Past(j, i): this attempt has counted the impression of event i, *)
(* or has passed it over.                                                  *)

Past(j, i) == i < job[j].at \/ (i = job[j].at /\ job[j].step = "conversion")

Tries(j) == job[j].made + job[j].stalls

CountInv ==
    \A j \in Job : \A i \in DOMAIN Batch[j] :
        /\ converted[j][i] <= shown[j][i]
        /\ i = job[j].at /\ job[j].step = "conversion" => converted[j][i] < shown[j][i]
        /\ shown[j][i] <= Tries(j) + 1
        /\ job[j].state \in {"new", "waiting"} => shown[j][i] <= Tries(j)
        /\ Active(j) /\ ~Past(j, i) => shown[j][i] <= Tries(j)

LEMMA CountStep ==
    ASSUME TypeInv, CountInv, [Next]_vars
    PROVE  CountInv'
<1> SUFFICES ASSUME NEW j \in Job, NEW i \in DOMAIN Batch[j]
             PROVE  /\ converted'[j][i] <= shown'[j][i]
                    /\ i = job'[j].at /\ job'[j].step = "conversion"
                           => converted'[j][i] < shown'[j][i]
                    /\ shown'[j][i] <= Tries(j)' + 1
                    /\ job'[j].state \in {"new", "waiting"} => shown'[j][i] <= Tries(j)'
                    /\ Active(j)' /\ ~Past(j, i)' => shown'[j][i] <= Tries(j)'
  BY DEF CountInv
<1>1. Moves(j)
  BY JobsMove
<1>2. /\ job[j] \in JobState /\ job[j].at \in Nat /\ job[j].made \in Nat
      /\ job[j].stalls \in Nat /\ i \in Nat
      /\ shown[j] \in [DOMAIN Batch[j] -> Nat]
      /\ converted[j] \in [DOMAIN Batch[j] -> Nat]
  BY BoundAssumption, BatchAssumption DEF TypeInv, TypeOK, JobState
<1>3. /\ converted[j][i] <= shown[j][i]
      /\ i = job[j].at /\ job[j].step = "conversion" => converted[j][i] < shown[j][i]
      /\ shown[j][i] <= Tries(j) + 1
      /\ job[j].state \in {"new", "waiting"} => shown[j][i] <= Tries(j)
      /\ Active(j) /\ ~Past(j, i) => shown[j][i] <= Tries(j)
  BY DEF CountInv
<1> USE DEF Tries, Active, Past
<1>4. CASE Stays(j) \/ IsQueued(j) \/ IsTaken(j)
  BY <1>2, <1>3, <1>4 DEF Stays, IsQueued, IsTaken, Same, JobState
<1>5. CASE Selects(j)
  BY <1>2, <1>3, <1>5 DEF Selects, Same, JobState
<1>6. CASE Skips(j)
  BY <1>2, <1>3, <1>6, NextEventType DEF Skips, PassesOver, Same
<1>7. CASE IsShown(j)
  BY <1>2, <1>3, <1>7, NextEventType DEF IsShown, Working, JobState
<1>8. CASE Converts(j)
  BY <1>2, <1>3, <1>8, NextEventType DEF Converts, Working
<1>9. CASE Throws(j)
  BY <1>2, <1>3, <1>9 DEF Throws, Same, JobState
<1>10. CASE IsStalled(j)
  BY <1>2, <1>3, <1>10 DEF IsStalled, Same, JobState
<1>11. CASE Completes(j) \/ IsGivenUp(j)
  BY <1>2, <1>3, <1>11 DEF Completes, IsGivenUp, Same, JobState
<1> QED
  BY <1>1, <1>4, <1>5, <1>6, <1>7, <1>8, <1>9, <1>10, <1>11 DEF Moves

LEMMA CountInvariant == Spec => []CountInv
<1>1. Init => CountInv
  BY BoundAssumption DEF Init, CountInv, Zero, Tries, Active, Past
<1> QED
  BY <1>1, CountStep, TypeInvariant, PTL DEF Spec

\* No conversion is counted without its impression (worker.ts:63-79).
THEOREM ConversionsAreShown == Spec => []ConversionsHaveImpressions
<1>1. CountInv => ConversionsHaveImpressions
  BY DEF CountInv, ConversionsHaveImpressions
<1> QED
  BY <1>1, CountInvariant, PTL

\* An event is counted once per attempt or restart at most (worker.ts:26-83).
THEOREM RetriesAreBounded == Spec => []CountsAreBounded
<1>1. CountInv => CountsAreBounded
  BY DEF CountInv, CountsAreBounded, Tries
<1> QED
  BY <1>1, CountInvariant, PTL

-----------------------------------------------------------------------------
(* Lifecycles.  What a request is about to write, it may write to what it  *)
(* has read.                                                               *)

CreateUnderWay(e) ==
    \E r \in Request : /\ cmd[r] # None /\ cmd[r].type = "create"
                       /\ cmd[r].on = e
                       /\ pc[r] \in {"variants", "error"}

LifeInv ==
    /\ \A r \in Request : pc[r] = "write" => /\ Allowed(cmd[r].type, found[r])
                                            /\ status[cmd[r].on] # "absent"
    /\ \A e \in Experiment : /\ status[e] # "absent" /\ e \notin variants => CreateUnderWay(e)
                             /\ AlwaysRunning(e) => status[e] = "running" /\ e \in variants

\* A request that goes on leaves the others as they are.
LEMMA OthersStay ==
    ASSUME TypeInv, NEW r \in Request, Step(r) \/ Fail(r) \/ \E c \in Command : Begin(r, c)
    PROVE  \A s \in Request : s # r =>
               pc'[s] = pc[s] /\ cmd'[s] = cmd[s] /\ found'[s] = found[s]
BY DEF TypeInv, TypeOK, Step, Fail, Begin, CheckKey, InsertExperiment, InsertVariants,
   ReadExperiment, WriteStatus, Audit, Goto, requests

LEMMA CommandType ==
    \A c \in Command : /\ c.on \in Experiment /\ c # None
                       /\ c.type \in {"create", "launch", "pause", "stop"}
BY CommandAssumption, NoneAssumption DEF Commands

RequestGoes(r) == Step(r) \/ Fail(r) \/ \E c \in Command : Begin(r, c)

\* The worker, the hourly job and a stutter leave requests and tables alone.
LEMMA OthersLeaveRequests ==
    ASSUME [Next]_vars, \A r \in Request : ~RequestGoes(r)
    PROVE  UNCHANGED <<tables, requests>>
<1>1. CASE \E j \in Job : Enqueue(j) \/ JobStep(j) \/ JobThrows(j)
  BY <1>1 DEF Enqueue, JobStep, JobThrows, Take, SelectExperiment, SelectVariants,
     InsertImpression, InsertConversion, Complete
<1>2. CASE WorkerDies \/ Tick \/ AggStart \/ AggDone \/ \E e \in Experiment : Aggregate(e)
  BY <1>2 DEF WorkerDies, Tick, AggStart, AggDone, Aggregate
<1>3. CASE UNCHANGED vars
  BY <1>3 DEF vars, tables, requests
<1> QED
  BY <1>1, <1>2, <1>3 DEF Next, RequestGoes

\* An experiment that is there stays there, and so do its variants.
LEMMA TablesGrow ==
    ASSUME TypeInv, NEW r \in Request, RequestGoes(r)
    PROVE  /\ variants \subseteq variants'
           /\ \A e \in Experiment : status[e] # "absent" => status'[e] # "absent"
<1>1. CASE WriteStatus(r)
  <2>1. Outcome(cmd[r].type) \in {"running", "paused", "stopped"}
    BY <1>1 DEF WriteStatus, TypeInv, Position, Outcome
  <2> QED
    BY <1>1, <2>1 DEF WriteStatus, TypeInv, TypeOK
<1>2. CASE InsertExperiment(r)
  BY <1>2 DEF InsertExperiment, TypeInv, TypeOK
<1>3. CASE InsertVariants(r)
  BY <1>3 DEF InsertVariants
<1>4. CASE CheckKey(r) \/ ReadExperiment(r) \/ Audit(r) \/ Fail(r) \/ \E c \in Command : Begin(r, c)
  BY <1>4 DEF CheckKey, ReadExperiment, Audit, Fail, Begin, tables
<1> QED
  BY <1>1, <1>2, <1>3, <1>4 DEF RequestGoes, Step

\* Once a request has written an experiment, it always has.
LEMMA AlwaysBefore ==
    ASSUME TypeInv, NEW r \in Request, RequestGoes(r),
           NEW e \in Experiment, AlwaysRunning(e)'
    PROVE  AlwaysRunning(e)
<1> SUFFICES ASSUME NEW s \in Request, cmd[s] # None, cmd[s].on = e,
                    pc[s] \in {"audit", "ok", "error"}
             PROVE  FALSE
  BY DEF AlwaysRunning
<1>1. CASE s # r
  BY <1>1, OthersStay DEF AlwaysRunning, RequestGoes
<1>2. CASE s = r
  BY <1>2 DEF AlwaysRunning, RequestGoes, Step, Fail, Begin, CheckKey, InsertExperiment,
     InsertVariants, ReadExperiment, WriteStatus, Audit, Goto, TypeInv, TypeOK
<1> QED
  BY <1>1, <1>2

LEMMA WritesAreAllowed ==
    ASSUME TypeInv, LifeInv, NEW r \in Request, RequestGoes(r),
           NEW s \in Request, pc'[s] = "write"
    PROVE  Allowed(cmd'[s].type, found'[s]) /\ status'[cmd'[s].on] # "absent"
<1>1. CASE s # r
  <2>1. pc[s] = "write" /\ cmd'[s] = cmd[s] /\ found'[s] = found[s]
    BY <1>1, OthersStay DEF RequestGoes
  <2>2. cmd[s].on \in Experiment
    BY <2>1, CommandType DEF TypeInv, Position
  <2> QED
    BY <2>1, <2>2, TablesGrow DEF LifeInv
<1>2. CASE s = r
  <2>1. ReadExperiment(r)
    BY <1>2 DEF RequestGoes, Step, Fail, Begin, CheckKey, InsertExperiment,
       InsertVariants, WriteStatus, Audit, Goto, TypeInv, TypeOK
  <2> QED
    BY <1>2, <2>1 DEF ReadExperiment, Goto, tables, TypeInv, TypeOK
<1> QED
  BY <1>1, <1>2

LEMMA VariantsFollow ==
    ASSUME TypeInv, LifeInv, NEW r \in Request, RequestGoes(r),
           NEW e \in Experiment, status'[e] # "absent", e \notin variants'
    PROVE  CreateUnderWay(e)'
<1>1. CASE status[e] = "absent"
  <2>1. CASE WriteStatus(r)
    <3>1. cmd[r].on # e
      BY <1>1, <2>1 DEF WriteStatus, LifeInv
    <3> QED
      BY <1>1, <2>1, <3>1 DEF WriteStatus, TypeInv, TypeOK
  <2>2. CASE InsertExperiment(r)
    <3>1. cmd[r].on = e /\ pc'[r] = "variants" /\ cmd' = cmd /\ pc[r] = "insert"
      BY <1>1, <2>2 DEF InsertExperiment, Goto, TypeInv, TypeOK
    <3>2. cmd[r] # None /\ cmd[r].type = "create"
      BY <3>1, CommandType DEF TypeInv, Position
    <3> QED
      BY <3>1, <3>2 DEF CreateUnderWay
  <2>3. CASE UNCHANGED status
    BY <1>1, <2>3
  <2> QED
    BY <2>1, <2>2, <2>3 DEF RequestGoes, Step, CheckKey, ReadExperiment, InsertVariants,
       Audit, Fail, Begin, tables
<1>2. CASE status[e] # "absent"
  <2>1. e \notin variants
    BY TablesGrow
  <2>2. PICK s \in Request : /\ cmd[s] # None /\ cmd[s].type = "create"
                             /\ cmd[s].on = e /\ pc[s] \in {"variants", "error"}
    BY <1>2, <2>1 DEF LifeInv, CreateUnderWay
  <2>3. CASE s # r
    BY <2>2, <2>3, OthersStay DEF RequestGoes, CreateUnderWay
  <2>4. CASE s = r
    <3>1. InsertVariants(r) \/ Fail(r)
      BY <2>2, <2>4 DEF RequestGoes, Step, Begin, CheckKey, InsertExperiment,
         ReadExperiment, WriteStatus, Audit
    <3>2. Fail(r)
      BY <2>2, <2>4, <3>1 DEF InsertVariants
    <3> QED
      BY <2>2, <2>4, <3>2 DEF Fail, Goto, CreateUnderWay, TypeInv, TypeOK
  <2> QED
    BY <2>3, <2>4
<1> QED
  BY <1>1, <1>2

LEMMA RunningStays ==
    ASSUME TypeInv, LifeInv, NEW r \in Request, RequestGoes(r),
           NEW e \in Experiment, AlwaysRunning(e)'
    PROVE  status'[e] = "running" /\ e \in variants'
<1>1. status[e] = "running" /\ e \in variants
  BY AlwaysBefore DEF LifeInv
<1>2. e \in variants'
  BY <1>1, TablesGrow
<1>3. CASE WriteStatus(r)
  <2>1. cmd[r] # None /\ cmd'[r] = cmd[r] /\ pc'[r] = "audit"
    BY <1>3, CommandType DEF WriteStatus, Goto, TypeInv, TypeOK, Position
  <2>2. cmd[r].on # e
    BY <2>1 DEF AlwaysRunning
  <2> QED
    BY <1>1, <1>2, <1>3, <2>2 DEF WriteStatus, TypeInv, TypeOK
<1>4. CASE InsertExperiment(r)
  BY <1>1, <1>2, <1>4 DEF InsertExperiment, TypeInv, TypeOK
<1>5. CASE UNCHANGED status
  BY <1>1, <1>2, <1>5
<1> QED
  BY <1>3, <1>4, <1>5 DEF RequestGoes, Step, CheckKey, ReadExperiment, InsertVariants,
     Audit, Fail, Begin, tables

LEMMA LifeInvariant == Spec => []LifeInv
<1>1. Init => LifeInv
  BY SeedAssumption DEF Init, LifeInv, AlwaysRunning
<1>2. TypeInv /\ LifeInv /\ [Next]_vars => LifeInv'
  <2> SUFFICES ASSUME TypeInv, LifeInv, [Next]_vars PROVE LifeInv'
    OBVIOUS
  <2>1. CASE \E r \in Request : RequestGoes(r)
    <3>1. PICK r \in Request : RequestGoes(r)
      BY <2>1
    <3>2. \A s \in Request : pc'[s] = "write" =>
              Allowed(cmd'[s].type, found'[s]) /\ status'[cmd'[s].on] # "absent"
      BY <3>1, WritesAreAllowed
    <3>3. \A e \in Experiment :
              status'[e] # "absent" /\ e \notin variants' => CreateUnderWay(e)'
      BY <3>1, VariantsFollow
    <3>4. \A e \in Experiment :
              AlwaysRunning(e)' => status'[e] = "running" /\ e \in variants'
      BY <3>1, RunningStays
    <3> QED
      BY <3>2, <3>3, <3>4 DEF LifeInv
  <2>2. CASE \A r \in Request : ~RequestGoes(r)
    <3>1. UNCHANGED <<tables, requests>>
      BY <2>2, OthersLeaveRequests
    <3> QED
      BY <3>1 DEF LifeInv, tables, requests, CreateUnderWay, AlwaysRunning
  <2> QED
    BY <2>1, <2>2
<1> QED
  BY <1>1, <1>2, TypeInvariant, PTL DEF Spec

\* An experiment runs without variants only when its create has not come to
\* insert them, or failed there (experiments.service.ts:59-101).
THEOREM MissingVariantsHaveACause == Spec => []RunningHasVariants
<1>1. LifeInv => RunningHasVariants
  BY DEF LifeInv, RunningHasVariants, CreateUnderWay
<1> QED
  BY <1>1, LifeInvariant, PTL

\* An experiment leaves `stopped' only for a launch or a pause that read it
\* before it was stopped (experiments.service.ts:94, 114).
THEOREM StoppedIsLeftByRaceOnly == Spec => StoppedLeftOnlyByRace
<1>1. ASSUME TypeInv, LifeInv, [Next]_vars,
             NEW e \in Experiment, status[e] = "stopped", status'[e] # "stopped"
      PROVE  \E r \in Request : /\ pc[r] = "write" /\ cmd[r].on = e
                                /\ cmd[r].type \in {"launch", "pause"}
                                /\ found[r] # "stopped"
  <2>1. PICK r \in Request : RequestGoes(r)
    BY <1>1, OthersLeaveRequests DEF tables
  <2>2. WriteStatus(r)
    BY <1>1, <2>1 DEF RequestGoes, Step, CheckKey, InsertExperiment, ReadExperiment,
       InsertVariants, Audit, Fail, Begin, tables, TypeInv, TypeOK
  <2>3. pc[r] = "write" /\ cmd[r].on = e /\ Outcome(cmd[r].type) # "stopped"
    BY <1>1, <2>2 DEF WriteStatus, TypeInv, TypeOK
  <2>4. cmd[r].type \in {"launch", "pause"}
    BY <1>1, <2>3 DEF TypeInv, Position, Outcome
  <2>5. Allowed(cmd[r].type, found[r])
    BY <1>1, <2>3 DEF LifeInv
  <2> QED
    BY <2>3, <2>4, <2>5 DEF Allowed
<1>2. TypeInv /\ LifeInv /\ [Next]_vars =>
          [\A e \in Experiment : status[e] = "stopped" /\ status'[e] # "stopped" =>
               \E r \in Request : /\ pc[r] = "write" /\ cmd[r].on = e
                                  /\ cmd[r].type \in {"launch", "pause"}
                                  /\ found[r] # "stopped"]_status
  BY <1>1
<1> QED
  BY <1>2, TypeInvariant, LifeInvariant, PTL DEF Spec, StoppedLeftOnlyByRace

-----------------------------------------------------------------------------
(* What an attempt has come past, it has counted, if the experiment was    *)
(* running all the time; and it has come past the front of a batch before  *)
(* the rest.                                                               *)

Counts(j, i) == Batch[j][i].on # None /\ AlwaysRunning(Batch[j][i].on)

EventInv(j, i) ==
    /\ Past(j, i) => shown[j][i] >= 1
    /\ i < job[j].at /\ Batch[j][i].converts => converted[j][i] >= 1
    /\ \A k \in DOMAIN Batch[j] : i <= k =>
           /\ shown[j][k] <= shown[j][i]
           /\ Active(j) /\ Past(j, i) /\ ~Past(j, k) => shown[j][k] < shown[j][i]

OrderInv ==
    \A j \in Job :
        /\ job[j].state = "completed" => job[j].at \notin DOMAIN Batch[j]
        /\ \A i \in DOMAIN Batch[j] : Counts(j, i) => EventInv(j, i)

LEMMA EventType ==
    ASSUME NEW j \in Job, NEW i \in DOMAIN Batch[j], Batch[j][i].on # None
    PROVE  Batch[j][i].on \in Experiment
<1>1. Batch[j][i] \in Event
  BY BatchAssumption
<1> QED
  BY <1>1 DEF Event

LEMMA CompletedIsPast ==
    ASSUME TypeInv, OrderInv, [Next]_vars, NEW j \in Job, job'[j].state = "completed"
    PROVE  job'[j].at \notin DOMAIN Batch[j]
<1>1. job[j] \in JobState /\ Moves(j)
  BY JobsMove DEF TypeInv, TypeOK
<1>2. CASE Stays(j)
  BY <1>2 DEF Stays, OrderInv
<1>3. CASE Skips(j) \/ Converts(j)
  BY <1>1, <1>3, NextEventType DEF Skips, Converts, Working, Active
<1>4. CASE IsShown(j)
  BY <1>1, <1>4, NextEventType DEF IsShown, Working, Active, JobState
<1>5. CASE Throws(j)
  BY <1>1, <1>5 DEF Throws, JobState
<1>6. CASE Completes(j)
  BY <1>1, <1>6 DEF Completes, JobState
<1>7. CASE IsQueued(j) \/ IsTaken(j) \/ Selects(j) \/ IsStalled(j) \/ IsGivenUp(j)
  BY <1>1, <1>7 DEF IsQueued, IsTaken, Selects, IsStalled, IsGivenUp, Active, JobState
<1> QED
  BY <1>1, <1>2, <1>3, <1>4, <1>5, <1>6, <1>7 DEF Moves

\* What counts after a step counted before it.
LEMMA CountedBefore ==
    ASSUME TypeInv, [Next]_vars, NEW j \in Job, NEW i \in DOMAIN Batch[j], Counts(j, i)'
    PROVE  Counts(j, i)
<1>1. Batch[j][i].on # None /\ AlwaysRunning(Batch[j][i].on)'
  BY DEF Counts
<1>2. Batch[j][i].on \in Experiment
  BY <1>1, EventType
<1>3. CASE \E r \in Request : RequestGoes(r)
  BY <1>1, <1>2, <1>3, AlwaysBefore DEF Counts
<1>4. CASE \A r \in Request : ~RequestGoes(r)
  <2>1. UNCHANGED requests
    BY <1>4, OthersLeaveRequests
  <2> QED
    BY <1>1, <2>1 DEF Counts, AlwaysRunning, requests
<1> QED
  BY <1>3, <1>4

LEMMA EventStep ==
    ASSUME TypeInv, LifeInv, [Next]_vars, NEW j \in Job, NEW i \in DOMAIN Batch[j],
           Counts(j, i), EventInv(j, i)
    PROVE  EventInv(j, i)'
<1>1. /\ job[j] \in JobState /\ job[j].at \in Nat
      /\ shown[j] \in [DOMAIN Batch[j] -> Nat]
      /\ converted[j] \in [DOMAIN Batch[j] -> Nat]
      /\ DOMAIN Batch[j] \subseteq Nat
  BY BatchAssumption DEF TypeInv, TypeOK, JobState
<1>2. Moves(j)
  BY JobsMove
<1> USE DEF EventInv, Past, Active
<1>3. CASE Stays(j) \/ IsQueued(j)
  BY <1>1, <1>3 DEF Stays, IsQueued, Same, JobState
<1>4. CASE IsTaken(j)
  <2>1. i >= 1 /\ \A k \in DOMAIN Batch[j] : shown[j][k] <= shown[j][k]
    BY <1>1, BatchAssumption
  <2> QED
    BY <1>1, <1>4, <2>1 DEF IsTaken, Same, JobState
<1>5. CASE Selects(j)
  BY <1>1, <1>5 DEF Selects, Same, JobState
<1>6. CASE Skips(j)
  <2>1. Batch[j][i].on \in Experiment /\ Batch[j][i].on # None
    BY EventType DEF Counts
  <2>2. status[Batch[j][i].on] = "running" /\ Batch[j][i].on \in variants
    BY <2>1 DEF LifeInv, Counts
  <2>3. job[j].at # i
    BY <1>6, <2>1, <2>2 DEF Skips, PassesOver, Current
  <2>4. job[j].step # "conversion"
    BY <1>6 DEF Skips, PassesOver
  <2> QED
    BY <1>1, <1>6, <2>3, <2>4, NextEventType DEF Skips, Same
<1>7. CASE IsShown(j)
  <2>1. job[j].at \in DOMAIN Batch[j] /\ job[j].step = "impression" /\ Active(j)
    BY <1>7 DEF IsShown, Working
  <2>2. shown'[j] = [shown[j] EXCEPT ![job[j].at] = @ + 1] /\ converted'[j] = converted[j]
    BY <1>7 DEF IsShown
  <2>3. CASE Batch[j][job[j].at].converts
    <3>1. job'[j].at = job[j].at /\ job'[j].step = "conversion" /\ job'[j].state = "active"
      BY <1>1, <1>7, <2>1, <2>3 DEF IsShown, Current, JobState
    <3> QED
      BY <1>1, <2>1, <2>2, <3>1
  <2>4. CASE ~Batch[j][job[j].at].converts
    <3>1. job'[j].at = job[j].at + 1 /\ job'[j].step = "select" /\ job'[j].state = "active"
      BY <1>1, <1>7, <2>1, <2>4, NextEventType DEF IsShown, Current
    <3> QED
      BY <1>1, <2>1, <2>2, <2>4, <3>1
  <2> QED
    BY <2>3, <2>4
<1>8. CASE Converts(j)
  BY <1>1, <1>8, NextEventType DEF Converts, Working
<1>9. CASE Throws(j) \/ IsStalled(j) \/ Completes(j) \/ IsGivenUp(j)
  BY <1>1, <1>9 DEF Throws, IsStalled, Completes, IsGivenUp, Same, JobState
<1> QED
  BY <1>2, <1>3, <1>4, <1>5, <1>6, <1>7, <1>8, <1>9 DEF Moves

LEMMA OrderInvariant == Spec => []OrderInv
<1>1. Init => OrderInv
  <2> SUFFICES ASSUME Init, NEW j \in Job, NEW i \in DOMAIN Batch[j]
               PROVE  job[j].state # "completed" /\ EventInv(j, i)
    BY DEF OrderInv, Init
  <2>1. i \in Nat /\ i >= 1
    BY BatchAssumption
  <2> QED
    BY <2>1 DEF Init, Zero, EventInv, Past, Active
<1>2. TypeInv /\ LifeInv /\ OrderInv /\ [Next]_vars => OrderInv'
  <2> SUFFICES ASSUME TypeInv, LifeInv, OrderInv, [Next]_vars, NEW j \in Job
               PROVE  /\ job'[j].state = "completed" => job'[j].at \notin DOMAIN Batch[j]
                      /\ \A i \in DOMAIN Batch[j] : Counts(j, i)' => EventInv(j, i)'
    BY DEF OrderInv
  <2>1. ASSUME NEW i \in DOMAIN Batch[j], Counts(j, i)' PROVE EventInv(j, i)'
    <3>1. Counts(j, i) /\ EventInv(j, i)
      BY <2>1, CountedBefore DEF OrderInv
    <3> QED
      BY <3>1, EventStep
  <2> QED
    BY <2>1, CompletedIsPast
<1> QED
  BY <1>1, <1>2, TypeInvariant, LifeInvariant, PTL DEF Spec

\* A completed job has counted every event of an experiment that was running
\* all the time (worker.ts:38-81).
THEOREM CompletedJobsCount == Spec => []CompletedIsCounted
<1>1. TypeInv /\ OrderInv => CompletedIsCounted
  <2> SUFFICES ASSUME TypeInv, OrderInv, NEW j \in Job, job[j].state = "completed",
                      NEW i \in DOMAIN Batch[j], Counts(j, i)
               PROVE  shown[j][i] >= 1 /\ (Batch[j][i].converts => converted[j][i] >= 1)
    BY DEF CompletedIsCounted, Counts
  <2>1. job[j].at \in Nat \ {0} /\ job[j].at \notin DOMAIN Batch[j] /\ EventInv(j, i)
    BY DEF TypeInv, TypeOK, JobState, OrderInv
  <2>2. i < job[j].at
    BY <2>1, BatchAssumption
  <2> QED
    BY <2>1, <2>2 DEF EventInv, Past
<1> QED
  BY <1>1, TypeInvariant, OrderInvariant, PTL

\* Retries favour the front of a batch (worker.ts:38).
THEOREM FrontIsCountedMore == Spec => []FrontCountsMore
<1>1. OrderInv => FrontCountsMore
  BY DEF OrderInv, FrontCountsMore, Counts, EventInv
<1> QED
  BY <1>1, OrderInvariant, PTL

-----------------------------------------------------------------------------
(* Jobs run down.                                                          *)

StepNumber == [select |-> 1, variants |-> 2, impression |-> 3, conversion |-> 4]

\* A move of job j within its attempt: it is taken, comes to the next statement
\* of its event, or to the next event of its batch.
Advances(j) ==
    /\ job'[j].made = job[j].made /\ job'[j].stalls = job[j].stalls
    /\ job'[j].state = "active"
    /\ \/ job[j].state = "waiting"
       \/ /\ job[j].state = "active" /\ job[j].at \in DOMAIN Batch[j]
          /\ \/ job'[j].at = job[j].at + 1
             \/ /\ job'[j].at = job[j].at
                /\ StepNumber[job[j].step] < StepNumber[job'[j].step]

\* A move that uses up one of its attempts or stalls, of which TypeOK bounds
\* the number.
Spends(j) ==
    job'[j].made + job'[j].stalls = job[j].made + job[j].stalls + 1

\* No job goes round in circles: once queued, each of its moves ends it, takes
\* it further in its batch, or uses up an attempt or a stall, whatever throws
\* and however often the worker dies; and a job that has ended stays so
\* (worker.ts:26-83, queues.ts:12-20).  With the fairness of JobStep, that is
\* why jobs settle.
THEOREM JobsRunDown ==
    Spec => [][\A j \in Job : job'[j] # job[j] =>
                   /\ job[j].state \notin {"completed", "failed"}
                   /\ job[j].state # "new" =>
                          \/ job'[j].state \in {"completed", "failed"}
                          \/ Advances(j)
                          \/ Spends(j)]_vars
<1>1. TypeInv /\ [Next]_vars =>
          [\A j \in Job : job'[j] # job[j] =>
               /\ job[j].state \notin {"completed", "failed"}
               /\ job[j].state # "new" =>
                      \/ job'[j].state \in {"completed", "failed"}
                      \/ Advances(j)
                      \/ Spends(j)]_vars
  <2> SUFFICES ASSUME TypeInv, [Next]_vars
               PROVE  \A j \in Job : job'[j] # job[j] =>
                          /\ job[j].state \notin {"completed", "failed"}
                          /\ job[j].state # "new" =>
                                 \/ job'[j].state \in {"completed", "failed"}
                                 \/ Advances(j)
                                 \/ Spends(j)
    OBVIOUS
  <2> TAKE j \in Job
  <2> HAVE job'[j] # job[j]
  <2>1. job[j] \in JobState /\ Moves(j)
    BY JobsMove DEF TypeInv, TypeOK
  <2>2. NextEvent(job[j]).state = job[j].state /\ NextEvent(job[j]).at = job[j].at + 1
        /\ NextEvent(job[j]).made = job[j].made /\ NextEvent(job[j]).stalls = job[j].stalls
    BY <2>1, NextEventType
  <2>3. CASE IsQueued(j)
    BY <2>1, <2>3 DEF IsQueued
  <2>4. CASE IsTaken(j)
    BY <2>1, <2>4 DEF IsTaken, Advances, JobState
  <2>5. CASE Skips(j) \/ Converts(j)
    BY <2>2, <2>5 DEF Skips, Converts, Working, Active, Advances
  <2>6. CASE Selects(j)
    <3>1. PICK step \in {"variants", "impression"} : job'[j] = [job[j] EXCEPT !.step = step]
      BY <2>6 DEF Selects
    <3>2. /\ job[j].step \in {"select", "variants"} /\ step # job[j].step
          /\ job[j].state = "active" /\ job[j].at \in DOMAIN Batch[j]
      BY <2>1, <2>6, <3>1 DEF Selects, Active, JobState
    <3>3. StepNumber[job[j].step] < StepNumber[step]
      BY <3>2 DEF StepNumber
    <3> QED
      BY <2>1, <3>1, <3>2, <3>3 DEF Advances, JobState
  <2>7. CASE IsShown(j)
    <3>1. job[j].step = "impression" /\ job[j].state = "active" /\ job[j].at \in DOMAIN Batch[j]
      BY <2>7 DEF IsShown, Working, Active
    <3>2. CASE job'[j] = NextEvent(job[j])
      BY <2>2, <3>1, <3>2 DEF Advances
    <3>3. CASE job'[j] = [job[j] EXCEPT !.step = "conversion"]
      BY <2>1, <3>1, <3>3 DEF Advances, JobState, StepNumber
    <3> QED
      BY <2>7, <3>2, <3>3 DEF IsShown
  <2>8. CASE Completes(j) \/ IsGivenUp(j)
    BY <2>1, <2>8 DEF Completes, IsGivenUp, Active, JobState
  <2>9. CASE Throws(j)
    <3>1. PICK s : job'[j] = [job[j] EXCEPT !.made = job[j].made + 1, !.state = s]
      BY <2>1, <2>9 DEF Throws, JobState
    <3>2. job'[j].made = job[j].made + 1 /\ job'[j].stalls = job[j].stalls
      BY <2>1, <3>1 DEF JobState
    <3>3. job[j].made \in Nat /\ job[j].stalls \in Nat
      BY <2>1, BoundAssumption DEF JobState
    <3> QED
      BY <2>9, <3>2, <3>3 DEF Throws, Active, Spends
  <2>10. CASE IsStalled(j)
    <3>1. job'[j].made = job[j].made /\ job'[j].stalls = job[j].stalls + 1
      BY <2>1, <2>10 DEF IsStalled, JobState
    <3>2. job[j].made \in Nat /\ job[j].stalls \in Nat
      BY <2>1, BoundAssumption DEF JobState
    <3> QED
      BY <2>10, <3>1, <3>2 DEF IsStalled, Active, Spends
  <2> QED
    BY <2>1, <2>3, <2>4, <2>5, <2>6, <2>7, <2>8, <2>9, <2>10 DEF Moves, Stays
<1> QED
  BY <1>1, TypeInvariant, PTL DEF Spec
=============================================================================
