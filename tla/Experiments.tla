---------------------------- MODULE Experiments ----------------------------
(***************************************************************************)
(* The life of experiments and the counting of their events: the handlers  *)
(* of apps/api/src/modules/experiments/experiments.service.ts, POST        *)
(* /sdk/v1/events (modules/sdk/sdk-events.routes.ts), which only enqueues, *)
(* and the two BullMQ workers of apps/api/src/worker.ts.                   *)
(*                                                                         *)
(* An experiment is its key: the unique index on (project, key) gives a    *)
(* key to one row for good, for no route deletes an experiment.  Its       *)
(* variants are inserted by one statement, so the table has all of them or *)
(* none.  The variant of a user is a fixed function of the user's id and   *)
(* the experiment's variants, which never change; the tables of impressions*)
(* and conversions are therefore counted per event of a job, and a count   *)
(* per variant is a sum of those.                                          *)
(*                                                                         *)
(* Each awaited call is one action.  BullMQ hands a waiting job to a worker*)
(* slot, retries a job that threw until its attempts are used up, and puts *)
(* a job whose worker died back in the queue MaxStalls times.              *)
(***************************************************************************)
EXTENDS Naturals, Sequences, FiniteSets

CONSTANTS
    Experiment,   \* experiment keys
    SeedStatus,   \* the status of each before the behaviour starts
    Variant,      \* what a stop may declare the winner
    Request,      \* lifecycle requests; each runs once
    Command,      \* what a request may ask for
    Job,          \* POST /sdk/v1/events bodies; each is enqueued once
    Batch,        \* the events of each job
    Attempts,     \* attempts of a job (queues.ts)
    MaxStalls,    \* BullMQ's maxStalledCount
    Concurrency,  \* jobs the events worker runs at a time
    IOFailures,   \* may an awaited call reject, or a process die?
    None

Status == {"absent", "draft", "running", "paused", "stopped"}

Commands == [type : {"create", "launch", "pause"}, on : Experiment, winner : {None}]
            \union [type : {"stop"}, on : Experiment, winner : Variant \union {None}]

\* `on' is None for an event without an experimentKey; `converts' when its
\* name is the experiment's primary metric.
Event == [on : Experiment \union {None}, converts : BOOLEAN]

ASSUME NoneAssumption ==
    /\ None \notin Experiment
    /\ None \notin Variant
    /\ None \notin Commands
ASSUME SeedAssumption == SeedStatus \in [Experiment -> Status]
ASSUME CommandAssumption == Command \subseteq Commands
ASSUME BatchAssumption ==
    /\ DOMAIN Batch = Job
    /\ \A j \in Job : Batch[j] \in Seq(Event) /\ Batch[j] # <<>>
ASSUME BoundAssumption ==
    /\ Attempts \in Nat \ {0} /\ MaxStalls \in Nat
    /\ Concurrency \in Nat \ {0}
ASSUME FailureAssumption == IOFailures \in BOOLEAN

VARIABLES
    status,     \* experiments table
    winner,     \* its winner_variant_id column
    variants,   \* experiments that have rows in experiment_variants
    pc, cmd,    \* lifecycle requests: position and input
    found,      \* the status each of them has read, up to its UPDATE
    job,        \* the sdk-events queue
    shown,      \* experiment_impressions rows, counted per event of a job
    converted,  \* experiment_events rows, counted per event of a job
    agg         \* the hourly job of the aggregation queue

tables   == <<status, winner, variants>>
requests == <<pc, cmd, found>>
counts   == <<shown, converted>>
vars == <<status, winner, variants, pc, cmd, found, job, shown, converted, agg>>

Zero(j) == [i \in DOMAIN Batch[j] |-> 0]

Init ==
    /\ status = SeedStatus
    /\ winner = [e \in Experiment |-> None]
    /\ variants = {e \in Experiment : SeedStatus[e] # "absent"}
    /\ pc = [r \in Request |-> "idle"]
    /\ cmd = [r \in Request |-> None]
    /\ found = [r \in Request |-> "absent"]
    /\ job = [j \in Job |-> [state |-> "new", made |-> 0, stalls |-> 0,
                             at |-> 1, step |-> "select"]]
    /\ shown = [j \in Job |-> Zero(j)]
    /\ converted = [j \in Job |-> Zero(j)]
    /\ agg = [state |-> "idle", made |-> 0, todo |-> {}]

-----------------------------------------------------------------------------
(* Lifecycle requests.                                                     *)

Goto(r, l) == pc' = [pc EXCEPT ![r] = l]

Begin(r, c) ==
    /\ pc[r] = "idle"
    /\ cmd' = [cmd EXCEPT ![r] = c]
    /\ Goto(r, IF c.type = "create" THEN "check" ELSE "read")
    /\ UNCHANGED <<tables, found, job, counts, agg>>

\* create: the check, the two INSERTs.
CheckKey(r) ==
    /\ pc[r] = "check"
    /\ Goto(r, IF status[cmd[r].on] = "absent" THEN "insert" ELSE "rejected")
    /\ UNCHANGED <<tables, cmd, found, job, counts, agg>>

InsertExperiment(r) ==
    /\ pc[r] = "insert"
    /\ IF status[cmd[r].on] = "absent"
       THEN /\ status' = [status EXCEPT ![cmd[r].on] = "draft"]
            /\ Goto(r, "variants")
       ELSE /\ Goto(r, "error")    \* uq_experiments_project_key
            /\ UNCHANGED status
    /\ UNCHANGED <<winner, variants, cmd, found, job, counts, agg>>

\* Mutant of InsertVariants: its error is swallowed, as that of the audit is.
InsertVariantsSwallowed(r) ==
    /\ pc[r] = "variants"
    /\ variants' \in {variants, variants \union {cmd[r].on}}
    /\ Goto(r, "audit")
    /\ UNCHANGED <<status, winner, cmd, found, job, counts, agg>>

\* The schema lets two variants of one input share a key, which the unique
\* index uq_exp_variants_experiment_key refuses: IOFailures stands for it.
InsertVariants(r) ==
    /\ pc[r] = "variants"
    /\ variants' = variants \union {cmd[r].on}
    /\ Goto(r, "audit")
    /\ UNCHANGED <<status, winner, cmd, found, job, counts, agg>>

\* Mutant of Allowed: whatever is not paused may be paused.
AllowedToPause(type, s) ==
    CASE type = "launch" -> s \in {"draft", "paused"}
      [] type = "pause"  -> s # "paused"
      [] type = "stop"   -> s # "stopped"

\* From which status each command may start.
Allowed(type, s) ==
    CASE type = "launch" -> s \in {"draft", "paused"}
      [] type = "pause"  -> s = "running"
      [] type = "stop"   -> s # "stopped"

\* launch, pause, stop: getById, then the check of its status.
ReadExperiment(r) ==
    /\ pc[r] = "read"
    /\ LET s == status[cmd[r].on]
       IN  IF s # "absent" /\ Allowed(cmd[r].type, s)
           THEN Goto(r, "write") /\ found' = [found EXCEPT ![r] = s]
           ELSE Goto(r, "rejected") /\ UNCHANGED found
    /\ UNCHANGED <<tables, cmd, job, counts, agg>>

Outcome(type) ==
    CASE type = "launch" -> "running"
      [] type = "pause"  -> "paused"
      [] type = "stop"   -> "stopped"

\* The UPDATE looks at the id only, not at the status that was read.
WriteStatus(r) ==
    /\ pc[r] = "write"
    /\ status' = [status EXCEPT ![cmd[r].on] = Outcome(cmd[r].type)]
    /\ winner' = IF cmd[r].type = "stop"
                 THEN [winner EXCEPT ![cmd[r].on] = cmd[r].winner] ELSE winner
    /\ Goto(r, "audit")
    /\ found' = [found EXCEPT ![r] = "absent"]
    /\ UNCHANGED <<variants, cmd, job, counts, agg>>

\* The audit log swallows its errors.
Audit(r) ==
    /\ pc[r] = "audit"
    /\ Goto(r, "ok")
    /\ UNCHANGED <<tables, cmd, found, job, counts, agg>>

Fail(r) ==
    /\ IOFailures
    /\ pc[r] \in {"check", "insert", "variants", "read", "write", "audit"}
    /\ Goto(r, "error")
    /\ UNCHANGED <<tables, cmd, found, job, counts, agg>>

Step(r) ==
    \/ CheckKey(r) \/ InsertExperiment(r) \/ InsertVariants(r)
    \/ ReadExperiment(r) \/ WriteStatus(r) \/ Audit(r)

-----------------------------------------------------------------------------
(* The events queue and its worker.                                        *)

\* POST /sdk/v1/events: the body is stored in the queue, nothing else.
Enqueue(j) ==
    /\ job[j].state = "new"
    /\ job' = [job EXCEPT ![j].state = "waiting"]
    /\ UNCHANGED <<tables, requests, counts, agg>>

Active(j) == job[j].state = "active"

\* Every attempt starts with the first event of the batch.
Take(j) ==
    /\ job[j].state = "waiting"
    /\ Cardinality({k \in Job : Active(k)}) < Concurrency
    /\ job' = [job EXCEPT ![j].state = "active", ![j].at = 1,
                          ![j].step = "select"]
    /\ UNCHANGED <<tables, requests, counts, agg>>

Current(j) == Batch[j][job[j].at]

\* Job record J after it is done with its current event.
NextEvent(J) == [J EXCEPT !.at = @ + 1, !.step = "select"]

Working(j, step) ==
    Active(j) /\ job[j].at \in DOMAIN Batch[j] /\ job[j].step = step

\* An event without experiment, or whose experiment is not running at this
\* moment, is passed over for good.
SelectExperiment(j) ==
    /\ Working(j, "select")
    /\ LET on == Current(j).on
       IN  job' = [job EXCEPT ![j] =
                     IF on # None /\ status[on] = "running"
                     THEN [@ EXCEPT !.step = "variants"] ELSE NextEvent(@)]
    /\ UNCHANGED <<tables, requests, counts, agg>>

SelectVariants(j) ==
    /\ Working(j, "variants")
    /\ job' = [job EXCEPT ![j] =
                 IF Current(j).on \in variants
                 THEN [@ EXCEPT !.step = "impression"] ELSE NextEvent(@)]
    /\ UNCHANGED <<tables, requests, counts, agg>>

\* Mutant of InsertImpression: an event that was shown before is not shown
\* again, but converts again.
InsertImpressionOnce(j) ==
    /\ Working(j, "impression")
    /\ shown' = [shown EXCEPT ![j][job[j].at] = 1]
    /\ job' = [job EXCEPT ![j] =
                 IF Current(j).converts
                 THEN [@ EXCEPT !.step = "conversion"] ELSE NextEvent(@)]
    /\ UNCHANGED <<tables, requests, converted, agg>>

InsertImpression(j) ==
    /\ Working(j, "impression")
    /\ shown' = [shown EXCEPT ![j][job[j].at] = @ + 1]
    /\ job' = [job EXCEPT ![j] =
                 IF Current(j).converts
                 THEN [@ EXCEPT !.step = "conversion"] ELSE NextEvent(@)]
    /\ UNCHANGED <<tables, requests, converted, agg>>

InsertConversion(j) ==
    /\ Working(j, "conversion")
    /\ converted' = [converted EXCEPT ![j][job[j].at] = @ + 1]
    /\ job' = [job EXCEPT ![j] = NextEvent(@)]
    /\ UNCHANGED <<tables, requests, shown, agg>>

Complete(j) ==
    /\ Active(j)
    /\ job[j].at \notin DOMAIN Batch[j]
    /\ job' = [job EXCEPT ![j].state = "completed"]
    /\ UNCHANGED <<tables, requests, counts, agg>>

\* Mutant of JobThrows: one attempt too many.
JobThrowsOnceMore(j) ==
    /\ IOFailures
    /\ Active(j)
    /\ job' = [job EXCEPT
           ![j].made = @ + 1,
           ![j].state = IF job[j].made + 1 <= Attempts THEN "waiting" ELSE "failed"]
    /\ UNCHANGED <<tables, requests, counts, agg>>

\* Mutant of JobThrows: failed attempts are not counted.
JobThrowsUncounted(j) ==
    /\ IOFailures
    /\ Active(j)
    /\ job' = [job EXCEPT ![j].state = "waiting"]
    /\ UNCHANGED <<tables, requests, counts, agg>>

\* Mutant of JobThrows: the error is caught per event, and the next is taken.
JobThrowsPerEvent(j) ==
    /\ IOFailures
    /\ Active(j)
    /\ job' = [job EXCEPT ![j] = NextEvent(@)]
    /\ UNCHANGED <<tables, requests, counts, agg>>

\* The processor throws: the job waits for its next attempt, if it has one.
JobThrows(j) ==
    /\ IOFailures
    /\ Active(j)
    /\ job' = [job EXCEPT
           ![j].made = @ + 1,
           ![j].state = IF job[j].made + 1 < Attempts THEN "waiting" ELSE "failed"]
    /\ UNCHANGED <<tables, requests, counts, agg>>

\* Mutant of WorkerDies: nobody looks for stalled jobs.
WorkerDiesUnnoticed ==
    /\ IOFailures
    /\ \E j \in Job : Active(j)
    /\ job' = [j \in Job |->
           IF Active(j) THEN [job[j] EXCEPT !.state = "stalled"] ELSE job[j]]
    /\ UNCHANGED <<tables, requests, counts, agg>>

\* The worker process dies: its jobs lose their locks and are found stalled.
WorkerDies ==
    /\ IOFailures
    /\ \E j \in Job : Active(j)
    /\ job' = [j \in Job |->
           IF ~Active(j) THEN job[j]
           ELSE IF job[j].stalls < MaxStalls
           THEN [job[j] EXCEPT !.state = "waiting", !.stalls = @ + 1]
           ELSE [job[j] EXCEPT !.state = "failed"]]
    /\ UNCHANGED <<tables, requests, counts, agg>>

JobStep(j) ==
    \/ Take(j) \/ SelectExperiment(j) \/ SelectVariants(j)
    \/ InsertImpression(j) \/ InsertConversion(j) \/ Complete(j)

-----------------------------------------------------------------------------
(* The hourly aggregation.  Its results are upserted with ON CONFLICT      *)
(* (experiment_id, variant_id, metric_name), but the index on these columns*)
(* is not unique, and PostgreSQL then rejects the statement: the first     *)
(* upsert throws.                                                          *)

\* The server's repeatable job has the attempts of its queue (server.ts:98-101,
\* queues.ts:23-30); the one that worker.ts:185-189 adds has a single one.
Tick ==
    /\ agg.state = "idle"
    /\ \E tries \in {1, Attempts} :
           agg' = [agg EXCEPT !.state = "waiting", !.made = Attempts - tries]
    /\ UNCHANGED <<tables, requests, job, counts>>

\* The SELECT of the running experiments.
AggStart ==
    /\ agg.state = "waiting"
    /\ agg' = [agg EXCEPT !.state = "active",
                          !.todo = {e \in Experiment : status[e] = "running"}]
    /\ UNCHANGED <<tables, requests, job, counts>>

AggThrows == agg' = [agg EXCEPT
    !.made = @ + 1,
    !.state = IF agg.made + 1 < Attempts THEN "waiting" ELSE "failed"]

\* An experiment with less than two variants is passed over.
Aggregate(e) ==
    /\ agg.state = "active"
    /\ e \in agg.todo
    /\ IF e \in variants
       THEN AggThrows
       ELSE agg' = [agg EXCEPT !.todo = @ \ {e}]
    /\ UNCHANGED <<tables, requests, job, counts>>

AggDone ==
    /\ agg.state = "active"
    /\ agg.todo = {}
    /\ agg' = [agg EXCEPT !.state = "completed"]
    /\ UNCHANGED <<tables, requests, job, counts>>

-----------------------------------------------------------------------------
Next ==
    \/ \E r \in Request : \E c \in Command : Begin(r, c)
    \/ \E r \in Request : Step(r) \/ Fail(r)
    \/ \E j \in Job : Enqueue(j) \/ JobStep(j) \/ JobThrows(j)
    \/ WorkerDies
    \/ Tick \/ AggStart \/ AggDone \/ \E e \in Experiment : Aggregate(e)

Spec == Init /\ [][Next]_vars

\* The queue hands out its jobs and the worker's event loop runs; nobody has to
\* send a request or events, and what is counted waits for no request.
FairSpec == Spec /\ \A j \in Job : WF_vars(JobStep(j))

-----------------------------------------------------------------------------
(* Properties.                                                             *)

JobState == [state : {"new", "waiting", "active", "completed", "failed"},
             made : 0..Attempts, stalls : 0..MaxStalls, at : Nat \ {0},
             step : {"select", "variants", "impression", "conversion"}]

\* Type invariant.
TypeOK ==
    /\ status \in [Experiment -> Status]
    /\ winner \in [Experiment -> Variant \union {None}]
    /\ variants \subseteq Experiment
    /\ pc \in [Request -> {"idle", "check", "insert", "variants", "read", "write",
                           "audit", "ok", "rejected", "error"}]
    /\ cmd \in [Request -> Command \union {None}]
    /\ found \in [Request -> Status]
    /\ job \in [Job -> JobState]
    /\ \A j \in Job : shown[j] \in [DOMAIN Batch[j] -> Nat]
    /\ \A j \in Job : converted[j] \in [DOMAIN Batch[j] -> Nat]
    /\ agg \in [state : {"idle", "waiting", "active", "completed", "failed"},
                made : 0..Attempts, todo : SUBSET Experiment]

\* No conversion is counted without its impression, so that no conversion rate
\* exceeds 1, whatever fails between the two INSERTs and however often the
\* batch is run again (worker.ts:63-79).
ConversionsHaveImpressions ==
    \A j \in Job : \A i \in DOMAIN Batch[j] : converted[j][i] <= shown[j][i]

\* An event is counted once per attempt or restart of its job at most, and
\* exactly once by a job that never failed (worker.ts:26-83, queues.ts:12-20).
CountsAreBounded ==
    \A j \in Job : \A i \in DOMAIN Batch[j] :
        shown[j][i] <= job[j].made + job[j].stalls + 1

\* No request has written experiment e, which was running at the start.
AlwaysRunning(e) ==
    /\ SeedStatus[e] = "running"
    /\ \A r \in Request :
           cmd[r] # None /\ cmd[r].on = e => pc[r] \notin {"audit", "ok", "error"}

\* A completed job has counted every event of an experiment that was running
\* all the time: an attempt that failed halfway is made up for by a later one
\* (worker.ts:38-81).
CompletedIsCounted ==
    \A j \in Job : job[j].state = "completed" =>
        \A i \in DOMAIN Batch[j] :
            LET on == Batch[j][i].on
            IN  on # None /\ AlwaysRunning(on) =>
                    /\ shown[j][i] >= 1
                    /\ Batch[j][i].converts => converted[j][i] >= 1

\* Retries favour the front of a batch: of two events of experiments that were
\* running all the time, the later one is never counted more often
\* (worker.ts:38).
FrontCountsMore ==
    \A j \in Job : \A i, k \in DOMAIN Batch[j] :
        (/\ i <= k
         /\ Batch[j][i].on # None /\ AlwaysRunning(Batch[j][i].on)
         /\ Batch[j][k].on # None)
        => shown[j][k] <= shown[j][i]

\* An experiment runs without variants only when its create has not come to
\* insert them, or failed there (experiments.service.ts:59-80, 90-101).
RunningHasVariants ==
    \A e \in Experiment : status[e] = "running" /\ e \notin variants =>
        \E r \in Request : /\ cmd[r] # None /\ cmd[r].type = "create"
                           /\ cmd[r].on = e
                           /\ pc[r] \in {"variants", "error"}

\* Every enqueued job is counted or given up, whatever fails.
JobsSettle ==
    \A j \in Job : job[j].state = "waiting" ~> job[j].state \in {"completed", "failed"}

\* The checks of experiments.service.ts:94 and 114 read the status in one
\* statement and the UPDATE runs in another: an experiment leaves `stopped' only
\* for a launch or a pause that read it before it was stopped.
StoppedLeftOnlyByRace ==
    [][\A e \in Experiment : status[e] = "stopped" /\ status'[e] # "stopped" =>
           \E r \in Request : /\ pc[r] = "write" /\ cmd[r].on = e
                              /\ cmd[r].type \in {"launch", "pause"}
                              /\ found[r] # "stopped"]_status
=============================================================================
