# FeatureVault in TLA+

Specifications, model-checking runs and proofs for FeatureVault: a feature-flag and
A/B-testing service (`apps/api`, Fastify over PostgreSQL, Redis and BullMQ), its Node SDK
(`packages/sdk`), dashboard (`apps/web`) and CLI (`packages/cli`). Source paths below are
relative to `src/`; API paths are relative to `apps/api/src/`, SDK paths to
`packages/sdk/src/` and page paths to `apps/web/src/` where that is clear.

## 1. The system: an inventory

| Component | State | Operations | Talks to | What is hard |
|---|---|---|---|---|
| Flag service `modules/flags/flags.service.ts` | tables `flags`, `targeting_rules`, `flag_versions`, `audit_logs` | create, update, updateStatus (the kill switch), delete, upsertTargetingRules, list, getById, getVersions | PostgreSQL, cache, pub/sub | five to eight awaits per request and no transaction: every interleaving of two requests is possible, and every prefix of one |
| Flag cache `lib/cache/flag-cache.ts` | one Redis string per project, TTL 300 s | get, set, invalidate, publish | flag service, SDK API | filled by a reader that may be older than the last invalidation |
| SDK API `modules/sdk/sdk-api.routes.ts` | map project -> open sockets | GET `/sdk/v1/flags`, WebSocket, pub/sub listener | cache, SDK clients | a message reaches the sockets that are open at that moment, and no others |
| SDK client `index.ts`, `flag-store.ts`, `websocket-client.ts` | copy of the flags, sockets, timers | connect, close, getters, track; reconnection, heartbeat | SDK API | overlapping fetches, answers from a stale cache, messages during an outage, close against answers under way |
| Event batcher `event-batcher.ts` | queue, timer, `flushing` | push, flushNow, destroy | POST `/sdk/v1/events` | a failed or lost POST, pushes during a flush, shutdown |
| Rule engine `rule-engine.ts`, `bucketing.ts`, getters of `index.ts` | none | evaluateFlag, evaluateRule, evaluateCondition, isInRollout, assignVariant, getters | flag store | order of the checks, percentage boundaries, who stays in a rollout that grows |
| Event intake `modules/sdk/sdk-events.routes.ts`, queue `lib/queue/queues.ts`, events worker `worker.ts` | BullMQ jobs, tables `experiment_impressions`, `experiment_events` | enqueue; per event two SELECTs and up to two INSERTs | experiments | retry of a whole batch, worker death, an experiment that is paused meanwhile |
| Experiments `modules/experiments/experiments.service.ts` | tables `experiments`, `experiment_variants` | create, launch, pause, stop, reads | worker, aggregation | read-then-write transitions, a create in two INSERTs |
| Aggregation `worker.ts`, statistics `lib/stats/welch.ts` | table `experiment_results` | hourly upsert | experiments, counts | the conflict target of the upsert, counts read at two moments |
| Accounts `modules/auth/auth.service.ts` 47-143 | users, workspaces, members, projects, verification tokens | signup, verifyEmail | PostgreSQL, e-mail | five INSERTs without a transaction, two unique indexes that racers meet at |
| Sessions `modules/auth/auth.service.ts` 146-300, `middleware/authenticate.ts` | sessions, login counter | login, refresh, logout, authenticate | PostgreSQL, Redis, browser tabs | rotation of one token by two tabs, check-then-increment |
| Browser session `lib/api.ts`, `stores/auth.store.ts`, login page, topbar, dashboard layout | access token per tab, `refreshing`; cookie and localStorage shared by the tabs | 401 interceptor, sign-in, sign-out, load | sessions | several 401s at once, lost answers, two tabs and one cookie |
| Onboarding `components/onboarding`, `stores/onboarding.store.ts` | dialog store in memory, one mark in localStorage | four steps: first flag, SDK key, test | flag and SDK-key routes | an answer that arrives after the user went elsewhere |
| SDK keys `modules/sdk/sdk-keys.routes.ts`, `middleware/sdk-auth.ts` | table `sdk_keys` | create, revoke, authenticate | SDK API, onboarding | a key revoked while it is in use |
| Flag pages `app/dashboard/flags` | query cache, form | open, focus, status buttons, save settings, edit and save rules | flag routes | a fetch begun before a write and answered after it, a form filled from old data |
| Other pages, CLI, e-mail, rate limiter, guards, telemetry | none worth a model | one request or response each | | |

What makes each of them correct:

* **Flag service.** Live keys are unique. A 2xx answer means that the change is in the
  history and was broadcast. Two racers are never both acknowledged for one version. The
  history has no hole that no failure explains, and tells the truth about a flag nobody is
  working on. Nothing but a status request undoes a kill.
* **Cache.** It is stale only for known reasons and never for ever.
* **SDK client.** At rest it agrees with the server, or a known cause explains why not; it
  reconnects; `connect()` returns.
* **Batcher.** At-least-once, in-order delivery; one POST at a time; `destroy()` returns;
  what is tracked before `close()` is flushed (which does not hold, see section 3).
* **Rule engine.** A killed flag is off; the first match decides; raising a rollout keeps
  the users it has; variants get the share of their weight.
* **Experiments and worker.** Conversions never outnumber impressions; retries are bounded
  and lose nothing; a running experiment has variants; jobs end; a stopped experiment stays
  stopped but for one race.
* **Accounts.** An address that can sign in has all its rows.
* **Sessions.** A tab never ends its own session; each call ends; the lock-out is overshot
  by no more than what was in flight. That a reused token ends all sessions, and that no
  attempt goes beyond the limit, is what README.md says and the code does not do (section 3).
* **Onboarding.** The dialog is never ahead of what was done.
* **Flag pages.** A page at rest shows the flag; an untouched form reverts nothing.

PROJECT.json lists the hazards behind these, each at its line, and the components with
what is and is not modelled.

## 2. The modules

| Module | What it is |
|---|---|
| `FlagService` | write and read path of one project's flags: database, history, cache, published messages |
| `EventChannel` | abstract: an at-least-once, in-order channel in batches |
| `EventBatcher` | the SDK's batcher; implements `EventChannel` |
| `SdkClient` | an SDK client, its sockets and fetches, and the server as it sees it: changes, cache, pub/sub |
| `Experiments` | life of experiments, events queue and worker, hourly job |
| `Sessions` | login, refresh, logout and the browser tabs that use them |
| `Signup` | signup and e-mail verification, one action per statement |
| `Onboarding` | extends `Signup`: the account signs in and meets the onboarding dialog, the first flag and the SDK key |
| `RuleEngine` | what a flag serves to a user, as operators over any hash |
| `Console` | extends `RuleEngine`: flag pages, query cache, server and other writers; the flag they leave is evaluated |
| `FlagServiceProofs`, `FlagHistoryProofs`, `EventBatcherProofs`, `SdkClientProofs`, `ExperimentsProofs`, `SessionsProofs`, `OnboardingProofs`, `ConsoleProofs` | the proofs |
| `MC...` | instances for TLC; the `.cfg` files give the constants |

### FlagService

One action per awaited call. `pc[r]` is the await a request has reached; `seen` is
`existing`, `post` is `updated`. The routes answer `ok` (2xx), `rejected` (404, 409) or
`error` (500).

| Code (flags.service.ts) | Actions |
|---|---|
| `create` 108-168 | `CheckKey`, `InsertFlag` or `InsertConflict`, then the common tail |
| `update` 171-215, `updateStatus` 218-253 | `ReadFlag`, `WriteFlag`, tail |
| `delete` 256-279 | `ReadFlag`, `WriteFlag`, tail without the version |
| `upsertTargetingRules` 282-332 | `ReadFlag`, `ClearRules`, `InstallRules` or `InstallConflict`, `WriteFlag`, tail |
| the tail: version, audit, invalidate, publish | `RecordVersion` or `RecordConflict`, `Audit`, `Invalidate`, `Publish` |
| any call that rejects, or the process stopping | `Fail` (only with `IOFailures`) |
| `getSDKConfig` 342-353, `getFlagConfig` 22-52 | `CacheMiss`, `LoadFlags`, `LoadRules`, `FillCache`, `FailFetch` |
| the TTL | `Expire` |

`Written` is the core of it: an UPDATE sets only its own columns, on the row as it is now,
with a version computed from the row as it was read, and its WHERE clause tests neither
version nor deletion. The unique indexes of `lib/db/schema.ts` are guards. What the
properties do not tell apart is one value: `body` for name, tags, default and so on, a rule
list for the rows that one INSERT writes. SELECT of the workspace id at the start of each
handler changes nothing and is left out. `lateFill` is a history variable.

### EventBatcher and EventChannel

The pieces of JavaScript that run without interruption are the actions: `Push`,
`TimerFires`, `FlushConfirmed`, `FlushFailed`, `Destroy`. Events are their numbers. A POST
that is reported as failed may or may not have arrived. `Channel` maps the batcher to
`EventChannel` with `confirmed <- Confirmed`, the number of events that no longer wait.

### SdkClient

The server's configuration is, for each flag, the revision of its last change; that is all
a copy must agree on; `past` keeps the configuration of each revision. Of a write request three
steps matter to a client, in the order of the code: `Change` (the row), `Invalidate` (the cache
entry) and `FanOut` (the message); after the row, any of the others may fail instead
(`ChangeFails`), and then nothing is published, as in the run `flag_lost_broadcast`. A fetch is
`Ask`; then `getSDKConfig` answers it from the Redis entry (`Hit`), or reads the tables (`Load`)
and sets the entry to what it has read (`Fill`), whatever was invalidated meanwhile; then
`FetchArrives` or `FetchFails`. `LoadElsewhere` and `FillElsewhere` are the fetches of all other
clients, which share the entry, and `Expire` is its TTL. A WebSocketClient goes through
`dialing`, `open`, `waiting` (for its reconnect timer), `closing`, `dead`. A message is
handled by `HandleWSMessage`: a creation or an update asks for everything, a deletion is
`Delete` on the store. `close()` is `CloseBegins` and `CloseEnds`, for it awaits the batcher
in between; its end is `Clear` of the store and `Destroy` of the last WebSocketClient, the
only one it can reach. The heartbeat is here what it amounts to, a connection that is lost
(`Dropped`). History variables (`known`, `missed`, `removed`, `refreshLost`, `overtaken`,
`lostAt`, `cleared`, `lateFill`) name the ways a copy goes stale.

### Experiments

The four write routes, one action per statement; the events queue, with BullMQ's attempts
(`JobThrows`) and stalled-job recovery (`WorkerDies`), which are modelled from how
`worker.ts` and `queues.ts` use the library; the loop of the worker, one action per
statement; the hourly job. Impressions and conversions are counted per event of a job, since
the variant of a user is a fixed function. The upsert of the hourly job names as conflict
target three columns whose index is not unique, which PostgreSQL rejects, so `Aggregate`
throws. The server's registration of that job has the attempts of its queue (`server.ts:98`,
`queues.ts:23`), the worker's has none (`worker.ts:185`): `Tick` starts either.

### Sessions

One account, one browser. Its tabs share the refresh cookie (`cookie`) and localStorage
(`stored`); each has its page, its access token and api.ts's `refreshing`. Refresh tokens are
numbered as they are issued and live while they are in `sessions`.

| Code | Actions |
|---|---|
| a query or mutation of a page, `middleware/authenticate.ts` | `Ask`, `Authenticate` |
| api.ts 20-44, the response interceptor | `Intercept`, `Refreshed`, `Thrown` |
| `refresh` 232-294 | `FindSession`, `Rotate` (the transaction) |
| `login` 146-229 and the login page | `Submit`, `CheckLockout`, `WrongPassword`, `RightPassword`, `OpenSession`, `SignedIn` |
| `logout` and the topbar | `SignOut`, `DeleteSession`, `SignedOut` |
| loading a page, `dashboard/layout.tsx` | `Load` with `Admits` |
| lost requests and answers, 500s | `Fail`, `Thrown`, part of `SignedOut` |
| time | `AccessExpires`, `SessionExpires`, `WindowEnds` |

Two things in the code matter more than they seem to. The interceptor does not await the
call that it repeats, so that `refreshing` ends when the new token is there (`Refreshed`).
And a wrong password is a 401 as well, so that the interceptor answers it with a refresh and
a second attempt (`Intercept` for a login that was `denied`; the attempt is `again`). A call
whose page is gone goes on at the server and is `adrift`. `ended` is history: how each refresh
token ended.

### Signup and Onboarding

`Signup` follows `signup` 47-110 one statement at a time: `CheckAddress`, `InsertUser`,
`TrySlug` (once per candidate), `InsertWorkspace`, `InsertMember`, `InsertProject`,
`InsertToken`; `SignupFails` stops it anywhere and what was inserted stays. `rows[e]` is the set
of tables in which an address has its row. The unique indexes on addresses and slugs are
guards. The addresses have one local part, so that all of them want the slugs 0, 1, 2 in turn.
`verifyEmail` is `FindToken` and `MarkVerified` (its transaction) or `VerifyFails`.

`Onboarding` adds what the signed-in user meets: `LoadProjects` and `LoadFlags` as the
dashboard's queries, the dialog's buttons (`Dismiss`, `Skip`, `Begin`, `BackToWelcome`,
`CreateFlag`, `Generate`, `Continue`, `BackToKey`, `Test`), its requests (`Post`, `Created`,
`Patch`, `Patched`: `onSuccess` of the creation awaits a second request; `InsertKey`,
`KeyArrives`; `TestEnds`) and other pages that delete the flag or revoke the key. The form of a
step forgets its state when the dialog turns to another (`TurnedTo`), but a test that it has
sent goes on and may start the timer that completes the dialog (`LateTestEnds`, `TimerFires`),
so that several tests may be under way (`MaxTests`). `Reload`
starts the dialog over and leaves the requests `adrift`. The two systems meet in the tables of
the account: `SignIn` needs what signup inserted.

### RuleEngine and Console

`RuleEngine` has no state. `Bucket`, `Holds` and `TypeOf` are parameters: any hash, any
comparison, any typing of values. `EvaluateFlag` follows the order of the checks: killed,
inactive, targeting off, then the first rule that matches in the stable order of `ruleOrder`
(`Decides`). `MCConsole` compares `AssignVariant` and the getters of a killed flag with
independent definitions on bounded inputs, in assumptions that TLC evaluates.

`Console` has one flag, the page that is open, a query per page, the detail page's form and
the requests of the tab. The rules of react-query (when a page fetches, what invalidation does
to a fetch under way) are modelled from how the pages and `app/providers.tsx` use it
and are stated in the module's header. `Succeed` does what each mutation's `onSuccess` does: the list
page invalidates its own query only, the rules mutation the detail query only, the others
both; the list's query is always read by something mounted, since the onboarding dialog of the
layout uses it (`Observed`). A request is one step on the server here (`Commit`); its own steps are `FlagService`'s. A stored rule without a
name comes back with `name: null`, which the schema refuses (`Refused`), so that saving such
rules again is a 400. `excused` and `late` are history: something outside the tab's own acknowledged
writes explains that the data, or the answer under way, is not the flag as it is.

## 3. What is checked

Passing runs (the bounds are in the `.cfg` files):

| Run | Bounds | Shows |
|---|---|---|
| `flag_service` | 2 requests of 9 kinds on one seeded flag, 2 keys, a handler that reads through the cache again and again, TTL, any call may fail | `LiveKeysUnique`, `AckedVersionsDiffer`, `VersionsRecorded`, `AckedIsRecorded`, `QuietHistoryIsTrue`, `KillSticks`, `StaleOnlyByRace`, `StaleCacheHeals` |
| `batcher` | batches of 3, 8 events, 2 failed flushes | `PendingIsTail`, `NothingLost`, `FirstReceivedInOrder`, `DestroyReturns`, `ImplementsChannel` |
| `sdk_client` | 2 flags, 1 change, the cache with any number of other readers, 2 overlapping fetches, one WebSocketClient, one lost connection, one failed fetch or change | `StaleOnlyForCause`, `ConnectReturns`, `Reconnects`, `CopyConverges` |
| `experiments` | a batch of 3 events, 2 attempts, 1 stall, 2 lifecycle requests on 2 experiments, failures | `ConversionsHaveImpressions`, `CountsAreBounded`, `CompletedIsCounted`, `FrontCountsMore`, `RunningHasVariants`, `StoppedLeftOnlyByRace`, `JobsSettle` |
| `sessions` | 2 tabs, 3 calls (two of one tab), 3 refresh tokens, lock-out after 1 wrong attempt | `RefusedForCause`, `LockoutOvershoot`, `CallsSettle` |
| `onboarding` | 2 addresses, 2 signups, 1 link visit at a time, 2 flag keys, 2 creations, 1 SDK key, 2 tests left behind; symmetry | `VerifiedIsWhole`, `StepsAreEarned` |
| `console` | 2 requests of the tab, 3 versions of the flag, 1 rule, 1 edit between fillings, other writers of three kinds, users in buckets 20, 70 and 100 | `PageShowsTheFlag`, `NoSilentRevert`, `RampUpKeepsUsers` |

Every module has one type invariant, checked by one of these runs.

Why the bounds are enough to be worth having: two writers of any kind race at each of their
statements, meet at each unique index, fail between any two of them, and leave the reader every
way to fill the cache late; what needs a third (a version that goes back because two others
moved on meanwhile) is covered by the theorems, which hold for any number. Eight events
against batches of three give two full batches and a remainder around two failures. One change
and two fetches give answers out of order, a fill that is late for the message it answers and a
message lost in each of the ways there are; a second WebSocketClient, which `close()` cannot
reach, is left to `StaleForCauseOnly`. Two attempts and one stall give three partial passes
over a batch. The code has three attempts (`queues.ts:15`) and a concurrency of five
(`worker.ts:83`); a job's counts depend on its own events only, so the run has one job. In
`sessions` two calls of one tab meet at `refreshing`, the third call is the other tab with the
same cookie, and three tokens are a sign-in and two rotations of it or a second sign-in; the
limit of the lock-out is one so that two logins pass the check before it. In `onboarding` two
signups race for one address or for one slug, and two creations are the one that the user
walked away from and the one that was started instead; one SDK key is all the dialog makes. In
`console` two requests commit and succeed in either order around fetches of both pages, three
versions are two writes after the seed, one of which may be another writer's, and the rollout
form's 75 lies between the buckets. The SDK's reconnect delays, the TTL, the age of cached
queries and the timeouts are steps that may come at any time, which covers every duration.

Runs that end with a violation, each of a sentence in the repository (the findings in
PROJECT.json quote it):

| Run | What happens |
|---|---|
| `flag_lost_broadcast` | A and B read version 1. A writes, records version 2, publishes, is done. B overwrites the row, is refused version 2 by the unique index, answers 500. The row is B's; no message and no invalidation followed. |
| `sdk_reconnect` | A change during an outage; the socket reopens, nothing is fetched, and client and server differ at rest. |
| `left_behind` | With batches of two: event 1 is pushed and its timer flushes it; event 2 is pushed while the POST is pending; `destroy()` calls `flushNow()`, which returns at once because of that POST (`event-batcher.ts:40`). The POST succeeds, and event 2 stays for ever. No flush has failed. |
| `replay` | A refresh rotates the token and its answer is lost; the tab refreshes again with the token of its cookie, which no session has: 401, and the session of the new token stays (`auth.service.ts:246-250`). Nor is rotation single-use: two refreshes that have both read the session before either deletes it each insert a new one (`auth.service.ts:272-282`; `Rotate` alone violates the property too). |
| `lockout` | Three logins of a limit of two pass the check one after the other, before any of their wrong passwords has been counted. |

Other behaviour that the models show:

* An experiment that was stopped between the check and the UPDATE of a pause or a launch is
  paused or running again (`StoppedLeftOnlyByRace` says that this is the only way).
* The hourly job fails at its first upsert in each attempt, with no call failing by itself: the
  index on the conflict target is not unique (`worker.ts:157`, `schema.ts:306`,
  `drizzle/0001_breezy_giant_man.sql:43`), although `app/docs/page.tsx:543` says that the
  dashboard determines significance hourly. In the model `Aggregate` only ever throws.
* A rule that is added and saved on the page of an active flag serves nobody: `evaluateFlag`
  (`rule-engine.ts:75`) asks for `targetingEnabled`, which is off by default (`schema.ts:133`)
  and which no page sets, although the form (`flags/[flagId]/page.tsx:203`) and
  `app/docs/page.tsx:492` say that the first match wins. In the model only another writer sets it.
  This and the hourly job are facts of one statement, which take no order of events to show.
* A verification link cannot be asked for a second time, and signing up again is a 409,
  although the login page (`app/(auth)/login/page.tsx:19`) says "Sign up again to get a new
  one."
* The onboarding dialog is shown, until it is completed, to users whose project has flags
  (`onboarding-modal.tsx:45`). The status buttons of the flag list do not invalidate the detail
  page's query.

## 4. Fairness

* `FlagService`: weak fairness of each request's next step, each reader's next step and the
  TTL. Node runs every continuation whose promise is settled; Redis drops expired keys. A
  request need not be sent, and a failure need not happen.
* `EventBatcher`: timers fire, and a POST settles one way or the other; the event of
  `left_behind` stays although all of that has happened.
* `SdkClient`: a change that has written its row goes on to the cache and to the message, or
  fails; messages are delivered or lost, the server answers (one of `Hit`, `Load` and `Fill` is
  always possible to a fetch under way), timers fire, an open socket is
  read, a dial that can succeed does unless it fails first (failures are bounded by
  `MaxDrops`: a network that fails for ever promises nothing). Fetches are bounded by
  `AbortSignal.timeout` and dials by the timer of `connectWebSocket`.
* `Experiments`: each job's next step; BullMQ hands out waiting jobs and looks for stalled
  ones. Requests need not go on.
* `Sessions`: each call's next step, for requests are handled and answers read or lost.
  Nobody has to ask for anything, nothing has to fail, and no page has to be loaded.
* `Onboarding`, `Console`: none; nothing is claimed of them that has to happen.

No strong fairness is assumed anywhere.

## 5. What is proved

For every value of the constants, under the named assumptions of each module (in
`FlagService`: `None` is none of the other values, seeded flags have distinct keys,
commands are well formed; in `EventBatcher`: a batch has at least one event; in `Sessions`:
finitely many calls, each of one tab, and no tab is named like another way for a token to end;
in `Signup`: finitely many addresses; in `Console`: percentages and buckets are within 0..100, other writers write well-formed changes; in
`SdkClient` and `Experiments`: bounds are numbers, there is at least one fetch, connection
and attempt, and batches are not empty and of known variants).

**FlagService.** `TypeCorrect` needs more than `TypeOK`: `TypeInv` adds what a request
holds at each position (`Stage`), for instance that a request about to write has read a
row. `KeysStayUnique` strengthens `LiveKeysUnique` to all rows (`KeysUnique`), deleted ones
included, because that is what the index keeps; `RowChanges` says how one step can change
a row. `KilledStaysKilled` follows from `TypeInv` action by action.
`AcknowledgedIsRecorded` and `RacersAreNotBothAcknowledged` rest on `HistoryInv`: no
two snapshots of a flag share a version, and a request that has come past its record or its
publish has left its trail in the table. `HistoryHasNoHoles` adds that each version up to
the one a request has read is recorded or owed (`Covered`): without it, the version that a
slow writer writes could jump over a hole. `StalenessHasACause` shows that a step which
changes the current configuration is made by a request that has not invalidated yet
(`WriterIsUncleaned`), and that such a request stays one until it invalidates
(`UncleanedStays`). `DeletionIsFinal` says of the UPDATE that comes after a deletion what
`KilledStaysKilled` says of one after a kill; no run has it, and the proof is as short.

`QuietHistoriesAreTrue` (in `FlagHistoryProofs`) has no invariant that describes the row and
the history directly, because requests that race do leave a history that is not the row's. The
argument goes backwards from their answers. A `Contender` is a request that has read the flag to
change it, or has created it; `NewVersion` is the version it is on the way to.
`ContenderInv` says that contenders stay what they are and that each snapshot after the first is
a contender's, with its version and rules (`Attributed`). A flag is `Orderly` if no request on
it was answered 500 and no two contenders are on the way to one version. Disorder is not undone
(`OrderlyBefore`: a 500 stays, and contenders stay), so an orderly flag has been orderly
all along, and then its requests came one after the other: at most one of them has yet to
write, its version is the next one, and what it read is still so (`NextWriter`). That
is the invariant, `AgreeInv`: an orderly flag `Agrees`, i.e. the row's version counts the
contenders that have written (`Counted`), what one has read or is about to record is so
(`Current`), the snapshot of the row's version is the row (`Snapshots`), and the rules are those
of the newest rules edit that has come past installing them (`RulesHold`). There is a lemma for
each step that the flag notices (`AgreesCreating`, `AgreesReading`, `AgreesInstalling`,
`AgreesWriting`, `AgreesRecording`) and one for the others (`AgreesAside`). A quiet flag is
orderly, by `RacersAreNotBothAcknowledged` (`QuietIsOrderly`), and nobody owes its history
anything, so that the newest snapshots are there to be looked at.

**EventBatcher.** `TailInv` (types, one flush at a time, what waits is the tail) is
inductive; `FlushNowKeeps` is the lemma about a flush and `Regroup` the one about a batch
that goes back. From it, `FlushesDoNotOverlap` and `BatcherImplementsChannel`: the initial
state maps to the channel's, a settled flush maps to `Arrive` (confirmed or not), a push to
`Track`, all else stutters. `NoEventIsLost` and `EventsArriveInOrder` have an invariant of
their own over what was received (`BatchArrives`: a batch that arrives starts where the
confirmed events end).

**SdkClient.** `TypeCorrect` needs `ConnectInv`: one `connect()` at most is fetching, and there
is room for its connection when the answer comes. `StaleForCauseOnly` rests on `StaleInv`,
which follows each difference between store and server back to where its news is. `UnderWay`
is the set of messages between the server's write and the client's handler. A change is
known, missed, lost with its refresh, under a late fill, in a message under way or awaited by a
fetch (`NewsInv`). What Redis holds is followed by `CacheInv`: an entry that is older than a
change whose invalidation is done is a late fill, and whatever is published or asked for was
invalidated before. So an answer contains what it was asked for, from the cache or not, unless a
late fill came between (`AskedInv`); an earlier configuration, which an answer may be, is wrong
only about what changed since and about a flag whose deletion is under way, was missed, or was
heard (`PastInv`); a filled store that no older answer overwrote is wrong about nothing else
(`CopyInv`). That a deletion is final (`DeletedInv`: keys are not used again) is what makes it
safe to apply one to the store without a fetch. `FrameSteps` shows that most steps can only
lose messages, and lose none that is not counted; the others have a lemma each. `CacheServer`,
`CacheRedis` and `CacheClient` do the same for `CacheInv`. At rest nothing is under way, and
what is left of the invariant is the property. It is inductive whatever the order of messages
and answers, however often `connect()` and `close()` are called.

**Experiments.** `TypeInv` adds the domains of the counts and what each request and job holds at
its position; `Moves` says what one step can do to a job. `ConversionsAreShown`,
`RetriesAreBounded` and `CompletedJobsCount` come from `CountInv` and `EventInv`: an attempt
has counted what it has come past, an impression before its conversion, and an event is
counted at most once per attempt. `FrontIsCountedMore` adds that the front is strictly ahead
while the rest of the batch has not been reached (`OrderInv`). `MissingVariantsHaveACause` and
`StoppedIsLeftByRaceOnly` rest on `LifeInv`: an experiment without variants has a
create that has not come to them or failed there, and a request that is about to write may write to what it read.
`JobsRunDown` is the part of `JobsSettle` that needs no fairness: a move of a queued job ends
it, takes it further in its batch, or uses up an attempt or a stall, and both are bounded.

**Sessions.** `OvershootIsBounded` counts: wrong attempts and the logins that are being
checked together exceed the limit by no more than the number of calls, because a login enters
the check only below the limit and an attempt that turns out wrong moves from one count to the
other. `TabsRefreshOnce` shows that `refreshing` is on exactly while one call of the tab
refreshes; it is the invariant that makes the interceptor's flag safe to test. `TypeCorrect`
counts the calls that may still bring a token (`RoomInv`: a call that is repeated brings no
second one). `RefusalsHaveACause` follows each token (`TokenInv`): one that has lost its row has
ended (`Gone`); one that is on its way to the browser is nobody else's and no tab has used it
(`Undelivered`); one that a tab has rotated is the cookie only until the answer is there, and
meanwhile no other call of that tab refreshes with it (`Spent`), which is where
`TabsRefreshOnce` comes in. A refused token has no row (`Carried`), and a refusal cannot meet a
token that its own tab has spent. `CallsRunDown` does for `CallsSettle` what `JobsRunDown` does
for `JobsSettle`: a count (`Left`) goes down with every step of a call, the interceptor's
repetition included, because `RoomInv` lets a call be repeated once only.

**Onboarding.** `AccountsAreWhole` strengthens `VerifiedIsWhole` to `SignupInv`: a signup that
has come past a table has its row there, no step takes a row away (`RowsGrow`), and an address
with a token, or with a visit to its link under way, has every row. `DialogIsNotAhead` rests on `WalkInv`, which
adds what the requests under way will do: a creation that is about to move the dialog on has
activated its flag, or is adrift and will move nothing. `TypeCorrect` is not what it usually is: the
slugs are numbers below the number of addresses, and that they never run out is a counting
argument. `SlugInv` says that the slugs are taken in order, that a search has found taken all it
has come past, that two searches are of two addresses, neither of which has a workspace, and that
there are no more slugs than addresses with one; so a search always stops below the bound.

**Console.** `TypeCorrect` shows that the stored rules stay numbered from 0 in their order,
which the unique index on them wants and the sort relies on, and that pages, queries and forms
stay well typed. `RampUpIsSafe` shows for any hash, conditions and rules that raising the
rollout of a rule takes no user out of it or of a rule above it; it follows from
monotonicity of `IsInRollout` in the percentage and from the order of the rules being the same
before and after.

`PagesTellTheTruth` and `SavingRevertsNothing` rest on `PageInv`. For each query,
`Honest` says: data that is not excused is what the server has, or is marked for a fetch, or a
request has committed whose `onSuccess` will mark it; an answer under way that is not `late` is
what the server has, or will be asked for again. A page that is open
and has no fetch is not marked. So data may be old only while something is under way that will
see to it, and at rest nothing is. `Filled` says that a form without edits is the data of its
page, and `CalmInv` that what was sent from a page at rest is the default value as it is for as
long as nobody else sends or writes.

**Model-checked only.** All liveness (`StaleCacheHeals`, `DestroyReturns`,
`ConnectReturns`, `Reconnects`, `CopyConverges`, `JobsSettle`, `CallsSettle`), which is out of
the prover's reach, as ENABLED is: `JobsRunDown` and `CallsRunDown` are as near as the proofs come;
and what `AssignVariant` computes, which is a fold over data
and would need an induction. Every other property that a passing run checks is a theorem.

## 6. Not modelled, and why

* **Statistics** (`lib/stats/welch.ts`): floating-point arithmetic without state, and its
  result is never stored, because the upsert fails.
* **Heartbeat timers** of `websocket-client.ts`: what they do depends on real delays (a pong
  that takes longer than the ping interval). Their effect, a lost connection, is modelled.
* **Rate limiter** (`lib/rate-limit.ts`): no route uses it. The lock-out of login has its own
  counter, in `Sessions`.
* **CLI**: one request per command, and the flags commands exit before theirs, since `init`
  never stores the `apiKey` they look for (`packages/cli/src/config.ts:21`,
  `commands/init.ts:88`).
* **Roles, sanitizer, origin check, input validation**: they decide on the request alone;
  commands are valid and allowed. The one refusal that is modelled is the null name of a rule.
* **Reads that change nothing** (list, getVersions, getResults, `/me`, audit reading), logging,
  metrics, rendering of mails and pages, the landing page and the documentation, start-up
  and migrations.
* **Several projects**: tables, cache keys and channels are per project, and nothing crosses.
* **Redis losing its data or its subscriptions, PostgreSQL failing over**: outside the code.
* **Open sockets of a revoked SDK key**: the key is checked when the socket opens and not
  again; no document says what a revocation does to it.

## 7. What is left

* `FlagService` composed with `SdkClient`, so that what a client is answered comes from the
  statements of the writers, and an abstract specification of a server value with copies that
  follow it. `SdkClient` has its own write, invalidation and message per change, and a read of
  the configuration in one step, where `FlagService` has every statement.
