----------------------------- MODULE SdkClient -----------------------------
(***************************************************************************)
(* One FeatureVault SDK client (packages/sdk/src: index.ts, flag-store.ts, *)
(* websocket-client.ts) that keeps a copy of a project's flags: it fetches *)
(* the whole configuration over HTTP, then listens on a WebSocket for      *)
(* changes, and fetches again when it hears of one.  The server end of the *)
(* socket is apps/api/src/modules/sdk/sdk-api.routes.ts.                   *)
(*                                                                         *)
(* The server's configuration is abstracted to the revision at which each  *)
(* flag last changed, 0 when it is not in the configuration.  A fetch is   *)
(* answered from the configuration that Redis keeps for the project, which *)
(* is filled from PostgreSQL on a miss and deleted by every change before  *)
(* the change is published; FlagService has the statements of each change, *)
(* here they are its write, the deletion of the cache entry and the        *)
(* publication.  A read or a cached copy that mixes two revisions counts   *)
(* as the older one.  A flag's key cannot be used again after a deletion   *)
(* (unique index on project and key), so a deleted flag stays away.        *)
(*                                                                         *)
(* A WebSocketClient reconnects by itself until it is destroyed.  connect()*)
(* makes a new one each time it gets as far as its second step, and only   *)
(* the last one made is reachable from close().                            *)
(***************************************************************************)
EXTENDS Naturals, Sequences, FiniteSetsExt

CONSTANTS
    Flag,         \* flags of the project
    SeedFlag,     \* those that exist at the start
    MaxChanges,   \* bound on the changes made on the server
    MaxFetches,   \* bound on the HTTP fetches in flight at a time
    MaxSockets,   \* bound on the WebSocketClient objects made
    MaxDrops,     \* bound on lost connections and failed dials
    MaxFailures   \* bound on failed fetches and failed changes

ASSUME SeedAssumption == SeedFlag \subseteq Flag
ASSUME BoundAssumption ==
    /\ MaxChanges \in Nat /\ MaxDrops \in Nat /\ MaxFailures \in Nat
    /\ MaxFetches \in Nat \ {0} /\ MaxSockets \in Nat \ {0}

Slot   == 1..MaxFetches
Socket == 1..MaxSockets
Revision == 0..(MaxChanges + 1)
Config == [Flag -> Revision]

VARIABLES
    rev,        \* revision of the server's configuration
    truth,      \* revision at which each flag last changed, 0 if absent
    past,       \* the configuration at each revision so far
    retired,    \* deleted flags
    written,    \* changes written whose cache entry is not deleted yet
    unsent,     \* changes whose entry is deleted and which are not published yet
    cache,      \* revision of the cached configuration, 0 if there is none
    pending,    \* revisions read for the cache by getSDKConfig for someone else
    store,      \* the client's FlagStore
    phase,      \* how far connect() is
    closing,    \* how far close() is
    fetch,      \* HTTP requests in flight
    socket,     \* state of each WebSocketClient
    inbox,      \* messages on their way to each of them
    last,       \* this.wsClient: the last one made, 0 if none
    drops, failures,  \* counted against their bounds
    \* History variables, which name the ways a copy can go stale:
    known,      \* newest revision that was fetched into the store
    removed,    \* newest revision among the deletions heard of
    missed,     \* newest revision whose message reached no open socket, or was
                \* never published
    refreshLost,\* newest revision whose refresh failed
    overtaken,  \* the store was last filled by an answer that is older than
                \* what it had shown
    lostAt,     \* revision at which the last connection was lost, 0 if none
    cleared,    \* newest revision whose cache entry was deleted
    lateFill    \* newest revision that was cleared when an older one was cached

database == <<rev, truth, past, retired>>
redis    == <<cache, pending>>
server   == <<database, written, unsent, redis>>
sockets  == <<socket, inbox, last>>
bounds   == <<drops, failures>>
causes   == <<missed, refreshLost, overtaken, lostAt>>
fills    == <<cleared, lateFill>>
ghosts   == <<known, removed, causes, fills>>
vars == <<server, store, phase, closing, fetch, sockets, bounds, ghosts>>

\* `why' is "connect" or "refresh"; `after' is the revision of the message
\* that caused a refresh; `at' is the revision the server answers with.
NoFetch == [state |-> "free", why |-> "connect", after |-> 0, at |-> 0]

Newer(m, n) == Max({m, n})

Init ==
    /\ rev = 1
    /\ truth = [f \in Flag |-> IF f \in SeedFlag THEN 1 ELSE 0]
    /\ past = [n \in Revision |-> truth]
    /\ retired = {}
    /\ written = {} /\ unsent = {}
    /\ cache = 0 /\ pending = {}
    /\ store = [f \in Flag |-> 0]
    /\ phase = "new"
    /\ closing = "no"
    /\ fetch = [s \in Slot |-> NoFetch]
    /\ socket = [i \in Socket |-> "unused"]
    /\ inbox = [i \in Socket |-> <<>>]
    /\ last = 0
    /\ drops = 0 /\ failures = 0
    /\ known = 0 /\ removed = 0 /\ missed = 0 /\ refreshLost = 0
    /\ overtaken = FALSE /\ lostAt = 0
    /\ cleared = 0 /\ lateFill = 0

-----------------------------------------------------------------------------
(* The server: a change is written, the cache entry deleted, the change    *)
(* published and fanned out.                                               *)

Change(f, type) ==
    /\ rev <= MaxChanges
    /\ CASE type = "flag_created" -> truth[f] = 0 /\ f \notin retired
         [] OTHER                 -> truth[f] # 0
    /\ rev' = rev + 1
    /\ truth' = [truth EXCEPT ![f] = IF type = "flag_deleted" THEN 0 ELSE rev + 1]
    /\ past' = [past EXCEPT ![rev + 1] = truth']
    /\ retired' = IF type = "flag_deleted" THEN retired \union {f} ELSE retired
    /\ written' = written \union {[type |-> type, flag |-> f, at |-> rev + 1]}
    /\ UNCHANGED <<unsent, redis, store, phase, closing, fetch, sockets, bounds,
                   ghosts>>

\* Mutant of Invalidate: the entry stays.
InvalidateNothing(m) ==
    /\ m \in written
    /\ written' = written \ {m}
    /\ unsent' = unsent \union {m}
    /\ cleared' = Newer(m.at, cleared)
    /\ UNCHANGED <<database, redis, store, phase, closing, fetch, sockets,
                   bounds, known, removed, causes, lateFill>>

\* flagCache.invalidate(), which is awaited before the message is published.
Invalidate(m) ==
    /\ m \in written
    /\ written' = written \ {m}
    /\ unsent' = unsent \union {m}
    /\ cache' = 0
    /\ cleared' = Newer(m.at, cleared)
    /\ UNCHANGED <<database, pending, store, phase, closing, fetch, sockets,
                   bounds, known, removed, causes, lateFill>>

\* A statement after the write is rejected: the request answers 500, the change
\* stays and is not published.
ChangeFails(m) ==
    /\ m \in written \union unsent
    /\ failures < MaxFailures
    /\ failures' = failures + 1
    /\ written' = written \ {m} /\ unsent' = unsent \ {m}
    /\ missed' = Newer(m.at, missed)
    /\ UNCHANGED <<database, redis, store, phase, closing, fetch, sockets, drops,
                   known, removed, refreshLost, overtaken, lostAt, fills>>

Reachable(i) == socket[i] \in {"open", "closing"}

\* The pub/sub listener sends the message to every socket that is open on the
\* server's side.
FanOut(m) ==
    /\ m \in unsent
    /\ unsent' = unsent \ {m}
    /\ inbox' = [i \in Socket |-> IF Reachable(i)
                                  THEN Append(inbox[i], m) ELSE inbox[i]]
    /\ missed' = IF \A i \in Socket : ~Reachable(i)
                 THEN Newer(m.at, missed) ELSE missed
    /\ UNCHANGED <<database, written, redis, store, phase, closing, fetch, socket,
                   last, bounds, known, removed, refreshLost, overtaken, lostAt,
                   fills>>

-----------------------------------------------------------------------------
(* getSDKConfig(), for GET /sdk/v1/flags.  The look-up that misses and the *)
(* read that follows it are one step: an entry that is set between them    *)
(* makes no difference to either.                                          *)

SetCache(n) ==
    /\ cache' = n
    /\ lateFill' = IF n < cleared THEN cleared ELSE lateFill

Hit(s) ==
    /\ fetch[s].state = "asked"
    /\ cache # 0
    /\ fetch' = [fetch EXCEPT ![s].state = "answered", ![s].at = cache]
    /\ UNCHANGED <<server, store, phase, closing, sockets, bounds, ghosts>>

Load(s) ==
    /\ fetch[s].state = "asked"
    /\ cache = 0
    /\ fetch' = [fetch EXCEPT ![s].state = "loaded", ![s].at = rev]
    /\ UNCHANGED <<server, store, phase, closing, sockets, bounds, ghosts>>

\* The entry is set without a look at what was deleted since the read.
Fill(s) ==
    /\ fetch[s].state = "loaded"
    /\ fetch' = [fetch EXCEPT ![s].state = "answered"]
    /\ SetCache(fetch[s].at)
    /\ UNCHANGED <<database, written, unsent, pending, store, phase, closing,
                   sockets, bounds, known, removed, causes, cleared>>

\* The same for any other client of the project.
LoadElsewhere ==
    /\ cache = 0
    /\ pending' = pending \union {rev}
    /\ UNCHANGED <<database, written, unsent, cache, store, phase, closing,
                   fetch, sockets, bounds, ghosts>>

\* Several of them may have read the same revision.
FillElsewhere(n) ==
    /\ n \in pending
    /\ pending' \in {pending, pending \ {n}}
    /\ SetCache(n)
    /\ UNCHANGED <<database, written, unsent, store, phase, closing, fetch,
                   sockets, bounds, known, removed, causes, cleared>>

\* The entry's five minutes.
Expire ==
    /\ cache # 0
    /\ cache' = 0
    /\ UNCHANGED <<database, written, unsent, pending, store, phase, closing,
                   fetch, sockets, bounds, ghosts>>

-----------------------------------------------------------------------------
(* fetchFlags().                                                           *)

Free(s) == fetch[s].state = "free"

Ask(s, why, after) ==
    /\ Free(s)
    /\ fetch' = [fetch EXCEPT ![s].state = "asked", ![s].why = why,
                              ![s].after = after]

\* connect(), first step; it does nothing on a connected client.  The
\* application calls it again only when the first call, or close(), is over.
Connect ==
    /\ phase \in {"new", "failed", "closed"}
    /\ closing # "awaiting"
    /\ last < MaxSockets
    /\ \E s \in Slot : Ask(s, "connect", 0)
    /\ phase' = "fetching"
    /\ closing' = "no"
    /\ UNCHANGED <<server, store, sockets, bounds, ghosts>>

\* connect(), second step: `new WebSocketClient' and its first dial.
Dial == /\ last' = last + 1
        /\ socket' = [socket EXCEPT ![last + 1] = "dialing"]
        /\ UNCHANGED inbox

\* FlagStore.setAll: the response replaces the whole store.
SetAll(config) == store' = config

\* FlagStore.delete and FlagStore.clear.
Delete(f) == store' = [store EXCEPT ![f] = 0]
Clear == store' = [f \in Flag |-> 0]

\* Mutant of FetchArrives: every fetch goes on with the second step of
\* connect().
FetchArrivesAndDials(s) ==
    /\ fetch[s].state = "answered"
    /\ SetAll(past[fetch[s].at])
    /\ known' = Newer(fetch[s].at, known)
    /\ overtaken' = (fetch[s].at < Newer(known, removed))
    /\ fetch' = [fetch EXCEPT ![s] = NoFetch]
    /\ Dial
    /\ phase' = "dialing"
    /\ UNCHANGED <<server, closing, bounds, removed, missed, refreshLost, lostAt,
                   fills>>

\* The response arrives: setAll replaces the whole store, whatever is in it.
FetchArrives(s) ==
    /\ fetch[s].state = "answered"
    /\ SetAll(past[fetch[s].at])
    /\ known' = Newer(fetch[s].at, known)
    /\ overtaken' = (fetch[s].at < Newer(known, removed))
    /\ fetch' = [fetch EXCEPT ![s] = NoFetch]
    /\ IF fetch[s].why = "connect"
       THEN Dial /\ phase' = "dialing"
       ELSE UNCHANGED <<phase, sockets>>
    /\ UNCHANGED <<server, closing, bounds, removed, missed, refreshLost, lostAt,
                   fills>>

\* fetch() rejects, times out, or the status is not 2xx; the server's handler
\* may go on without the client and fill the cache.
FetchFails(s) ==
    /\ ~Free(s)
    /\ failures < MaxFailures
    /\ failures' = failures + 1
    /\ fetch' = [fetch EXCEPT ![s] = NoFetch]
    /\ IF fetch[s].why = "connect"
       THEN phase' = "failed" /\ UNCHANGED refreshLost
       ELSE /\ refreshLost' = Newer(fetch[s].after, refreshLost)
            /\ UNCHANGED phase
    /\ pending' = IF fetch[s].state = "loaded" THEN pending \union {fetch[s].at}
                                               ELSE pending
    /\ UNCHANGED <<database, written, unsent, cache, store, closing, sockets,
                   drops, known, removed, missed, overtaken, lostAt, fills>>

-----------------------------------------------------------------------------
(* The WebSocketClient.                                                    *)

\* The server registers the connection and the client sees it open.  The
\* onConnect callback only resolves the promise of connect().
Opened(i) ==
    /\ socket[i] = "dialing"
    /\ socket' = [socket EXCEPT ![i] = "open"]
    /\ phase' = IF phase = "dialing" /\ i = last THEN "ready" ELSE phase
    /\ UNCHANGED <<server, store, closing, fetch, inbox, last, bounds, ghosts>>

\* Mutant of DialTimeout: no timer runs while the socket is dialed.
NoDialTimeout == FALSE /\ UNCHANGED vars

\* connectTimeout: connect() rejects, the WebSocketClient lives on.
DialTimeout ==
    /\ phase = "dialing"
    /\ phase' = "failed"
    /\ UNCHANGED <<server, store, closing, fetch, sockets, bounds, ghosts>>

\* What the network loses with a connection: the messages under way on it.
Lost(i) ==
    /\ drops < MaxDrops
    /\ drops' = drops + 1
    /\ inbox' = [inbox EXCEPT ![i] = <<>>]
    /\ missed' = Max({missed} \union {inbox[i][k].at : k \in 1..Len(inbox[i])})
    /\ lostAt' = IF socket[i] = "open" THEN rev ELSE lostAt
    /\ UNCHANGED <<server, store, phase, closing, fetch, last, failures, known,
                   removed, refreshLost, overtaken, fills>>

\* Mutant of Dropped: the close handler schedules nothing.
DroppedForGood(i) ==
    /\ socket[i] \in {"dialing", "open"}
    /\ socket' = [socket EXCEPT ![i] = "dead"]
    /\ Lost(i)

\* A dial fails or a connection is lost; the close handler schedules a new
\* dial, after a delay that grows with the attempts, unless destroy() was
\* called.
Dropped(i) ==
    /\ socket[i] \in {"dialing", "open", "closing"}
    /\ socket' = [socket EXCEPT ![i] =
           IF socket[i] = "closing" THEN "dead" ELSE "waiting"]
    /\ Lost(i)

\* The closing handshake ends, after what the server sent before it.
Closed(i) ==
    /\ socket[i] = "closing"
    /\ inbox[i] = <<>>
    /\ socket' = [socket EXCEPT ![i] = "dead"]
    /\ UNCHANGED <<server, store, phase, closing, fetch, inbox, last, bounds,
                   ghosts>>

\* The reconnect timer fires.
Redial(i) ==
    /\ socket[i] = "waiting"
    /\ socket' = [socket EXCEPT ![i] = "dialing"]
    /\ UNCHANGED <<server, store, phase, closing, fetch, inbox, last, bounds,
                   ghosts>>

\* Mutant of HandleWSMessage: flag_created is not handled.
HandleIgnoresCreated(m) ==
    CASE m.type = "flag_updated" ->
           (\E s \in Slot : Ask(s, "refresh", m.at)) /\ UNCHANGED <<store, removed>>
      [] m.type = "flag_deleted" ->
           Delete(m.flag) /\ removed' = Newer(m.at, removed) /\ UNCHANGED fetch
      [] OTHER -> UNCHANGED <<store, removed, fetch>>

\* An update or a creation is fetched, with everything else; a deletion is
\* applied to the store.
HandleWSMessage(m) ==
    \/ /\ m.type \in {"flag_updated", "flag_created"}
       /\ \E s \in Slot : Ask(s, "refresh", m.at)
       /\ UNCHANGED <<store, removed>>
    \/ /\ m.type = "flag_deleted"
       /\ Delete(m.flag)
       /\ removed' = Newer(m.at, removed)
       /\ UNCHANGED fetch

\* The socket reads its next message.
Receive(i) ==
    /\ Reachable(i)
    /\ inbox[i] # <<>>
    /\ inbox' = [inbox EXCEPT ![i] = Tail(@)]
    /\ HandleWSMessage(Head(inbox[i]))
    /\ UNCHANGED <<server, phase, closing, socket, last, bounds, known, causes,
                   fills>>

-----------------------------------------------------------------------------
(* close(): it awaits the batcher, then tears down what it can reach.      *)

CloseBegins ==
    /\ closing # "awaiting"
    /\ phase # "new"
    /\ closing' = "awaiting"
    /\ UNCHANGED <<server, store, phase, fetch, sockets, bounds, ghosts>>

\* WebSocketClient.destroy: a connection is closed, a dial or a reconnect timer
\* ends here.
Destroy(i) ==
    socket' = [j \in Socket |->
        IF j # i THEN socket[j] ELSE IF Reachable(j) THEN "closing" ELSE "dead"]

\* The store is cleared, but a response or a message that is still under way
\* fills it again.
CloseEnds ==
    /\ closing = "awaiting"
    /\ closing' = "done"
    /\ Clear
    /\ Destroy(last)
    /\ phase' = IF phase = "ready" THEN "closed" ELSE phase
    /\ UNCHANGED <<server, fetch, inbox, last, bounds, ghosts>>

-----------------------------------------------------------------------------
ChangeType == {"flag_created", "flag_updated", "flag_deleted"}

Next ==
    \/ \E f \in Flag : \E t \in ChangeType : Change(f, t)
    \/ \E m \in written : Invalidate(m)
    \/ \E m \in written \union unsent : ChangeFails(m)
    \/ \E m \in unsent : FanOut(m)
    \/ LoadElsewhere \/ Expire
    \/ \E n \in pending : FillElsewhere(n)
    \/ \E s \in Slot : \/ Hit(s) \/ Load(s) \/ Fill(s)
                       \/ FetchArrives(s) \/ FetchFails(s)
    \/ \E i \in Socket : \/ Opened(i) \/ Dropped(i) \/ Closed(i)
                         \/ Redial(i) \/ Receive(i)
    \/ Connect \/ DialTimeout \/ CloseBegins \/ CloseEnds

Spec == Init /\ [][Next]_vars

\* Requests and responses travel, timers fire, sockets that can open do and
\* messages are read; nobody has to change a flag, to connect or to close,
\* and nothing has to fail.
FairSpec ==
    /\ Spec
    /\ WF_vars(\E m \in written : Invalidate(m))
    /\ WF_vars(\E m \in unsent : FanOut(m))
    /\ \A s \in Slot : /\ WF_vars(Hit(s) \/ Load(s) \/ Fill(s))
                       /\ WF_vars(FetchArrives(s))
    /\ \A i \in Socket : /\ WF_vars(Opened(i)) /\ WF_vars(Redial(i))
                         /\ WF_vars(Receive(i))
    /\ WF_vars(DialTimeout)
    /\ WF_vars(CloseEnds)

-----------------------------------------------------------------------------
(* Properties.                                                             *)

Fetch == [state : {"free", "asked", "loaded", "answered"},
          why : {"connect", "refresh"},
          after : Revision, at : Revision]

Message == [type : ChangeType, flag : Flag, at : Revision \ {0}]

\* Type invariant.
TypeOK ==
    /\ rev \in Revision \ {0}
    /\ truth \in Config
    /\ past \in [Revision -> Config]
    /\ retired \subseteq Flag
    /\ written \subseteq Message /\ unsent \subseteq Message
    /\ cache \in Revision /\ pending \subseteq Revision
    /\ store \in Config
    /\ phase \in {"new", "fetching", "dialing", "ready", "failed", "closed"}
    /\ closing \in {"no", "awaiting", "done"}
    /\ fetch \in [Slot -> Fetch]
    /\ socket \in [Socket -> {"unused", "dialing", "open", "waiting",
                           "closing", "dead"}]
    /\ \A i \in Socket : \A k \in 1..Len(inbox[i]) : inbox[i][k] \in Message
    /\ last \in 0..MaxSockets
    /\ drops \in 0..MaxDrops /\ failures \in 0..MaxFailures
    /\ {known, removed, missed, refreshLost, lostAt, cleared, lateFill}
           \subseteq Revision
    /\ overtaken \in BOOLEAN

\* The connection that the client knows of is open.
Listening == \E i \in Socket : i = last /\ socket[i] = "open"

\* Nothing is under way between the server and a connected client.
Quiet ==
    /\ phase = "ready"
    /\ Listening
    /\ written = {} /\ unsent = {}
    /\ \A i \in Socket : inbox[i] = <<>>
    /\ \A s \in Slot : Free(s)

\* The causes for which a client's copy may be stale until its next fetch: the
\* message of a change was never published or found no open connection, the
\* fetch after a message failed, two answers arrived out of order, or a getSDKConfig
\* that had read an older configuration cached it after the change was cleared.
Excused ==
    missed > known \/ refreshLost > known \/ overtaken \/ lateFill > known

\* A connected client at rest differs from the server for one of these causes
\* only: whatever the cache, the messages and the fetches do meanwhile, a change
\* whose message it heard is in its copy (index.ts:145-162, 191-205,
\* flags.service.ts:342-353).
StaleOnlyForCause == Quiet /\ store # truth => Excused

\* connect() always returns, with or without success (index.ts:41-59,
\* 146-188): each await in it is bounded by connectTimeout.
ConnectReturns ==
    phase \in {"fetching", "dialing"} ~> phase \notin {"fetching", "dialing"}

\* A connected client whose connection is lost gets a new one, unless it is
\* closed on purpose (websocket-client.ts:68-72, 120-125).
Reconnects ==
    (phase = "ready" /\ closing = "no") ~>
        (Listening \/ phase # "ready" \/ closing # "no")

\* Every flag change reaches a client that stays connected: once changes stop,
\* its copy is current for good, or it went stale for a cause above.
CopyConverges ==
    <>[](phase = "ready" /\ closing = "no" =>
            store = truth \/ Excused)

\* The claim of docs/page.tsx:641: on reconnect, the SDK catches up with the
\* updates it missed during the outage.
ReconnectCatchesUp == Quiet /\ lostAt > 0 /\ missed > lostAt => store = truth
=============================================================================
