-------------------------- MODULE SdkClientProofs --------------------------
(***************************************************************************)
(* Proofs about SdkClient, for any flags and any number of changes,        *)
(* fetches, connections, lost connections and failures: a connected client *)
(* at rest differs from the server for one of the named causes only.       *)
(***************************************************************************)
EXTENDS SdkClient, FiniteSetTheorems, WellFoundedInduction, SequenceTheorems,
        TLAPS

-----------------------------------------------------------------------------
(* The newest of some revisions.                                           *)

LEMMA NewerType ==
    ASSUME NEW m \in Nat, NEW n \in Nat
    PROVE  /\ Newer(m, n) \in {m, n} /\ Newer(m, n) \in Nat
           /\ Newer(m, n) >= m /\ Newer(m, n) >= n
<1>1. \E x \in {m, n} : \A y \in {m, n} : x >= y
  OBVIOUS
<1> QED
  BY <1>1 DEF Newer, Max

\* A bounded set of numbers that is not empty has a maximum: the sets of what
\* is above its members are finite, and one of them contains no other.
LEMMA MaxType ==
    ASSUME NEW B \in Nat, NEW S, S \subseteq 0..B, S # {}
    PROVE  Max(S) \in S /\ \A x \in S : Max(S) >= x
<1> DEFINE Above(x) == (x + 1)..B
           T == {Above(x) : x \in S}
           R == StrictSubsetOrdering(Nat)
<1>1. \A x \in S : x \in 0..B /\ IsFiniteSet(Above(x)) /\ Above(x) \in SUBSET Nat
  <2> SUFFICES ASSUME NEW x \in S
               PROVE  x \in 0..B /\ IsFiniteSet(Above(x)) /\ Above(x) \in SUBSET Nat
    OBVIOUS
  <2>1. x \in 0..B /\ x + 1 \in Int /\ B \in Int
    OBVIOUS
  <2>2. IsFiniteSet((x + 1)..B)
    BY <2>1, FS_Interval
  <2> QED
    BY <2>1, <2>2
<1>2. T \subseteq FiniteSubsetsOf(Nat) /\ T # {}
  BY <1>1 DEF FiniteSubsetsOf
<1>3. PICK t \in T : \A u \in T : <<u, t>> \notin R
  <2> HIDE DEF T
  <2>1. IsWellFoundedOn(R, FiniteSubsetsOf(Nat))
    BY FS_StrictSubsetOrderingWellFounded
  <2> HIDE DEF R
  <2> QED
    BY <1>2, <2>1, WFMin, Zenon
<1>4. PICK x \in S : t = Above(x)
  OBVIOUS
<1>5. \A y \in S : x >= y
  <2> SUFFICES ASSUME NEW y \in S, ~(x >= y) PROVE FALSE
    OBVIOUS
  <2>1. x \in 0..B /\ y \in 0..B /\ Above(y) \in SUBSET Nat /\ Above(x) \in SUBSET Nat
    BY <1>1
  <2>2. x + 1 \in Above(x) /\ x + 1 \notin Above(y) /\ Above(y) \subseteq Above(x)
    BY <2>1
  <2>3. <<Above(y), Above(x)>> \in R
    <3> HIDE DEF Above
    <3>1. Above(y) # Above(x)
      BY <2>2
    <3> QED
      BY <2>1, <2>2, <3>1 DEF StrictSubsetOrdering
  <2>4. Above(y) \in T
    OBVIOUS
  <2> QED
    BY <1>3, <1>4, <2>3, <2>4
<1> QED
  BY <1>5 DEF Max

-----------------------------------------------------------------------------
(* Type correctness.  An answer to connect() makes a connection, so there  *)
(* must be room for one: only one connect() is ever under way.             *)

ServerType ==
    /\ rev \in 1..(MaxChanges + 1)
    /\ truth \in Config
    /\ past \in [Revision -> Config]
    /\ retired \subseteq Flag
    /\ written \subseteq Message
    /\ unsent \subseteq Message
RedisType ==
    /\ cache \in Revision
    /\ pending \subseteq Revision
ClientType ==
    /\ store \in Config
    /\ phase \in {"new", "fetching", "dialing", "ready", "failed", "closed"}
    /\ closing \in {"no", "awaiting", "done"}
FetchType == fetch \in [Slot -> Fetch]
SocketType ==
    /\ socket \in [Socket -> {"unused", "dialing", "open", "waiting",
                              "closing", "dead"}]
    /\ inbox \in [Socket -> Seq(Message)]
    /\ last \in 0..MaxSockets
CountType ==
    /\ drops \in 0..MaxDrops
    /\ failures \in 0..MaxFailures
    /\ known \in Revision
    /\ removed \in Revision
    /\ missed \in Revision
    /\ refreshLost \in Revision
    /\ lostAt \in Revision
    /\ cleared \in Revision
    /\ lateFill \in Revision
    /\ overtaken \in BOOLEAN
TypeInv ==
    /\ ServerType /\ RedisType /\ ClientType /\ FetchType /\ SocketType
    /\ CountType

\* The slot holds the fetch of a connect().
IsConnect(s) == ~Free(s) /\ fetch[s].why = "connect"

ConnectInv ==
    \A s \in Slot : IsConnect(s) =>
        /\ phase = "fetching" /\ last < MaxSockets
        /\ \A r \in Slot : IsConnect(r) => r = s

USE DEF database, redis, server, sockets, bounds, causes, fills, ghosts

LEMMA RevisionType ==
    /\ MaxChanges + 1 \in Nat /\ Revision \subseteq Nat /\ 0 \in Revision
    /\ Revision \ {0} = 1..(MaxChanges + 1)
    /\ 1..(MaxChanges + 1) \subseteq Revision /\ Config = [Flag -> Revision]
    /\ \A m, n \in Revision : Newer(m, n) \in Revision
    /\ \A m \in Message : m.at \in Revision /\ m.at > 0 /\ m.flag \in Flag
<1>1. /\ MaxChanges + 1 \in Nat /\ Revision \subseteq Nat /\ 0 \in Revision
      /\ 1..(MaxChanges + 1) \subseteq Revision /\ Config = [Flag -> Revision]
      /\ Revision \ {0} = 1..(MaxChanges + 1)
  BY BoundAssumption DEF Revision, Config
<1>2. \A m, n \in Revision : Newer(m, n) \in Revision
  BY <1>1, NewerType
<1>3. \A m \in Message : m.at \in Revision /\ m.at > 0 /\ m.flag \in Flag
  BY <1>1 DEF Message
<1> QED
  BY <1>1, <1>2, <1>3

\* The type of a message under way.
LEMMA InboxType ==
    ASSUME inbox \in [Socket -> Seq(Message)], NEW i \in Socket
    PROVE  /\ Len(inbox[i]) \in Nat
           /\ \A k \in 1..Len(inbox[i]) :
                  inbox[i][k] \in Message /\ inbox[i][k].at \in 1..(MaxChanges + 1)
<1>1. inbox[i] \in Seq(Message)
  OBVIOUS
<1>2. \A m \in Message : m.at \in 1..(MaxChanges + 1)
  BY RevisionType DEF Message
<1>3. Len(inbox[i]) \in Nat /\ \A k \in 1..Len(inbox[i]) : inbox[i][k] \in Message
  BY <1>1
<1> QED
  BY <1>2, <1>3

LEMMA TypeInvImplies == TypeInv => TypeOK
<1> SUFFICES ASSUME TypeInv PROVE TypeOK
  OBVIOUS
<1>1. \A i \in Socket : \A k \in 1..Len(inbox[i]) : inbox[i][k] \in Message
  BY InboxType DEF TypeInv, SocketType
<1>2. {known, removed, missed, refreshLost, lostAt, cleared, lateFill}
          \subseteq Revision
  BY DEF TypeInv, CountType
<1>3. rev \in Revision \ {0}
  BY RevisionType DEF TypeInv, ServerType
<1> QED
  BY <1>1, <1>2, <1>3, Zenon
     DEF TypeOK, RedisType, TypeInv, ServerType, ClientType, FetchType, SocketType, CountType

LEMMA NoFetchType == NoFetch \in Fetch /\ NoFetch.state = "free"
BY RevisionType DEF NoFetch, Fetch

LEMMA TypeInit == Init => TypeInv /\ ConnectInv
<1> SUFFICES ASSUME Init PROVE TypeInv /\ ConnectInv
  OBVIOUS
<1> USE SeedAssumption, BoundAssumption
<1>2. ServerType
  <2>1. truth \in Config
    BY RevisionType DEF Init
  <2>2. past \in [Revision -> Config]
    BY <2>1 DEF Init
  <2> QED
    BY <2>1, <2>2 DEF Init, ServerType
<1>8. RedisType
  BY RevisionType DEF Init, RedisType
<1>3. ClientType
  BY RevisionType DEF Init, ClientType
<1>4. FetchType
  BY NoFetchType DEF Init, FetchType
<1>5. SocketType
  BY DEF Init, SocketType
<1>6. CountType
  <2>1. 0 \in Revision /\ 0 \in 0..MaxDrops /\ 0 \in 0..MaxFailures
    BY RevisionType
  <2> QED
    BY <2>1, Zenon DEF Init, CountType
<1>7. ConnectInv
  <2>1. \A s \in Slot : fetch[s].state = "free"
    BY DEF Init, NoFetch
  <2> QED
    BY <2>1, Zenon DEF ConnectInv, IsConnect, Free
<1> QED
  BY <1>2, <1>3, <1>4, <1>5, <1>6, <1>7, <1>8 DEF TypeInv

\* Losing a connection empties its inbox and counts what was in it as missed.
LEMMA LostEffect ==
    ASSUME SocketType, CountType, NEW i \in Socket, Lost(i)
    PROVE  /\ missed' \in 0..(MaxChanges + 1) /\ missed' >= missed
           /\ \A k \in 1..Len(inbox[i]) : missed' >= inbox[i][k].at
           /\ inbox' = [inbox EXCEPT ![i] = <<>>]
           /\ inbox' \in [Socket -> Seq(Message)]
<1> DEFINE S == {missed} \union {inbox[i][k].at : k \in 1..Len(inbox[i])}
<1>1. \A k \in 1..Len(inbox[i]) : inbox[i][k].at \in 1..(MaxChanges + 1)
  BY InboxType DEF SocketType
<1>2. S \subseteq 0..(MaxChanges + 1) /\ missed \in S
  <2>1. missed \in 0..(MaxChanges + 1)
    BY DEF CountType, Revision
  <2>2. 1..(MaxChanges + 1) \subseteq 0..(MaxChanges + 1)
    BY BoundAssumption
  <2> QED
    BY <1>1, <2>1, <2>2
<1>3. missed' = Max(S)
  BY DEF Lost
<1>4. MaxChanges + 1 \in Nat
  BY BoundAssumption
<1>5. Max(S) \in S /\ \A x \in S : Max(S) >= x
  <2> HIDE DEF S
  <2> QED
    BY <1>2, <1>4, MaxType
<1>6. inbox' = [inbox EXCEPT ![i] = <<>>] /\ inbox' \in [Socket -> Seq(Message)]
  BY DEF Lost, SocketType
<1> QED
  BY <1>2, <1>3, <1>5, <1>6

\* What getSDKConfig does for a fetch changes its slot, which keeps its kind and
\* the revision it waits for; the answer is what is cached, or what was read.
Serve(s) == Hit(s) \/ Load(s) \/ Fill(s)

LEMMA ServeEffect ==
    ASSUME TypeInv, NEW s \in Slot, Serve(s)
    PROVE  \E r \in Fetch :
              /\ fetch' = [fetch EXCEPT ![s] = r]
              /\ ~Free(s)
              /\ r.state \in {"loaded", "answered"}
              /\ r.why = fetch[s].why /\ r.after = fetch[s].after
              /\ \/ r.at = cache /\ cache # 0
                 \/ r.at = rev
                 \/ r.at = fetch[s].at /\ fetch[s].state = "loaded"
<1>1. fetch \in [Slot -> Fetch] /\ fetch[s] \in Fetch
  BY DEF TypeInv, FetchType
<1>2. rev \in Revision /\ cache \in Revision
  BY RevisionType DEF TypeInv, ServerType, RedisType
<1>3. CASE Hit(s)
  <2> DEFINE r == [fetch[s] EXCEPT !.state = "answered", !.at = cache]
  <2>1. r \in Fetch
    BY <1>1, <1>2 DEF Fetch
  <2>2. /\ r.state = "answered" /\ r.why = fetch[s].why
        /\ r.after = fetch[s].after /\ r.at = cache
    BY <1>1 DEF Fetch
  <2>3. fetch' = [fetch EXCEPT ![s] = r] /\ ~Free(s) /\ cache # 0
    BY <1>1, <1>3 DEF Hit, Free
  <2> QED
    BY <2>1, <2>2, <2>3
<1>4. CASE Load(s)
  <2> DEFINE r == [fetch[s] EXCEPT !.state = "loaded", !.at = rev]
  <2>1. r \in Fetch
    BY <1>1, <1>2 DEF Fetch
  <2>2. /\ r.state = "loaded" /\ r.why = fetch[s].why
        /\ r.after = fetch[s].after /\ r.at = rev
    BY <1>1 DEF Fetch
  <2>3. fetch' = [fetch EXCEPT ![s] = r] /\ ~Free(s)
    BY <1>1, <1>4 DEF Load, Free
  <2> QED
    BY <2>1, <2>2, <2>3
<1>5. CASE Fill(s)
  <2> DEFINE r == [fetch[s] EXCEPT !.state = "answered"]
  <2>1. r \in Fetch
    BY <1>1 DEF Fetch
  <2>2. /\ r.state = "answered" /\ r.why = fetch[s].why
        /\ r.after = fetch[s].after /\ r.at = fetch[s].at
    BY <1>1 DEF Fetch
  <2>3. fetch' = [fetch EXCEPT ![s] = r] /\ ~Free(s) /\ fetch[s].state = "loaded"
    BY <1>1, <1>5 DEF Fill, Free
  <2> QED
    BY <2>1, <2>2, <2>3
<1> QED
  BY <1>3, <1>4, <1>5 DEF Serve

\* A request takes a free slot.
LEMMA AskEffect ==
    ASSUME TypeInv, NEW s \in Slot, NEW why \in {"connect", "refresh"},
           NEW after \in Revision, Ask(s, why, after)
    PROVE  \E r \in Fetch :
              /\ fetch' = [fetch EXCEPT ![s] = r]
              /\ Free(s)
              /\ r.state = "asked" /\ r.why = why /\ r.after = after
<1>1. fetch \in [Slot -> Fetch] /\ fetch[s] \in Fetch
  BY DEF TypeInv, FetchType
<1> DEFINE r == [fetch[s] EXCEPT !.state = "asked", !.why = why, !.after = after]
<1>2. r \in Fetch
  BY <1>1 DEF Fetch, Revision
<1>3. r.state = "asked" /\ r.why = why /\ r.after = after
  BY <1>1 DEF Fetch
<1>4. fetch' = [fetch EXCEPT ![s] = r] /\ Free(s)
  BY <1>1 DEF Ask
<1> QED
  BY <1>2, <1>3, <1>4

\* Setting the cache.
LEMMA SetCacheType ==
    ASSUME CountType, NEW n \in Revision, SetCache(n)
    PROVE  cache' \in Revision /\ lateFill' \in Revision
BY DEF SetCache, CountType

LEMMA ServerTypeStep ==
    ASSUME TypeInv, ConnectInv,
           \/ \E f \in Flag, t \in ChangeType : Change(f, t)
           \/ \E m \in written : Invalidate(m)
           \/ \E m \in written \union unsent : ChangeFails(m)
           \/ \E m \in unsent : FanOut(m)
    PROVE  TypeInv' /\ ConnectInv'
<1> USE DEF TypeInv
<1>1. ASSUME NEW f \in Flag, NEW t \in ChangeType, Change(f, t)
      PROVE  TypeInv' /\ ConnectInv'
  <2>1. rev' = rev + 1 /\ rev' \in 1..(MaxChanges + 1)
    BY <1>1, BoundAssumption DEF Change, ServerType
  <2>2. truth' \in Config
    <3>1. 0 \in Revision /\ rev + 1 \in Revision /\ Config = [Flag -> Revision]
      BY <2>1, RevisionType
    <3>2. truth' = [truth EXCEPT ![f] = IF t = "flag_deleted" THEN 0 ELSE rev + 1]
      BY <1>1 DEF Change
    <3> QED
      BY <3>1, <3>2 DEF ServerType
  <2>3. past' \in [Revision -> Config]
    BY <1>1, <2>2 DEF Change, ServerType
  <2>4. [type |-> t, flag |-> f, at |-> rev + 1] \in Message
    BY <2>1, RevisionType DEF Message
  <2>5. ServerType'
    BY <1>1, <2>1, <2>2, <2>3, <2>4 DEF Change, ServerType
  <2>6. RedisType' /\ ClientType' /\ FetchType' /\ SocketType' /\ CountType'
    BY <1>1 DEF Change, RedisType, ClientType, FetchType, SocketType, CountType
  <2>7. ConnectInv'
    BY <1>1 DEF Change, ConnectInv, IsConnect, Free
  <2> QED
    BY <2>5, <2>6, <2>7
<1>2. ASSUME NEW m \in written, Invalidate(m)
      PROVE  TypeInv' /\ ConnectInv'
  <2>1. m \in Message /\ m.at \in Revision
    BY RevisionType DEF ServerType
  <2>2. ServerType'
    BY <1>2, <2>1 DEF Invalidate, ServerType
  <2>3. RedisType' /\ ClientType' /\ FetchType' /\ SocketType'
    BY <1>2, RevisionType DEF Invalidate, RedisType, ClientType, FetchType, SocketType
  <2>4. CountType'
    BY <1>2, <2>1, RevisionType DEF Invalidate, CountType
  <2>5. ConnectInv'
    BY <1>2 DEF Invalidate, ConnectInv, IsConnect, Free
  <2> QED
    BY <2>2, <2>3, <2>4, <2>5
<1>3. ASSUME NEW m \in written \union unsent, ChangeFails(m)
      PROVE  TypeInv' /\ ConnectInv'
  <2>1. m \in Message /\ m.at \in Revision
    BY RevisionType DEF ServerType
  <2>2. ServerType'
    BY <1>3 DEF ChangeFails, ServerType
  <2>3. RedisType' /\ ClientType' /\ FetchType' /\ SocketType'
    BY <1>3 DEF ChangeFails, RedisType, ClientType, FetchType, SocketType
  <2>4. CountType'
    <3>1. failures' \in 0..MaxFailures
      BY <1>3, BoundAssumption DEF ChangeFails, CountType
    <3>2. missed' \in Revision
      BY <1>3, <2>1, RevisionType DEF ChangeFails, CountType
    <3> QED
      BY <1>3, <3>1, <3>2, Zenon DEF ChangeFails, CountType
  <2>5. ConnectInv'
    BY <1>3 DEF ChangeFails, ConnectInv, IsConnect, Free
  <2> QED
    BY <2>2, <2>3, <2>4, <2>5
<1>4. ASSUME NEW m \in unsent, FanOut(m)
      PROVE  TypeInv' /\ ConnectInv'
  <2>1. m \in Message /\ m.at \in Revision
    BY RevisionType DEF ServerType
  <2>2. SocketType'
    BY <1>4, <2>1 DEF FanOut, SocketType
  <2>3. CountType'
    BY <1>4, <2>1, RevisionType DEF FanOut, CountType
  <2>4. ServerType' /\ RedisType' /\ ClientType' /\ FetchType'
    BY <1>4 DEF FanOut, ServerType, RedisType, ClientType, FetchType
  <2>5. ConnectInv'
    BY <1>4 DEF FanOut, ConnectInv, IsConnect, Free
  <2> QED
    BY <2>2, <2>3, <2>4, <2>5
<1> QED
  BY <1>1, <1>2, <1>3, <1>4

LEMMA CacheTypeStep ==
    ASSUME TypeInv, ConnectInv,
           \/ \E s \in Slot : Serve(s)
           \/ LoadElsewhere \/ Expire
           \/ \E n \in pending : FillElsewhere(n)
    PROVE  TypeInv' /\ ConnectInv'
<1> USE DEF TypeInv
<1>1. ASSUME NEW s \in Slot, Serve(s)
      PROVE  TypeInv' /\ ConnectInv'
  <2>1. PICK r \in Fetch : fetch' = [fetch EXCEPT ![s] = r] /\ ~Free(s)
                           /\ r.state \in {"loaded", "answered"} /\ r.why = fetch[s].why
    BY <1>1, ServeEffect
  <2>2. FetchType'
    BY <2>1 DEF FetchType
  <2>3. ServerType' /\ ClientType' /\ SocketType'
    BY <1>1 DEF Serve, Hit, Load, Fill, ServerType, ClientType, SocketType
  <2>4. cache' \in Revision /\ lateFill' \in Revision
    <3>1. CASE Fill(s)
      <4>1. fetch[s].at \in Revision
        BY DEF FetchType, Fetch, Revision
      <4> QED
        BY <3>1, <4>1, SetCacheType DEF Fill
    <3>2. CASE Hit(s) \/ Load(s)
      BY <3>2 DEF Hit, Load, RedisType, CountType
    <3> QED
      BY <1>1, <3>1, <3>2 DEF Serve
  <2>5. RedisType' /\ CountType'
    <3>1. /\ UNCHANGED <<pending, drops, failures, known, removed, missed, refreshLost>>
          /\ UNCHANGED <<lostAt, cleared, overtaken>>
      BY <1>1 DEF Serve, Hit, Load, Fill
    <3> QED
      BY <2>4, <3>1, Zenon DEF RedisType, CountType
  <2>6. \A q \in Slot : IsConnect(q)' <=> IsConnect(q)
    BY <2>1 DEF FetchType, IsConnect, Free
  <2>7. phase' = phase /\ last' = last
    BY <1>1 DEF Serve, Hit, Load, Fill
  <2>8. ConnectInv'
    BY <2>6, <2>7 DEF ConnectInv
  <2> QED
    BY <2>2, <2>3, <2>5, <2>8
<1>2. ASSUME LoadElsewhere \/ Expire PROVE TypeInv' /\ ConnectInv'
  <2>1. ServerType' /\ ClientType' /\ FetchType' /\ SocketType' /\ CountType'
    BY <1>2 DEF LoadElsewhere, Expire, ServerType, ClientType, FetchType,
                SocketType, CountType
  <2>2. RedisType'
    BY <1>2, RevisionType DEF LoadElsewhere, Expire, RedisType, ServerType
  <2>3. ConnectInv'
    BY <1>2 DEF LoadElsewhere, Expire, ConnectInv, IsConnect, Free
  <2> QED
    BY <2>1, <2>2, <2>3
<1>3. ASSUME NEW n \in pending, FillElsewhere(n) PROVE TypeInv' /\ ConnectInv'
  <2>1. n \in Revision
    BY RevisionType DEF RedisType
  <2>2. cache' \in Revision /\ lateFill' \in Revision
    BY <1>3, <2>1, SetCacheType DEF FillElsewhere
  <2>3. ServerType' /\ ClientType' /\ FetchType' /\ SocketType'
    BY <1>3 DEF FillElsewhere, ServerType, ClientType, FetchType, SocketType
  <2>4. RedisType'
    BY <1>3, <2>2 DEF FillElsewhere, RedisType
  <2>5. CountType'
    BY <1>3, <2>2, Zenon DEF FillElsewhere, CountType
  <2>6. ConnectInv'
    BY <1>3 DEF FillElsewhere, ConnectInv, IsConnect, Free
  <2> QED
    BY <2>3, <2>4, <2>5, <2>6
<1> QED
  BY <1>1, <1>2, <1>3

LEMMA FetchTypeStep ==
    ASSUME TypeInv, ConnectInv,
           Connect \/ \E s \in Slot : FetchArrives(s) \/ FetchFails(s)
    PROVE  TypeInv' /\ ConnectInv'
<1> USE DEF TypeInv
<1>1. ASSUME Connect PROVE TypeInv' /\ ConnectInv'
  <2>1. PICK s \in Slot : Ask(s, "connect", 0)
    BY <1>1 DEF Connect
  <2>2. PICK r \in Fetch : /\ fetch' = [fetch EXCEPT ![s] = r]
                           /\ Free(s)
                           /\ r.state = "asked" /\ r.why = "connect"
    BY <2>1, AskEffect, RevisionType
  <2>3. FetchType'
    BY <2>2 DEF FetchType
  <2>4. ClientType'
    BY <1>1 DEF Connect, ClientType
  <2>5. ServerType' /\ RedisType' /\ SocketType' /\ CountType'
    BY <1>1 DEF Connect, ServerType, RedisType, SocketType, CountType
  <2>6. \A q \in Slot : ~IsConnect(q)
    BY <1>1 DEF Connect, ConnectInv
  <2>7. \A q \in Slot : IsConnect(q)' => q = s
    BY <2>2, <2>6 DEF FetchType, IsConnect, Free
  <2>8. phase' = "fetching" /\ last' < MaxSockets
    BY <1>1 DEF Connect
  <2>9. ConnectInv'
    BY <2>7, <2>8 DEF ConnectInv
  <2> QED
    BY <2>3, <2>4, <2>5, <2>9
<1>2. ASSUME NEW s \in Slot, FetchArrives(s)
      PROVE  TypeInv' /\ ConnectInv'
  <2>1. /\ fetch[s] \in Fetch /\ fetch[s].at \in Revision /\ ~Free(s)
        /\ past[fetch[s].at] \in Config
    BY <1>2 DEF FetchArrives, FetchType, Fetch, Free, ServerType
  <2>2. fetch' = [fetch EXCEPT ![s] = NoFetch] /\ FetchType'
    BY <1>2, NoFetchType DEF FetchArrives, FetchType
  <2>3. ServerType' /\ RedisType'
    BY <1>2 DEF FetchArrives, ServerType, RedisType
  <2>4. CountType'
    <3>1. known' \in Revision
      BY <1>2, <2>1, RevisionType DEF FetchArrives, CountType
    <3>2. overtaken' \in BOOLEAN
      BY <1>2 DEF FetchArrives
    <3> QED
      BY <1>2, <3>1, <3>2, Zenon DEF FetchArrives, CountType
  <2>5. CASE fetch[s].why = "connect"
    <3>1. phase = "fetching" /\ last < MaxSockets /\ \A r \in Slot : IsConnect(r) => r = s
      BY <2>1, <2>5 DEF ConnectInv, IsConnect
    <3>2. Dial /\ phase' = "dialing"
      BY <1>2, <2>5 DEF FetchArrives
    <3>3. SocketType'
      BY <3>1, <3>2, BoundAssumption DEF Dial, SocketType, Socket
    <3>4. ClientType'
      BY <1>2, <2>1, <3>2 DEF FetchArrives, SetAll, ClientType
    <3>5. \A q \in Slot : ~IsConnect(q)'
      BY <2>2, <3>1, NoFetchType DEF FetchType, IsConnect, Free
    <3> QED
      BY <2>2, <2>3, <2>4, <3>3, <3>4, <3>5 DEF ConnectInv
  <2>6. CASE fetch[s].why # "connect"
    <3>1. UNCHANGED <<phase, socket, inbox, last>>
      BY <1>2, <2>6 DEF FetchArrives
    <3>2. SocketType' /\ ClientType'
      BY <1>2, <2>1, <3>1 DEF FetchArrives, SetAll, ClientType, SocketType
    <3>3. \A q \in Slot : IsConnect(q)' => IsConnect(q)
      BY <2>2, NoFetchType DEF FetchType, IsConnect, Free
    <3>4. ConnectInv'
      BY <3>1, <3>3 DEF ConnectInv
    <3> QED
      BY <2>2, <2>3, <2>4, <3>2, <3>4
  <2> QED
    BY <2>5, <2>6
<1>3. ASSUME NEW s \in Slot, FetchFails(s)
      PROVE  TypeInv' /\ ConnectInv'
  <2>1. fetch[s] \in Fetch /\ fetch[s].after \in Revision /\ ~Free(s)
    BY <1>3 DEF FetchFails, FetchType, Fetch, Revision
  <2>2. fetch' = [fetch EXCEPT ![s] = NoFetch] /\ FetchType'
    BY <1>3, NoFetchType DEF FetchFails, FetchType
  <2>3. ServerType' /\ SocketType'
    BY <1>3 DEF FetchFails, ServerType, SocketType
  <2>8. RedisType'
    BY <1>3 DEF FetchFails, FetchType, Fetch, RedisType
  <2>4. ClientType'
    BY <1>3 DEF FetchFails, ClientType
  <2>5. CountType'
    <3>1. failures' \in 0..MaxFailures
      BY <1>3, BoundAssumption DEF FetchFails, CountType
    <3>2. refreshLost' \in Revision
      BY <1>3, <2>1, RevisionType DEF FetchFails, CountType
    <3> QED
      BY <1>3, <3>1, <3>2, Zenon DEF FetchFails, CountType
  <2>6. CASE fetch[s].why = "connect"
    <3>1. \A q \in Slot : IsConnect(q) => q = s
      BY <2>1, <2>6 DEF ConnectInv, IsConnect
    <3>2. \A q \in Slot : ~IsConnect(q)'
      BY <2>2, <3>1, NoFetchType DEF FetchType, IsConnect, Free
    <3> QED
      BY <2>2, <2>3, <2>4, <2>5, <2>8, <3>2 DEF ConnectInv
  <2>7. CASE fetch[s].why # "connect"
    <3>1. phase' = phase /\ last' = last
      BY <1>3, <2>7 DEF FetchFails
    <3>2. \A q \in Slot : IsConnect(q)' => IsConnect(q)
      BY <2>2, NoFetchType DEF FetchType, IsConnect, Free
    <3> QED
      BY <2>2, <2>3, <2>4, <2>5, <2>8, <3>1, <3>2 DEF ConnectInv
  <2> QED
    BY <2>6, <2>7
<1> QED
  BY <1>1, <1>2, <1>3

LEMMA SocketTypeStep ==
    ASSUME TypeInv, ConnectInv,
           \E i \in Socket : \/ Opened(i) \/ Dropped(i) \/ Closed(i)
                             \/ Redial(i) \/ Receive(i)
    PROVE  TypeInv' /\ ConnectInv'
<1> USE DEF TypeInv
<1>1. ASSUME NEW i \in Socket, Opened(i) PROVE TypeInv' /\ ConnectInv'
  <2>1. ServerType' /\ RedisType' /\ FetchType' /\ CountType'
    BY <1>1 DEF Opened, ServerType, RedisType, FetchType, CountType
  <2>2. SocketType' /\ ClientType'
    BY <1>1 DEF Opened, SocketType, ClientType
  <2>3. ConnectInv'
    BY <1>1 DEF Opened, ConnectInv, IsConnect, Free
  <2> QED
    BY <2>1, <2>2, <2>3
<1>2. ASSUME NEW i \in Socket, Dropped(i) PROVE TypeInv' /\ ConnectInv'
  <2>1. Lost(i)
    BY <1>2 DEF Dropped
  <2>2. ServerType' /\ RedisType' /\ ClientType' /\ FetchType'
    BY <2>1 DEF Lost, ServerType, RedisType, ClientType, FetchType
  <2>3. SocketType'
    BY <1>2, <2>1, LostEffect DEF Dropped, Lost, SocketType
  <2>4. CountType'
    <3>1. drops' \in 0..MaxDrops
      BY <2>1, BoundAssumption DEF Lost, CountType
    <3>2. missed' \in Revision
      BY <2>1, LostEffect DEF Revision
    <3>3. lostAt' \in Revision
      BY <2>1, RevisionType DEF Lost, CountType, ServerType
    <3> QED
      BY <2>1, <3>1, <3>2, <3>3, Zenon DEF Lost, CountType
  <2>5. ConnectInv'
    BY <2>1 DEF Lost, ConnectInv, IsConnect, Free
  <2> QED
    BY <2>2, <2>3, <2>4, <2>5
<1>3. ASSUME NEW i \in Socket, Closed(i) \/ Redial(i) PROVE TypeInv' /\ ConnectInv'
  <2>1. ServerType' /\ RedisType' /\ ClientType' /\ FetchType' /\ CountType'
    BY <1>3 DEF Closed, Redial, ServerType, RedisType, ClientType, FetchType,
                CountType
  <2>2. SocketType'
    BY <1>3 DEF Closed, Redial, SocketType
  <2>3. ConnectInv'
    BY <1>3 DEF Closed, Redial, ConnectInv, IsConnect, Free
  <2> QED
    BY <2>1, <2>2, <2>3
<1>4. ASSUME NEW i \in Socket, Receive(i) PROVE TypeInv' /\ ConnectInv'
  <2> DEFINE m == Head(inbox[i])
  <2>1. m \in Message /\ Tail(inbox[i]) \in Seq(Message)
    BY <1>4 DEF Receive, SocketType
  <2>2. m.at \in Revision /\ m.flag \in Flag
    BY <2>1, RevisionType
  <2>3. ServerType' /\ RedisType' /\ SocketType'
    BY <1>4, <2>1 DEF Receive, ServerType, RedisType, SocketType
  <2>4. /\ UNCHANGED <<phase, closing, last, drops, failures, known, missed>>
        /\ UNCHANGED <<refreshLost, overtaken, lostAt, cleared, lateFill>>
        /\ HandleWSMessage(m)
    BY <1>4 DEF Receive
  <2> HIDE DEF m
  <2>5. CASE m.type \in {"flag_updated", "flag_created"}
    <3>1. PICK s \in Slot : Ask(s, "refresh", m.at)
      BY <2>4, <2>5 DEF HandleWSMessage
    <3>2. store' = store /\ removed' = removed
      BY <2>4, <2>5 DEF HandleWSMessage
    <3>3. PICK r \in Fetch : /\ fetch' = [fetch EXCEPT ![s] = r]
                             /\ Free(s)
                             /\ r.state = "asked" /\ r.why = "refresh"
      BY <2>2, <3>1, AskEffect
    <3>4. FetchType'
      BY <3>3 DEF FetchType
    <3>5. ClientType' /\ CountType'
      BY <2>4, <3>2 DEF ClientType, CountType
    <3>6. \A q \in Slot : IsConnect(q)' => IsConnect(q)
      BY <3>3 DEF FetchType, IsConnect, Free
    <3>7. ConnectInv'
      BY <2>4, <3>6 DEF ConnectInv
    <3> QED
      BY <2>3, <3>4, <3>5, <3>7
  <2>6. CASE m.type \notin {"flag_updated", "flag_created"}
    <3>1. Delete(m.flag) /\ removed' = Newer(m.at, removed) /\ fetch' = fetch
      BY <2>4, <2>6 DEF HandleWSMessage
    <3>2. ClientType'
      <4>1. 0 \in Revision /\ Config = [Flag -> Revision]
        BY RevisionType
      <4>2. store' \in Config
        BY <2>2, <3>1, <4>1 DEF Delete, ClientType
      <4> QED
        BY <2>4, <4>2 DEF ClientType
    <3>3. removed' \in Revision
      BY <2>2, <3>1, RevisionType DEF CountType
    <3>4. CountType' /\ FetchType'
      BY <2>4, <3>1, <3>3, Zenon DEF CountType, FetchType
    <3>5. ConnectInv'
      BY <2>4, <3>1 DEF ConnectInv, IsConnect, Free
    <3> QED
      BY <2>3, <3>2, <3>4, <3>5
  <2> QED
    BY <2>5, <2>6
<1> QED
  BY <1>1, <1>2, <1>3, <1>4

LEMMA CloseTypeStep ==
    ASSUME TypeInv, ConnectInv, DialTimeout \/ CloseBegins \/ CloseEnds
    PROVE  TypeInv' /\ ConnectInv'
<1> USE DEF TypeInv
<1>1. ASSUME DialTimeout \/ CloseBegins PROVE TypeInv' /\ ConnectInv'
  <2>1. ServerType' /\ RedisType' /\ FetchType' /\ SocketType' /\ CountType'
    BY <1>1 DEF DialTimeout, CloseBegins, ServerType, RedisType, FetchType,
                SocketType, CountType
  <2>2. ClientType'
    BY <1>1 DEF DialTimeout, CloseBegins, ClientType
  <2>3. ConnectInv'
    BY <1>1 DEF DialTimeout, CloseBegins, ConnectInv, IsConnect, Free
  <2> QED
    BY <2>1, <2>2, <2>3
<1>2. ASSUME CloseEnds PROVE TypeInv' /\ ConnectInv'
  <2>1. ServerType' /\ RedisType' /\ FetchType' /\ CountType'
    BY <1>2 DEF CloseEnds, ServerType, RedisType, FetchType, CountType
  <2>2. SocketType'
    BY <1>2 DEF CloseEnds, Destroy, SocketType
  <2>3. ClientType'
    <3>1. store' \in Config
      BY <1>2, RevisionType DEF CloseEnds, Clear
    <3> QED
      BY <1>2, <3>1 DEF CloseEnds, ClientType
  <2>4. ConnectInv'
    BY <1>2 DEF CloseEnds, ConnectInv, IsConnect, Free
  <2> QED
    BY <2>1, <2>2, <2>3, <2>4
<1> QED
  BY <1>1, <1>2

LEMMA TypeStutter == TypeInv /\ ConnectInv /\ UNCHANGED vars => TypeInv' /\ ConnectInv'
BY DEF TypeInv, ServerType, RedisType, ClientType, FetchType, SocketType,
       CountType, ConnectInv, IsConnect, Free, vars

LEMMA TypeNext == TypeInv /\ ConnectInv /\ [Next]_vars => TypeInv' /\ ConnectInv'
<1> SUFFICES ASSUME TypeInv, ConnectInv, [Next]_vars PROVE TypeInv' /\ ConnectInv'
  OBVIOUS
<1>1. CASE \/ \E f \in Flag : \E t \in ChangeType : Change(f, t)
           \/ \E m \in written : Invalidate(m)
           \/ \E m \in written \union unsent : ChangeFails(m)
           \/ \E m \in unsent : FanOut(m)
  BY <1>1, ServerTypeStep
<1>6. CASE \/ \E s \in Slot : Serve(s)
           \/ LoadElsewhere \/ Expire
           \/ \E n \in pending : FillElsewhere(n)
  BY <1>6, CacheTypeStep
<1>2. CASE Connect \/ \E s \in Slot : FetchArrives(s) \/ FetchFails(s)
  BY <1>2, FetchTypeStep
<1>3. CASE \E i \in Socket : \/ Opened(i) \/ Dropped(i) \/ Closed(i)
                             \/ Redial(i) \/ Receive(i)
  BY <1>3, SocketTypeStep
<1>4. CASE DialTimeout \/ CloseBegins \/ CloseEnds
  BY <1>4, CloseTypeStep
<1>5. CASE UNCHANGED vars
  BY <1>5, TypeStutter
<1> QED
  BY <1>1, <1>2, <1>3, <1>4, <1>5, <1>6 DEF Next, Serve

\* The client, its fetches and its connections stay well typed; in particular
\* an answer to connect() always finds room for a new connection.
THEOREM TypeCorrect == Spec => []TypeOK
<1>1. Init => TypeInv /\ ConnectInv
  BY TypeInit
<1>2. TypeInv /\ ConnectInv /\ [Next]_vars => TypeInv' /\ ConnectInv'
  BY TypeNext
<1>3. TypeInv => TypeOK
  BY TypeInvImplies
<1> QED
  BY <1>1, <1>2, <1>3, PTL DEF Spec

-----------------------------------------------------------------------------
(* What is known of the cache, of the messages under way, of the answers    *)
(* and of the store.  A difference between the store and the server is     *)
(* announced by a message under way, will be repaired by a fetch, or has   *)
(* one of the named causes; every step keeps this, whatever the order of   *)
(* messages, cache fills and answers.                                      *)

\* The messages between the server's write and the client's handler.
Carried(i) == {inbox[i][k] : k \in 1..Len(inbox[i])}
Published == unsent \union UNION {Carried(i) : i \in Socket}
UnderWay == written \union Published

DeletionSince(f, n) ==
    \E m \in UnderWay : m.type = "flag_deleted" /\ m.flag = f /\ m.at > n

\* Nothing is newer than the server.
BoundInv ==
    /\ \A f \in Flag : truth[f] <= rev
    /\ \A m \in UnderWay : m.at <= rev
    /\ known <= rev /\ removed <= rev
    /\ \A s \in Slot : ~Free(s) => fetch[s].after <= rev

\* What is cached, or about to be, is not from the future.  An entry that is
\* older than a change that was cleared is a late fill, and what is published or
\* asked for was cleared before.
CacheInv ==
    /\ cache <= rev
    /\ \A n \in pending : n <= rev
    /\ lateFill <= cleared
    /\ cache # 0 => cleared <= cache \/ cleared <= lateFill
    /\ \A m \in Published : m.at <= cleared
    /\ \A s \in Slot : ~Free(s) => fetch[s].after <= cleared

\* An answer contains what it was asked for, unless it comes from a late fill,
\* and is not from the future; a connect() was caused by no message.
AskedInv ==
    \A s \in Slot :
        /\ IsConnect(s) => fetch[s].after = 0
        /\ fetch[s].state \in {"loaded", "answered"} =>
               /\ fetch[s].at \in 1..rev
               /\ fetch[s].after <= fetch[s].at \/ fetch[s].after <= lateFill

\* A deletion under way is of a flag that is deleted, for good.
DeletedInv ==
    \A m \in UnderWay : m.type = "flag_deleted" =>
        truth[m.flag] = 0 /\ m.flag \in retired

\* How an earlier configuration can differ from the server's.
PastInv ==
    \A n \in 1..rev, f \in Flag :
        /\ truth[f] \in 1..n => past[n][f] = truth[f]
        /\ truth[f] = 0 /\ past[n][f] # 0 =>
               DeletionSince(f, n) \/ missed > n \/ removed > n

\* Where the news of a change is.
NewsInv ==
    \A f \in Flag : truth[f] > 1 =>
        \/ truth[f] <= known \/ truth[f] <= missed \/ truth[f] <= refreshLost
        \/ truth[f] <= lateFill
        \/ \E m \in UnderWay : m.at = truth[f] /\ m.type # "flag_deleted"
        \/ \E s \in Slot : ~Free(s) /\ fetch[s].after >= truth[f]

\* connect() has filled the store and close() has not cleared it since.
Filled ==
    \/ phase = "ready"
    \/ /\ phase = "dialing" /\ last \in Socket
       /\ socket[last] \in {"dialing", "open", "waiting"}

\* How the store can differ from the server.
CopyInv ==
    Filled =>
        /\ known >= 1
        /\ ~overtaken => \A f \in Flag :
              /\ truth[f] \in 1..known => store[f] = truth[f]
              /\ truth[f] = 0 /\ store[f] # 0 =>
                     DeletionSince(f, known) \/ missed > known

StaleInv ==
    /\ BoundInv /\ AskedInv /\ DeletedInv /\ PastInv /\ NewsInv /\ CopyInv

-----------------------------------------------------------------------------
(* What the steps do to them.                                              *)

LEMMA UnderWayType == TypeInv => UnderWay \subseteq Message
BY InboxType DEF TypeInv, ServerType, SocketType, UnderWay, Published, Carried

\* The numbers that are compared.
LEMMA NumberType ==
    ASSUME TypeInv
    PROVE  /\ rev \in Nat /\ rev >= 1
           /\ known \in Nat /\ removed \in Nat
           /\ missed \in Nat /\ refreshLost \in Nat
           /\ cache \in Nat /\ cleared \in Nat /\ lateFill \in Nat
           /\ pending \subseteq Nat
           /\ \A f \in Flag : truth[f] \in Nat /\ store[f] \in Nat
           /\ \A m \in UnderWay : m.at \in Nat /\ m.at > 0 /\ m.flag \in Flag
           /\ \A s \in Slot : fetch[s].at \in Nat /\ fetch[s].after \in Nat
<1>1. rev \in Nat /\ rev >= 1
  BY DEF TypeInv, ServerType
<1>2. /\ known \in Nat /\ removed \in Nat /\ missed \in Nat /\ refreshLost \in Nat
      /\ cleared \in Nat /\ lateFill \in Nat
  BY RevisionType DEF TypeInv, CountType
<1>7. cache \in Nat /\ pending \subseteq Nat
  BY RevisionType DEF TypeInv, RedisType
<1>3. \A f \in Flag : truth[f] \in Nat /\ store[f] \in Nat
  BY RevisionType DEF TypeInv, ServerType, ClientType
<1>4. \A m \in UnderWay : m.at \in Nat /\ m.at > 0 /\ m.flag \in Flag
  BY UnderWayType, RevisionType
<1>5. \A s \in Slot : fetch[s] \in Fetch
  BY DEF TypeInv, FetchType
<1>6. \A r \in Fetch : r.at \in Nat /\ r.after \in Nat
  BY RevisionType DEF Fetch, Revision
<1> QED
  BY <1>1, <1>2, <1>3, <1>4, <1>5, <1>6, <1>7

\* A change writes one flag and puts one message under way.
LEMMA ChangeEffect ==
    ASSUME TypeInv, NEW f \in Flag, NEW t \in ChangeType, Change(f, t)
    PROVE  \E m \in Message :
              /\ m.type = t /\ m.flag = f /\ m.at = rev + 1
              /\ UnderWay' = UnderWay \union {m}
<1>1. rev + 1 \in 1..(MaxChanges + 1)
  BY BoundAssumption DEF TypeInv, ServerType, Change
<1> DEFINE m == [type |-> t, flag |-> f, at |-> rev + 1]
<1>2. m \in Message
  BY <1>1, RevisionType DEF Message
<1>3. written' = written \union {m} /\ UNCHANGED <<unsent, inbox>>
  BY DEF Change
<1>4. UnderWay' = UnderWay \union {m}
  BY <1>3 DEF UnderWay, Published, Carried
<1> QED
  BY <1>2, <1>4

\* A message leaves, and reaches a socket or is counted as missed.
LEMMA FanOutEffect ==
    ASSUME TypeInv, NEW m \in unsent, FanOut(m)
    PROVE  /\ Published' \subseteq Published /\ missed' >= missed
           /\ \A n \in Published : n \in Published' \/ missed' >= n.at
<1>1. m \in Message /\ m.at \in Nat /\ m.at \in Revision /\ missed \in Nat
  BY RevisionType DEF TypeInv, ServerType, CountType
<1>2. \A i \in Socket : inbox[i] \in Seq(Message) /\ Len(inbox[i]) \in Nat
  BY DEF TypeInv, SocketType
<1>3. \A i \in Socket :
        inbox'[i] = IF Reachable(i) THEN Append(inbox[i], m) ELSE inbox[i]
  BY DEF FanOut
<1>4. \A i \in Socket :
        Carried(i)' = Carried(i) \union (IF Reachable(i) THEN {m} ELSE {})
  <2> SUFFICES ASSUME NEW i \in Socket
               PROVE  Carried(i)' = Carried(i) \union (IF Reachable(i) THEN {m} ELSE {})
    OBVIOUS
  <2>1. CASE Reachable(i)
    <3>1. inbox'[i] = Append(inbox[i], m)
      BY <1>3, <2>1
    <3> QED
      BY <1>1, <1>2, <2>1, <3>1, AppendProperties DEF Carried
  <2>2. CASE ~Reachable(i)
    BY <1>3, <2>2 DEF Carried
  <2> QED
    BY <2>1, <2>2
<1>5. unsent' = unsent \ {m} /\ m \in Published
  BY DEF FanOut, Published
<1>6. Published' \subseteq Published
  <2> SUFFICES ASSUME NEW n \in Published' PROVE n \in Published
    OBVIOUS
  <2>1. CASE n \in unsent'
    BY <1>5, <2>1 DEF Published
  <2>2. CASE \E i \in Socket : n \in Carried(i)'
    <3>1. PICK i \in Socket : n \in Carried(i)'
      BY <2>2
    <3>2. n \in Carried(i) \/ n = m
      BY <1>4, <3>1
    <3> QED
      BY <1>5, <3>2 DEF Published
  <2> QED
    BY <2>1, <2>2 DEF Published
\* What was under way still is, or it is the message that was sent.
<1>7. \A n \in Published : n \in Published' \/ n = m
  <2> SUFFICES ASSUME NEW n \in Published, n # m PROVE n \in Published'
    OBVIOUS
  <2>1. CASE n \in unsent
    BY <1>5, <2>1 DEF Published
  <2>2. CASE \E i \in Socket : n \in Carried(i)
    <3>1. PICK i \in Socket : n \in Carried(i)
      BY <2>2
    <3>2. n \in Carried(i)'
      BY <1>4, <3>1
    <3> QED
      BY <3>2 DEF Published
  <2> QED
    BY <2>1, <2>2 DEF Published
<1>8. CASE \A i \in Socket : ~Reachable(i)
  <2>1. missed' = Newer(m.at, missed)
    BY <1>8 DEF FanOut
  <2>2. missed' >= missed /\ missed' >= m.at
    BY <1>1, <2>1, NewerType
  <2> QED
    BY <1>6, <1>7, <2>2
<1>9. CASE \E i \in Socket : Reachable(i)
  <2>1. missed' = missed
    BY <1>9 DEF FanOut
  <2>2. PICK i \in Socket : m \in Carried(i)'
    BY <1>4, <1>9
  <2>3. m \in Published'
    BY <2>2 DEF Published
  <2> QED
    BY <1>1, <1>6, <1>7, <2>1, <2>3
<1> QED
  BY <1>8, <1>9

\* A lost connection takes its messages with it.
LEMMA DroppedEffect ==
    ASSUME TypeInv, NEW i \in Socket, Dropped(i)
    PROVE  /\ Published' \subseteq Published /\ missed' >= missed
           /\ \A n \in Published : n \in Published' \/ missed' >= n.at
<1>1. Lost(i) /\ unsent' = unsent
  BY DEF Dropped, Lost
<1>2. /\ missed' >= missed
      /\ \A k \in 1..Len(inbox[i]) : missed' >= inbox[i][k].at
      /\ inbox' = [inbox EXCEPT ![i] = <<>>]
  BY <1>1, LostEffect DEF TypeInv
<1>3. \A j \in Socket : inbox'[j] = IF j = i THEN <<>> ELSE inbox[j]
  BY <1>2 DEF TypeInv, SocketType
<1>4. Published' \subseteq Published
  BY <1>1, <1>3 DEF Published, Carried
<1>5. \A n \in Published : n \in Published' \/ missed' >= n.at
  BY <1>1, <1>2, <1>3 DEF Published, Carried
<1> QED
  BY <1>2, <1>4, <1>5

\* The message that is read is no longer under way.
LEMMA ReceiveEffect ==
    ASSUME TypeInv, NEW i \in Socket, Receive(i)
    PROVE  \E m \in Published :
              /\ Published' \subseteq Published
              /\ \A n \in Published : n \in Published' \/ n = m
              /\ HandleWSMessage(m)
<1> DEFINE q == inbox[i]
           m == Head(q)
<1>1. q \in Seq(Message) /\ q # <<>>
  BY DEF TypeInv, SocketType, Receive
<1>2. /\ Len(q) \in Nat /\ Len(q) >= 1 /\ m = q[1]
      /\ Tail(q) \in Seq(Message) /\ Len(Tail(q)) = Len(q) - 1
      /\ \A k \in 1..Len(Tail(q)) : Tail(q)[k] = q[k + 1]
  BY <1>1, HeadTailProperties
<1>3. \A j \in Socket : inbox'[j] = IF j = i THEN Tail(q) ELSE inbox[j]
  BY DEF TypeInv, SocketType, Receive
<1>4. unsent' = unsent /\ HandleWSMessage(m)
  BY DEF Receive
<1>5. m \in Carried(i)
  BY <1>2 DEF Carried
<1>6. Carried(i)' \subseteq Carried(i) /\ Carried(i) \subseteq Carried(i)' \union {m}
  <2>1. inbox'[i] = Tail(q)
    BY <1>3
  <2>2. ASSUME NEW k \in 1..Len(Tail(q)) PROVE Tail(q)[k] \in Carried(i)
    BY <1>2, <2>2 DEF Carried
  <2>3. ASSUME NEW k \in 1..Len(q), k # 1
        PROVE  k - 1 \in 1..Len(Tail(q)) /\ q[k] = Tail(q)[k - 1]
    <3>1. k - 1 \in 1..Len(Tail(q)) /\ (k - 1) + 1 = k
      BY <1>2, <2>3
    <3> QED
      BY <1>2, <3>1
  <2>4. Carried(i)' = {Tail(q)[k] : k \in 1..Len(Tail(q))}
    BY <2>1 DEF Carried
  <2>5. Carried(i) = {q[k] : k \in 1..Len(q)}
    BY DEF Carried
  <2> HIDE DEF q
  <2> QED
    BY <1>2, <2>2, <2>3, <2>4, <2>5
<1>7. \A j \in Socket : j # i => Carried(j)' = Carried(j)
  BY <1>3 DEF Carried
<1> HIDE DEF q, m
<1>8. m \in Published
  BY <1>5 DEF Published
<1>9. Published' \subseteq Published
  <2> SUFFICES ASSUME NEW n \in Published' PROVE n \in Published
    OBVIOUS
  <2>1. CASE n \in unsent
    BY <2>1 DEF Published
  <2>2. CASE \E j \in Socket : n \in Carried(j)'
    <3>1. PICK j \in Socket : n \in Carried(j)'
      BY <2>2
    <3>2. n \in Carried(j)
      BY <1>6, <1>7, <3>1
    <3> QED
      BY <3>2 DEF Published
  <2> QED
    BY <1>4, <2>1, <2>2 DEF Published
<1>10. \A n \in Published : n \in Published' \/ n = m
  <2> SUFFICES ASSUME NEW n \in Published, n # m PROVE n \in Published'
    OBVIOUS
  <2>1. CASE n \in unsent
    BY <1>4, <2>1 DEF Published
  <2>2. CASE \E j \in Socket : n \in Carried(j)
    <3>1. PICK j \in Socket : n \in Carried(j)
      BY <2>2
    <3>2. n \in Carried(j)'
      BY <1>6, <1>7, <3>1
    <3> QED
      BY <3>2 DEF Published
  <2> QED
    BY <2>1, <2>2 DEF Published
<1> QED
  BY <1>4, <1>8, <1>9, <1>10

\* A step that does not change what is written.
LEMMA UnderWayFrame ==
    ASSUME written' = written, Published' \subseteq Published
    PROVE  /\ UnderWay' \subseteq UnderWay
           /\ \A n \in UnderWay :
                  n \in UnderWay' \/ (n \in Published /\ n \notin Published')
BY DEF UnderWay

\* A message that is about to be published, and one that never will be.
LEMMA InvalidateEffect ==
    ASSUME NEW m \in written, Invalidate(m)
    PROVE  UnderWay' = UnderWay /\ Published' = Published \union {m}
<1>1. /\ written' = written \ {m} /\ unsent' = unsent \union {m}
      /\ inbox' = inbox
  BY DEF Invalidate
<1>2. Published' = Published \union {m}
  BY <1>1 DEF Published, Carried
<1> QED
  BY <1>1, <1>2 DEF UnderWay

LEMMA ChangeFailsEffect ==
    ASSUME TypeInv, NEW m \in written \union unsent, ChangeFails(m)
    PROVE  /\ UnderWay' \subseteq UnderWay /\ Published' \subseteq Published
           /\ missed' >= missed
           /\ \A n \in UnderWay : n \in UnderWay' \/ missed' >= n.at
<1>1. /\ written' = written \ {m} /\ unsent' = unsent \ {m}
      /\ inbox' = inbox /\ missed' = Newer(m.at, missed)
  BY DEF ChangeFails
<1>2. m.at \in Nat /\ missed \in Nat
  BY RevisionType DEF TypeInv, ServerType, CountType
<1>3. missed' >= missed /\ missed' >= m.at
  BY <1>1, <1>2, NewerType
<1>4. Published' \subseteq Published /\ \A n \in Published : n \in Published' \/ n = m
  BY <1>1 DEF Published, Carried
<1>5. UnderWay' \subseteq UnderWay /\ \A n \in UnderWay : n \in UnderWay' \/ n = m
  BY <1>1, <1>4 DEF UnderWay
<1> QED
  BY <1>3, <1>4, <1>5

-----------------------------------------------------------------------------
(* Every step keeps what is known of the cache.                            *)

\* An entry that is older than what was cleared counts as a late fill.
LEMMA SetCacheEffect ==
    ASSUME TypeInv, CacheInv, NEW n \in Nat, SetCache(n)
    PROVE  /\ cache' = n /\ lateFill' >= lateFill /\ lateFill' <= cleared
           /\ cleared <= n \/ cleared <= lateFill'
BY NumberType DEF SetCache, CacheInv

\* The steps that set no entry and clear none for a change.
LEMMA CacheFrame ==
    ASSUME TypeInv, CacheInv, UNCHANGED <<rev, cleared, lateFill>>,
           cache' = cache \/ cache' = 0,
           \A n \in pending' : n \in pending \/ n <= rev,
           Published' \subseteq Published,
           \A s \in Slot : fetch'[s].state # "free" => fetch'[s].after <= cleared
    PROVE  CacheInv'
BY NumberType DEF CacheInv, Free

LEMMA CacheServer ==
    ASSUME TypeInv, CacheInv,
           \/ \E f \in Flag : \E t \in ChangeType : Change(f, t)
           \/ \E m \in written : Invalidate(m)
           \/ \E m \in written \union unsent : ChangeFails(m)
           \/ \E m \in unsent : FanOut(m)
    PROVE  CacheInv'
<1>1. \A s \in Slot : fetch[s].state # "free" => fetch[s].after <= cleared
  BY DEF CacheInv, Free
<1>2. ASSUME NEW f \in Flag, NEW t \in ChangeType, Change(f, t) PROVE CacheInv'
  <2>1. rev' = rev + 1 /\ UNCHANGED <<unsent, inbox, cache, pending, fetch, cleared, lateFill>>
    BY <1>2 DEF Change
  <2>2. Published' = Published
    BY <2>1 DEF Published, Carried
  <2>3. cache <= rev + 1 /\ \A n \in pending : n <= rev + 1
    BY NumberType DEF CacheInv
  <2> QED
    BY <2>1, <2>2, <2>3 DEF CacheInv, Free
<1>3. ASSUME NEW m \in written, Invalidate(m) PROVE CacheInv'
  <2>1. /\ UNCHANGED <<rev, pending, fetch, lateFill>> /\ cache' = 0
        /\ cleared' = Newer(m.at, cleared)
    BY <1>3 DEF Invalidate
  <2>2. m.at \in Nat /\ cleared \in Nat /\ lateFill \in Nat /\ rev \in Nat
    BY NumberType DEF UnderWay
  <2>3. cleared' \in Nat /\ cleared' >= m.at /\ cleared' >= cleared
    BY <2>1, <2>2, NewerType
  <2>4. \A n \in Published' : n.at <= cleared'
    <3> SUFFICES ASSUME NEW n \in Published' PROVE n.at <= cleared'
      OBVIOUS
    <3>1. n \in Published \/ n = m
      BY <1>3, InvalidateEffect
    <3>2. CASE n \in Published
      <4>1. n.at <= cleared /\ n.at \in Nat
        BY <3>2, NumberType DEF CacheInv, UnderWay
      <4> QED
        BY <2>2, <2>3, <4>1
    <3> QED
      BY <2>3, <3>1, <3>2
  <2>5. \A s \in Slot : fetch'[s].state # "free" => fetch'[s].after <= cleared'
    BY <1>1, <2>1, <2>2, <2>3, NumberType
  <2>6. lateFill' <= cleared' /\ cache' <= rev'
    BY <2>1, <2>2, <2>3 DEF CacheInv
  <2> QED
    BY <2>1, <2>4, <2>5, <2>6 DEF CacheInv, Free
<1>4. ASSUME NEW m \in written \union unsent, ChangeFails(m) PROVE CacheInv'
  <2>1. UNCHANGED <<rev, cleared, lateFill, cache, pending, fetch>>
    BY <1>4 DEF ChangeFails
  <2> QED
    BY <1>1, <1>4, <2>1, ChangeFailsEffect, CacheFrame
<1>5. ASSUME NEW m \in unsent, FanOut(m) PROVE CacheInv'
  <2>1. UNCHANGED <<rev, cleared, lateFill, cache, pending, fetch>>
    BY <1>5 DEF FanOut
  <2> QED
    BY <1>1, <1>5, <2>1, FanOutEffect, CacheFrame
<1> QED
  BY <1>2, <1>3, <1>4, <1>5

LEMMA CacheRedis ==
    ASSUME TypeInv, CacheInv, AskedInv,
           \/ \E s \in Slot : Serve(s)
           \/ LoadElsewhere \/ Expire
           \/ \E n \in pending : FillElsewhere(n)
    PROVE  CacheInv'
<1>1. \A s \in Slot : fetch[s].state # "free" => fetch[s].after <= cleared
  BY DEF CacheInv, Free
<1>2. rev \in Nat /\ pending \subseteq Nat
  BY NumberType
<1>3. ASSUME NEW s \in Slot, Serve(s) PROVE CacheInv'
  <2>1. PICK r \in Fetch : /\ fetch' = [fetch EXCEPT ![s] = r] /\ ~Free(s)
                           /\ r.after = fetch[s].after
    BY <1>3, ServeEffect
  <2>2. \A q \in Slot : fetch'[q].state # "free" => fetch'[q].after <= cleared
    <3>1. \A q \in Slot : fetch'[q] = IF q = s THEN r ELSE fetch[q]
      BY <2>1 DEF TypeInv, FetchType
    <3>2. r.after <= cleared
      BY <1>1, <2>1 DEF Free
    <3> QED
      BY <1>1, <3>1, <3>2
  <2>3. UNCHANGED <<rev, unsent, inbox, pending, cleared>>
    BY <1>3 DEF Serve, Hit, Load, Fill
  <2>4. Published' = Published
    BY <2>3 DEF Published, Carried
  <2>5. CASE Hit(s) \/ Load(s)
    <3>1. UNCHANGED <<cache, lateFill>>
      BY <2>5 DEF Hit, Load
    <3> QED
      BY <2>2, <2>3, <2>4, <3>1, CacheFrame
  <2>6. CASE Fill(s)
    <3>1. SetCache(fetch[s].at) /\ fetch[s].at \in 1..rev
      BY <2>6 DEF Fill, AskedInv
    <3> DEFINE n == fetch[s].at
    <3>2. n \in Nat /\ n <= rev
      BY <1>2, <3>1
    <3>3. /\ cache' = n /\ lateFill' <= cleared
          /\ cleared <= n \/ cleared <= lateFill'
      BY <3>1, <3>2, SetCacheEffect
    <3> HIDE DEF n
    <3> QED
      BY <2>2, <2>3, <2>4, <3>2, <3>3 DEF CacheInv, Free
  <2> QED
    BY <1>3, <2>5, <2>6 DEF Serve
<1>4. ASSUME LoadElsewhere \/ Expire PROVE CacheInv'
  <2>1. UNCHANGED <<rev, unsent, inbox, fetch, cleared, lateFill>>
    BY <1>4 DEF LoadElsewhere, Expire
  <2>2. Published' = Published
    BY <2>1 DEF Published, Carried
  <2>3. cache' = cache \/ cache' = 0
    BY <1>4 DEF LoadElsewhere, Expire
  <2>4. \A n \in pending' : n \in pending \/ n <= rev
    BY <1>2, <1>4 DEF LoadElsewhere, Expire
  <2> QED
    BY <1>1, <2>1, <2>2, <2>3, <2>4, CacheFrame
<1>5. ASSUME NEW n \in pending, FillElsewhere(n) PROVE CacheInv'
  <2>1. UNCHANGED <<rev, unsent, inbox, fetch, cleared>> /\ pending' \subseteq pending
    BY <1>5 DEF FillElsewhere
  <2>2. Published' = Published
    BY <2>1 DEF Published, Carried
  <2>3. n \in Nat /\ n <= rev /\ SetCache(n)
    BY <1>2, <1>5 DEF FillElsewhere, CacheInv
  <2>4. /\ cache' = n /\ lateFill' <= cleared
        /\ cleared <= n \/ cleared <= lateFill'
    BY <2>3, SetCacheEffect
  <2> QED
    BY <1>1, <2>1, <2>2, <2>3, <2>4 DEF CacheInv, Free
<1> QED
  BY <1>3, <1>4, <1>5

LEMMA CacheClient ==
    ASSUME TypeInv, CacheInv, AskedInv,
           \/ \E s \in Slot : FetchArrives(s) \/ FetchFails(s)
           \/ Connect
           \/ \E i \in Socket : Receive(i) \/ Dropped(i)
    PROVE  CacheInv'
<1>1. \A s \in Slot : fetch[s].state # "free" => fetch[s].after <= cleared
  BY DEF CacheInv, Free
<1>2. ASSUME NEW s \in Slot, FetchArrives(s) \/ FetchFails(s) PROVE CacheInv'
  <2>1. UNCHANGED <<rev, unsent, inbox, cleared, lateFill, cache>>
    BY <1>2 DEF FetchArrives, FetchFails, Dial
  <2>2. Published' = Published
    BY <2>1 DEF Published, Carried
  <2>3. \A q \in Slot : fetch'[q] = IF q = s THEN NoFetch ELSE fetch[q]
    BY <1>2 DEF FetchArrives, FetchFails, TypeInv, FetchType
  <2>4. \A q \in Slot : fetch'[q].state # "free" => fetch'[q].after <= cleared
    BY <1>1, <2>3, NoFetchType
  <2>5. \A n \in pending' : n \in pending \/ n <= rev
    BY <1>2, NumberType DEF FetchArrives, FetchFails, AskedInv
  <2> QED
    BY <2>1, <2>2, <2>4, <2>5, CacheFrame
<1>3. ASSUME NEW s \in Slot, NEW why \in {"connect", "refresh"}, NEW after \in Revision,
             Ask(s, why, after), after <= cleared
      PROVE  \A q \in Slot : fetch'[q].state # "free" => fetch'[q].after <= cleared
  <2>1. PICK r \in Fetch : fetch' = [fetch EXCEPT ![s] = r] /\ r.after = after
    BY <1>3, AskEffect
  <2>2. \A q \in Slot : fetch'[q] = IF q = s THEN r ELSE fetch[q]
    BY <2>1 DEF TypeInv, FetchType
  <2> QED
    BY <1>1, <1>3, <2>1, <2>2
<1>4. CASE Connect
  <2>1. UNCHANGED <<rev, unsent, inbox, cleared, lateFill, cache, pending>>
    BY <1>4 DEF Connect
  <2>2. Published' = Published
    BY <2>1 DEF Published, Carried
  <2>3. 0 \in Revision /\ 0 <= cleared
    BY RevisionType, NumberType
  <2>4. PICK s \in Slot : Ask(s, "connect", 0)
    BY <1>4 DEF Connect
  <2>5. \A q \in Slot : fetch'[q].state # "free" => fetch'[q].after <= cleared
    BY <1>3, <2>3, <2>4
  <2> QED
    BY <2>1, <2>2, <2>5, CacheFrame
<1>5. ASSUME NEW i \in Socket, Receive(i) PROVE CacheInv'
  <2>1. UNCHANGED <<rev, cleared, lateFill, cache, pending>>
    BY <1>5 DEF Receive
  <2>2. PICK m \in Published : Published' \subseteq Published /\ HandleWSMessage(m)
    BY <1>5, ReceiveEffect
  <2>3. m.at \in Revision /\ m.at <= cleared
    BY UnderWayType, RevisionType DEF CacheInv, UnderWay
  <2>4. fetch' = fetch \/ \E s \in Slot : Ask(s, "refresh", m.at)
    BY <2>2 DEF HandleWSMessage
  <2>5. \A q \in Slot : fetch'[q].state # "free" => fetch'[q].after <= cleared
    BY <1>1, <1>3, <2>3, <2>4
  <2> QED
    BY <2>1, <2>2, <2>5, CacheFrame
<1>6. ASSUME NEW i \in Socket, Dropped(i) PROVE CacheInv'
  <2>1. UNCHANGED <<rev, cleared, lateFill, cache, pending, fetch>>
    BY <1>6 DEF Dropped, Lost
  <2> QED
    BY <1>1, <1>6, <2>1, DroppedEffect, CacheFrame
<1> QED
  BY <1>2, <1>4, <1>5, <1>6

LEMMA CacheNext ==
    TypeInv /\ CacheInv /\ AskedInv /\ [Next]_vars => CacheInv'
<1> SUFFICES ASSUME TypeInv, CacheInv, AskedInv, [Next]_vars PROVE CacheInv'
  OBVIOUS
<1>1. CASE \/ \E i \in Socket : Opened(i) \/ Closed(i) \/ Redial(i)
           \/ DialTimeout \/ CloseBegins \/ CloseEnds \/ UNCHANGED vars
  <2>1. UNCHANGED <<rev, unsent, inbox, cleared, lateFill, cache, pending, fetch>>
    BY <1>1 DEF Opened, Closed, Redial, DialTimeout, CloseBegins, CloseEnds, vars
  <2>2. Published' = Published
    BY <2>1 DEF Published, Carried
  <2> QED
    BY <2>1, <2>2, CacheFrame DEF CacheInv, Free
<1> QED
  BY <1>1, CacheServer, CacheRedis, CacheClient DEF Next, Serve

-----------------------------------------------------------------------------
(* Every step keeps what is known of the messages, answers and store.      *)

\* The steps that neither write on the server nor fill the store.
Frame ==
    /\ UNCHANGED <<rev, truth, past, retired, fetch, known, removed, refreshLost,
                   overtaken>>
    /\ UnderWay' \subseteq UnderWay /\ missed' >= missed /\ lateFill' >= lateFill
    /\ \A n \in UnderWay : n \in UnderWay' \/ missed' >= n.at
    /\ Filled' => Filled /\ store' = store

LEMMA FrameSteps ==
    ASSUME TypeInv, CacheInv,
           \/ \E m \in written : Invalidate(m)
           \/ \E m \in written \union unsent : ChangeFails(m)
           \/ \E m \in unsent : FanOut(m)
           \/ LoadElsewhere \/ Expire
           \/ \E n \in pending : FillElsewhere(n)
           \/ \E i \in Socket : Opened(i) \/ Dropped(i) \/ Closed(i) \/ Redial(i)
           \/ DialTimeout \/ CloseBegins \/ CloseEnds \/ UNCHANGED vars
    PROVE  Frame
<1> DEFINE Same == UNCHANGED <<rev, truth, past, retired, fetch, known, removed,
                               refreshLost, overtaken>>
           Kept == UnderWay' = UnderWay /\ missed' = missed /\ lateFill' = lateFill
<1>1. missed \in Nat /\ lateFill \in Nat
  BY NumberType
<1>2. ASSUME Same, Kept, Filled' => Filled /\ store' = store PROVE Frame
  BY <1>1, <1>2 DEF Frame
<1>3. ASSUME UNCHANGED <<written, unsent, inbox, missed, lateFill>> PROVE Kept
  BY <1>3 DEF UnderWay, Published, Carried
<1>4. ASSUME NEW m \in unsent, FanOut(m) PROVE Frame
  <2>1. Same /\ lateFill' = lateFill /\ store' = store /\ UNCHANGED <<phase, socket, last>>
    BY <1>4 DEF FanOut
  <2>2. Filled' = Filled
    BY <2>1 DEF Filled
  <2>3. written' = written
    BY <1>4 DEF FanOut
  <2> QED
    BY <1>1, <1>4, <2>1, <2>2, <2>3, FanOutEffect, UnderWayFrame DEF Frame
<1>10. ASSUME NEW m \in written, Invalidate(m) PROVE Frame
  <2>1. Same /\ UNCHANGED <<lateFill, missed, store, phase, socket, last>>
    BY <1>10 DEF Invalidate
  <2>2. Filled' = Filled
    BY <2>1 DEF Filled
  <2> QED
    BY <1>2, <1>10, <2>1, <2>2, InvalidateEffect
<1>11. ASSUME NEW m \in written \union unsent, ChangeFails(m) PROVE Frame
  <2>1. Same /\ lateFill' = lateFill /\ store' = store /\ UNCHANGED <<phase, socket, last>>
    BY <1>11 DEF ChangeFails
  <2>2. Filled' = Filled
    BY <2>1 DEF Filled
  <2> QED
    BY <1>1, <1>11, <2>1, <2>2, ChangeFailsEffect DEF Frame
<1>12. ASSUME LoadElsewhere \/ Expire PROVE Frame
  <2>1. Same /\ UNCHANGED <<written, unsent, inbox, lateFill, missed, store, phase, socket, last>>
    BY <1>12 DEF LoadElsewhere, Expire
  <2>2. Filled' = Filled
    BY <2>1 DEF Filled
  <2> QED
    BY <1>2, <1>3, <2>1, <2>2
<1>13. ASSUME NEW n \in pending, FillElsewhere(n) PROVE Frame
  <2>1. Same /\ UNCHANGED <<written, unsent, inbox, missed, store, phase, socket, last>>
    BY <1>13 DEF FillElsewhere
  <2>2. Filled' = Filled
    BY <2>1 DEF Filled
  <2>3. UnderWay' = UnderWay
    BY <2>1 DEF UnderWay, Published, Carried
  <2>4. n \in Nat /\ SetCache(n)
    BY <1>13, NumberType DEF FillElsewhere
  <2>5. lateFill' >= lateFill
    BY <2>4, SetCacheEffect
  <2> QED
    BY <1>1, <2>1, <2>2, <2>3, <2>5 DEF Frame
<1>5. ASSUME NEW i \in Socket, Dropped(i) PROVE Frame
  <2>1. /\ Same /\ store' = store /\ UNCHANGED <<phase, last>>
        /\ lateFill' = lateFill /\ written' = written
    BY <1>5 DEF Dropped, Lost
  <2>2. \A j \in Socket : socket'[j] \in {"dialing", "open", "waiting"} =>
                              socket[j] \in {"dialing", "open", "waiting"}
    BY <1>5 DEF Dropped, TypeInv, SocketType
  <2>3. Filled' => Filled
    BY <2>1, <2>2 DEF Filled
  <2> QED
    BY <1>1, <1>5, <2>1, <2>3, DroppedEffect, UnderWayFrame DEF Frame
<1>6. ASSUME NEW i \in Socket, Opened(i) \/ Closed(i) \/ Redial(i) PROVE Frame
  <2>1. Same /\ UNCHANGED <<store, written, unsent, inbox, missed, lateFill, last>>
    BY <1>6 DEF Opened, Closed, Redial
  <2>2. \A j \in Socket : socket'[j] \in {"dialing", "open", "waiting"} =>
                              socket[j] \in {"dialing", "open", "waiting"}
    BY <1>6 DEF Opened, Closed, Redial, TypeInv, SocketType
  <2>3. phase' = phase \/ (phase = "dialing" /\ i = last /\ socket[i] = "dialing")
    BY <1>6 DEF Opened, Closed, Redial
  <2>4. Filled' => Filled
    BY <2>1, <2>2, <2>3 DEF Filled
  <2> QED
    BY <1>2, <1>3, <2>1, <2>4
<1>7. ASSUME DialTimeout \/ CloseBegins PROVE Frame
  <2>1. Same /\ UNCHANGED <<store, written, unsent, inbox, missed, lateFill, last, socket>>
    BY <1>7 DEF DialTimeout, CloseBegins
  <2>2. Filled' => Filled
    BY <1>7, <2>1 DEF DialTimeout, CloseBegins, Filled
  <2> QED
    BY <1>2, <1>3, <2>1, <2>2
<1>8. ASSUME CloseEnds PROVE Frame
  <2>1. Same /\ UNCHANGED <<written, unsent, inbox, missed, lateFill, last>>
    BY <1>8 DEF CloseEnds
  <2>2. last \in Socket => socket'[last] \in {"closing", "dead"}
    BY <1>8 DEF CloseEnds, Destroy
  <2>3. ~Filled'
    BY <1>8, <2>1, <2>2 DEF CloseEnds, Filled
  <2> QED
    BY <1>2, <1>3, <2>1, <2>3
<1>9. ASSUME UNCHANGED vars PROVE Frame
  <2>1. Same /\ UNCHANGED <<store, written, unsent, inbox, missed, lateFill, phase, last,
                              socket>>
    BY <1>9 DEF vars
  <2>2. Filled' = Filled
    BY <2>1 DEF Filled
  <2> QED
    BY <1>2, <1>3, <2>1, <2>2
<1> QED
  BY <1>4, <1>5, <1>6, <1>7, <1>8, <1>9, <1>10, <1>11, <1>12, <1>13

LEMMA FramePreserves ==
    ASSUME TypeInv, TypeInv', StaleInv, Frame
    PROVE  StaleInv'
<1> USE DEF StaleInv
<1>1. /\ UNCHANGED <<rev, truth, past, retired, fetch, known, removed, refreshLost,
                     overtaken>>
      /\ UnderWay' \subseteq UnderWay /\ missed' >= missed /\ lateFill' >= lateFill
      /\ \A n \in UnderWay : n \in UnderWay' \/ missed' >= n.at
      /\ Filled' => Filled /\ store' = store
  BY DEF Frame
<1>2. /\ missed \in Nat /\ missed' \in Nat /\ known \in Nat /\ rev \in Nat
      /\ lateFill \in Nat /\ lateFill' \in Nat
  BY NumberType DEF TypeInv, CountType, Revision
<1>3. BoundInv' /\ AskedInv' /\ DeletedInv'
  <2>1. \A s \in Slot : fetch[s].after <= lateFill => fetch[s].after <= lateFill'
    BY <1>1, <1>2, NumberType
  <2> QED
    BY <1>1, <2>1 DEF BoundInv, AskedInv, DeletedInv, IsConnect, Free
\* A deletion under way still is, or it was missed.
<1>4. \A f \in Flag, n \in Nat :
        DeletionSince(f, n) => missed' > n \/ DeletionSince(f, n)'
  <2> SUFFICES ASSUME NEW f \in Flag, NEW n \in Nat, NEW m \in UnderWay,
                      m.type = "flag_deleted", m.flag = f, m.at > n
               PROVE  missed' > n \/ DeletionSince(f, n)'
    BY DEF DeletionSince
  <2>1. m.at \in Nat
    BY NumberType
  <2>2. CASE m \in UnderWay'
    BY <2>2 DEF DeletionSince
  <2>3. CASE missed' >= m.at
    BY <1>2, <2>1, <2>3
  <2> QED
    BY <1>1, <2>2, <2>3
<1>5. PastInv'
  <2> SUFFICES ASSUME NEW n \in 1..rev, NEW f \in Flag, truth[f] = 0, past[n][f] # 0
               PROVE  \/ \E m \in UnderWay' :
                             m.type = "flag_deleted" /\ m.flag = f /\ m.at > n
                      \/ missed' > n
                      \/ removed > n
    BY <1>1 DEF PastInv, DeletionSince
  <2>1. n \in Nat
    BY <1>2
  <2>2. DeletionSince(f, n) \/ missed > n \/ removed > n
    BY DEF PastInv
  <2>3. missed > n => missed' > n
    BY <1>1, <1>2, <2>1
  <2> QED
    BY <1>4, <2>1, <2>2, <2>3 DEF DeletionSince
<1>6. NewsInv'
  <2> SUFFICES ASSUME NEW f \in Flag, truth[f] > 1
               PROVE  \/ truth[f] <= known \/ truth[f] <= missed' \/ truth[f] <= refreshLost
                      \/ truth[f] <= lateFill'
                      \/ \E m \in UnderWay' : m.at = truth[f] /\ m.type # "flag_deleted"
                      \/ \E s \in Slot : ~Free(s) /\ fetch[s].after >= truth[f]
    BY <1>1 DEF NewsInv, Free
  <2>1. truth[f] \in Nat
    BY NumberType
  <2> QED
    BY <1>1, <1>2, <2>1 DEF NewsInv
<1>7. CopyInv'
  <2> SUFFICES ASSUME Filled, store' = store, ~overtaken, NEW f \in Flag,
                      truth[f] = 0, store[f] # 0
               PROVE  DeletionSince(f, known)' \/ missed' > known
    BY <1>1 DEF CopyInv
  <2>1. DeletionSince(f, known) \/ missed > known
    BY DEF CopyInv
  <2>2. DeletionSince(f, known) => missed' > known \/ \E m \in UnderWay' :
            m.type = "flag_deleted" /\ m.flag = f /\ m.at > known
    BY <1>2, <1>4 DEF DeletionSince
  <2>3. missed > known => missed' > known
    BY <1>1, <1>2
  <2> QED
    BY <1>1, <2>1, <2>2, <2>3 DEF DeletionSince
<1> QED
  BY <1>3, <1>5, <1>6, <1>7

LEMMA ChangePreserves ==
    ASSUME TypeInv, StaleInv, NEW f \in Flag, NEW t \in ChangeType, Change(f, t)
    PROVE  StaleInv'
<1> USE DEF StaleInv
<1>1. PICK m \in Message : /\ m.type = t /\ m.flag = f /\ m.at = rev + 1
                           /\ UnderWay' = UnderWay \union {m}
  BY ChangeEffect
<1>2. /\ rev' = rev + 1
      /\ UNCHANGED <<store, phase, socket, last, fetch, known, removed, missed,
                     refreshLost, overtaken, lateFill>>
  BY DEF Change
<1>3. \A g \in Flag : truth'[g] =
          IF g # f THEN truth[g] ELSE IF t = "flag_deleted" THEN 0 ELSE rev + 1
  BY DEF Change, TypeInv, ServerType, Config
<1>4. retired \subseteq retired' /\ (t = "flag_deleted" => f \in retired')
  BY DEF Change
<1>5. truth[f] # 0 \/ f \notin retired
  BY DEF Change
<1>6. Filled' = Filled
  BY <1>2 DEF Filled
<1>7. rev \in Nat /\ known \in Nat /\ \A g \in Flag : truth[g] \in Nat
  BY NumberType
<1>8. BoundInv'
  <2>1. \A g \in Flag : truth'[g] <= rev'
    BY <1>2, <1>3, <1>7 DEF BoundInv
  <2>2. \A n \in UnderWay' : n.at <= rev'
    BY <1>1, <1>2, <1>7, NumberType DEF BoundInv
  <2>3. known' <= rev' /\ removed' <= rev'
    BY <1>2, <1>7, NumberType DEF BoundInv
  <2>4. \A s \in Slot : ~Free(s)' => fetch'[s].after <= rev'
    BY <1>2, <1>7, NumberType DEF BoundInv, Free
  <2> QED
    BY <2>1, <2>2, <2>3, <2>4 DEF BoundInv
<1>9. AskedInv'
  <2>1. \A n \in 1..rev : n \in 1..rev'
    BY <1>2, <1>7
  <2> QED
    BY <1>2, <2>1 DEF AskedInv, IsConnect, Free
<1>10. DeletedInv'
  <2> SUFFICES ASSUME NEW n \in UnderWay', n.type = "flag_deleted"
               PROVE  truth'[n.flag] = 0 /\ n.flag \in retired'
    BY DEF DeletedInv
  <2>1. CASE n \in UnderWay
    <3>1. truth[n.flag] = 0 /\ n.flag \in retired /\ n.flag \in Flag
      BY <2>1, NumberType DEF DeletedInv
    <3> QED
      BY <1>3, <1>4, <1>5, <3>1
  <2>2. CASE n = m
    BY <1>1, <1>3, <1>4, <2>2
  <2> QED
    BY <1>1, <2>1, <2>2
<1>11. PastInv'
  <2> SUFFICES ASSUME NEW n \in 1..rev', NEW g \in Flag
               PROVE  /\ truth'[g] \in 1..n => past'[n][g] = truth'[g]
                      /\ truth'[g] = 0 /\ past'[n][g] # 0 =>
                             \/ \E d \in UnderWay' : /\ d.type = "flag_deleted"
                                                     /\ d.flag = g /\ d.at > n
                             \/ missed > n
                             \/ removed > n
    BY <1>2 DEF PastInv, DeletionSince
  <2>1. past' = [past EXCEPT ![rev + 1] = truth'] /\ rev + 1 \in Revision
    BY BoundAssumption DEF Change, Revision, TypeInv, ServerType
  <2>2. CASE n = rev + 1
    <3>1. past'[n] = truth'
      BY <2>1, <2>2 DEF TypeInv, ServerType
    <3> QED
      BY <3>1
  <2>3. CASE n # rev + 1
    <3>1. n \in 1..rev /\ n \in Nat /\ n < rev + 1
      BY <1>2, <1>7, <2>3
    <3>2. past'[n] = past[n]
      BY <2>1, <2>3 DEF TypeInv, ServerType
    <3>3. CASE g # f
      BY <1>1, <1>3, <3>1, <3>2, <3>3 DEF PastInv, DeletionSince
    <3>4. CASE g = f /\ t = "flag_deleted"
      BY <1>1, <1>3, <3>1, <3>4
    <3>5. CASE g = f /\ t # "flag_deleted"
      BY <1>3, <1>7, <3>1, <3>5
    <3> QED
      BY <3>3, <3>4, <3>5
  <2> QED
    BY <2>2, <2>3
<1>12. NewsInv'
  <2> SUFFICES ASSUME NEW g \in Flag, truth'[g] > 1
               PROVE  \/ truth'[g] <= known \/ truth'[g] <= missed \/ truth'[g] <= refreshLost
                      \/ truth'[g] <= lateFill
                      \/ \E n \in UnderWay' : n.at = truth'[g] /\ n.type # "flag_deleted"
                      \/ \E s \in Slot : ~Free(s) /\ fetch[s].after >= truth'[g]
    BY <1>2 DEF NewsInv, Free
  <2>1. CASE g # f
    BY <1>1, <1>3, <2>1 DEF NewsInv
  <2>2. CASE g = f
    BY <1>1, <1>3, <2>2
  <2> QED
    BY <2>1, <2>2
<1>13. CopyInv'
  <2> SUFFICES ASSUME Filled
               PROVE  /\ known >= 1
                      /\ ~overtaken => \A g \in Flag :
                            /\ truth'[g] \in 1..known => store[g] = truth'[g]
                            /\ truth'[g] = 0 /\ store[g] # 0 =>
                                   \/ \E n \in UnderWay' : /\ n.type = "flag_deleted"
                                                           /\ n.flag = g /\ n.at > known
                                   \/ missed > known
    BY <1>2, <1>6 DEF CopyInv, DeletionSince
  <2>1. known >= 1 /\ known <= rev
    BY DEF CopyInv, BoundInv
  <2> SUFFICES ASSUME ~overtaken, NEW g \in Flag
               PROVE  /\ truth'[g] \in 1..known => store[g] = truth'[g]
                      /\ truth'[g] = 0 /\ store[g] # 0 =>
                             \/ \E n \in UnderWay' : /\ n.type = "flag_deleted"
                                                     /\ n.flag = g /\ n.at > known
                             \/ missed > known
    BY <2>1
  <2>2. CASE g # f
    BY <1>1, <1>3, <2>2 DEF CopyInv, DeletionSince
  <2>3. CASE g = f /\ t = "flag_deleted"
    BY <1>1, <1>3, <1>7, <2>1, <2>3
  <2>4. CASE g = f /\ t # "flag_deleted"
    BY <1>3, <1>7, <2>1, <2>4
  <2> QED
    BY <2>2, <2>3, <2>4
<1> QED
  BY <1>8, <1>9, <1>10, <1>11, <1>12, <1>13

\* A request is made: by connect(), or for a message that is read.
LEMMA AskPreserves ==
    ASSUME TypeInv, StaleInv, NEW s \in Slot, NEW r \in Fetch,
           fetch' = [fetch EXCEPT ![s] = r], Free(s), r.state = "asked",
           r.after <= rev, r.why = "connect" => r.after = 0,
           UNCHANGED <<rev, truth, past, retired, known, removed, missed,
                       refreshLost, overtaken, lateFill>>,
           UnderWay' \subseteq UnderWay,
           \A n \in UnderWay :
               n \in UnderWay' \/ (n.type # "flag_deleted" /\ n.at <= r.after),
           Filled' => Filled /\ store' = store
    PROVE  StaleInv'
<1> USE DEF StaleInv
<1>1. \A q \in Slot : fetch'[q] = IF q = s THEN r ELSE fetch[q]
  BY DEF TypeInv, FetchType
<1>2. r.after \in Nat
  BY RevisionType DEF Fetch, Revision
<1>3. BoundInv'
  BY <1>1 DEF BoundInv, Free
<1>4. AskedInv' /\ DeletedInv'
  BY <1>1 DEF AskedInv, DeletedInv, IsConnect, Free
<1>5. ASSUME NEW f \in Flag, NEW n \in Nat, DeletionSince(f, n)
      PROVE  \E m \in UnderWay' : m.type = "flag_deleted" /\ m.flag = f /\ m.at > n
  BY <1>5 DEF DeletionSince
<1>6. PastInv'
  <2>1. \A n \in 1..rev : n \in Nat
    BY NumberType
  <2> QED
    BY <1>5, <2>1 DEF PastInv, DeletionSince
<1>7. NewsInv'
  <2> SUFFICES ASSUME NEW f \in Flag, truth[f] > 1
               PROVE  \/ truth[f] <= known \/ truth[f] <= missed \/ truth[f] <= refreshLost
                      \/ truth[f] <= lateFill
                      \/ \E m \in UnderWay' : m.at = truth[f] /\ m.type # "flag_deleted"
                      \/ \E q \in Slot : fetch'[q].state # "free" /\ fetch'[q].after >= truth[f]
    BY DEF NewsInv, Free
  <2>1. truth[f] \in Nat
    BY NumberType
  <2>2. CASE \E m \in UnderWay : m.at = truth[f] /\ m.type # "flag_deleted"
    <3>1. PICK m \in UnderWay : m.at = truth[f] /\ m.type # "flag_deleted"
      BY <2>2
    <3>2. CASE m \in UnderWay'
      BY <3>1, <3>2
    <3>3. CASE m.at <= r.after
      BY <1>1, <1>2, <2>1, <3>1, <3>3
    <3> QED
      BY <3>2, <3>3
  <2>3. CASE \E q \in Slot : ~Free(q) /\ fetch[q].after >= truth[f]
    BY <1>1, <2>3 DEF Free
  <2> QED
    BY <2>2, <2>3 DEF NewsInv
<1>8. CopyInv'
  <2>1. known \in Nat
    BY NumberType
  <2> QED
    BY <1>5, <2>1 DEF CopyInv, DeletionSince
<1> QED
  BY <1>3, <1>4, <1>6, <1>7, <1>8

\* The server answers with what it has read, or with what is cached, which lacks
\* what was cleared only after a late fill.
LEMMA ServePreserves ==
    ASSUME TypeInv, TypeInv', CacheInv, StaleInv, NEW s \in Slot, Serve(s)
    PROVE  StaleInv'
<1> USE DEF StaleInv
<1>1. PICK r \in Fetch : /\ fetch' = [fetch EXCEPT ![s] = r]
                         /\ ~Free(s)
                         /\ r.state \in {"loaded", "answered"}
                         /\ r.why = fetch[s].why /\ r.after = fetch[s].after
                         /\ \/ r.at = cache /\ cache # 0
                            \/ r.at = rev
                            \/ r.at = fetch[s].at /\ fetch[s].state = "loaded"
  BY ServeEffect
<1>2. \A q \in Slot : fetch'[q] = IF q = s THEN r ELSE fetch[q]
  BY <1>1 DEF TypeInv, FetchType
<1>3. UNCHANGED <<rev, truth, past, retired, written, unsent, inbox, store, phase,
                  socket, last, known, removed, missed, refreshLost, overtaken>>
  BY DEF Serve, Hit, Load, Fill
<1>4. UnderWay' = UnderWay /\ Filled' = Filled
  BY <1>3 DEF UnderWay, Published, Carried, Filled
<1>5. /\ rev \in Nat /\ rev >= 1 /\ cache \in Nat /\ cleared \in Nat
      /\ fetch[s].after \in Nat /\ fetch[s].at \in Nat
      /\ lateFill \in Nat /\ lateFill' \in Nat
  BY NumberType DEF TypeInv, CountType, Revision
<1>6. lateFill' >= lateFill
  <2>1. CASE Hit(s) \/ Load(s)
    BY <1>5, <2>1 DEF Hit, Load
  <2>2. CASE Fill(s)
    BY <1>5, <2>2, SetCacheEffect DEF Fill
  <2> QED
    BY <2>1, <2>2 DEF Serve
<1>7. BoundInv' /\ DeletedInv' /\ PastInv' /\ CopyInv'
  BY <1>1, <1>2, <1>3, <1>4
     DEF BoundInv, DeletedInv, PastInv, CopyInv, DeletionSince, Free
<1>8. AskedInv'
  <2>1. /\ r.at \in 1..rev
        /\ r.after <= r.at \/ r.after <= lateFill'
    <3>1. fetch[s].after <= rev /\ fetch[s].after <= cleared /\ cache <= rev
      BY <1>1 DEF BoundInv, CacheInv
    <3>2. CASE r.at = cache /\ cache # 0
      <4>1. cleared <= cache \/ cleared <= lateFill
        BY <3>2 DEF CacheInv
      <4> QED
        BY <1>1, <1>5, <1>6, <3>1, <3>2, <4>1
    <3>3. CASE r.at = rev
      BY <1>1, <1>5, <3>1, <3>3
    <3>4. CASE r.at = fetch[s].at /\ fetch[s].state = "loaded"
      <4>1. /\ fetch[s].at \in 1..rev
            /\ fetch[s].after <= fetch[s].at \/ fetch[s].after <= lateFill
        BY <3>4 DEF AskedInv
      <4> QED
        BY <1>1, <1>5, <1>6, <3>4, <4>1
    <3> QED
      BY <1>1, <3>2, <3>3, <3>4
  <2>2. r.why = "connect" => r.after = 0
    BY <1>1 DEF AskedInv, IsConnect
  <2>3. \A q \in Slot : fetch[q].after <= lateFill => fetch[q].after <= lateFill'
    BY <1>5, <1>6, NumberType
  <2> SUFFICES ASSUME NEW q \in Slot
               PROVE  /\ fetch'[q].state # "free" /\ fetch'[q].why = "connect" =>
                             fetch'[q].after = 0
                      /\ fetch'[q].state \in {"loaded", "answered"} =>
                             /\ fetch'[q].at \in 1..rev
                             /\ \/ fetch'[q].after <= fetch'[q].at
                                \/ fetch'[q].after <= lateFill'
    BY <1>3 DEF AskedInv, IsConnect, Free
  <2>4. CASE q = s
    BY <1>2, <2>1, <2>2, <2>4
  <2>5. CASE q # s
    BY <1>2, <2>3, <2>5 DEF AskedInv, IsConnect, Free
  <2> QED
    BY <2>4, <2>5
<1>9. NewsInv'
  <2>1. \A q \in Slot : ~Free(q) => fetch'[q].state # "free" /\ fetch'[q].after = fetch[q].after
    BY <1>1, <1>2 DEF Free
  <2>2. \A f \in Flag : truth[f] <= lateFill => truth[f] <= lateFill'
    BY <1>5, <1>6, NumberType
  <2> QED
    BY <1>3, <1>4, <2>1, <2>2 DEF NewsInv, Free
<1> QED
  BY <1>7, <1>8, <1>9

\* An answer fills the store.  When it is not older than what the store had
\* shown, the store differs from the server as the answer does.
LEMMA ArrivesPreserves ==
    ASSUME TypeInv, StaleInv, NEW s \in Slot, FetchArrives(s)
    PROVE  StaleInv'
<1> USE DEF StaleInv
<1> DEFINE n == fetch[s].at
<1>1. /\ fetch[s].state = "answered" /\ n \in Nat /\ n \in 1..rev
      /\ fetch[s].after <= n \/ fetch[s].after <= lateFill
  BY NumberType DEF FetchArrives, AskedInv
<1>2. /\ store' = past[n] /\ known' = Newer(n, known)
      /\ overtaken' = (n < Newer(known, removed))
      /\ UNCHANGED <<rev, truth, past, retired, written, unsent, removed, missed,
                     refreshLost, lateFill>>
  BY DEF FetchArrives, SetAll
<1>3. inbox' = inbox
  BY DEF FetchArrives, Dial
<1>4. UnderWay' = UnderWay
  BY <1>2, <1>3 DEF UnderWay, Published, Carried
<1>5. \A q \in Slot : fetch'[q] = IF q = s THEN NoFetch ELSE fetch[q]
  BY DEF FetchArrives, TypeInv, FetchType
<1>6. /\ known \in Nat /\ removed \in Nat /\ rev \in Nat /\ lateFill \in Nat
      /\ \A f \in Flag : truth[f] \in Nat /\ fetch[s].after \in Nat
  BY NumberType
<1>7. known' \in {n, known} /\ known' \in Nat /\ known' >= n /\ known' >= known
  BY <1>1, <1>2, <1>6, NewerType
<1>8. ~overtaken' => known' = n /\ removed <= n
  <2>1. /\ Newer(known, removed) \in Nat
        /\ Newer(known, removed) >= known /\ Newer(known, removed) >= removed
    BY <1>6, NewerType
  <2>2. ~overtaken' => ~(n < Newer(known, removed))
    BY <1>2, Zenon
  <2>3. ~(n < Newer(known, removed)) => known' = n /\ removed <= n
    BY <1>1, <1>6, <1>7, <2>1
  <2> QED
    BY <2>2, <2>3
<1> HIDE DEF n
<1>9. BoundInv'
  <2>1. known' <= rev
    BY <1>1, <1>7 DEF BoundInv
  <2>2. \A q \in Slot : ~Free(q)' => ~Free(q) /\ fetch'[q].after = fetch[q].after
    BY <1>5, NoFetchType DEF Free
  <2> QED
    BY <1>2, <1>4, <2>1, <2>2 DEF BoundInv
<1>10. AskedInv' /\ DeletedInv'
  BY <1>2, <1>4, <1>5, NoFetchType DEF AskedInv, DeletedInv, IsConnect, Free
<1>11. PastInv'
  BY <1>2, <1>4 DEF PastInv, DeletionSince
<1>12. NewsInv'
  <2> SUFFICES ASSUME NEW f \in Flag, truth[f] > 1
               PROVE  \/ truth[f] <= known' \/ truth[f] <= missed \/ truth[f] <= refreshLost
                      \/ truth[f] <= lateFill
                      \/ \E m \in UnderWay : m.at = truth[f] /\ m.type # "flag_deleted"
                      \/ \E q \in Slot : fetch'[q].state # "free" /\ fetch'[q].after >= truth[f]
    BY <1>2, <1>4 DEF NewsInv, Free
  <2>1. truth[f] <= known => truth[f] <= known'
    BY <1>6, <1>7
  <2>2. CASE \E q \in Slot : ~Free(q) /\ fetch[q].after >= truth[f]
    <3>1. PICK q \in Slot : ~Free(q) /\ fetch[q].after >= truth[f]
      BY <2>2
    <3>2. CASE q = s
      BY <1>1, <1>6, <1>7, <3>1, <3>2
    <3>3. CASE q # s
      BY <1>5, <3>1, <3>3 DEF Free
    <3> QED
      BY <3>2, <3>3
  <2> QED
    BY <2>1, <2>2 DEF NewsInv
<1>13. CopyInv'
  <2>1. known' >= 1
    BY <1>1, <1>7
  <2> SUFFICES ASSUME ~overtaken', NEW f \in Flag
               PROVE  /\ truth[f] \in 1..known' => store'[f] = truth[f]
                      /\ truth[f] = 0 /\ store'[f] # 0 =>
                             \/ \E m \in UnderWay : /\ m.type = "flag_deleted"
                                                    /\ m.flag = f /\ m.at > known'
                             \/ missed > known'
    BY <1>2, <1>4, <2>1 DEF CopyInv, DeletionSince
  <2>2. known' = n /\ ~(removed > n)
    BY <1>1, <1>6, <1>8
  <2>3. /\ truth[f] \in 1..n => past[n][f] = truth[f]
        /\ truth[f] = 0 /\ past[n][f] # 0 =>
               DeletionSince(f, n) \/ missed > n \/ removed > n
    BY <1>1 DEF PastInv
  <2> QED
    BY <1>2, <2>2, <2>3 DEF DeletionSince
<1> QED
  BY <1>9, <1>10, <1>11, <1>12, <1>13

\* A fetch that fails is counted, unless it is the one of a connect().
LEMMA FailsPreserves ==
    ASSUME TypeInv, ConnectInv, StaleInv, NEW s \in Slot, FetchFails(s)
    PROVE  StaleInv'
<1> USE DEF StaleInv
<1>1. /\ ~Free(s)
      /\ UNCHANGED <<rev, truth, past, retired, written, unsent, inbox, store,
                     socket, last, known, removed, missed, overtaken, lateFill>>
  BY DEF FetchFails
<1>2. UnderWay' = UnderWay
  BY <1>1 DEF UnderWay, Published, Carried
<1>3. \A q \in Slot : fetch'[q] = IF q = s THEN NoFetch ELSE fetch[q]
  BY DEF FetchFails, TypeInv, FetchType
<1>4. fetch[s].after \in Nat /\ refreshLost \in Nat /\ \A f \in Flag : truth[f] \in Nat
  BY NumberType
<1>5. refreshLost' >= refreshLost /\ refreshLost' >= fetch[s].after
  <2>1. CASE fetch[s].why = "connect"
    <3>1. refreshLost' = refreshLost /\ fetch[s].after = 0
      BY <1>1, <2>1 DEF FetchFails, AskedInv, IsConnect
    <3> QED
      BY <1>4, <3>1
  <2>2. CASE fetch[s].why # "connect"
    <3>1. refreshLost' = Newer(fetch[s].after, refreshLost)
      BY <2>2 DEF FetchFails
    <3> QED
      BY <1>4, <3>1, NewerType
  <2> QED
    BY <2>1, <2>2
<1>6. refreshLost' \in Nat
  <2>1. CASE fetch[s].why = "connect"
    BY <1>4, <2>1 DEF FetchFails
  <2>2. CASE fetch[s].why # "connect"
    BY <1>4, <2>2, NewerType DEF FetchFails
  <2> QED
    BY <2>1, <2>2
<1>7. Filled' => Filled
  BY <1>1 DEF FetchFails, Filled
<1>8. BoundInv'
  <2>1. \A q \in Slot : ~Free(q)' => ~Free(q) /\ fetch'[q].after = fetch[q].after
    BY <1>3, NoFetchType DEF Free
  <2> QED
    BY <1>1, <1>2, <2>1 DEF BoundInv
<1>9. AskedInv' /\ DeletedInv'
  BY <1>1, <1>2, <1>3, NoFetchType DEF AskedInv, DeletedInv, IsConnect, Free
<1>10. PastInv'
  BY <1>1, <1>2 DEF PastInv, DeletionSince
<1>11. NewsInv'
  <2> SUFFICES ASSUME NEW f \in Flag, truth[f] > 1
               PROVE  \/ truth[f] <= known \/ truth[f] <= missed \/ truth[f] <= refreshLost'
                      \/ truth[f] <= lateFill
                      \/ \E m \in UnderWay : m.at = truth[f] /\ m.type # "flag_deleted"
                      \/ \E q \in Slot : fetch'[q].state # "free" /\ fetch'[q].after >= truth[f]
    BY <1>1, <1>2 DEF NewsInv, Free
  <2>1. truth[f] <= refreshLost => truth[f] <= refreshLost'
    BY <1>4, <1>5, <1>6
  <2>2. CASE \E q \in Slot : ~Free(q) /\ fetch[q].after >= truth[f]
    <3>1. PICK q \in Slot : ~Free(q) /\ fetch[q].after >= truth[f]
      BY <2>2
    <3>2. CASE q = s
      BY <1>4, <1>5, <1>6, <3>1, <3>2
    <3>3. CASE q # s
      BY <1>3, <3>1, <3>3 DEF Free
    <3> QED
      BY <3>2, <3>3
  <2> QED
    BY <2>1, <2>2 DEF NewsInv
<1>12. CopyInv'
  BY <1>1, <1>2, <1>7 DEF CopyInv, DeletionSince
<1> QED
  BY <1>8, <1>9, <1>10, <1>11, <1>12

\* A deletion takes the flag out of the store, and it stays away.
LEMMA DeletePreserves ==
    ASSUME TypeInv, StaleInv, NEW m \in UnderWay, m.type = "flag_deleted",
           Delete(m.flag), removed' = Newer(m.at, removed),
           UNCHANGED <<rev, truth, past, retired, fetch, known, missed,
                       refreshLost, overtaken, lateFill>>,
           UnderWay' \subseteq UnderWay,
           \A n \in UnderWay : n \in UnderWay' \/ n = m,
           Filled' = Filled
    PROVE  StaleInv'
<1> USE DEF StaleInv
<1>1. m.at \in Nat /\ removed \in Nat /\ known \in Nat /\ m.flag \in Flag
  BY NumberType
<1>2. removed' \in {m.at, removed} /\ removed' >= m.at /\ removed' >= removed
  BY <1>1, NewerType
<1>3. truth[m.flag] = 0
  BY DEF DeletedInv
<1>4. \A f \in Flag : store'[f] = IF f = m.flag THEN 0 ELSE store[f]
  BY RevisionType DEF Delete, TypeInv, ClientType
<1>5. BoundInv'
  BY <1>2 DEF BoundInv, Free
<1>6. AskedInv' /\ DeletedInv'
  BY DEF AskedInv, DeletedInv, IsConnect, Free
<1>7. PastInv'
  <2> SUFFICES ASSUME NEW k \in 1..rev, NEW f \in Flag, truth[f] = 0, past[k][f] # 0
               PROVE  \/ \E n \in UnderWay' : /\ n.type = "flag_deleted"
                                              /\ n.flag = f /\ n.at > k
                      \/ missed > k
                      \/ removed' > k
    BY DEF PastInv, DeletionSince
  <2>1. k \in Nat
    BY NumberType
  <2>2. CASE DeletionSince(f, k)
    <3>1. PICK n \in UnderWay : n.type = "flag_deleted" /\ n.flag = f /\ n.at > k
      BY <2>2 DEF DeletionSince
    <3>2. CASE n = m
      BY <1>1, <1>2, <2>1, <3>1, <3>2
    <3> QED
      BY <3>1, <3>2
  <2>3. CASE removed > k
    BY <1>1, <1>2, <2>1, <2>3
  <2> QED
    BY <2>2, <2>3 DEF PastInv
<1>8. NewsInv'
  BY DEF NewsInv, Free
<1>9. CopyInv'
  <2> SUFFICES ASSUME Filled, ~overtaken, NEW f \in Flag
               PROVE  /\ truth[f] \in 1..known => store'[f] = truth[f]
                      /\ truth[f] = 0 /\ store'[f] # 0 =>
                             \/ \E n \in UnderWay' : /\ n.type = "flag_deleted"
                                                     /\ n.flag = f /\ n.at > known
                             \/ missed > known
    BY DEF CopyInv, DeletionSince
  <2>1. CASE f = m.flag
    BY <1>3, <1>4, <2>1
  <2>2. CASE f # m.flag
    BY <1>4, <2>2 DEF CopyInv, DeletionSince
  <2> QED
    BY <2>1, <2>2
<1> QED
  BY <1>5, <1>6, <1>7, <1>8, <1>9

LEMMA ConnectPreserves ==
    ASSUME TypeInv, StaleInv, Connect
    PROVE  StaleInv'
<1>1. PICK s \in Slot : Ask(s, "connect", 0)
  BY DEF Connect
<1>2. PICK r \in Fetch : /\ fetch' = [fetch EXCEPT ![s] = r]
                         /\ Free(s)
                         /\ r.state = "asked" /\ r.why = "connect" /\ r.after = 0
  BY <1>1, AskEffect, RevisionType
<1>3. /\ UNCHANGED <<rev, truth, past, retired, written, unsent, inbox, known,
                     removed, missed, refreshLost, overtaken, lateFill>>
      /\ phase' = "fetching"
  BY DEF Connect
<1>4. UnderWay' = UnderWay /\ ~Filled'
  BY <1>3 DEF UnderWay, Published, Carried, Filled
<1>5. r.after <= rev
  BY <1>2, NumberType
<1>6. /\ UnderWay' \subseteq UnderWay
      /\ \A n \in UnderWay :
             n \in UnderWay' \/ (n.type # "flag_deleted" /\ n.at <= r.after)
      /\ Filled' => Filled /\ store' = store
  BY <1>4
<1>7. UNCHANGED <<rev, truth, past, retired, known, removed, missed, refreshLost,
                  overtaken, lateFill>>
  BY <1>3
<1> QED
  BY <1>2, <1>5, <1>6, <1>7, AskPreserves

LEMMA ReceivePreserves ==
    ASSUME TypeInv, StaleInv, NEW i \in Socket, Receive(i)
    PROVE  StaleInv'
<1>1. PICK m \in UnderWay :
          /\ UnderWay' \subseteq UnderWay
          /\ \A n \in UnderWay : n \in UnderWay' \/ n = m
          /\ HandleWSMessage(m)
  <2>1. PICK m \in Published : /\ Published' \subseteq Published
                               /\ \A n \in Published : n \in Published' \/ n = m
                               /\ HandleWSMessage(m)
    BY ReceiveEffect
  <2>2. written' = written
    BY DEF Receive
  <2> QED
    BY <2>1, <2>2 DEF UnderWay
<1>2. UNCHANGED <<rev, truth, past, retired, phase, socket, last, known, missed,
                  refreshLost, overtaken, lateFill>>
  BY DEF Receive
<1>3. Filled' = Filled
  BY <1>2 DEF Filled
<1>4. m \in Message /\ m.at \in Revision /\ m.at <= rev /\ m.at \in Nat
  BY UnderWayType, RevisionType, NumberType DEF StaleInv, BoundInv
<1>5. CASE m.type \in {"flag_updated", "flag_created"}
  <2>1. PICK s \in Slot : Ask(s, "refresh", m.at)
    BY <1>1, <1>5 DEF HandleWSMessage
  <2>2. store' = store /\ removed' = removed
    BY <1>1, <1>5 DEF HandleWSMessage
  <2>3. PICK r \in Fetch : /\ fetch' = [fetch EXCEPT ![s] = r]
                           /\ Free(s)
                           /\ r.state = "asked" /\ r.why = "refresh" /\ r.after = m.at
    BY <1>4, <2>1, AskEffect
  <2>4. \A n \in UnderWay :
            n \in UnderWay' \/ (n.type # "flag_deleted" /\ n.at <= r.after)
    <3>1. m.at <= m.at
      BY <1>4
    <3> QED
      BY <1>1, <1>5, <2>3, <3>1
  <2> QED
    BY <1>1, <1>2, <1>3, <1>4, <2>2, <2>3, <2>4, AskPreserves
<1>6. CASE m.type = "flag_deleted"
  <2>1. Delete(m.flag) /\ removed' = Newer(m.at, removed) /\ fetch' = fetch
    BY <1>1, <1>6 DEF HandleWSMessage
  <2> QED
    BY <1>1, <1>2, <1>3, <1>6, <2>1, DeletePreserves
<1> QED
  BY <1>1, <1>5, <1>6 DEF HandleWSMessage

LEMMA StaleInit == Init => CacheInv /\ StaleInv
<1> SUFFICES ASSUME Init PROVE CacheInv /\ StaleInv
  OBVIOUS
<1>1. \A i \in Socket : Carried(i) = {}
  BY DEF Init, Carried
<1>2. UnderWay = {} /\ Published = {}
  BY <1>1 DEF Init, UnderWay, Published
<1>3. \A s \in Slot : fetch[s].state = "free"
  BY NoFetchType DEF Init
<1>4. \A f \in Flag : truth[f] \in {0, 1}
  BY DEF Init
<1>5. /\ rev = 1 /\ known = 0 /\ removed = 0 /\ ~Filled
      /\ cache = 0 /\ pending = {} /\ cleared = 0 /\ lateFill = 0
  BY DEF Init, Filled
<1>6. PastInv
  <2>1. past[1] = truth
    <3>1. 1 \in Revision
      BY BoundAssumption DEF Revision
    <3> QED
      BY <3>1 DEF Init
  <2>2. \A n \in 1..rev : n = 1
    BY <1>5
  <2> QED
    BY <2>1, <2>2 DEF PastInv
<1>7. CacheInv
  BY <1>2, <1>3, <1>5 DEF CacheInv, Free
<1>8. BoundInv /\ AskedInv /\ DeletedInv /\ NewsInv /\ CopyInv
  BY <1>2, <1>3, <1>4, <1>5
     DEF BoundInv, AskedInv, DeletedInv, NewsInv, CopyInv, IsConnect, Free
<1> QED
  BY <1>6, <1>7, <1>8 DEF StaleInv

LEMMA StaleNext ==
    TypeInv /\ ConnectInv /\ CacheInv /\ StaleInv /\ [Next]_vars => StaleInv'
<1> SUFFICES ASSUME TypeInv, ConnectInv, CacheInv, StaleInv, [Next]_vars
             PROVE  StaleInv'
  OBVIOUS
<1>1. TypeInv'
  BY TypeNext
<1>2. CASE \/ \E m \in written : Invalidate(m)
           \/ \E m \in written \union unsent : ChangeFails(m)
           \/ \E m \in unsent : FanOut(m)
           \/ LoadElsewhere \/ Expire
           \/ \E n \in pending : FillElsewhere(n)
           \/ \E i \in Socket : Opened(i) \/ Dropped(i) \/ Closed(i) \/ Redial(i)
           \/ DialTimeout \/ CloseBegins \/ CloseEnds \/ UNCHANGED vars
  BY <1>1, <1>2, FrameSteps, FramePreserves
<1>3. CASE \E f \in Flag : \E t \in ChangeType : Change(f, t)
  BY <1>3, ChangePreserves
<1>4. CASE \E s \in Slot : Serve(s)
  BY <1>1, <1>4, ServePreserves
<1>5. CASE \E s \in Slot : FetchArrives(s)
  BY <1>5, ArrivesPreserves
<1>6. CASE \E s \in Slot : FetchFails(s)
  BY <1>6, FailsPreserves
<1>7. CASE \E i \in Socket : Receive(i)
  BY <1>7, ReceivePreserves
<1>8. CASE Connect
  BY <1>8, ConnectPreserves
<1> QED
  BY <1>2, <1>3, <1>4, <1>5, <1>6, <1>7, <1>8 DEF Next, Serve

\* At rest nothing is under way, so what the invariants leave are the causes.
LEMMA StaleImplies == TypeInv /\ StaleInv => StaleOnlyForCause
<1> SUFFICES ASSUME TypeInv, StaleInv, Quiet,
                    ~(missed > known), ~(refreshLost > known), ~overtaken,
                    ~(lateFill > known)
             PROVE  store = truth
  BY DEF StaleOnlyForCause, Excused
<1> USE DEF StaleInv
<1>1. UnderWay = {}
  BY DEF Quiet, UnderWay, Published, Carried
<1>2. Filled /\ known >= 1 /\ \A s \in Slot : Free(s)
  BY DEF Quiet, Filled, CopyInv
<1>3. /\ known \in Nat /\ missed \in Nat /\ refreshLost \in Nat
      /\ lateFill \in Nat
      /\ \A f \in Flag : truth[f] \in Nat
  BY NumberType
<1>4. \A f \in Flag : store[f] = truth[f]
  <2> SUFFICES ASSUME NEW f \in Flag PROVE store[f] = truth[f]
    OBVIOUS
  <2>1. CASE truth[f] = 0
    BY <1>1, <1>2, <2>1 DEF CopyInv, DeletionSince
  <2>2. CASE truth[f] > 0
    <3>1. truth[f] <= known
      <4>1. CASE truth[f] = 1
        BY <1>2, <1>3, <4>1
      <4>2. CASE truth[f] > 1
        BY <1>1, <1>2, <1>3, <4>2 DEF NewsInv
      <4> QED
        BY <1>3, <2>2, <4>1, <4>2
    <3>2. truth[f] \in 1..known
      BY <1>3, <2>2, <3>1
    <3> QED
      BY <1>2, <3>2 DEF CopyInv
  <2> QED
    BY <1>3, <2>1, <2>2
<1>5. store \in [Flag -> Revision] /\ truth \in [Flag -> Revision]
  BY RevisionType DEF TypeInv, ClientType, ServerType
<1> QED
  BY <1>4, <1>5

\* However messages, cache fills, answers, lost connections and repeated calls
\* interleave, a connected client at rest has the server's flags, or one of four
\* things happened: a change was never published or found no open connection, the
\* fetch after a message failed, answers arrived out of order, or an older
\* configuration was cached after the change was cleared (index.ts:145-162,
\* 191-205, flags.service.ts:342-353).
THEOREM StaleForCauseOnly == Spec => []StaleOnlyForCause
<1>1. Init => TypeInv /\ ConnectInv /\ CacheInv /\ StaleInv
  BY TypeInit, StaleInit
<1>2. TypeInv /\ ConnectInv /\ CacheInv /\ StaleInv /\ [Next]_vars
        => TypeInv' /\ ConnectInv' /\ CacheInv' /\ StaleInv'
  BY TypeNext, CacheNext, StaleNext DEF StaleInv
<1>3. TypeInv /\ StaleInv => StaleOnlyForCause
  BY StaleImplies
<1> QED
  BY <1>1, <1>2, <1>3, PTL DEF Spec
=============================================================================
