--------------------------- MODULE SessionsProofs ---------------------------
(***************************************************************************)
(* Proofs about Sessions, for any number of tabs, of calls in flight and   *)
(* of login attempts: the flag `refreshing' of each tab is on exactly      *)
(* during its one refresh, the lock-out counter overshoots by at most the  *)
(* logins in flight, tokens are issued and ended one by one, no tab ends   *)
(* its own session, and no call goes round in circles.                     *)
(***************************************************************************)
EXTENDS Sessions, FiniteSetTheorems, TLAPS

-----------------------------------------------------------------------------
(* Types, as far as the proofs need them.                                  *)

TabType  == [page : {"login", "dashboard", "leaving"}, fresh : BOOLEAN,
             refreshing : BOOLEAN]
CallType == [kind : {"api", "login", "logout"}, phase : Phase, fresh : BOOLEAN,
             uses : Nat, made : Nat, again : BOOLEAN, adrift : BOOLEAN]

Shape ==
    /\ attempts \in Nat /\ issued \in Nat /\ cookie \in Nat
    /\ stored \in {"none", "old", "fresh"}
    /\ tab \in [Tab -> TabType]
    /\ call \in [Call -> CallType]

LEMMA ShapeInvariant == Spec => []Shape
<1>1. Init => Shape
  BY DEF Init, Shape, TabType, CallType, NoCall, Phase
<1>2. Shape /\ [Next]_vars => Shape'
  <2> SUFFICES ASSUME Shape, [Next]_vars PROVE Shape'
    OBVIOUS
  <2> USE DEF Shape, server, browser, At, Becomes, Over
  <2>0. /\ NoCall \in CallType
        /\ \A c \in Call : call[c] \in CallType /\ tab[Owner[c]] \in TabType
        /\ \A t \in Tab : tab[t] \in TabType
    BY OwnerAssumption DEF NoCall, CallType, Phase
  <2>1. ASSUME NEW c \in Call, Ask(c) \/ Submit(c) \/ SignOut(c)
        PROVE  Shape'
    <3>1. PICK r \in CallType : Start(c, r)
      BY <2>0, <2>1, OwnerAssumption
         DEF Ask, Submit, SignOut, NoCall, Mine, TabType, CallType, Phase
    <3> QED
      BY <3>1 DEF Start
  <2>2. ASSUME NEW c \in Call,
               \/ Authenticate(c) \/ FindSession(c) \/ Rotate(c) \/ OpenSession(c)
               \/ CheckLockout(c) \/ WrongPassword(c) \/ RightPassword(c)
        PROVE  Shape'
    <3>1. /\ attempts' \in Nat /\ issued' \in Nat
          /\ UNCHANGED browser
      BY <2>2 DEF Authenticate, FindSession, Rotate, OpenSession, CheckLockout,
                  WrongPassword, RightPassword
    <3>2. PICK r \in CallType : call' = [call EXCEPT ![c] = r]
      <4>1. CASE call' = [call EXCEPT ![c] = NoCall]
        BY <2>0, <4>1
      <4>2. ASSUME NEW phase \in Phase, call' = [call EXCEPT ![c].phase = phase]
            PROVE  call' = [call EXCEPT ![c] = [call[c] EXCEPT !.phase = phase]]
                   /\ [call[c] EXCEPT !.phase = phase] \in CallType
        BY <2>0, <4>2 DEF CallType
      <4>3. ASSUME NEW phase \in Phase, NEW n \in Nat,
                   call' = [call EXCEPT ![c].phase = phase, ![c].made = n]
            PROVE  call' = [call EXCEPT ![c] = [call[c] EXCEPT !.phase = phase, !.made = n]]
                   /\ [call[c] EXCEPT !.phase = phase, !.made = n] \in CallType
        BY <2>0, <4>3 DEF CallType
      <4>4. \/ call' = [call EXCEPT ![c] = NoCall]
            \/ \E phase \in Phase : call' = [call EXCEPT ![c].phase = phase]
            \/ \E phase \in Phase, n \in Nat :
                   call' = [call EXCEPT ![c].phase = phase, ![c].made = n]
        BY <2>2 DEF Authenticate, FindSession, Rotate, OpenSession, CheckLockout,
                    WrongPassword, RightPassword, Phase
      <4> QED
        BY <2>0, <4>1, <4>2, <4>3, <4>4
    <3> QED
      BY <3>1, <3>2
  <2>3. ASSUME NEW c \in Call, Intercept(c)
        PROVE  Shape'
    <3>1. CASE Over(c) /\ UNCHANGED tab
      BY <2>0, <2>3, <3>1 DEF Intercept
    <3>2. CASE Refresh(c)
      <4>1. /\ call' = [call EXCEPT ![c] = [call[c] EXCEPT !.phase = "refresh", !.uses = cookie]]
            /\ [call[c] EXCEPT !.phase = "refresh", !.uses = cookie] \in CallType
        BY <2>0, <3>2 DEF Refresh, CallType, Phase
      <4>2. /\ tab' = [tab EXCEPT ![Owner[c]] = [tab[Owner[c]] EXCEPT !.refreshing = TRUE]]
            /\ [tab[Owner[c]] EXCEPT !.refreshing = TRUE] \in TabType
        BY <2>0, <3>2 DEF Refresh, TabType
      <4> QED
        BY <2>3, <4>1, <4>2 DEF Intercept
    <3> QED
      BY <2>3, <3>1, <3>2 DEF Intercept
  <2>4. ASSUME NEW c \in Call, Refreshed(c)
        PROVE  Shape'
    <3> DEFINE r == [call[c] EXCEPT !.phase = "sent", !.again = TRUE, !.uses = 0, !.made = 0]
               u == [tab[Owner[c]] EXCEPT !.fresh = TRUE, !.refreshing = FALSE]
    <3>1. call' = [call EXCEPT ![c] = r] /\ r \in CallType
      BY <2>0, <2>4 DEF Refreshed, CallType, Phase
    <3>2. tab' = [tab EXCEPT ![Owner[c]] = u] /\ u \in TabType
      BY <2>0, <2>4 DEF Refreshed, TabType
    <3>3. cookie' \in Nat
      BY <2>0, <2>4 DEF Refreshed, CallType
    <3>4. UNCHANGED <<server, stored>>
      BY <2>4 DEF Refreshed
    <3> HIDE DEF r, u
    <3> QED
      BY <3>1, <3>2, <3>3, <3>4
  <2>5. ASSUME NEW c \in Call, Thrown(c)
        PROVE  Shape'
    <3>1. [page |-> "leaving", fresh |-> FALSE, refreshing |-> FALSE] \in TabType
      BY DEF TabType
    <3> QED
      BY <2>0, <2>5, <3>1, OwnerAssumption DEF Thrown
  <2>6. ASSUME NEW c \in Call, DeleteSession(c) \/ Fail(c)
        PROVE  Shape'
    <3>1. CASE DeleteSession(c)
      <4>1. /\ call' = [call EXCEPT ![c] = [call[c] EXCEPT !.phase = "signedOut"]]
            /\ [call[c] EXCEPT !.phase = "signedOut"] \in CallType
        BY <2>0, <3>1 DEF DeleteSession, CallType, Phase
      <4> QED
        BY <3>1, <4>1 DEF DeleteSession
    <3>2. CASE Fail(c)
      BY <2>0, <3>2 DEF Fail
    <3> QED
      BY <2>6, <3>1, <3>2
  <2>7. ASSUME NEW c \in Call, SignedIn(c) \/ SignedOut(c)
        PROVE  Shape'
    <3>1. call' \in [Call -> CallType]
      BY <2>0, <2>7 DEF SignedIn, SignedOut
    <3>2. ASSUME NEW fresh \in BOOLEAN, NEW page \in {"login", "dashboard", "leaving"}
          PROVE  [tab EXCEPT ![Owner[c]].fresh = fresh, ![Owner[c]].page = page]
                     \in [Tab -> TabType]
      BY <2>0, OwnerAssumption DEF TabType
    <3>3. tab' \in [Tab -> TabType]
      <4>1. CASE SignedIn(c) /\ ~call[c].adrift
        <5>1. tab' = [tab EXCEPT ![Owner[c]].fresh = TRUE, ![Owner[c]].page =
                          IF tab[Owner[c]].page = "leaving" THEN "leaving" ELSE "dashboard"]
          BY <4>1, <2>0, OwnerAssumption DEF SignedIn, TabType
        <5> QED
          BY <5>1, <3>2
      <4>2. CASE SignedOut(c) /\ ~call[c].adrift
        <5>1. tab' = [tab EXCEPT ![Owner[c]].fresh = FALSE, ![Owner[c]].page =
                          IF tab[Owner[c]].page = "leaving" THEN "leaving" ELSE "login"]
          BY <4>2, <2>0, OwnerAssumption DEF SignedOut, TabType
        <5> QED
          BY <5>1, <3>2
      <4>3. CASE call[c].adrift
        BY <2>7, <4>3 DEF SignedIn, SignedOut
      <4> QED
        BY <2>7, <4>1, <4>2, <4>3
    <3>4. /\ UNCHANGED server /\ cookie' \in Nat
          /\ stored' \in {"none", "old", "fresh"}
      BY <2>0, <2>7 DEF SignedIn, SignedOut, CallType
    <3> QED
      BY <3>1, <3>3, <3>4
  <2>8. ASSUME NEW t \in Tab, NEW p \in {"login", "dashboard"}, Load(t, p)
        PROVE  Shape'
    <3>1. \A c \in Call : [call[c] EXCEPT !.adrift = TRUE] \in CallType
      BY <2>0 DEF CallType
    <3>2. [page |-> p, fresh |-> stored = "fresh", refreshing |-> FALSE] \in TabType
      BY DEF TabType
    <3> QED
      BY <2>0, <2>8, <3>1, <3>2 DEF Load
  <2>9. CASE AccessExpires \/ SessionExpires \/ WindowEnds
    <3>1. /\ \A t \in Tab : [tab[t] EXCEPT !.fresh = FALSE] \in TabType
          /\ \A c \in Call : [call[c] EXCEPT !.fresh = FALSE] \in CallType
      <4>1. \A u \in TabType : [u EXCEPT !.fresh = FALSE] \in TabType
        BY DEF TabType
      <4>2. \A r \in CallType : [r EXCEPT !.fresh = FALSE] \in CallType
        BY DEF CallType
      <4> QED
        BY <2>0, <4>1, <4>2
    <3>2. CASE AccessExpires
      <4>1. /\ tab' = [t \in Tab |-> [tab[t] EXCEPT !.fresh = FALSE]]
            /\ call' = [c \in Call |-> [call[c] EXCEPT !.fresh = FALSE]]
        BY <3>2 DEF AccessExpires
      <4>2. tab' \in [Tab -> TabType] /\ call' \in [Call -> CallType]
        BY <3>1, <4>1
      <4> QED
        BY <3>2, <4>2 DEF AccessExpires
    <3>3. CASE SessionExpires \/ WindowEnds
      BY <3>3 DEF SessionExpires, WindowEnds
    <3> QED
      BY <2>9, <3>2, <3>3
  <2>10. CASE UNCHANGED vars
    BY <2>10 DEF vars
  <2> QED
    BY <2>1, <2>2, <2>3, <2>4, <2>5, <2>6, <2>7, <2>8, <2>9, <2>10 DEF Next, Proceeds
<1> QED
  BY <1>1, <1>2, PTL DEF Spec

-----------------------------------------------------------------------------
(* The lock-out counter.                                                   *)

Verifying == {c \in Call : At(c, "verifying")}

\* A step that neither counts an attempt nor lets a login in.
LEMMA NoMoreVerifying ==
    ASSUME Shape, LockoutOvershoot, attempts' \in Nat, attempts' <= attempts,
           Verifying' \subseteq Verifying
    PROVE  LockoutOvershoot'
<1>1. IsFiniteSet(Verifying)
  BY OwnerAssumption, FS_Subset DEF Verifying
<1>2. IsFiniteSet(Call) /\ Cardinality(Call) \in Nat
  BY OwnerAssumption, FS_CardinalityType
<1>3. /\ Cardinality(Verifying') <= Cardinality(Verifying)
      /\ Cardinality(Verifying') \in Nat /\ Cardinality(Verifying) \in Nat
  BY <1>1, FS_Subset, FS_CardinalityType
<1> QED
  BY <1>2, <1>3, AttemptsAssumption DEF LockoutOvershoot, Shape, Verifying

\* A step after which the counter is below the limit.
LEMMA BelowTheLimit ==
    ASSUME attempts' \in Nat, attempts' < MaxAttempts
    PROVE  LockoutOvershoot'
<1>1. /\ Cardinality(Verifying') <= Cardinality(Call)
      /\ Cardinality(Verifying') \in Nat /\ Cardinality(Call) \in Nat
  BY OwnerAssumption, FS_Subset, FS_CardinalityType DEF Verifying
<1> QED
  BY <1>1, AttemptsAssumption DEF LockoutOvershoot, Verifying

\* Wrong passwords are counted beyond the limit, but by no more than the logins
\* that were being checked when the limit was reached: the check of the counter
\* and its increment are two steps (auth.service.ts:149-179).
THEOREM OvershootIsBounded == Spec => []LockoutOvershoot
<1>1. Init => LockoutOvershoot
  <2> SUFFICES ASSUME Init PROVE LockoutOvershoot
    OBVIOUS
  <2>1. {c \in Call : At(c, "verifying")} = {}
    BY DEF Init, At, NoCall
  <2>2. Cardinality({}) = 0 /\ Cardinality(Call) \in Nat
    BY OwnerAssumption, FS_EmptySet, FS_CardinalityType
  <2>3. attempts + Cardinality({}) <= MaxAttempts - 1 + Cardinality(Call)
    <3>1. attempts = 0
      BY DEF Init
    <3> QED
      BY <2>2, <3>1, AttemptsAssumption
  <2> QED
    BY <2>1, <2>3 DEF LockoutOvershoot
<1>2. Shape /\ Shape' /\ LockoutOvershoot /\ [Next]_vars => LockoutOvershoot'
  <2> SUFFICES ASSUME Shape, Shape', LockoutOvershoot, [Next]_vars
               PROVE  LockoutOvershoot'
    OBVIOUS
  <2>0. attempts \in Nat /\ attempts' \in Nat
    BY DEF Shape
  <2>1. ASSUME NEW c \in Call,
               \/ Ask(c) \/ Submit(c) \/ SignOut(c) \/ Authenticate(c) \/ Intercept(c)
               \/ FindSession(c) \/ Rotate(c) \/ Refreshed(c) \/ Thrown(c)
               \/ OpenSession(c) \/ SignedIn(c) \/ DeleteSession(c) \/ SignedOut(c)
               \/ Fail(c)
        PROVE  LockoutOvershoot'
    <3>1. attempts' = attempts
      BY <2>1 DEF Ask, Submit, SignOut, Start, Authenticate, Intercept, FindSession,
                  Rotate, Refreshed, Thrown, OpenSession, SignedIn, DeleteSession,
                  SignedOut, Fail, server
    <3>2. \A d \in Call : d # c => call'[d] = call[d]
      BY <2>1 DEF Ask, Submit, SignOut, Start, Authenticate, Intercept, FindSession,
                  Rotate, Refreshed, Thrown, OpenSession, SignedIn, DeleteSession,
                  SignedOut, Fail, Refresh, Becomes, Over, Shape
    <3>3. call'[c].phase # "verifying"
      <4>1. CASE \/ Ask(c) \/ Submit(c) \/ SignOut(c)
        BY <4>1 DEF Ask, Submit, SignOut, Start, NoCall, Shape
      <4>2. CASE Authenticate(c) \/ Intercept(c) \/ FindSession(c)
        BY <4>2 DEF Authenticate, Intercept, Refresh, FindSession, Becomes, Over,
                    NoCall, Shape, CallType
      <4>3. CASE Rotate(c) \/ OpenSession(c)
        BY <4>3 DEF Rotate, OpenSession, Shape, CallType
      <4>4. CASE Refreshed(c)
        BY <4>4 DEF Refreshed, Shape, CallType
      <4>5. CASE Thrown(c) \/ SignedIn(c) \/ SignedOut(c) \/ Fail(c)
        BY <4>5 DEF Thrown, SignedIn, SignedOut, Fail, Over, NoCall, Shape
      <4>6. CASE DeleteSession(c)
        BY <4>6 DEF DeleteSession, Becomes, Shape, CallType
      <4> QED
        BY <2>1, <4>1, <4>2, <4>3, <4>4, <4>5, <4>6
    <3>4. Verifying' \subseteq Verifying
      BY <3>2, <3>3 DEF Verifying, At
    <3> QED
      BY <2>0, <3>1, <3>4, NoMoreVerifying
  <2>2. ASSUME NEW c \in Call, CheckLockout(c)
        PROVE  LockoutOvershoot'
    <3>1. attempts' = attempts
      BY <2>2 DEF CheckLockout, server
    <3>2. CASE attempts >= MaxAttempts
      <4>1. Verifying' \subseteq Verifying
        BY <2>2, <3>2 DEF CheckLockout, Over, NoCall, Verifying, At, Shape
      <4> QED
        BY <2>0, <3>1, <4>1, NoMoreVerifying
    <3>3. CASE attempts < MaxAttempts
      BY <2>0, <3>1, <3>3, BelowTheLimit
    <3> QED
      BY <2>0, <3>2, <3>3, AttemptsAssumption
  <2>3. ASSUME NEW c \in Call, WrongPassword(c)
        PROVE  LockoutOvershoot'
    <3>1. /\ attempts' = attempts + 1
          /\ c \in Verifying /\ Verifying' = Verifying \ {c}
      BY <2>3 DEF WrongPassword, Becomes, Verifying, At, Shape
    <3>2. IsFiniteSet(Verifying)
      BY OwnerAssumption, FS_Subset DEF Verifying
    <3>3. /\ Cardinality(Verifying') = Cardinality(Verifying) - 1
          /\ Cardinality(Verifying) \in Nat /\ Cardinality(Call) \in Nat
      BY <3>1, <3>2, OwnerAssumption, FS_RemoveElement, FS_CardinalityType
    <3>4. attempts + Cardinality(Verifying) <= MaxAttempts - 1 + Cardinality(Call)
      BY DEF LockoutOvershoot, Verifying
    <3>5. attempts' + Cardinality(Verifying') <= MaxAttempts - 1 + Cardinality(Call)
      BY <2>0, <3>1, <3>3, <3>4, AttemptsAssumption
    <3> QED
      BY <3>5 DEF LockoutOvershoot, Verifying
  <2>4. ASSUME NEW c \in Call, RightPassword(c)
        PROVE  LockoutOvershoot'
    <3>1. attempts' = 0
      BY <2>4 DEF RightPassword
    <3> QED
      BY <2>0, <3>1, AttemptsAssumption, BelowTheLimit
  <2>5. ASSUME NEW t \in Tab, NEW p \in {"login", "dashboard"}, Load(t, p)
        PROVE  LockoutOvershoot'
    <3>1. attempts' = attempts /\ Verifying' \subseteq Verifying
      BY <2>5 DEF Load, server, Verifying, At, NoCall, Shape, CallType
    <3> QED
      BY <2>0, <3>1, NoMoreVerifying
  <2>6. CASE AccessExpires \/ SessionExpires
    <3>1. attempts' = attempts /\ Verifying' \subseteq Verifying
      BY <2>6 DEF AccessExpires, SessionExpires, server, Verifying, At, Shape, CallType
    <3> QED
      BY <2>0, <3>1, NoMoreVerifying
  <2>7. CASE WindowEnds
    <3>1. attempts' = 0
      BY <2>7 DEF WindowEnds
    <3> QED
      BY <2>0, <3>1, AttemptsAssumption, BelowTheLimit
  <2>8. CASE UNCHANGED vars
    BY <2>8 DEF vars, LockoutOvershoot, At
  <2> QED
    BY <2>1, <2>2, <2>3, <2>4, <2>5, <2>6, <2>7, <2>8 DEF Next, Proceeds
<1> QED
  BY <1>1, <1>2, ShapeInvariant, PTL DEF Spec
-----------------------------------------------------------------------------
(* The flag `refreshing' of a tab.                                         *)

\* OneRefreshPerTab, call by call.
RefreshInv ==
    /\ \A c \in Call : Refreshing(c) => tab[Owner[c]].refreshing
    /\ \A t \in Tab : tab[t].refreshing =>
           \E c \in Call : Owner[c] = t /\ Refreshing(c)
    /\ \A c, d \in Call : Owner[c] = Owner[d] /\ Refreshing(c) /\ Refreshing(d) => c = d

\* A step in which nobody starts or ends a refresh.
LEMMA NoRefreshStep ==
    ASSUME RefreshInv,
           \A c \in Call : Refreshing(c)' <=> Refreshing(c),
           \A t \in Tab : tab'[t].refreshing <=> tab[t].refreshing
    PROVE  RefreshInv'
BY OwnerAssumption DEF RefreshInv

\* A step in which a tab drops its refreshes and clears the flag.
LEMMA DroppedRefresh ==
    ASSUME RefreshInv, NEW t \in Tab, ~tab'[t].refreshing,
           \A c \in Call : IF Owner[c] = t THEN ~Refreshing(c)'
                           ELSE Refreshing(c)' <=> Refreshing(c),
           \A u \in Tab \ {t} : tab'[u].refreshing <=> tab[u].refreshing
    PROVE  RefreshInv'
BY OwnerAssumption DEF RefreshInv

LEMMA RefreshInvariant == Spec => []RefreshInv
<1>1. Init => RefreshInv
  BY OwnerAssumption DEF Init, RefreshInv, Refreshing, NoCall
<1>2. Shape /\ RefreshInv /\ [Next]_vars => RefreshInv'
  <2> SUFFICES ASSUME Shape, RefreshInv, [Next]_vars PROVE RefreshInv'
    OBVIOUS
  <2>0. /\ \A c \in Call : /\ Owner[c] \in Tab
                           /\ call[c] \in CallType /\ tab[Owner[c]] \in TabType
        /\ \A t \in Tab : tab[t] \in TabType
    BY OwnerAssumption DEF Shape
  <2>1. ASSUME NEW c \in Call,
               \/ Ask(c) \/ Submit(c) \/ SignOut(c) \/ Authenticate(c)
               \/ FindSession(c) \/ Rotate(c) \/ CheckLockout(c) \/ WrongPassword(c)
               \/ RightPassword(c) \/ OpenSession(c) \/ DeleteSession(c) \/ Fail(c)
        PROVE  RefreshInv'
    <3>1. tab' = tab
      BY <2>1 DEF Ask, Submit, SignOut, Start, Authenticate, FindSession, Rotate,
                  CheckLockout, WrongPassword, RightPassword, OpenSession,
                  DeleteSession, Fail, browser
    <3>2. \A d \in Call : d # c => call'[d] = call[d]
      BY <2>1 DEF Ask, Submit, SignOut, Start, Authenticate, FindSession, Rotate,
                  CheckLockout, WrongPassword, RightPassword, OpenSession,
                  DeleteSession, Fail, Over, Becomes, Shape
    <3>3. Refreshing(c)' <=> Refreshing(c)
      <4>1. CASE Ask(c) \/ Submit(c) \/ SignOut(c)
        BY <4>1 DEF Ask, Submit, SignOut, Start, Busy, NoCall, Shape, Refreshing
      <4>2. CASE Authenticate(c) \/ CheckLockout(c) \/ Fail(c)
        BY <4>2, <2>0 DEF Authenticate, CheckLockout, Fail, At, Becomes, Over, NoCall,
                          Shape, CallType, Refreshing
      <4>3. CASE FindSession(c)
        BY <4>3, <2>0 DEF FindSession, At, Becomes, Shape, CallType, Refreshing
      <4>4. CASE Rotate(c) \/ OpenSession(c)
        BY <4>4, <2>0 DEF Rotate, OpenSession, At, Shape, CallType, Refreshing
      <4>5. CASE WrongPassword(c) \/ RightPassword(c) \/ DeleteSession(c)
        BY <4>5, <2>0 DEF WrongPassword, RightPassword, DeleteSession, At, Becomes,
                          Shape, CallType, Refreshing
      <4> QED
        BY <2>1, <4>1, <4>2, <4>3, <4>4, <4>5
    <3>4. \A d \in Call : Refreshing(d)' <=> Refreshing(d)
      BY <3>2, <3>3 DEF Refreshing
    <3> QED
      BY <3>1, <3>4, NoRefreshStep
  <2>2. ASSUME NEW c \in Call, SignedIn(c) \/ SignedOut(c)
        PROVE  RefreshInv'
    <3>1. \A t \in Tab : tab'[t].refreshing <=> tab[t].refreshing
      <4>1. CASE SignedIn(c)
        BY <4>1, <2>0 DEF SignedIn, browser, Shape, TabType
      <4>2. CASE SignedOut(c)
        BY <4>2, <2>0 DEF SignedOut, browser, Shape, TabType
      <4> QED
        BY <2>2, <4>1, <4>2
    <3>2. \A d \in Call : Refreshing(d)' <=> Refreshing(d)
      BY <2>2 DEF SignedIn, SignedOut, At, Over, NoCall, Shape, Refreshing
    <3> QED
      BY <3>1, <3>2, NoRefreshStep
  <2>3. ASSUME NEW c \in Call, Intercept(c)
        PROVE  RefreshInv'
    <3>1. CASE call[c].adrift \/ call[c].again \/ Mine(c).refreshing
      <4>1. \A d \in Call : Refreshing(d)' <=> Refreshing(d)
        BY <2>3, <3>1 DEF Intercept, At, Over, NoCall, Shape, Refreshing
      <4> QED
        BY <2>3, <3>1, <4>1, NoRefreshStep DEF Intercept
    <3>2. CASE ~(call[c].adrift \/ call[c].again \/ Mine(c).refreshing)
      <4>1. /\ call' = [call EXCEPT ![c].phase = "refresh", ![c].uses = cookie]
            /\ tab' = [tab EXCEPT ![Owner[c]].refreshing = TRUE]
            /\ ~tab[Owner[c]].refreshing
        BY <2>3, <3>2 DEF Intercept, Refresh, Mine
      <4>2. /\ Refreshing(c)'
            /\ \A d \in Call : d # c => (Refreshing(d)' <=> Refreshing(d))
        BY <2>0, <3>2, <4>1 DEF Shape, CallType, Refreshing
      <4>3. /\ tab'[Owner[c]].refreshing
            /\ \A t \in Tab : t # Owner[c] => tab'[t] = tab[t]
        BY <2>0, <4>1 DEF Shape, TabType
      <4>4. \A d \in Call : Owner[d] = Owner[c] => ~Refreshing(d)
        BY <4>1 DEF RefreshInv
      <4> QED
        BY <2>0, <4>2, <4>3, <4>4 DEF RefreshInv
    <3> QED
      BY <3>1, <3>2
  <2>4. ASSUME NEW c \in Call, Refreshed(c)
        PROVE  RefreshInv'
    <3>1. Refreshing(c)
      BY <2>4 DEF Refreshed, At, Refreshing
    <3>2. \A d \in Call : Owner[d] = Owner[c] /\ d # c => ~Refreshing(d)
      BY <3>1 DEF RefreshInv
    <3>3. /\ ~Refreshing(c)'
          /\ \A d \in Call : d # c => (Refreshing(d)' <=> Refreshing(d))
      BY <2>0, <2>4 DEF Refreshed, Shape, CallType, Refreshing
    <3>4. /\ ~tab'[Owner[c]].refreshing
          /\ \A t \in Tab \ {Owner[c]} : tab'[t].refreshing <=> tab[t].refreshing
      BY <2>0, <2>4 DEF Refreshed, Shape, TabType
    <3> QED
      BY <2>0, <3>2, <3>3, <3>4, DroppedRefresh
  <2>5. ASSUME NEW c \in Call, Thrown(c)
        PROVE  RefreshInv'
    <3>1. /\ ~Refreshing(c)'
          /\ \A d \in Call : d # c => (Refreshing(d)' <=> Refreshing(d))
      BY <2>5 DEF Thrown, Over, NoCall, Shape, Refreshing
    <3>2. CASE call[c].adrift
      <4>1. ~Refreshing(c) /\ tab' = tab
        BY <2>5, <3>2 DEF Thrown, Refreshing
      <4> QED
        BY <3>1, <4>1, NoRefreshStep
    <3>3. CASE ~call[c].adrift
      <4>1. Refreshing(c)
        BY <2>5, <3>3 DEF Thrown, Refreshing
      <4>2. \A d \in Call : Owner[d] = Owner[c] /\ d # c => ~Refreshing(d)
        BY <4>1 DEF RefreshInv
      <4>3. /\ ~tab'[Owner[c]].refreshing
            /\ \A t \in Tab \ {Owner[c]} : tab'[t].refreshing <=> tab[t].refreshing
        BY <2>0, <2>5, <3>3 DEF Thrown, Shape
      <4> QED
        BY <2>0, <3>1, <4>2, <4>3, DroppedRefresh
    <3> QED
      BY <3>2, <3>3
  <2>6. ASSUME NEW t \in Tab, NEW p \in {"login", "dashboard"}, Load(t, p)
        PROVE  RefreshInv'
    <3>1. /\ ~tab'[t].refreshing
          /\ \A u \in Tab \ {t} : tab'[u].refreshing <=> tab[u].refreshing
      BY <2>6 DEF Load, Shape
    <3>2. \A c \in Call : IF Owner[c] = t THEN ~Refreshing(c)'
                          ELSE Refreshing(c)' <=> Refreshing(c)
      BY <2>0, <2>6 DEF Load, NoCall, CallType, Refreshing
    <3> QED
      BY <3>1, <3>2, DroppedRefresh
  <2>7. CASE AccessExpires \/ SessionExpires \/ WindowEnds
    <3>1. /\ \A t \in Tab : tab'[t].refreshing <=> tab[t].refreshing
          /\ \A c \in Call : Refreshing(c)' <=> Refreshing(c)
      BY <2>0, <2>7 DEF AccessExpires, SessionExpires, WindowEnds, browser,
                        TabType, CallType, Refreshing
    <3> QED
      BY <3>1, NoRefreshStep
  <2>8. CASE UNCHANGED vars
    BY <2>8, NoRefreshStep DEF vars, Refreshing
  <2> QED
    BY <2>1, <2>2, <2>3, <2>4, <2>5, <2>6, <2>7, <2>8 DEF Next, Proceeds
<1> QED
  BY <1>1, <1>2, ShapeInvariant, PTL DEF Spec

\* Each tab has one refresh at a time, and its flag `refreshing' is on exactly
\* while it has: it is neither left on, which would reject every later 401 of
\* the tab, nor off during a refresh, which would let in a second one with the
\* same token (api.ts:20-40).
THEOREM TabsRefreshOnce == Spec => []OneRefreshPerTab
<1>1. Shape /\ RefreshInv => OneRefreshPerTab
  BY OwnerAssumption DEF RefreshInv, OneRefreshPerTab, Shape, TabType
<1> QED
  BY <1>1, ShapeInvariant, RefreshInvariant, PTL

-----------------------------------------------------------------------------
(* The tokens issued.                                                      *)

\* What a step makes of call c; the other calls stay as they are.
Turns(c, phase, again, uses, made, adrift) ==
    /\ \A d \in Call \ {c} : call'[d] = call[d]
    /\ call'[c].phase = phase /\ call'[c].again = again /\ call'[c].adrift = adrift
    /\ call'[c].uses = uses /\ call'[c].made = made

Moves(c, phase) ==
    Turns(c, phase, call[c].again, call[c].uses, call[c].made, call[c].adrift)
Ends(c) == Turns(c, "idle", FALSE, 0, 0, FALSE)

\* The steps of a call, as far as its tokens are concerned.
LEMMA CallEffects ==
    ASSUME Shape, NEW c \in Call
    PROVE  /\ Ask(c) \/ Submit(c) => Turns(c, "sent", FALSE, 0, 0, FALSE)
           /\ SignOut(c) => Turns(c, "sent", FALSE, cookie, 0, FALSE)
           /\ Authenticate(c) => Ends(c) \/ Moves(c, "denied")
           /\ Intercept(c) =>
                  \/ Ends(c)
                  \/ /\ ~call[c].again /\ ~tab[Owner[c]].refreshing
                     /\ Turns(c, "refresh", FALSE, cookie, call[c].made, FALSE)
           /\ Refreshed(c) => Turns(c, "sent", TRUE, 0, 0, FALSE)
           /\ Thrown(c) \/ SignedIn(c) \/ SignedOut(c) \/ Fail(c) => Ends(c)
           /\ FindSession(c) =>
                  Moves(c, IF call[c].uses \in sessions THEN "rotate" ELSE "refused")
           /\ Rotate(c) => Turns(c, "rotated", call[c].again, call[c].uses,
                                 issued + 1, call[c].adrift)
           /\ CheckLockout(c) => Ends(c) \/ Moves(c, "verifying")
           /\ WrongPassword(c) => Moves(c, "denied")
           /\ RightPassword(c) => Moves(c, "opening")
           /\ OpenSession(c) => Turns(c, "opened", call[c].again, call[c].uses,
                                      issued + 1, call[c].adrift)
           /\ DeleteSession(c) => Moves(c, "signedOut")
<1>0. call \in [Call -> CallType] /\ call[c] \in CallType
  BY DEF Shape
<1>1. ASSUME NEW phase, call' = [call EXCEPT ![c].phase = phase]
      PROVE  Moves(c, phase)
  <2>1. /\ call'[c] = [call[c] EXCEPT !.phase = phase]
        /\ \A d \in Call \ {c} : call'[d] = call[d]
    BY <1>0, <1>1
  <2> QED
    BY <1>0, <2>1 DEF Moves, Turns, CallType
<1>2. ASSUME NEW phase, NEW n,
             call' = [call EXCEPT ![c].phase = phase, ![c].made = n]
      PROVE  Turns(c, phase, call[c].again, call[c].uses, n, call[c].adrift)
  BY <1>0, <1>2 DEF Turns, CallType
<1>3. ASSUME call' = [call EXCEPT ![c] = NoCall]
      PROVE  Ends(c)
  BY <1>0, <1>3 DEF Ends, Turns, NoCall
<1>13. ASSUME NEW r, call' = [call EXCEPT ![c] = r]
      PROVE  call'[c] = r /\ \A d \in Call \ {c} : call'[d] = call[d]
  BY <1>0, <1>13
<1>4. Ask(c) \/ Submit(c) => Turns(c, "sent", FALSE, 0, 0, FALSE)
  <2>1. CASE Ask(c)
    <3>1. call' = [call EXCEPT ![c] = [NoCall EXCEPT !.phase = "sent", !.fresh = Mine(c).fresh]]
      BY <2>1 DEF Ask, Start
    <3> QED
      BY <1>13, <3>1 DEF Turns, NoCall
  <2>2. CASE Submit(c)
    <3>1. call' = [call EXCEPT ![c] = [NoCall EXCEPT !.kind = "login", !.phase = "sent"]]
      BY <2>2 DEF Submit, Start
    <3> QED
      BY <1>13, <3>1 DEF Turns, NoCall
  <2> QED
    BY <2>1, <2>2
<1>5. SignOut(c) => Turns(c, "sent", FALSE, cookie, 0, FALSE)
  <2>1. SignOut(c) => call' = [call EXCEPT ![c] =
                          [NoCall EXCEPT !.kind = "logout", !.phase = "sent", !.uses = cookie]]
    BY DEF SignOut, Start
  <2> SUFFICES ASSUME SignOut(c) PROVE Turns(c, "sent", FALSE, cookie, 0, FALSE)
    OBVIOUS
  <2>2. /\ call'[c] = [NoCall EXCEPT !.kind = "logout", !.phase = "sent", !.uses = cookie]
        /\ \A d \in Call \ {c} : call'[d] = call[d]
    BY <1>13, <2>1
  <2> QED
    BY <2>2 DEF Turns, NoCall
<1>6. /\ Authenticate(c) => Ends(c) \/ Moves(c, "denied")
      /\ CheckLockout(c) => Ends(c) \/ Moves(c, "verifying")
  BY <1>1, <1>3 DEF Authenticate, CheckLockout, Over, Becomes
<1>7. Intercept(c) =>
          \/ Ends(c)
          \/ /\ ~call[c].again /\ ~tab[Owner[c]].refreshing
             /\ Turns(c, "refresh", FALSE, cookie, call[c].made, FALSE)
  <2> SUFFICES ASSUME Intercept(c),
                      ~(call[c].adrift \/ call[c].again \/ Mine(c).refreshing)
               PROVE  /\ ~call[c].again /\ ~tab[Owner[c]].refreshing
                      /\ Turns(c, "refresh", FALSE, cookie, call[c].made, FALSE)
    BY <1>3 DEF Intercept, Over
  <2>1. call' = [call EXCEPT ![c].phase = "refresh", ![c].uses = cookie]
    BY DEF Intercept, Refresh
  <2> QED
    BY <1>0, <2>1 DEF Mine, Turns, CallType
<1>8. Refreshed(c) => Turns(c, "sent", TRUE, 0, 0, FALSE)
  BY <1>0 DEF Refreshed, Turns, CallType
<1>9. Thrown(c) \/ SignedIn(c) \/ SignedOut(c) \/ Fail(c) => Ends(c)
  BY <1>3 DEF Thrown, SignedIn, SignedOut, Fail, Over
<1>10. FindSession(c) =>
           Moves(c, IF call[c].uses \in sessions THEN "rotate" ELSE "refused")
  BY <1>1 DEF FindSession, Becomes
<1>11. /\ Rotate(c) => Turns(c, "rotated", call[c].again, call[c].uses,
                             issued + 1, call[c].adrift)
       /\ OpenSession(c) => Turns(c, "opened", call[c].again, call[c].uses,
                                  issued + 1, call[c].adrift)
  BY <1>2 DEF Rotate, OpenSession
<1>12. /\ WrongPassword(c) => Moves(c, "denied")
       /\ RightPassword(c) => Moves(c, "opening")
       /\ DeleteSession(c) => Moves(c, "signedOut")
  BY <1>1 DEF WrongPassword, RightPassword, DeleteSession, Becomes
<1> QED
  BY <1>4, <1>5, <1>6, <1>7, <1>8, <1>9, <1>10, <1>11, <1>12

\* A call brings one token at most: a call that is repeated brings no second.
MayIssue(c) ==
    /\ call[c].phase \in {"sent", "denied", "refresh", "rotate", "verifying", "opening"}
    /\ ~call[c].again
Issuers == {c \in Call : MayIssue(c)}

\* The bound on tokens leaves room for all the calls that may bring one.
RoomInv ==
    /\ issued + Cardinality(Issuers) <= MaxIssued
    /\ \A c \in Call :
           call[c].phase \in {"refresh", "rotate", "rotated", "opening"} => ~call[c].again

\* A step of a call that gives it no new right to a token.
LEMMA KeepsRoom ==
    ASSUME RoomInv, NEW c \in Call,
           \A d \in Call \ {c} : call'[d] = call[d],
           MayIssue(c)' => MayIssue(c),
           (call[c].phase \in {"refresh", "rotate", "rotated", "opening"} => ~call[c].again)'
    PROVE  /\ Issuers' \subseteq Issuers
           /\ \A d \in Call :
                  (call[d].phase \in {"refresh", "rotate", "rotated", "opening"} => ~call[d].again)'
BY DEF RoomInv, Issuers, MayIssue

\* A step that issues nothing and starts no call.
LEMMA NoMoreIssuers ==
    ASSUME Shape, issued + Cardinality(Issuers) <= MaxIssued, issued' = issued,
           Issuers' \subseteq Issuers
    PROVE  issued' + Cardinality(Issuers') <= MaxIssued
<1>1. IsFiniteSet(Issuers)
  BY OwnerAssumption, FS_Subset DEF Issuers
<1>2. /\ Cardinality(Issuers') <= Cardinality(Issuers)
      /\ Cardinality(Issuers') \in Nat /\ Cardinality(Issuers) \in Nat
  BY <1>1, FS_Subset, FS_CardinalityType
<1> QED
  BY <1>2, IssuedAssumption DEF Shape

\* A step that issues a token for a call, which then brings no other.
LEMMA OneLessIssuer ==
    ASSUME Shape, issued + Cardinality(Issuers) <= MaxIssued, issued' = issued + 1,
           NEW c \in Issuers, Issuers' \subseteq Issuers \ {c}
    PROVE  issued' + Cardinality(Issuers') <= MaxIssued
<1>1. IsFiniteSet(Issuers)
  BY OwnerAssumption, FS_Subset DEF Issuers
<1>2. /\ Cardinality(Issuers \ {c}) = Cardinality(Issuers) - 1
      /\ IsFiniteSet(Issuers \ {c})
  BY <1>1, FS_RemoveElement
<1>3. /\ Cardinality(Issuers') <= Cardinality(Issuers \ {c})
      /\ Cardinality(Issuers') \in Nat /\ Cardinality(Issuers) \in Nat
  BY <1>1, <1>2, FS_Subset, FS_CardinalityType
<1> QED
  BY <1>2, <1>3, IssuedAssumption DEF Shape

\* A step that starts a call, when there is room for one.
LEMMA OneMoreIssuer ==
    ASSUME Shape, issued + Cardinality({d \in Call : Busy(d)}) < MaxIssued,
           issued' = issued, NEW c \in Call, Issuers' \subseteq Issuers \union {c}
    PROVE  issued' + Cardinality(Issuers') <= MaxIssued
<1> DEFINE busy == {d \in Call : Busy(d)}
<1>1. Issuers \subseteq busy
  BY DEF Issuers, MayIssue, Busy
<1>2. IsFiniteSet(busy) /\ Cardinality(busy) \in Nat
  BY OwnerAssumption, FS_Subset, FS_CardinalityType
<1>3. /\ IsFiniteSet(busy \union {c})
      /\ Cardinality(busy \union {c}) <= Cardinality(busy) + 1
  BY <1>2, FS_AddElement
<1>4. Cardinality(Issuers') <= Cardinality(busy \union {c})
      /\ Cardinality(Issuers') \in Nat /\ Cardinality(busy \union {c}) \in Nat
  BY <1>1, <1>3, FS_Subset, FS_CardinalityType
<1> QED
  BY <1>2, <1>3, <1>4, IssuedAssumption DEF Shape

\* What the page loads and the passing of time make of a call.
LEMMA OtherCallEffects ==
    ASSUME Shape, NEW c \in Call,
           \/ \E t \in Tab : \E page \in {"login", "dashboard"} : Load(t, page)
           \/ AccessExpires \/ SessionExpires \/ WindowEnds \/ UNCHANGED vars
    PROVE  \/ /\ call'[c].phase = call[c].phase /\ call'[c].again = call[c].again
              /\ call'[c].uses = call[c].uses /\ call'[c].made = call[c].made
              /\ call[c].adrift => call'[c].adrift
              /\ call'[c].adrift # call[c].adrift => ~At(c, "rotated")
           \/ /\ call'[c] = NoCall
              /\ At(c, "rotated") => LostBy({d \in Call : Owner[d] = Owner[c]})
<1>0. call[c] \in CallType
  BY DEF Shape
<1>1. CASE \E t \in Tab : \E page \in {"login", "dashboard"} : Load(t, page)
  <2>1. PICK t \in Tab : \E page \in {"login", "dashboard"} : Load(t, page)
    BY <1>1
  <2>2. /\ call'[c] = IF Owner[c] # t THEN call[c]
                      ELSE IF AtServer(c) THEN [call[c] EXCEPT !.adrift = TRUE] ELSE NoCall
        /\ LostBy({d \in Call : Owner[d] = t})
    BY <2>1 DEF Load
  <2>3. CASE Owner[c] # t
    BY <2>2, <2>3
  <2>4. CASE Owner[c] = t /\ AtServer(c)
    BY <1>0, <2>2, <2>4 DEF AtServer, At, CallType
  <2>5. CASE Owner[c] = t /\ ~AtServer(c)
    BY <2>2, <2>5
  <2> QED
    BY <2>3, <2>4, <2>5
<1>2. CASE AccessExpires
  BY <1>0, <1>2 DEF AccessExpires, CallType
<1>3. CASE SessionExpires \/ WindowEnds \/ UNCHANGED vars
  BY <1>3 DEF SessionExpires, WindowEnds, vars
<1> QED
  BY <1>1, <1>2, <1>3

LEMMA RoomInvariant == Spec => []RoomInv
<1>1. Init => RoomInv
  <2> SUFFICES ASSUME Init PROVE RoomInv
    OBVIOUS
  <2>1. Issuers = {}
    BY DEF Init, Issuers, MayIssue, NoCall
  <2>2. Cardinality({}) = 0 /\ issued = 0
    BY FS_EmptySet DEF Init
  <2>3. issued + Cardinality(Issuers) <= MaxIssued
    BY <2>1, <2>2, IssuedAssumption
  <2> QED
    BY <2>3 DEF Init, RoomInv, NoCall
<1>2. Shape /\ RoomInv /\ [Next]_vars => RoomInv'
  <2> SUFFICES ASSUME Shape, RoomInv, [Next]_vars
               PROVE  RoomInv'
    OBVIOUS
  <2> USE DEF RoomInv, Turns, Moves, Ends
  <2>1. ASSUME NEW c \in Call, Ask(c) \/ Submit(c) \/ SignOut(c)
        PROVE  RoomInv'
    <3>1. \E n : Turns(c, "sent", FALSE, n, 0, FALSE)
      BY <2>1, CallEffects
    <3>2. /\ issued + Cardinality({d \in Call : Busy(d)}) < MaxIssued
          /\ issued' = issued
      BY <2>1 DEF Ask, Submit, SignOut, Start, server
    <3>3. Issuers' \subseteq Issuers \union {c}
      BY <3>1 DEF Issuers, MayIssue
    <3> QED
      BY <3>1, <3>2, <3>3, OneMoreIssuer
  <2>2. ASSUME NEW c \in Call,
               \/ Authenticate(c) \/ Intercept(c) \/ Refreshed(c) \/ Thrown(c)
               \/ SignedIn(c) \/ SignedOut(c) \/ Fail(c) \/ FindSession(c)
               \/ CheckLockout(c) \/ WrongPassword(c) \/ RightPassword(c)
               \/ DeleteSession(c)
        PROVE  RoomInv'
    <3>1. issued' = issued
      BY <2>2 DEF Authenticate, Intercept, Refreshed, Thrown, SignedIn, SignedOut, Fail,
                  FindSession, CheckLockout, WrongPassword, RightPassword,
                  DeleteSession, server
    <3>2. /\ Issuers' \subseteq Issuers
          /\ \A d \in Call :
                 (call[d].phase \in {"refresh", "rotate", "rotated", "opening"} => ~call[d].again)'
      <4> HIDE DEF RoomInv, Turns, Moves, Ends
      <4>1. CASE Ends(c) \/ Turns(c, "sent", TRUE, 0, 0, FALSE)
        BY <4>1, KeepsRoom DEF Ends, Turns, MayIssue
      <4>2. CASE Intercept(c)
        <5>1. At(c, "denied")
          BY <4>2 DEF Intercept
        <5>2. \/ Ends(c)
              \/ /\ ~call[c].again
                 /\ Turns(c, "refresh", FALSE, cookie, call[c].made, FALSE)
          BY <4>2, CallEffects
        <5> QED
          BY <4>1, <5>1, <5>2, KeepsRoom DEF Turns, MayIssue, At
      <4>3. CASE Refreshed(c) \/ Thrown(c) \/ SignedIn(c) \/ SignedOut(c) \/ Fail(c)
        BY <4>1, <4>3, CallEffects
      <4>4. CASE Authenticate(c) \/ CheckLockout(c)
        <5>1. /\ At(c, "sent")
              /\ Ends(c) \/ Moves(c, "denied") \/ Moves(c, "verifying")
          BY <4>4, CallEffects DEF Authenticate, CheckLockout
        <5> QED
          BY <4>1, <5>1, KeepsRoom DEF Moves, Turns, MayIssue, At
      <4>5. CASE FindSession(c)
        <5>1. At(c, "refresh") /\ (Moves(c, "rotate") \/ Moves(c, "refused"))
          BY <4>5, CallEffects DEF FindSession
        <5> QED
          BY <5>1, KeepsRoom DEF RoomInv, Moves, Turns, MayIssue, At
      <4>6. CASE WrongPassword(c) \/ RightPassword(c) \/ DeleteSession(c)
        <5>1. \/ At(c, "verifying") /\ Moves(c, "denied")
              \/ At(c, "verifying") /\ ~call[c].again /\ Moves(c, "opening")
              \/ Moves(c, "signedOut")
          BY <4>6, CallEffects DEF WrongPassword, RightPassword
        <5> QED
          BY <5>1, KeepsRoom DEF Moves, Turns, MayIssue, At
      <4> QED
        BY <2>2, <4>2, <4>3, <4>4, <4>5, <4>6
    <3> QED
      BY <3>1, <3>2, NoMoreIssuers
  <2>3. ASSUME NEW c \in Call, Rotate(c) \/ OpenSession(c)
        PROVE  RoomInv'
    <3>1. c \in Issuers /\ issued' = issued + 1
      BY <2>3 DEF Rotate, OpenSession, At, Issuers, MayIssue
    <3>2. Issuers' \subseteq Issuers \ {c}
      <4>1. ~MayIssue(c)' /\ \A d \in Call \ {c} : call'[d] = call[d]
        BY <2>3, CallEffects DEF MayIssue
      <4> QED
        BY <4>1 DEF Issuers, MayIssue
    <3>3. \A d \in Call :
                 (call[d].phase \in {"refresh", "rotate", "rotated", "opening"} => ~call[d].again)'
      <4>1. \/ At(c, "rotate") /\ call'[c].again = call[c].again
            \/ call'[c].phase = "opened"
        BY <2>3, CallEffects DEF Rotate
      <4>2. \A d \in Call \ {c} : call'[d] = call[d]
        BY <2>3, CallEffects
      <4> QED
        BY <4>1, <4>2 DEF At
    <3> QED
      BY <3>1, <3>2, <3>3, OneLessIssuer
  <2>4. ASSUME \/ \E t \in Tab : \E page \in {"login", "dashboard"} : Load(t, page)
               \/ AccessExpires \/ SessionExpires \/ WindowEnds \/ UNCHANGED vars
        PROVE  RoomInv'
    <3>1. issued' = issued
      BY <2>4 DEF Load, AccessExpires, SessionExpires, WindowEnds, vars, server
    <3>2. \A c \in Call : \/ call'[c].phase = call[c].phase /\ call'[c].again = call[c].again
                          \/ call'[c] = NoCall
      BY <2>4, OtherCallEffects
    <3>3. /\ Issuers' \subseteq Issuers
          /\ \A d \in Call :
                 (call[d].phase \in {"refresh", "rotate", "rotated", "opening"} => ~call[d].again)'
      BY <3>2 DEF Issuers, MayIssue, NoCall
    <3> QED
      BY <3>1, <3>3, NoMoreIssuers
  <2> QED
    BY <2>1, <2>2, <2>3, <2>4 DEF Next, Proceeds
<1> QED
  BY <1>1, <1>2, ShapeInvariant, PTL DEF Spec

-----------------------------------------------------------------------------
(* How refresh tokens end.                                                 *)

Ending == Tab \union {"not", "loggedOut", "expired", "lost"}

\* Every token that is about was issued.
Numbers ==
    /\ ended \in [Issue -> Ending]
    /\ sessions \subseteq 1..issued
    /\ cookie <= issued
    /\ \A c \in Call : call[c].uses <= issued /\ call[c].made <= issued

\* A token that has no row has ended, and one that was not issued has not.
Gone ==
    /\ \A k \in Issue : k > issued => ended[k] = "not"
    /\ \A k \in 1..issued : k \notin sessions => ended[k] # "not"

Carried ==
    \A c \in Call : /\ At(c, "rotate")  => call[c].uses \in 1..issued
                    /\ At(c, "refused") => call[c].uses \notin sessions

\* A token that is on its way to the browser is known to nobody else, and no
\* tab has used it.
Undelivered ==
    \A c \in Call : call[c].made # 0 =>
        /\ call[c].made # cookie
        /\ ended[call[c].made] \notin Tab
        /\ \A d \in Call : /\ call[d].uses # call[c].made
                           /\ call[d].made = call[c].made => d = c

\* A token that a tab has rotated is the cookie only until its answer arrives,
\* and the tab refreshes with it in that one call only.
Spent ==
    \A k \in 1..issued : ended[k] \in Tab =>
        /\ cookie = k => \E c \in Call : /\ Owner[c] = ended[k] /\ Refreshing(c)
                                         /\ At(c, "rotated") /\ call[c].uses = k
        /\ \A c \in Call : /\ Owner[c] = ended[k] /\ Refreshing(c)
                           /\ call[c].uses = k
                           => At(c, "rotated")

TokenInv == Numbers /\ Gone /\ Carried /\ Undelivered /\ Spent

\* A step that issues no token.
LEMMA NumbersFrame ==
    ASSUME Shape, Shape', Numbers, ended' \in [Issue -> Ending],
           sessions' \subseteq sessions, issued' = issued,
           \/ cookie' \in {0, cookie} \/ \E c \in Call : cookie' = call[c].made,
           \A c \in Call : /\ call'[c].uses \in {0, call[c].uses, cookie}
                           /\ call'[c].made \in {0, call[c].made}
    PROVE  Numbers'
BY DEF Numbers, Shape, CallType

\* A step that issues no token, and after which a token on its way to the
\* browser is not yet the cookie.
LEMMA UndeliveredFrame ==
    ASSUME Shape, Undelivered,
           \A c \in Call : /\ call'[c].uses \in {0, call[c].uses, cookie}
                           /\ call'[c].made \in {0, call[c].made}
                           /\ call'[c].made # 0 => call'[c].made # cookie',
           \A k \in Issue : ended'[k] \in Tab => ended'[k] = ended[k],
           \A c \in Call : call[c].made # 0 => call[c].made \in Issue
    PROVE  Undelivered'
BY DEF Undelivered

\* A step that rotates no token and after which none that was rotated is the
\* cookie, unless the call that rotated it goes on.
LEMMA SpentFrame ==
    ASSUME Shape, Spent, issued' = issued, issued <= MaxIssued,
           \A k \in Issue : ended'[k] \in Tab => ended'[k] = ended[k],
           \A k \in 1..issued : ended[k] \in Tab /\ cookie' = k => cookie = k,
           \A c \in Call : Refreshing(c)' =>
               /\ Refreshing(c) /\ call'[c].uses = call[c].uses
               /\ At(c, "rotated") => At(c, "rotated")',
           \A c \in Call : Refreshing(c) /\ At(c, "rotated") /\ cookie' = call[c].uses =>
               \/ Refreshing(c)' /\ At(c, "rotated")'
               \/ call[c].uses \in Issue => ended'[call[c].uses] \notin Tab
    PROVE  Spent'
<1> SUFFICES ASSUME NEW k \in 1..issued, ended'[k] \in Tab
             PROVE  /\ cookie' = k =>
                           \E c \in Call : /\ Owner[c] = ended'[k] /\ Refreshing(c)'
                                           /\ At(c, "rotated")' /\ call'[c].uses = k
                    /\ \A c \in Call : /\ Owner[c] = ended'[k] /\ Refreshing(c)'
                                       /\ call'[c].uses = k
                                       => At(c, "rotated")'
  BY DEF Spent
<1>1. k \in Issue /\ ended'[k] = ended[k]
  BY IssuedAssumption DEF Issue, Shape
<1>2. ASSUME cookie' = k
      PROVE  \E c \in Call : /\ Owner[c] = ended'[k] /\ Refreshing(c)'
                             /\ At(c, "rotated")' /\ call'[c].uses = k
  <2>1. PICK c \in Call : /\ Owner[c] = ended[k] /\ Refreshing(c)
                          /\ At(c, "rotated") /\ call[c].uses = k
    BY <1>1, <1>2 DEF Spent
  <2>2. Refreshing(c)' /\ At(c, "rotated")'
    BY <1>1, <1>2, <2>1
  <2> QED
    BY <1>1, <2>1, <2>2
<1>3. ASSUME NEW c \in Call, Owner[c] = ended'[k], Refreshing(c)', call'[c].uses = k
      PROVE  At(c, "rotated")'
  BY <1>1, <1>3 DEF Spent
<1> QED
  BY <1>2, <1>3

LEMMA RoomForOne ==
    ASSUME Shape, RoomInv
    PROVE  /\ issued <= MaxIssued
           /\ \A c \in Call : MayIssue(c) => issued < MaxIssued
<1>1. IsFiniteSet(Issuers) /\ Cardinality(Issuers) \in Nat
  BY OwnerAssumption, FS_Subset, FS_CardinalityType DEF Issuers
<1>2. Cardinality(Issuers) = 0 <=> Issuers = {}
  BY <1>1, FS_EmptySet
<1> QED
  BY <1>1, <1>2, IssuedAssumption DEF RoomInv, Shape, Issuers

\* What each step does to the browser, the sessions and the endings.
LEMMA GoneFrame ==
    ASSUME Numbers, Gone, issued' = issued, sessions' \subseteq sessions,
           ended' \in [Issue -> Ending],
           \A k \in Issue : ended'[k] # ended[k] => k <= issued /\ ended'[k] # "not",
           \A k \in sessions \ sessions' : ended'[k] # "not",
           issued <= MaxIssued, Shape
    PROVE  Gone'
<1>1. \A k \in 1..issued : k \in Issue
  BY IssuedAssumption DEF Issue, Shape
<1>2. issued \in Nat /\ \A k \in Issue : k \in Int
  BY DEF Shape, Issue
<1> QED
  BY <1>1, <1>2 DEF Gone, Numbers

\* The answers that a step loses.
LEMMA LostEffects ==
    ASSUME Shape, Numbers, NEW calls \in SUBSET Call, LostBy(calls)
    PROVE  /\ ended' \in [Issue -> Ending]
           /\ \A k \in Issue :
                  /\ ended'[k] \in Tab => ended'[k] = ended[k]
                  /\ ended'[k] # ended[k] => k <= issued /\ ended'[k] # "not"
           /\ \A c \in calls : At(c, "rotated") /\ call[c].uses \in Issue =>
                  ended'[call[c].uses] \notin Tab
<1>1. \A k \in Issue : ended'[k] = IF \E c \in calls : At(c, "rotated") /\ call[c].uses = k
                                   THEN "lost" ELSE ended[k]
  BY DEF LostBy
<1>2. "lost" \notin Tab /\ "lost" \in Ending
  BY TabAssumption DEF Ending
<1>3. ended' \in [Issue -> Ending]
  BY <1>2 DEF LostBy, Numbers
<1> QED
  BY <1>1, <1>2, <1>3 DEF Numbers

\* A request that starts, ends or waits moves no token.
LEMMA TokensWait ==
    ASSUME Shape, Shape', RoomInv, TokenInv, NEW c \in Call,
           \/ Ask(c) \/ Submit(c) \/ SignOut(c) \/ Authenticate(c) \/ CheckLockout(c)
           \/ WrongPassword(c) \/ RightPassword(c) \/ Fail(c) \/ Thrown(c)
           \/ FindSession(c) \/ SignedOut(c)
    PROVE  TokenInv'
<1> USE DEF Turns, Moves, Ends, TokenInv
<1>0. issued <= MaxIssued
  BY RoomForOne
<1>1. issued' = issued /\ sessions' = sessions /\ cookie' \in {0, cookie}
  BY DEF Ask, Submit, SignOut, Start, Authenticate, CheckLockout, WrongPassword,
         RightPassword, Fail, Thrown, FindSession, SignedOut, server, browser
<1>2. /\ \A d \in Call \ {c} : call'[d] = call[d]
      /\ call'[c].uses \in {0, call[c].uses, cookie}
      /\ call'[c].made \in {0, call[c].made}
      /\ At(c, "rotate")' => FindSession(c) /\ call'[c].uses \in sessions
      /\ At(c, "refused")' => FindSession(c) /\ call'[c].uses \notin sessions
      /\ Refreshing(c)' => FindSession(c) /\ Refreshing(c) /\ ~At(c, "rotated")
                           /\ call'[c].uses = call[c].uses
      /\ Refreshing(c) /\ At(c, "rotated") => Thrown(c)
  <2>1. CASE Ask(c) \/ Submit(c) \/ SignOut(c)
    BY <2>1, CallEffects DEF Ask, Submit, SignOut, Start, Busy, At, Refreshing
  <2>2. CASE Authenticate(c) \/ CheckLockout(c) \/ WrongPassword(c) \/ RightPassword(c)
    BY <2>2, CallEffects
       DEF Authenticate, CheckLockout, WrongPassword, RightPassword, At, Refreshing
  <2>3. CASE Fail(c)
    BY <2>3, CallEffects DEF Fail, At, Refreshing
  <2>4. CASE Thrown(c)
    BY <2>4, CallEffects DEF At, Refreshing
  <2>5. CASE SignedOut(c)
    BY <2>5, CallEffects DEF SignedOut, At, Refreshing
  <2>6. CASE FindSession(c)
    BY <2>6, CallEffects DEF FindSession, At, Refreshing
  <2> QED
    BY <2>1, <2>2, <2>3, <2>4, <2>5, <2>6
<1>3. /\ ended' \in [Issue -> Ending]
      /\ \A k \in Issue : /\ ended'[k] \in Tab => ended'[k] = ended[k]
                          /\ ended'[k] # ended[k] => k <= issued /\ ended'[k] # "not"
      /\ Thrown(c) /\ At(c, "rotated") /\ call[c].uses \in Issue =>
             ended'[call[c].uses] \notin Tab
  <2>1. CASE Thrown(c)
    BY <2>1, LostEffects DEF Thrown
  <2>2. CASE ~Thrown(c)
    BY <2>2 DEF Numbers, Ask, Submit, SignOut, Start, Authenticate, CheckLockout,
                WrongPassword, RightPassword, Fail, FindSession, SignedOut
  <2> QED
    BY <2>1, <2>2
<1>4. Numbers'
  BY <1>1, <1>2, <1>3, NumbersFrame
<1>5. Gone'
  BY <1>0, <1>1, <1>3, GoneFrame
<1>6. Carried'
  BY <1>1, <1>2 DEF Carried, Numbers, At
<1>7. Undelivered'
  <2>1. \A d \in Call : call[d].made # 0 => call[d].made \in Issue
    BY <1>0, IssuedAssumption DEF Numbers, Issue, Shape, CallType
  <2> QED
    BY <1>1, <1>2, <1>3, <2>1, UndeliveredFrame DEF Undelivered
<1>8. Spent'
  <2>1. \A k \in 1..issued : ended[k] \in Tab /\ cookie' = k => cookie = k
    BY <1>1 DEF Shape
  <2>2. \A d \in Call : Refreshing(d)' =>
            /\ Refreshing(d) /\ call'[d].uses = call[d].uses
            /\ At(d, "rotated") => At(d, "rotated")'
    BY <1>2 DEF Refreshing, At
  <2>3. \A d \in Call : Refreshing(d) /\ At(d, "rotated") =>
            \/ Refreshing(d)' /\ At(d, "rotated")'
            \/ call[d].uses \in Issue => ended'[call[d].uses] \notin Tab
    BY <1>2, <1>3 DEF Refreshing, At
  <2> QED
    BY <1>0, <1>1, <1>3, <2>1, <2>2, <2>3, SpentFrame
<1> QED
  BY <1>4, <1>5, <1>6, <1>7, <1>8

\* A token that arrives becomes the cookie; nobody has used it.
LEMMA TokensArrive ==
    ASSUME Shape, Shape', RoomInv, TokenInv, NEW c \in Call, Refreshed(c) \/ SignedIn(c)
    PROVE  TokenInv'
<1> USE DEF Turns, Ends, TokenInv
<1>0. issued <= MaxIssued
  BY RoomForOne
<1>1. /\ issued' = issued /\ sessions' = sessions /\ ended' = ended
      /\ cookie' = cookie \/ cookie' = call[c].made
  BY DEF Refreshed, SignedIn, server, browser
<1>2. /\ \A d \in Call \ {c} : call'[d] = call[d]
      /\ call'[c].uses = 0 /\ call'[c].made = 0
      /\ call'[c].phase \in {"idle", "sent"}
  BY CallEffects
<1>3. Numbers'
  BY <1>1, <1>2, NumbersFrame DEF Numbers
<1>4. Gone' /\ Carried'
  BY <1>1, <1>2 DEF Gone, Carried, At
<1>5. \A d \in Call : call[d].made # 0 => call[d].made \in Issue
  BY <1>0, IssuedAssumption DEF Numbers, Issue, Shape, CallType
<1>6. Undelivered'
  BY <1>1, <1>2, <1>5, UndeliveredFrame DEF Undelivered
<1>7. Spent'
  <2>1. \A k \in 1..issued : ended[k] \in Tab /\ cookie' = k => cookie = k
    BY <1>1, <1>5 DEF Undelivered
  <2>2. \A d \in Call : Refreshing(d)' =>
            /\ Refreshing(d) /\ call'[d].uses = call[d].uses
            /\ At(d, "rotated") => At(d, "rotated")'
    BY <1>2 DEF Refreshing, At
  <2>3. ASSUME NEW d \in Call, Refreshing(d), At(d, "rotated"), cookie' = call[d].uses
        PROVE  \/ Refreshing(d)' /\ At(d, "rotated")'
               \/ call[d].uses \in Issue => ended'[call[d].uses] \notin Tab
    <3>1. CASE d # c
      BY <1>2, <2>3, <3>1 DEF Refreshing, At
    <3>2. CASE d = c
      <4>1. Refreshed(c)
        BY <2>3, <3>2 DEF SignedIn, At
      <4>2. cookie' = call[c].made
        BY <4>1 DEF Refreshed
      <4>3. call[c].made = 0 \/ call[c].made # call[c].uses
        BY DEF Undelivered
      <4>4. 0 \notin Issue
        BY DEF Issue
      <4> QED
        BY <2>3, <3>2, <4>2, <4>3, <4>4
    <3> QED
      BY <3>1, <3>2
  <2> QED
    BY <1>0, <1>1, <2>1, <2>2, <2>3, SpentFrame
<1> QED
  BY <1>3, <1>4, <1>6, <1>7

\* A tab that starts a refresh takes the cookie, which no call of its own has
\* rotated: that call would still be under way, and the tab refreshing.
LEMMA TokensTaken ==
    ASSUME Shape, Shape', RoomInv, RefreshInv, TokenInv, NEW c \in Call, Intercept(c)
    PROVE  TokenInv'
<1> USE DEF TokenInv
<1>0. issued <= MaxIssued
  BY RoomForOne
<1>1. UNCHANGED <<issued, sessions, ended, cookie>>
  BY DEF Intercept, server
<1>2. /\ \A d \in Call \ {c} : call'[d] = call[d]
      /\ call'[c].uses \in {0, cookie} /\ call'[c].made \in {0, call[c].made}
      /\ call'[c].phase \in {"idle", "refresh"}
      /\ call'[c].phase = "refresh" =>
             ~tab[Owner[c]].refreshing /\ call'[c].uses = cookie
      /\ ~Refreshing(c)
  BY CallEffects DEF Turns, Ends, Intercept, At, Refreshing
<1>3. Numbers'
  BY <1>1, <1>2, NumbersFrame DEF Numbers
<1>4. Gone' /\ Carried'
  BY <1>1, <1>2 DEF Gone, Carried, At
<1>5. \A d \in Call : call[d].made # 0 => call[d].made \in Issue
  BY <1>0, IssuedAssumption DEF Numbers, Issue, Shape, CallType
<1>6. Undelivered'
  BY <1>1, <1>2, <1>5, UndeliveredFrame DEF Undelivered
<1>7. Spent'
  <2> SUFFICES ASSUME NEW k \in 1..issued, ended[k] \in Tab
               PROVE  /\ cookie = k =>
                             \E d \in Call : /\ Owner[d] = ended[k] /\ Refreshing(d)'
                                             /\ At(d, "rotated")' /\ call'[d].uses = k
                      /\ \A d \in Call : /\ Owner[d] = ended[k] /\ Refreshing(d)'
                                         /\ call'[d].uses = k
                                         => At(d, "rotated")'
    BY <1>1 DEF Spent
  <2>1. ASSUME cookie = k
        PROVE  /\ \E d \in Call : /\ Owner[d] = ended[k] /\ Refreshing(d)'
                                  /\ At(d, "rotated")' /\ call'[d].uses = k
               /\ tab[ended[k]].refreshing
    <3>1. PICK d \in Call : /\ Owner[d] = ended[k] /\ Refreshing(d)
                            /\ At(d, "rotated") /\ call[d].uses = k
      BY <2>1 DEF Spent
    <3>2. d # c
      BY <1>2, <3>1
    <3> QED
      BY <1>2, <3>1, <3>2 DEF RefreshInv, Refreshing, At
  <2>2. ASSUME NEW d \in Call, Owner[d] = ended[k], Refreshing(d)', call'[d].uses = k
        PROVE  At(d, "rotated")'
    <3>1. CASE d = c
      BY <1>2, <2>1, <2>2, <3>1 DEF Refreshing
    <3>2. CASE d # c
      BY <1>2, <2>2, <3>2 DEF Spent, Refreshing, At
    <3> QED
      BY <3>1, <3>2
  <2> QED
    BY <2>1, <2>2
<1> QED
  BY <1>3, <1>4, <1>6, <1>7

\* A login brings a new token, which ends none.
LEMMA TokensOpened ==
    ASSUME Shape, Shape', RoomInv, TokenInv, NEW c \in Call, OpenSession(c)
    PROVE  TokenInv'
<1> USE DEF TokenInv
<1>0. issued < MaxIssued
  BY RoomForOne DEF RoomInv, OpenSession, At, MayIssue
<1>1. /\ issued' = issued + 1 /\ sessions' = sessions \union {issued + 1}
      /\ UNCHANGED <<cookie, ended>>
  BY DEF OpenSession, browser
<1>2. /\ \A d \in Call \ {c} : call'[d] = call[d]
      /\ call'[c].uses = call[c].uses /\ call'[c].made = issued + 1
      /\ call'[c].phase = "opened" /\ ~Refreshing(c) /\ ~Refreshing(c)'
  BY CallEffects DEF Turns, OpenSession, At, Refreshing
<1>3. /\ issued \in Nat /\ cookie \in Nat
      /\ \A d \in Call : call[d].uses \in Nat /\ call[d].made \in Nat
      /\ issued + 1 \in Issue
  BY <1>0, IssuedAssumption DEF Shape, CallType, Issue
<1>4. Numbers'
  BY <1>1, <1>2, <1>3 DEF Numbers
<1>5. Gone'
  BY <1>1, <1>3 DEF Gone, Issue
<1>6. Carried'
  BY <1>1, <1>2, <1>3 DEF Carried, Numbers, At
<1>7. Undelivered'
  <2>1. ended[issued + 1] \notin Tab
    BY <1>3, TabAssumption DEF Gone
  <2>2. \A d \in Call : call[d].uses # issued + 1 /\ call[d].made # issued + 1
    BY <1>3 DEF Numbers
  <2>3. cookie # issued + 1
    BY <1>3 DEF Numbers
  <2> QED
    BY <1>1, <1>2, <2>1, <2>2, <2>3 DEF Undelivered
<1>8. Spent'
  <2>1. \A k \in 1..issued' : ended[k] \in Tab => k \in 1..issued
    BY <1>1, <1>3, TabAssumption DEF Gone
  <2>2. \A d \in Call : /\ Refreshing(d)' <=> Refreshing(d)
                        /\ Refreshing(d) => call'[d] = call[d]
    BY <1>2 DEF Refreshing
  <2> QED
    BY <1>1, <2>1, <2>2 DEF Spent, At
<1> QED
  BY <1>4, <1>5, <1>6, <1>7, <1>8

\* A rotation ends the token it uses for its tab, unless another call has ended
\* it before: the delete does not look for the row it deletes.
LEMMA TokensRotated ==
    ASSUME Shape, Shape', RoomInv, RefreshInv, TokenInv, NEW c \in Call, Rotate(c)
    PROVE  TokenInv'
<1> USE DEF TokenInv
<1> DEFINE old == call[c].uses
<1>0. issued < MaxIssued
  BY RoomForOne DEF RoomInv, Rotate, At, MayIssue
<1>1. /\ issued' = issued + 1 /\ sessions' = (sessions \ {old}) \union {issued + 1}
      /\ UNCHANGED <<cookie, tab>>
      /\ At(c, "rotate")
  BY DEF Rotate, browser
<1>2. /\ \A d \in Call \ {c} : call'[d] = call[d]
      /\ call'[c].uses = old /\ call'[c].made = issued + 1
      /\ call'[c].phase = "rotated" /\ call'[c].adrift = call[c].adrift
  BY CallEffects DEF Turns
<1>3. /\ issued \in Nat /\ cookie \in Nat
      /\ \A d \in Call : call[d].uses \in Nat /\ call[d].made \in Nat
      /\ issued + 1 \in Issue /\ Owner[c] \in Tab
  BY <1>0, IssuedAssumption, OwnerAssumption DEF Shape, CallType, Issue
<1>4. old \in 1..issued /\ old \in Issue /\ old # issued + 1
  <2>1. old \in 1..issued
    BY <1>1 DEF Carried
  <2> QED
    BY <1>0, <1>3, <2>1, IssuedAssumption DEF Issue
<1>5. /\ ended' = [ended EXCEPT ![old] = ended'[old]]
      /\ ended'[old] = IF call[c].adrift THEN "lost"
                       ELSE IF old \in sessions THEN Owner[c] ELSE ended[old]
      /\ ended' \in [Issue -> Ending]
  BY <1>3, <1>4 DEF Rotate, Numbers, Ending
<1>6. \A k \in Issue : k # old => ended'[k] = ended[k]
  BY <1>5 DEF Numbers
<1> HIDE DEF old
<1>7. Numbers'
  <2>1. sessions' \subseteq 1..issued'
    <3>1. \A k \in sessions : k \in 1..issued
      BY DEF Numbers
    <3>2. \A k \in 1..issued : k \in 1..(issued + 1)
      BY <1>3
    <3>3. issued + 1 \in 1..(issued + 1)
      BY <1>3
    <3> QED
      BY <1>1, <3>1, <3>2, <3>3
  <2>2. \A d \in Call : call'[d].uses <= issued' /\ call'[d].made <= issued'
    BY <1>1, <1>2, <1>3 DEF Numbers, old
  <2> QED
    BY <1>1, <1>3, <1>5, <2>1, <2>2 DEF Numbers
<1>8. Gone'
  <2>1. ended'[old] # "not"
    BY <1>3, <1>4, <1>5, TabAssumption DEF Gone
  <2>2. \A k \in Issue : k > issued + 1 => ended'[k] = "not"
    BY <1>3, <1>4, <1>6 DEF Gone, Issue
  <2>3. \A k \in 1..(issued + 1) : k \notin sessions' => ended'[k] # "not"
    <3> SUFFICES ASSUME NEW k \in 1..(issued + 1), k \notin sessions', k # old
                 PROVE  ended'[k] # "not"
      BY <2>1
    <3>1. k \in 1..issued /\ k \notin sessions /\ k \in Issue
      BY <1>0, <1>1, <1>3, IssuedAssumption DEF Issue
    <3> QED
      BY <1>6, <3>1 DEF Gone
  <2> QED
    BY <1>1, <2>2, <2>3 DEF Gone
<1>9. Carried'
  BY <1>1, <1>2, <1>3 DEF Carried, Numbers, At
<1>10. Undelivered'
  <2>1. ended'[issued + 1] \notin Tab
    BY <1>3, <1>4, <1>6, TabAssumption DEF Gone
  <2>2. \A d \in Call : call[d].uses # issued + 1 /\ call[d].made # issued + 1
    BY <1>3 DEF Numbers
  <2>3. cookie # issued + 1
    BY <1>3 DEF Numbers
  <2>4. \A d \in Call : call[d].made # 0 => /\ call[d].made # old
                                            /\ call[d].made \in Issue
    BY <1>0, <1>3, IssuedAssumption DEF Undelivered, Numbers, Issue, old
  <2>5. \A d \in Call : call[d].made # 0 => ended'[call[d].made] \notin Tab
    BY <1>6, <2>4 DEF Undelivered
  <2>6. \A d \in Call : /\ call'[d].uses = call[d].uses
                        /\ call'[d].made = IF d = c THEN issued + 1 ELSE call[d].made
    BY <1>2 DEF old
  <2> SUFFICES ASSUME NEW d \in Call, call'[d].made # 0
               PROVE  /\ call'[d].made # cookie /\ ended'[call'[d].made] \notin Tab
                      /\ \A e \in Call : /\ call'[e].uses # call'[d].made
                                         /\ call'[e].made = call'[d].made => e = d
    BY <1>1 DEF Undelivered
  <2>7. CASE d = c
    BY <2>1, <2>2, <2>3, <2>6, <2>7
  <2>8. CASE d # c
    BY <2>2, <2>5, <2>6, <2>8 DEF Undelivered
  <2> QED
    BY <2>7, <2>8
<1>11. Spent'
  <2> SUFFICES ASSUME NEW k \in 1..issued', ended'[k] \in Tab
               PROVE  /\ cookie = k =>
                             \E d \in Call : /\ Owner[d] = ended'[k] /\ Refreshing(d)'
                                             /\ At(d, "rotated")' /\ call'[d].uses = k
                      /\ \A d \in Call : /\ Owner[d] = ended'[k] /\ Refreshing(d)'
                                         /\ call'[d].uses = k
                                         => At(d, "rotated")'
    BY <1>1 DEF Spent
  <2>1. k # issued + 1
    BY <1>3, <1>4, <1>6, TabAssumption DEF Gone
  <2>2. k \in 1..issued /\ k \in Issue
    BY <1>0, <1>1, <1>3, <2>1, IssuedAssumption DEF Issue
  <2>3. At(c, "rotated")' /\ call'[c].uses = old
    BY <1>2 DEF At
  <2>4. CASE ended'[k] = ended[k]
    <3>1. ended[k] \in Tab
      BY <2>4
    <3>2. \A d \in Call : Refreshing(d) /\ At(d, "rotated") => d # c
      BY <1>1 DEF At
    <3>3. \A d \in Call : d # c => /\ Refreshing(d)' <=> Refreshing(d)
                                   /\ At(d, "rotated")' <=> At(d, "rotated")
                                   /\ call'[d].uses = call[d].uses
      BY <1>2 DEF Refreshing, At
    <3> QED
      BY <2>2, <2>3, <2>4, <3>1, <3>2, <3>3 DEF Spent
  <2>5. CASE ended'[k] # ended[k]
    <3>1. k = old
      BY <1>6, <2>2, <2>5
    <3>2. ~call[c].adrift /\ ended'[k] = Owner[c]
      BY <1>5, <2>5, <3>1, TabAssumption
    <3>3. Refreshing(c) /\ Refreshing(c)'
      BY <1>1, <1>2, <3>2 DEF Refreshing, At
    <3>4. \A d \in Call : Owner[d] = Owner[c] /\ Refreshing(d)' => d = c
      BY <1>2, <3>3 DEF RefreshInv, Refreshing
    <3> QED
      BY <2>3, <3>1, <3>2, <3>3, <3>4
  <2> QED
    BY <2>4, <2>5
<1> QED
  BY <1>7, <1>8, <1>9, <1>10, <1>11

\* A step that issues and rotates no token, and ends the tokens it takes away.
OnlyEnds ==
    /\ issued' = issued /\ sessions' \subseteq sessions /\ cookie' \in {0, cookie}
    /\ ended' \in [Issue -> Ending]
    /\ \A k \in Issue : /\ ended'[k] \in Tab => ended'[k] = ended[k]
                        /\ ended'[k] # ended[k] => k <= issued /\ ended'[k] # "not"
    /\ \A k \in sessions \ sessions' : ended'[k] # "not"

LEMMA EndEffects ==
    ASSUME Shape, RoomInv, Numbers,
           \/ \E c \in Call : DeleteSession(c)
           \/ \E t \in Tab : \E page \in {"login", "dashboard"} : Load(t, page)
           \/ AccessExpires \/ SessionExpires \/ WindowEnds \/ UNCHANGED vars
    PROVE  OnlyEnds
<1>0. issued <= MaxIssued /\ issued \in Nat
  BY RoomForOne DEF Shape
<1>1. ASSUME NEW k \in sessions
      PROVE  k \in Issue /\ k <= issued
  <2>1. k \in 1..issued
    BY DEF Numbers
  <2> QED
    BY <1>0, <2>1, IssuedAssumption DEF Issue
<1>2. {"loggedOut", "expired"} \subseteq Ending /\ Tab \intersect {"loggedOut", "expired"} = {}
  BY TabAssumption DEF Ending
<1>3. ASSUME NEW c \in Call, DeleteSession(c)
      PROVE  OnlyEnds
  <2>1. PICK gone \in SUBSET sessions :
            /\ sessions' = sessions \ gone
            /\ ended' = [k \in Issue |-> IF k \in gone THEN "loggedOut" ELSE ended[k]]
    <3>1. PICK done \in BOOLEAN :
              LET gone == IF done THEN sessions \intersect {call[c].uses} ELSE {}
              IN  /\ sessions' = sessions \ gone
                  /\ ended' = [k \in Issue |-> IF k \in gone THEN "loggedOut" ELSE ended[k]]
      BY <1>3 DEF DeleteSession
    <3> DEFINE gone == IF done THEN sessions \intersect {call[c].uses} ELSE {}
    <3>2. gone \in SUBSET sessions
      OBVIOUS
    <3>3. /\ sessions' = sessions \ gone
          /\ ended' = [k \in Issue |-> IF k \in gone THEN "loggedOut" ELSE ended[k]]
      BY <3>1
    <3> HIDE DEF gone
    <3> QED
      BY <3>2, <3>3
  <2>2. issued' = issued /\ cookie' = cookie
    BY <1>3 DEF DeleteSession, browser
  <2> QED
    BY <1>1, <1>2, <2>1, <2>2 DEF OnlyEnds, Numbers
<1>4. ASSUME NEW t \in Tab, NEW page \in {"login", "dashboard"}, Load(t, page)
      PROVE  OnlyEnds
  BY <1>4, LostEffects DEF Load, server, OnlyEnds
<1>5. CASE SessionExpires
  <2>1. PICK k \in sessions : /\ sessions' = sessions \ {k}
                              /\ ended' = [ended EXCEPT ![k] = "expired"]
                              /\ cookie' = IF cookie = k THEN 0 ELSE cookie
    BY <1>5 DEF SessionExpires
  <2>2. issued' = issued
    BY <1>5 DEF SessionExpires
  <2> QED
    BY <1>1, <1>2, <2>1, <2>2 DEF OnlyEnds, Numbers
<1>6. CASE AccessExpires \/ WindowEnds \/ UNCHANGED vars
  BY <1>6 DEF AccessExpires, WindowEnds, vars, server, browser, OnlyEnds, Numbers
<1> QED
  BY <1>3, <1>4, <1>5, <1>6

\* A sign-out, a page load and the passing of time end tokens, but rotate none.
LEMMA TokensEnd ==
    ASSUME Shape, Shape', RoomInv, TokenInv,
           \/ \E c \in Call : DeleteSession(c)
           \/ \E t \in Tab : \E page \in {"login", "dashboard"} : Load(t, page)
           \/ AccessExpires \/ SessionExpires \/ WindowEnds \/ UNCHANGED vars
    PROVE  TokenInv'
<1> USE DEF TokenInv
<1>0. issued <= MaxIssued /\ issued \in Nat
  BY RoomForOne DEF Shape
<1>1. OnlyEnds
  BY EndEffects
<1>2. \A c \in Call :
          /\ call'[c].uses \in {0, call[c].uses} /\ call'[c].made \in {0, call[c].made}
          /\ call'[c].phase \in {"rotate", "refused", "rotated"} =>
                 call'[c].phase = call[c].phase /\ call'[c].uses = call[c].uses
          /\ Refreshing(c)' => /\ Refreshing(c) /\ call'[c].uses = call[c].uses
                               /\ At(c, "rotated") => At(c, "rotated")'
          /\ Refreshing(c) /\ At(c, "rotated") =>
                 \/ Refreshing(c)' /\ At(c, "rotated")'
                 \/ call[c].uses \in Issue => ended'[call[c].uses] \notin Tab
  <2>1. ASSUME NEW c \in Call, DeleteSession(c), NEW d \in Call
        PROVE  /\ call'[d].uses = call[d].uses /\ call'[d].made = call[d].made
               /\ \/ call'[d].phase = call[d].phase
                  \/ call'[d].phase = "signedOut" /\ ~Refreshing(d)
               /\ call'[d].adrift = call[d].adrift
    <3>1. Moves(c, "signedOut") /\ ~Refreshing(c)
      BY <2>1, CallEffects DEF DeleteSession, At, Refreshing
    <3> QED
      BY <3>1 DEF Moves, Turns
  <2>2. ASSUME NEW c \in Call, ~\E d \in Call : DeleteSession(d)
        PROVE  \/ /\ call'[c].phase = call[c].phase
                  /\ call'[c].uses = call[c].uses /\ call'[c].made = call[c].made
                  /\ call[c].adrift => call'[c].adrift
                  /\ call'[c].adrift # call[c].adrift => ~At(c, "rotated")
               \/ /\ call'[c] = NoCall
                  /\ At(c, "rotated") => LostBy({d \in Call : Owner[d] = Owner[c]})
    BY <2>2, OtherCallEffects
  <2>3. \A c \in Call : LostBy({d \in Call : Owner[d] = Owner[c]}) =>
            (At(c, "rotated") /\ call[c].uses \in Issue => ended'[call[c].uses] \notin Tab)
    BY LostEffects
  <2>4. CASE \E c \in Call : DeleteSession(c)
    BY <2>1, <2>4 DEF Refreshing, At
  <2>5. CASE ~\E c \in Call : DeleteSession(c)
    <3>1. /\ NoCall.phase = "idle" /\ NoCall.uses = 0 /\ NoCall.made = 0
      BY DEF NoCall
    <3>2. \A c \in Call : call[c].adrift \in BOOLEAN /\ call'[c].adrift \in BOOLEAN
      BY DEF Shape, CallType
    <3> QED
      BY <2>2, <2>3, <2>5, <3>1, <3>2 DEF Refreshing, At
  <2> QED
    BY <2>4, <2>5
<1>3. Numbers'
  BY <1>1, <1>2, NumbersFrame DEF OnlyEnds
<1>4. Gone'
  BY <1>0, <1>1, GoneFrame DEF OnlyEnds
<1>5. Carried'
  BY <1>1, <1>2 DEF Carried, OnlyEnds, At
<1>6. Undelivered'
  <2>1. \A d \in Call : call[d].made # 0 => call[d].made \in Issue
    BY <1>0, IssuedAssumption DEF Numbers, Issue, Shape, CallType
  <2> QED
    BY <1>1, <1>2, <2>1, UndeliveredFrame DEF Undelivered, OnlyEnds
<1>7. Spent'
  <2>1. \A k \in 1..issued : ended[k] \in Tab /\ cookie' = k => cookie = k
    BY <1>1 DEF OnlyEnds, Shape
  <2> QED
    BY <1>0, <1>1, <1>2, <2>1, SpentFrame DEF OnlyEnds
<1> QED
  BY <1>3, <1>4, <1>5, <1>6, <1>7

LEMMA TokenInvariant == Spec => []TokenInv
<1>1. Init => TokenInv
  BY IssuedAssumption, TabAssumption
     DEF Init, TokenInv, Numbers, Gone, Carried, Undelivered, Spent, Ending, Issue,
         At, NoCall
<1>2. Shape /\ Shape' /\ RoomInv /\ RefreshInv /\ TokenInv /\ [Next]_vars => TokenInv'
  <2> SUFFICES ASSUME Shape, Shape', RoomInv, RefreshInv, TokenInv, [Next]_vars
               PROVE  TokenInv'
    OBVIOUS
  <2>1. ASSUME NEW c \in Call, Ask(c) \/ Submit(c) \/ SignOut(c) \/ Proceeds(c) \/ Fail(c)
        PROVE  TokenInv'
    BY <2>1, TokensWait, TokensArrive, TokensTaken, TokensOpened, TokensRotated, TokensEnd
       DEF Proceeds
  <2> QED
    BY <2>1, TokensEnd DEF Next
<1> QED
  BY <1>1, <1>2, ShapeInvariant, RoomInvariant, RefreshInvariant, PTL DEF Spec

\* Every variable keeps its type, and no step issues a token beyond the bound
\* or hands out one that was not issued.
THEOREM TypeCorrect == Spec => []TypeOK
<1>1. Shape /\ RoomInv /\ TokenInv => TypeOK
  <2> SUFFICES ASSUME Shape, RoomInv, TokenInv
               PROVE  TypeOK
    OBVIOUS
  <2>1. issued \in 0..MaxIssued
    BY RoomForOne, IssuedAssumption DEF Shape
  <2>2. call \in [Call -> Request]
    <3>1. \A c \in Call : call[c] \in CallType /\ call[c].uses \in 0..MaxIssued
                          /\ call[c].made \in 0..MaxIssued
      BY <2>1, IssuedAssumption DEF Shape, CallType, TokenInv, Numbers
    <3> QED
      BY <3>1 DEF Shape, CallType, Request
  <2>3. cookie \in 0..issued
    BY <2>1 DEF Shape, TokenInv, Numbers
  <2> QED
    BY <2>1, <2>2, <2>3 DEF Shape, TabType, TokenInv, Numbers, Ending, TypeOK
<1> QED
  BY <1>1, ShapeInvariant, RoomInvariant, TokenInvariant, PTL

\* No tab ends its own session: when the server refuses the refresh of a tab
\* that had a token, the token expired, was signed out, was rotated by another
\* tab, or its successor was lost on the way, however its requests, its page
\* loads and the answers interleave (auth.service.ts:232-294, api.ts:24-39).
THEOREM RefusalsHaveACause == Spec => []RefusedForCause
<1>1. Shape /\ TokenInv => RefusedForCause
  <2> SUFFICES ASSUME Shape, TokenInv, NEW c \in Call, At(c, "refused"),
                      ~call[c].adrift, call[c].uses # 0
               PROVE  ended[call[c].uses] \notin {"not", Owner[c]}
    BY DEF RefusedForCause
  <2>1. call[c].uses \in 1..issued /\ call[c].uses \notin sessions
    BY DEF TokenInv, Numbers, Carried, Shape, CallType
  <2>2. Refreshing(c) /\ ~At(c, "rotated") /\ Owner[c] \in Tab
    BY OwnerAssumption DEF Refreshing, At
  <2> QED
    BY <2>1, <2>2 DEF TokenInv, Gone, Spent
<1> QED
  BY <1>1, ShapeInvariant, TokenInvariant, PTL
-----------------------------------------------------------------------------
(* Calls run down.                                                         *)

\* How many steps a call has before it at most: its way to the answer and,
\* unless it is the repeated one, that of the refresh and of the repetition.
Ahead(phase) ==
    CASE phase = "sent" -> 8
      [] phase = "verifying" -> 7
      [] phase = "denied" -> 6
      [] phase = "refresh" -> 5
      [] phase = "rotate" -> 4
      [] phase = "rotated" -> 3
      [] phase = "opening" -> 2
      [] phase \in {"opened", "refused", "signedOut"} -> 1
      [] OTHER -> 0
Left(c) == Ahead(call[c].phase) + IF call[c].again \/ ~Busy(c) THEN 0 ELSE 8

RunsDown(c) == \/ UNCHANGED <<call[c].phase, call[c].again>>
               \/ Left(c)' < Left(c)

\* A step takes a call from one phase to one that is nearer to the end, or
\* repeats a call that has not been repeated.
LEMMA NearerToTheEnd ==
    ASSUME Shape, Shape', NEW c \in Call, Busy(c),
           \/ /\ call'[c].again = call[c].again
              /\ Ahead(call'[c].phase) < Ahead(call[c].phase)
           \/ ~call[c].again /\ call'[c].again /\ At(c, "rotated")
           \/ call'[c].phase = "idle"
    PROVE  Left(c)' < Left(c)
<1>1. /\ call[c].phase \in Phase /\ call'[c].phase \in Phase
      /\ call[c].again \in BOOLEAN /\ call'[c].again \in BOOLEAN
  BY DEF Shape, CallType
<1>2. /\ Ahead(call[c].phase) \in 1..8 /\ Ahead(call'[c].phase) \in 0..8
      /\ call'[c].phase = "idle" => Ahead(call'[c].phase) = 0
  BY <1>1 DEF Ahead, Phase, Busy
<1>3. At(c, "rotated") => Ahead(call[c].phase) = 3
  BY DEF At, Ahead
<1>4. CASE call'[c].phase = "idle"
  BY <1>2, <1>4 DEF Left, Busy
<1>5. CASE call'[c].phase # "idle"
  <2>1. /\ Left(c) = Ahead(call[c].phase) + IF call[c].again THEN 0 ELSE 8
        /\ Left(c)' = Ahead(call'[c].phase) + IF call'[c].again THEN 0 ELSE 8
    BY <1>5 DEF Left, Busy
  <2> QED
    BY <1>1, <1>2, <1>3, <1>5, <2>1
<1> QED
  BY <1>4, <1>5

\* No call goes round in circles, whatever the others do: each of its steps
\* takes it nearer to its end, the interceptor's repetition included, because a
\* call is repeated once at most (api.ts:20-44).
THEOREM CallsRunDown == Spec => [][\A c \in Call : Busy(c) => RunsDown(c)]_vars
<1>1. Shape /\ Shape' /\ RoomInv /\ [Next]_vars => \A c \in Call : Busy(c) => RunsDown(c)
  <2> SUFFICES ASSUME Shape, Shape', RoomInv, [Next]_vars, NEW c \in Call, Busy(c)
               PROVE  RunsDown(c)
    OBVIOUS
  <2>1. ASSUME NEW p, NEW n, NEW m, Turns(c, p, call[c].again, n, m, call[c].adrift),
               Ahead(p) < Ahead(call[c].phase)
        PROVE  RunsDown(c)
    BY <2>1, NearerToTheEnd DEF Turns, RunsDown
  <2>2. ASSUME NEW p, Moves(c, p), Ahead(p) < Ahead(call[c].phase)
        PROVE  RunsDown(c)
    BY <2>1, <2>2 DEF Moves
  <2>3. Ends(c) => RunsDown(c)
    BY NearerToTheEnd DEF Ends, Turns, RunsDown
  <2>4. \A d \in Call : d # c /\ call'[c] = call[c] => RunsDown(c)
    BY DEF RunsDown
  <2>5. ASSUME NEW d \in Call, d # c,
               Ask(d) \/ Submit(d) \/ SignOut(d) \/ Proceeds(d) \/ Fail(d)
        PROVE  RunsDown(c)
    <3>1. call'[c] = call[c]
      BY <2>5, CallEffects DEF Proceeds, Moves, Ends, Turns
    <3> QED
      BY <2>4, <2>5, <3>1
  <2>6. ~(Ask(c) \/ Submit(c) \/ SignOut(c))
    BY DEF Ask, Submit, SignOut, Start
  <2>7. CASE Authenticate(c) \/ CheckLockout(c)
    <3>1. At(c, "sent") /\ (Ends(c) \/ Moves(c, "denied") \/ Moves(c, "verifying"))
      BY <2>7, CallEffects DEF Authenticate, CheckLockout
    <3>2. Ahead("denied") < Ahead("sent") /\ Ahead("verifying") < Ahead("sent")
      BY DEF Ahead
    <3> QED
      BY <2>2, <2>3, <3>1, <3>2 DEF At
  <2>8. CASE Intercept(c)
    <3>1. At(c, "denied") /\ Ahead("refresh") < Ahead("denied")
      BY <2>8 DEF Intercept, Ahead
    <3>2. \/ Ends(c)
          \/ ~call[c].again /\ Turns(c, "refresh", FALSE, cookie, call[c].made, FALSE)
      BY <2>8, CallEffects
    <3>3. CASE ~call[c].again /\ Turns(c, "refresh", FALSE, cookie, call[c].made, FALSE)
      BY <3>1, <3>3, NearerToTheEnd DEF Turns, RunsDown, At, Shape, CallType
    <3> QED
      BY <2>3, <3>2, <3>3
  <2>9. CASE FindSession(c)
    <3>1. At(c, "refresh") /\ (Moves(c, "rotate") \/ Moves(c, "refused"))
      BY <2>9, CallEffects DEF FindSession
    <3>2. Ahead("rotate") < Ahead("refresh") /\ Ahead("refused") < Ahead("refresh")
      BY DEF Ahead
    <3> QED
      BY <2>2, <3>1, <3>2 DEF At
  <2>10. CASE Rotate(c)
    <3>1. At(c, "rotate") /\ Ahead("rotated") < Ahead("rotate")
      BY <2>10 DEF Rotate, Ahead
    <3> QED
      BY <2>1, <2>10, <3>1, CallEffects DEF At
  <2>11. CASE Refreshed(c)
    <3>1. At(c, "rotated") /\ ~call[c].again /\ call'[c].again
      BY <2>11, CallEffects DEF Refreshed, RoomInv, At, Turns
    <3> QED
      BY <3>1, NearerToTheEnd DEF RunsDown
  <2>12. CASE Thrown(c) \/ SignedIn(c) \/ SignedOut(c) \/ Fail(c)
    BY <2>3, <2>12, CallEffects
  <2>13. CASE WrongPassword(c) \/ RightPassword(c)
    <3>1. At(c, "verifying") /\ (Moves(c, "denied") \/ Moves(c, "opening"))
      BY <2>13, CallEffects DEF WrongPassword, RightPassword
    <3>2. Ahead("denied") < Ahead("verifying") /\ Ahead("opening") < Ahead("verifying")
      BY DEF Ahead
    <3> QED
      BY <2>2, <3>1, <3>2 DEF At
  <2>14. CASE OpenSession(c)
    <3>1. At(c, "opening") /\ Ahead("opened") < Ahead("opening")
      BY <2>14 DEF OpenSession, Ahead
    <3> QED
      BY <2>1, <2>14, <3>1, CallEffects DEF At
  <2>15. CASE DeleteSession(c)
    <3>1. At(c, "sent") /\ Ahead("signedOut") < Ahead("sent")
      BY <2>15 DEF DeleteSession, Ahead
    <3> QED
      BY <2>2, <2>15, <3>1, CallEffects DEF At
  <2>16. CASE \/ \E t \in Tab : \E page \in {"login", "dashboard"} : Load(t, page)
              \/ AccessExpires \/ SessionExpires \/ WindowEnds \/ UNCHANGED vars
    <3>1. \/ call'[c].phase = call[c].phase /\ call'[c].again = call[c].again
          \/ call'[c] = NoCall
      BY <2>16, OtherCallEffects
    <3> QED
      BY <3>1, NearerToTheEnd DEF RunsDown, NoCall
  <2>17. ASSUME NEW d \in Call,
                Ask(d) \/ Submit(d) \/ SignOut(d) \/ Proceeds(d) \/ Fail(d)
         PROVE  RunsDown(c)
    BY <2>5, <2>6, <2>7, <2>8, <2>9, <2>10, <2>11, <2>12, <2>13, <2>14, <2>15, <2>17
       DEF Proceeds
  <2> QED
    BY <2>16, <2>17 DEF Next
<1> QED
  BY <1>1, ShapeInvariant, RoomInvariant, PTL DEF Spec
=============================================================================
