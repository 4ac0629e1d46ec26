-------------------------- MODULE OnboardingProofs --------------------------
(***************************************************************************)
(* Proofs about Signup and Onboarding, for any sets of addresses, requests,*)
(* flags, keys and creations: a verified account is whole, the dialog is   *)
(* never ahead of what was done, and types: the search for a slug ends     *)
(* among as many candidates as there are addresses.                        *)
(***************************************************************************)
EXTENDS Onboarding, FiniteSetTheorems, TLAPS

-----------------------------------------------------------------------------
(* Signup: the rows a request has come past are there.                     *)

RowsFollow(r) ==
    /\ Stage(r) # "unused" => Address(r) \in Email
    /\ Stage(r) \in {"slug", "workspace", "member", "project", "token", "created"} =>
           "user" \in rows[Address(r)]
    /\ Stage(r) \in {"member", "project", "token", "created"} =>
           "workspace" \in rows[Address(r)]
    /\ Stage(r) \in {"project", "token", "created"} => "member" \in rows[Address(r)]
    /\ Stage(r) \in {"token", "created"} => "project" \in rows[Address(r)]

Whole(e) == rows[e] = Table

SignupInv ==
    /\ SignupTypeOK
    /\ \A r \in Request : RowsFollow(r)
    /\ \A e \in Email : token[e] # "none" => Whole(e)
    /\ \A v \in Click : click[v] # "nobody" => Whole(click[v])
    /\ VerifiedIsWhole

\* No step takes a row away.
LEMMA RowsGrow ==
    ASSUME SignupInv, SignupTypeOK', NEW r \in Request, NEW table \in Table,
           Address(r) \in Email, Insert(r, table)
    PROVE  /\ \A e \in Email : rows[e] \subseteq rows'[e]
           /\ \A e \in Email : Whole(e) => Whole(e)'
           /\ table \in rows'[Address(r)]
BY DEF SignupInv, SignupTypeOK, Insert, Whole

\* A step of a request r that keeps every row, and the tokens, links and
\* verified addresses.
LEMMA RequestMoves ==
    ASSUME SignupInv, SignupTypeOK', NEW r \in Request,
           \A q \in Request \ {r} : signup'[q] = signup[q],
           \A e \in Email : rows[e] \subseteq rows'[e],
           \A e \in Email : Whole(e) => Whole(e)',
           UNCHANGED <<token, verified, click>>,
           RowsFollow(r)'
    PROVE  SignupInv'
<1>1. ASSUME NEW q \in Request PROVE RowsFollow(q)'
  <2>1. CASE q = r
    BY <2>1
  <2>2. CASE q # r
    BY <2>2 DEF SignupInv, SignupTypeOK, RowsFollow, Stage, Address
  <2> QED
    BY <2>1, <2>2
<1>2. \A e \in Email : token'[e] # "none" => Whole(e)'
  BY DEF SignupInv
<1>3. \A v \in Click : click'[v] # "nobody" => Whole(click[v])'
  BY DEF SignupInv, SignupTypeOK
<1>4. VerifiedIsWhole'
  BY DEF SignupInv, SignupTypeOK, VerifiedIsWhole, Whole
<1> QED
  BY <1>1, <1>2, <1>3, <1>4 DEF SignupInv, Whole

LEMMA SignupTypes == SignupInv /\ SignupNext => SignupTypeOK'
<1> SUFFICES ASSUME SignupInv, SignupNext PROVE SignupTypeOK'
  OBVIOUS
<1> DEFINE Stages == Table \union {"unused", "check", "slug", "token", "created",
                                   "taken", "error"}
           Requests == [stage : Stages, email : Email \union {"nobody"}, slug : Nat]
<1> USE DEF SignupInv, SignupTypeOK
<1>0. ASSUME NEW r \in Request, NEW s \in Stages, Goes(r, s)
      PROVE  signup' \in [Request -> Requests]
  BY <1>0 DEF Goes
<1>1. ASSUME NEW r \in Request, NEW e \in Email, Submit(r, e) PROVE SignupTypeOK'
  BY <1>1 DEF Submit
<1>2. ASSUME NEW r \in Request, CheckAddress(r) PROVE SignupTypeOK'
  BY <1>2, <1>0 DEF CheckAddress, Table
<1>3. ASSUME NEW r \in Request, NEW t \in Table, Insert(r, t)
      PROVE  rows' \in [Email -> SUBSET Table]
  BY <1>3 DEF Insert
<1>4. ASSUME NEW r \in Request, InsertUser(r) PROVE SignupTypeOK'
  BY <1>4, <1>0, <1>3 DEF InsertUser, Table
<1>5. ASSUME NEW r \in Request, TrySlug(r) PROVE SignupTypeOK'
  <2>1. CASE signup' = [signup EXCEPT ![r].slug = @ + 1]
    <3>1. /\ signup' = [signup EXCEPT ![r] = [signup[r] EXCEPT !.slug = signup[r].slug + 1]]
          /\ [signup[r] EXCEPT !.slug = signup[r].slug + 1] \in Requests
      BY <2>1
    <3>2. signup' \in [Request -> Requests]
      BY <3>1
    <3> QED
      BY <3>2, <1>5 DEF TrySlug
  <2>2. CASE Goes(r, "workspace")
    BY <2>2, <1>5, <1>0 DEF TrySlug, Table
  <2> QED
    BY <2>1, <2>2, <1>5 DEF TrySlug
<1>6. ASSUME NEW r \in Request, InsertWorkspace(r) PROVE SignupTypeOK'
  <2>0. signup[r].slug \in Nat
    OBVIOUS
  <2>1. slugs' \subseteq Nat
    <3>1. slugs' = slugs \/ slugs' = slugs \union {signup[r].slug}
      BY <1>6 DEF InsertWorkspace
    <3> QED
      BY <2>0, <3>1
  <2>2. rows' \in [Email -> SUBSET Table]
    BY <1>6, <1>3 DEF InsertWorkspace, Table
  <2>3. signup' \in [Request -> Requests]
    BY <1>6, <1>0 DEF InsertWorkspace, Table
  <2>4. UNCHANGED <<token, verified, click>>
    BY <1>6 DEF InsertWorkspace
  <2> QED
    BY <2>1, <2>2, <2>3, <2>4
<1>7. ASSUME NEW r \in Request, InsertMember(r) \/ InsertProject(r)
      PROVE  SignupTypeOK'
  BY <1>7, <1>0, <1>3 DEF InsertMember, InsertProject, Table
<1>8. ASSUME NEW r \in Request, InsertToken(r) \/ SignupFails(r)
      PROVE  SignupTypeOK'
  <2>1. Goes(r, "created") \/ Goes(r, "error")
    BY <1>8 DEF InsertToken, SignupFails
  <2>2. /\ UNCHANGED <<rows, slugs, verified, click>>
        /\ token' \in [Email -> {"none", "mailed", "unsent", "used", "expired"}]
    BY <1>8 DEF InsertToken, SignupFails
  <2> QED
    BY <2>1, <2>2, <1>0
<1>9. ASSUME NEW v \in Click, NEW e \in Email, FindToken(v, e) PROVE SignupTypeOK'
  BY <1>9 DEF FindToken
<1>10. ASSUME NEW v \in Click, MarkVerified(v) PROVE SignupTypeOK'
  BY <1>10 DEF MarkVerified
<1>11. ASSUME NEW v \in Click, VerifyFails(v) PROVE SignupTypeOK'
  BY <1>11 DEF VerifyFails
<1>12. ASSUME NEW e \in Email, TokenExpires(e) PROVE SignupTypeOK'
  BY <1>12 DEF TokenExpires
<1> QED
  BY <1>1, <1>2, <1>4, <1>5, <1>6, <1>7, <1>8, <1>9, <1>10, <1>11, <1>12 DEF SignupNext

LEMMA SignupStep == SignupInv /\ SignupNext => SignupInv'
<1> SUFFICES ASSUME SignupInv, SignupNext PROVE SignupInv'
  OBVIOUS
<1>0. SignupTypeOK /\ SignupTypeOK'
  BY SignupTypes DEF SignupInv
<1>1. ASSUME NEW r \in Request,
             \/ \E e \in Email : Submit(r, e)
             \/ CheckAddress(r) \/ TrySlug(r) \/ SignupFails(r)
      PROVE  SignupInv'
  <2>1. /\ UNCHANGED <<rows, token, verified, click>>
        /\ \A q \in Request \ {r} : signup'[q] = signup[q]
    BY <1>0, <1>1 DEF Submit, CheckAddress, TrySlug, SignupFails, Goes, SignupTypeOK
  <2>2. RowsFollow(r)'
    <3>0. RowsFollow(r)
      BY DEF SignupInv
    <3> USE <1>0, <3>0 DEF RowsFollow, Stage, Address, SignupTypeOK
    <3>1. CASE \E e \in Email : Submit(r, e)
      BY <3>1 DEF Submit
    <3>2. CASE CheckAddress(r)
      BY <3>2 DEF CheckAddress, Goes
    <3>3. CASE TrySlug(r)
      BY <2>1, <3>3 DEF TrySlug, Goes
    <3>4. CASE SignupFails(r)
      BY <3>4 DEF SignupFails, Goes
    <3> QED
      BY <1>1, <3>1, <3>2, <3>3, <3>4
  <2> QED
    BY <1>0, <2>1, <2>2, RequestMoves DEF Whole
<1>2. ASSUME NEW r \in Request,
             InsertUser(r) \/ InsertWorkspace(r) \/ InsertMember(r) \/ InsertProject(r)
      PROVE  SignupInv'
  <2>0. RowsFollow(r) /\ Stage(r) # "unused" /\ Address(r) \in Email
    BY <1>2 DEF SignupInv, RowsFollow, InsertUser, InsertWorkspace, InsertMember,
                InsertProject
  <2>1. /\ UNCHANGED <<token, verified, click>>
        /\ \E stage \in {"error", "slug", "member", "project", "token"} : Goes(r, stage)
    BY <1>2 DEF InsertUser, InsertWorkspace, InsertMember, InsertProject
  <2>2. \A q \in Request \ {r} : signup'[q] = signup[q]
    BY <1>0, <2>1 DEF Goes, SignupTypeOK
  <2>3. UNCHANGED rows \/ \E table \in Table : Insert(r, table)
    BY <1>2 DEF InsertUser, InsertWorkspace, InsertMember, InsertProject, Table
  <2>4. /\ \A e \in Email : rows[e] \subseteq rows'[e]
        /\ \A e \in Email : Whole(e) => Whole(e)'
    BY <1>0, <2>0, <2>3, RowsGrow DEF Whole
  <2>5. RowsFollow(r)'
    <3>1. Address(r)' = Address(r)
      BY <1>0, <2>1 DEF Goes, Address, SignupTypeOK
    <3>2. ASSUME NEW stage, Goes(r, stage) PROVE Stage(r)' = stage
      BY <1>0, <3>2 DEF Goes, Stage, SignupTypeOK
    <3>3. CASE Goes(r, "error")
      BY <2>0, <3>1, <3>2, <3>3 DEF RowsFollow
    <3>4. CASE InsertUser(r) /\ ~Goes(r, "error")
      <4>1. Stage(r)' = "slug" /\ "user" \in rows'[Address(r)]
        BY <1>0, <2>0, <3>2, <3>4, RowsGrow DEF InsertUser, Table
      <4> QED
        BY <2>0, <3>1, <4>1 DEF RowsFollow
    <3>5. CASE InsertWorkspace(r) /\ ~Goes(r, "error")
      <4>1. Stage(r) = "workspace" /\ Stage(r)' = "member"
            /\ "workspace" \in rows'[Address(r)]
        BY <1>0, <2>0, <3>2, <3>5, RowsGrow DEF InsertWorkspace, Table
      <4> QED
        BY <2>0, <2>4, <3>1, <4>1 DEF RowsFollow
    <3>6. CASE InsertMember(r)
      <4>1. Stage(r) = "member" /\ Stage(r)' = "project"
            /\ "member" \in rows'[Address(r)]
        BY <1>0, <2>0, <3>2, <3>6, RowsGrow DEF InsertMember, Table
      <4> QED
        BY <2>0, <2>4, <3>1, <4>1 DEF RowsFollow
    <3>7. CASE InsertProject(r)
      <4>1. Stage(r) = "project" /\ Stage(r)' = "token"
            /\ "project" \in rows'[Address(r)]
        BY <1>0, <2>0, <3>2, <3>7, RowsGrow DEF InsertProject, Table
      <4> QED
        BY <2>0, <2>4, <3>1, <4>1 DEF RowsFollow
    <3> QED
      BY <1>2, <3>3, <3>4, <3>5, <3>6, <3>7
  <2> QED
    BY <1>0, <2>1, <2>2, <2>4, <2>5, RequestMoves
<1>3. ASSUME NEW r \in Request, InsertToken(r)
      PROVE  SignupInv'
  <2>1. Stage(r) = "token" /\ RowsFollow(r) /\ Address(r) \in Email
    BY <1>3 DEF InsertToken, SignupInv, RowsFollow
  <2>2. Whole(Address(r))
    BY <1>0, <2>1 DEF RowsFollow, Whole, Table, SignupTypeOK
  <2>3. /\ UNCHANGED <<rows, verified, click>> /\ Goes(r, "created")
        /\ \A e \in Email : e # Address(r) => token'[e] = token[e]
    BY <1>0, <1>3 DEF InsertToken, SignupTypeOK
  <2>4. ASSUME NEW q \in Request PROVE RowsFollow(q)'
    <3>1. RowsFollow(q)
      BY DEF SignupInv
    <3> QED
      BY <1>0, <2>1, <2>2, <2>3, <3>1
         DEF Goes, RowsFollow, Stage, Address, SignupTypeOK, Whole, Table
  <2> QED
    BY <1>0, <2>2, <2>3, <2>4 DEF SignupInv, Whole, VerifiedIsWhole
<1>4. ASSUME \/ \E v \in Click : \/ \E e \in Email : FindToken(v, e)
                                 \/ MarkVerified(v) \/ VerifyFails(v)
             \/ \E e \in Email : TokenExpires(e)
      PROVE  SignupInv'
  <2>0. UNCHANGED <<signup, rows>>
    BY <1>4 DEF FindToken, MarkVerified, VerifyFails, TokenExpires
  <2>1. \A r \in Request : RowsFollow(r)'
    BY <2>0 DEF SignupInv, RowsFollow, Stage, Address
  <2>2. ASSUME NEW v \in Click, NEW e \in Email, FindToken(v, e)
        PROVE  SignupInv'
    BY <1>0, <2>0, <2>1, <2>2
       DEF FindToken, SignupInv, SignupTypeOK, Whole, VerifiedIsWhole
  <2>3. ASSUME NEW v \in Click, MarkVerified(v)
        PROVE  SignupInv'
    <3>1. click[v] \in Email /\ Whole(click[v])
      BY <1>0, <2>3 DEF MarkVerified, SignupInv, SignupTypeOK
    <3> QED
      BY <1>0, <2>0, <2>1, <2>3, <3>1
         DEF MarkVerified, SignupInv, SignupTypeOK, Whole, VerifiedIsWhole
  <2>4. ASSUME NEW v \in Click, VerifyFails(v)
        PROVE  SignupInv'
    BY <1>0, <2>0, <2>1, <2>4
       DEF VerifyFails, SignupInv, SignupTypeOK, Whole, VerifiedIsWhole
  <2>5. ASSUME NEW e \in Email, TokenExpires(e)
        PROVE  SignupInv'
    BY <1>0, <2>0, <2>1, <2>5
       DEF TokenExpires, SignupInv, SignupTypeOK, Whole, VerifiedIsWhole
  <2> QED
    BY <1>4, <2>2, <2>3, <2>4, <2>5
<1> QED
  BY <1>1, <1>2, <1>3, <1>4 DEF SignupNext

\* Whoever can sign in has a user, a workspace, a membership and a project,
\* whichever signups failed or raced on the way: the token that leads there is
\* inserted last (auth.service.ts:61-104).
THEOREM AccountsAreWhole == Spec => []VerifiedIsWhole
<1>1. Init => SignupInv
  BY DEF Init, SignupInit, SignupInv, SignupTypeOK, RowsFollow, Stage, Address,
         VerifiedIsWhole, Table
<1>2. SignupInv /\ UNCHANGED signupVars => SignupInv'
  BY DEF signupVars, SignupInv, SignupTypeOK, RowsFollow, Stage, Address, Whole,
         VerifiedIsWhole
<1>3. SignupInv /\ [Next]_vars => SignupInv'
  BY <1>2, SignupStep DEF Next, vars, signupVars
<1>4. SignupInv => VerifiedIsWhole
  BY DEF SignupInv
<1> QED
  BY <1>1, <1>3, <1>4, PTL DEF Spec

-----------------------------------------------------------------------------
(* The dialog.                                                             *)

DialogType == [show : BOOLEAN, flag : Key \union {"none"},
               step : {"welcome", "create-flag", "sdk-key", "verify", "complete"},
               key : SdkKey \union {"none"}, mine : Job \union {"none"},
               testing : BOOLEAN, tested : BOOLEAN, late : Nat, timer : BOOLEAN]
JobType == [phase : {"idle", "posting", "created", "patching", "patched"},
            flag : Key \union {"none"}, adrift : BOOLEAN]

\* A creation that the page waits for and that is patched has been counted,
\* and a request for an SDK key that is answered brings one.
WalkInv ==
    /\ dialog \in DialogType
    /\ job \in [Job -> JobType]
    /\ making \in [phase : {"idle", "sent", "made"}, adrift : BOOLEAN,
                   key : SdkKey \union {"none"}]
    /\ activated \subseteq Key
    /\ \A j \in Job : job[j].phase # "idle" => job[j].flag \in Key
    /\ \A j \in Job : job[j].phase = "patched" /\ ~job[j].adrift => activated # {}
    /\ making.phase = "made" => making.key \in SdkKey
    /\ StepsAreEarned

LEMMA DialogKeeps ==
    ASSUME WalkInv, dialog' \in DialogType, UNCHANGED <<job, making, activated>>,
           dialog'.step \in {"sdk-key", "verify"} => activated # {},
           UsesKey' => dialog'.key # "none"
    PROVE  WalkInv'
BY DEF WalkInv, StepsAreEarned, UsesKey

\* Turning to another step forgets the form, but neither the key nor a test.
LEMMA TurnedToKeeps ==
    ASSUME dialog \in DialogType,
           NEW step \in {"welcome", "create-flag", "sdk-key", "verify", "complete"}
    PROVE  LET d == TurnedTo(step)
           IN  /\ d \in DialogType /\ d.step = step /\ d.key = dialog.key
               /\ ~d.testing /\ ~d.tested /\ d.timer = dialog.timer
               /\ d.late > 0 => dialog.late > 0 \/ dialog.testing
<1>1. PICK n \in Nat : n = IF dialog.testing THEN dialog.late + 1 ELSE dialog.late
  BY DEF DialogType
<1>2. TurnedTo(step) = [dialog EXCEPT !.step = step, !.mine = "none", !.testing = FALSE,
                                     !.tested = FALSE, !.late = n]
  BY <1>1 DEF TurnedTo, DialogType
<1> QED
  BY <1>1, <1>2 DEF DialogType

LEMMA WalkStep == WalkInv /\ WalkNext => WalkInv'
<1> SUFFICES ASSUME WalkInv, WalkNext PROVE WalkInv'
  OBVIOUS
<1>0. /\ dialog.step \in {"sdk-key", "verify"} => activated # {}
      /\ UsesKey => dialog.key # "none"
      /\ dialog \in DialogType
  BY DEF WalkInv, StepsAreEarned
<1>1. ASSUME \/ LoadProjects \/ LoadFlags \/ Dismiss \/ Skip \/ TimerFires
             \/ Begin \/ BackToWelcome \/ Continue \/ BackToKey
             \/ Test \/ TestEnds \/ LateTestEnds
      PROVE  WalkInv'
  <2>1. UNCHANGED <<job, making, activated>>
    BY <1>1 DEF LoadProjects, LoadFlags, Dismiss, Skip, TimerFires, Complete, Begin,
                BackToWelcome, Continue, BackToKey, Turn, Test, TestEnds, LateTestEnds
  <2>2. /\ dialog' \in DialogType
        /\ dialog'.step \in {"sdk-key", "verify"} => activated # {}
        /\ UsesKey' => dialog'.key # "none"
    <3>1. CASE LoadProjects \/ LoadFlags
      <4>1. PICK b \in BOOLEAN : dialog' = [dialog EXCEPT !.show = b]
        BY <1>0, <3>1 DEF LoadProjects, LoadFlags, DialogType
      <4> QED
        BY <1>0, <4>1 DEF DialogType, UsesKey
    <3>2. CASE Dismiss \/ Skip \/ TimerFires
      <4>1. PICK due \in BOOLEAN :
                /\ dialog' = [TurnedTo("complete") EXCEPT !.show = FALSE, !.timer = due]
                /\ due => dialog.timer
        <5>1. dialog.timer \in BOOLEAN
          BY <1>0 DEF DialogType
        <5>2. PICK due \in {FALSE, dialog.timer} : Complete(due)
          BY <3>2 DEF Dismiss, Skip, TimerFires
        <5> QED
          BY <5>1, <5>2 DEF Complete
      <4>2. PICK d \in DialogType : d = TurnedTo("complete")
        BY <1>0, TurnedToKeeps
      <4>3. /\ d.step = "complete" /\ d.key = dialog.key /\ ~d.testing /\ ~d.tested
            /\ d.late > 0 => dialog.late > 0 \/ dialog.testing
        BY <1>0, <4>2, TurnedToKeeps
      <4>4. dialog' = [d EXCEPT !.show = FALSE, !.timer = due]
        BY <4>1, <4>2
      <4>5. /\ dialog' \in DialogType /\ dialog'.step = d.step /\ dialog'.key = d.key
            /\ dialog'.testing = d.testing /\ dialog'.tested = d.tested
            /\ dialog'.late = d.late /\ dialog'.timer = due
        BY <4>4 DEF DialogType
      <4> QED
        BY <1>0, <4>1, <4>3, <4>5 DEF UsesKey
    <3>3. CASE Begin \/ BackToWelcome \/ Continue \/ BackToKey
      <4>1. PICK to \in {"welcome", "create-flag", "sdk-key", "verify", "complete"} :
                /\ dialog' = TurnedTo(to)
                /\ to = "sdk-key" => dialog.step = "verify"
                /\ to = "verify" => dialog.step = "sdk-key" /\ dialog.key # "none"
        BY <3>3 DEF Begin, BackToWelcome, Continue, BackToKey, Turn, Shows
      <4>2. /\ dialog' \in DialogType /\ dialog'.step = to
            /\ dialog'.key = dialog.key /\ dialog'.timer = dialog.timer
            /\ ~dialog'.testing /\ ~dialog'.tested
            /\ dialog'.late > 0 => dialog.late > 0 \/ dialog.testing
        BY <1>0, <4>1, TurnedToKeeps
      <4> QED
        BY <1>0, <4>1, <4>2 DEF UsesKey
    <3>4. CASE Test \/ TestEnds \/ LateTestEnds
      <4>1. /\ dialog.key # "none"
            /\ \/ dialog' = [dialog EXCEPT !.testing = TRUE]
               \/ dialog' = [dialog EXCEPT !.testing = FALSE, !.tested = TRUE, !.timer = TRUE]
               \/ dialog' = [dialog EXCEPT !.testing = FALSE]
               \/ dialog.late > 0 /\ dialog' = [dialog EXCEPT !.late = @ - 1, !.timer = TRUE]
               \/ dialog.late > 0 /\ dialog' = [dialog EXCEPT !.late = @ - 1]
        BY <1>0, <3>4 DEF Test, TestEnds, LateTestEnds, UsesKey
      <4>2. dialog.late > 0 => dialog.late - 1 \in Nat
        BY <1>0 DEF DialogType
      <4>3. /\ dialog' \in DialogType
            /\ dialog'.step = dialog.step /\ dialog'.key = dialog.key
        BY <1>0, <4>1, <4>2 DEF DialogType
      <4> QED
        BY <1>0, <4>1, <4>3
    <3> QED
      BY <1>1, <3>1, <3>2, <3>3, <3>4
  <2> QED
    BY <2>1, <2>2, DialogKeeps
<1>2. CASE Reload
  <2>0. \A j \in Job : job[j] \in JobType
    BY DEF WalkInv
  <2>1. job' \in [Job -> JobType]
    <3>1. \A j \in Job : [job[j] EXCEPT !.adrift = TRUE] \in JobType
      BY <2>0 DEF JobType
    <3>2. NoJob \in JobType
      BY DEF NoJob, JobType
    <3>3. job' = [j \in Job |-> IF job[j].phase \in {"posting", "patching"}
                                THEN [job[j] EXCEPT !.adrift = TRUE] ELSE NoJob]
      BY <1>2 DEF Reload
    <3> QED
      BY <3>1, <3>2, <3>3
  <2>2. making' \in [phase : {"idle", "sent", "made"}, adrift : BOOLEAN,
                     key : SdkKey \union {"none"}] /\ making'.phase # "made"
    BY <1>2 DEF Reload, WalkInv, NoMaking
  <2>3. \A j \in Job : job'[j].phase # "patched"
                       /\ (job'[j].phase # "idle" => job'[j].flag \in Key)
    BY <1>2 DEF Reload, WalkInv, JobType, NoJob
  <2>4. dialog' = NewDialog /\ activated' = {}
    BY <1>2 DEF Reload
  <2> QED
    BY <2>1, <2>2, <2>3, <2>4 DEF WalkInv, StepsAreEarned, UsesKey, NewDialog, DialogType
<1>3. ASSUME NEW j \in Job, NEW k \in Key, CreateFlag(j, k)
      PROVE  WalkInv'
  <2>1. job' \in [Job -> JobType] /\ dialog' \in DialogType
    BY <1>3 DEF CreateFlag, WalkInv, JobType, DialogType, NoJob
  <2> QED
    BY <1>3, <2>1 DEF CreateFlag, WalkInv, StepsAreEarned, UsesKey, NoJob, DialogType, JobType
<1>4. ASSUME NEW j \in Job, JobEnds(j), UNCHANGED <<making, activated>>
      PROVE  WalkInv'
  <2>1. job' \in [Job -> JobType] /\ dialog' \in DialogType
    BY <1>4 DEF JobEnds, WalkInv, JobType, DialogType, NoJob
  <2> QED
    BY <1>4, <2>1 DEF JobEnds, WalkInv, StepsAreEarned, UsesKey, NoJob, DialogType, JobType
<1>5. ASSUME NEW j \in Job, Post(j)
      PROVE  WalkInv'
  <2>1. CASE JobEnds(j)
    BY <1>4, <1>5, <2>1 DEF Post
  <2>2. CASE ~JobEnds(j)
    <3>1. job' \in [Job -> JobType]
      BY <1>5, <2>2 DEF Post, WalkInv, JobType
    <3> QED
      BY <1>5, <2>2, <3>1 DEF Post, WalkInv, StepsAreEarned, UsesKey, JobType
  <2> QED
    BY <2>1, <2>2
<1>6. ASSUME NEW j \in Job, Created(j)
      PROVE  WalkInv'
  <2>1. CASE JobEnds(j)
    BY <1>4, <1>6, <2>1 DEF Created
  <2>2. CASE ~JobEnds(j)
    <3>1. job' \in [Job -> JobType] /\ dialog' \in DialogType
      BY <1>6, <2>2 DEF Created, WalkInv, JobType, DialogType
    <3>2. /\ job' = [job EXCEPT ![j].phase = "patching"]
          /\ dialog' = [dialog EXCEPT !.flag = job[j].flag]
          /\ making' = making /\ activated' = activated
      BY <1>6, <2>2 DEF Created
    <3>3. job[j].flag \in Key
      BY <1>6 DEF Created, WalkInv
    <3>4. /\ \A i \in Job : job'[i].phase # "idle" => job'[i].flag \in Key
          /\ \A i \in Job : job'[i].phase = "patched" /\ ~job'[i].adrift =>
                               activated' # {}
      BY <3>2, <3>3 DEF WalkInv, JobType
    <3>5. StepsAreEarned'
      BY <1>0, <3>2 DEF StepsAreEarned, UsesKey, DialogType
    <3> QED
      BY <3>1, <3>2, <3>4, <3>5, Zenon DEF WalkInv
  <2> QED
    BY <2>1, <2>2
<1>7. ASSUME NEW j \in Job, Patch(j)
      PROVE  WalkInv'
  <2>1. CASE JobEnds(j) /\ UNCHANGED activated
    BY <1>4, <1>7, <2>1 DEF Patch
  <2>2. CASE ~(JobEnds(j) /\ UNCHANGED activated)
    <3>1. /\ UNCHANGED <<dialog, making>>
          /\ job' = [job EXCEPT ![j].phase = "patched"]
          /\ activated' = IF job[j].adrift THEN activated
                          ELSE activated \union {job[j].flag}
      BY <1>7, <2>2 DEF Patch
    <3>2. job[j].flag \in Key
      BY <1>7 DEF Patch, WalkInv
    <3>3. /\ [job[j] EXCEPT !.phase = "patched"] \in JobType
          /\ [job[j] EXCEPT !.phase = "patched"].flag = job[j].flag
          /\ [job[j] EXCEPT !.phase = "patched"].adrift = job[j].adrift
      BY DEF WalkInv, JobType
    <3>4. /\ job' \in [Job -> JobType] /\ \A i \in Job \ {j} : job'[i] = job[i]
          /\ job'[j].flag = job[j].flag /\ job'[j].adrift = job[j].adrift
      BY <3>1, <3>3 DEF WalkInv
    <3>5. activated' \subseteq Key /\ activated \subseteq activated'
      BY <3>1, <3>2 DEF WalkInv
    <3>6. /\ \A i \in Job : job'[i].phase # "idle" => job'[i].flag \in Key
          /\ \A i \in Job : job'[i].phase = "patched" /\ ~job'[i].adrift => activated' # {}
      BY <3>1, <3>2, <3>4, <3>5 DEF WalkInv
    <3>7. StepsAreEarned'
      BY <3>1, <3>5 DEF WalkInv, StepsAreEarned, UsesKey
    <3> QED
      BY <3>1, <3>4, <3>5, <3>6, <3>7 DEF WalkInv
  <2> QED
    BY <2>1, <2>2
<1>8. ASSUME NEW j \in Job, Patched(j)
      PROVE  WalkInv'
  <2>1. job' \in [Job -> JobType]
    BY <1>8 DEF Patched, WalkInv, JobType, NoJob
  <2>2. ~job[j].adrift => activated # {}
    BY <1>8 DEF Patched, WalkInv
  <2>3. /\ dialog' \in DialogType
        /\ dialog'.step \in {"sdk-key", "verify"} => activated # {}
        /\ UsesKey' => dialog'.key # "none"
    <3>1. CASE job[j].adrift
      BY <1>0, <1>8, <3>1 DEF Patched, UsesKey
    <3>2. CASE ~job[j].adrift
      <4>1. dialog' = TurnedTo("sdk-key")
        BY <1>8, <3>2 DEF Patched
      <4>2. /\ dialog' \in DialogType /\ dialog'.step = "sdk-key"
            /\ dialog'.key = dialog.key /\ dialog'.timer = dialog.timer
            /\ ~dialog'.testing /\ ~dialog'.tested
            /\ dialog'.late > 0 => dialog.late > 0 \/ dialog.testing
        BY <1>0, <4>1, TurnedToKeeps
      <4> QED
        BY <1>0, <2>2, <3>2, <4>2 DEF UsesKey
    <3> QED
      BY <3>1, <3>2
  <2>4. /\ \A i \in Job : job'[i].phase # "idle" => job'[i].flag \in Key
        /\ \A i \in Job : job'[i].phase = "patched" /\ ~job'[i].adrift => activated # {}
    BY <1>8 DEF Patched, WalkInv, NoJob
  <2> QED
    BY <1>8, <2>1, <2>3, <2>4 DEF Patched, WalkInv, StepsAreEarned
<1>9. ASSUME NEW j \in Job, JobFails(j)
      PROVE  WalkInv'
  BY <1>4, <1>9 DEF JobFails
<1>10. CASE Generate
  BY <1>10 DEF Generate, WalkInv, StepsAreEarned, UsesKey, NoMaking
<1>11. CASE InsertKey
  <2>1. PICK k \in SdkKey : making' = [making EXCEPT !.phase = "made", !.key = k]
    BY <1>11 DEF InsertKey
  <2> QED
    BY <1>11, <2>1 DEF InsertKey, WalkInv, StepsAreEarned, UsesKey
<1>12. CASE KeyArrives
  <2>1. CASE making.phase = "made" /\ dialog' = [dialog EXCEPT !.key = making.key]
    <3>1. making.key \in SdkKey /\ making.key # "none"
      BY <2>1, OnboardingAssumption DEF WalkInv
    <3> QED
      BY <1>0, <1>12, <2>1, <3>1 DEF KeyArrives, WalkInv, StepsAreEarned, UsesKey, NoMaking,
                                     DialogType
  <2>2. CASE UNCHANGED dialog
    BY <1>12, <2>2 DEF KeyArrives, WalkInv, StepsAreEarned, UsesKey, NoMaking
  <2> QED
    BY <1>12, <2>1, <2>2 DEF KeyArrives
<1>13. ASSUME \/ \E e \in Email : SignIn(e)
              \/ \E k \in SdkKey : Revoke(k)
              \/ \E k \in Key : DeleteFlag(k)
       PROVE  WalkInv'
  BY <1>13 DEF SignIn, Revoke, DeleteFlag, WalkInv, StepsAreEarned, UsesKey
<1> QED
  BY <1>1, <1>2, <1>3, <1>5, <1>6, <1>7, <1>8, <1>9, <1>10, <1>11, <1>12, <1>13
     DEF WalkNext

\* The dialog never offers a key before this walk has activated a flag, nor a
\* test without a key, however late an answer arrives.
THEOREM DialogIsNotAhead == Spec => []StepsAreEarned
<1>1. Init => WalkInv
  BY DEF Init, WalkInv, StepsAreEarned, UsesKey, NewDialog, NoJob, NoMaking, DialogType, JobType
<1>2. WalkInv /\ UNCHANGED walk => WalkInv'
  BY DEF walk, WalkInv, StepsAreEarned, UsesKey
<1>3. WalkInv /\ [Next]_vars => WalkInv'
  BY <1>2, WalkStep DEF Next, vars, walk
<1>4. WalkInv => StepsAreEarned
  BY DEF WalkInv
<1> QED
  BY <1>1, <1>3, <1>4, PTL DEF Spec
-----------------------------------------------------------------------------
(* The slugs: there are never more of them than addresses.  They are taken *)
(* in order, and each belongs to an address of its own.                    *)

Searching(r) == Stage(r) \in {"slug", "workspace"}
Founders == {e \in Email : "workspace" \in rows[e]}

\* makeUniqueSlug has found taken what it has come past.
SlugInv ==
    /\ \A e \in Email : "user" \notin rows[e] => rows[e] = {}
    /\ \A r \in Request : Searching(r) => Address(r) \notin Founders
    /\ \A q, r \in Request : q # r /\ Searching(q) /\ Searching(r) =>
                                 Address(q) # Address(r)
    /\ \A r \in Request : \A k \in Nat : k < signup[r].slug => k \in slugs
    /\ \A s \in slugs : \A k \in Nat : k < s => k \in slugs
    /\ IsFiniteSet(slugs) /\ Cardinality(slugs) <= Cardinality(Founders)

LEMMA FoundersFinite ==
    /\ IsFiniteSet(Founders) /\ Cardinality(Founders) \in Nat
    /\ Cardinality(Email) \in Nat /\ Cardinality(Founders) <= Cardinality(Email)
BY EmailAssumption, FS_Subset, FS_CardinalityType DEF Founders

LEMMA InsertedRow ==
    ASSUME SignupTypeOK, NEW r \in Request, NEW t, Insert(r, t)
    PROVE  \A e \in Email : rows'[e] = IF e = Address(r) THEN rows[e] \union {t} ELSE rows[e]
BY DEF SignupTypeOK, Insert

\* A step of a request r that takes no slug, inserts no workspace, and keeps
\* the request's slug.
LEMMA SearchMoves ==
    ASSUME SlugInv, SignupTypeOK, NEW r \in Request,
           \A q \in Request \ {r} : signup'[q] = signup[q],
           signup'[r].slug = signup[r].slug \/ signup'[r].slug = 0,
           signup'[r].email = signup[r].email \/ signup'[r].stage = "check",
           Searching(r)' => Searching(r),
           UNCHANGED slugs,
           \A e \in Email : "workspace" \in rows'[e] <=> "workspace" \in rows[e],
           \A e \in Email : "user" \notin rows'[e] => rows'[e] = {}
    PROVE  SlugInv'
<1>1. Founders' = Founders
  BY DEF Founders
<1>2. \A q \in Request : Searching(q)' => Searching(q) /\ Address(q)' = Address(q)
  BY DEF Searching, Stage, Address
<1>3. \A q \in Request : signup'[q].slug = signup[q].slug \/ signup'[q].slug = 0
  OBVIOUS
<1>4. \A q \in Request : \A k \in Nat : k < signup'[q].slug => k \in slugs'
  BY <1>3 DEF SlugInv
<1>5. \A q \in Request : Searching(q)' => Address(q)' \notin Founders'
  BY <1>1, <1>2 DEF SlugInv
<1>6. \A p, q \in Request : p # q /\ Searching(p)' /\ Searching(q)' =>
                                Address(p)' # Address(q)'
  BY <1>2 DEF SlugInv
<1> QED
  BY <1>1, <1>4, <1>5, <1>6 DEF SlugInv

LEMMA SlugStep == SignupInv /\ SlugInv /\ SignupNext => SlugInv'
<1> SUFFICES ASSUME SignupInv, SlugInv, SignupNext PROVE SlugInv'
  OBVIOUS
<1>0. SignupTypeOK /\ SignupTypeOK'
  BY SignupTypes DEF SignupInv
<1>1. ASSUME NEW r \in Request,
             \/ \E e \in Email : Submit(r, e)
             \/ CheckAddress(r) \/ SignupFails(r) \/ InsertToken(r)
      PROVE  SlugInv'
  <2>1. /\ UNCHANGED <<rows, slugs>>
        /\ \A q \in Request \ {r} : signup'[q] = signup[q]
        /\ signup'[r].slug = signup[r].slug \/ signup'[r].slug = 0
        /\ signup'[r].email = signup[r].email \/ signup'[r].stage = "check"
        /\ signup'[r].stage \in {"check", "taken", "user", "error", "created"}
    BY <1>0, <1>1 DEF Submit, CheckAddress, SignupFails, InsertToken, Goes, SignupTypeOK
  <2>2. ~Searching(r)'
    BY <2>1 DEF Searching, Stage
  <2>3. \A e \in Email : "user" \notin rows'[e] => rows'[e] = {}
    BY <2>1 DEF SlugInv
  <2> QED
    BY <1>0, <2>1, <2>2, <2>3, SearchMoves
<1>2. ASSUME NEW r \in Request, InsertUser(r)
      PROVE  SlugInv'
  <2>0. RowsFollow(r) /\ Address(r) \in Email /\ Stage(r) = "user"
    BY <1>2 DEF SignupInv, RowsFollow, InsertUser
  <2>1. CASE "user" \in rows[Address(r)]
    <3>1. /\ UNCHANGED <<rows, slugs>> /\ ~Searching(r)'
          /\ \A q \in Request \ {r} : signup'[q] = signup[q]
          /\ signup'[r].slug = signup[r].slug /\ signup'[r].email = signup[r].email
      BY <1>0, <1>2, <2>1 DEF InsertUser, Goes, SignupTypeOK, Searching, Stage
    <3>2. \A e \in Email : "user" \notin rows'[e] => rows'[e] = {}
      BY <3>1 DEF SlugInv
    <3> QED
      BY <1>0, <3>1, <3>2, SearchMoves
  <2>2. CASE "user" \notin rows[Address(r)]
    <3>1. /\ UNCHANGED slugs /\ Insert(r, "user") /\ Goes(r, "slug")
      BY <1>2, <2>2 DEF InsertUser
    <3>2. /\ \A q \in Request \ {r} : signup'[q] = signup[q]
          /\ signup'[r].slug = signup[r].slug /\ Address(r)' = Address(r)
      BY <1>0, <3>1 DEF Goes, SignupTypeOK, Address
    <3>3. /\ \A e \in Email : "workspace" \in rows'[e] <=> "workspace" \in rows[e]
          /\ \A e \in Email : "user" \notin rows'[e] => rows'[e] = {}
      BY <1>0, <2>0, <3>1 DEF Insert, SignupTypeOK, SlugInv
    <3>4. Founders' = Founders
      BY <3>3 DEF Founders
    <3>5. rows[Address(r)] = {} /\ Address(r) \notin Founders
      BY <2>0, <2>2 DEF SlugInv, Founders
    <3>6. \A q \in Request \ {r} : Searching(q) => Address(q) # Address(r)
      BY <2>2 DEF SignupInv, RowsFollow, Searching
    <3>7. \A q \in Request \ {r} : /\ Searching(q)' <=> Searching(q)
                                   /\ Address(q)' = Address(q)
      BY <3>2 DEF Searching, Stage, Address
    <3>8. \A q \in Request : Searching(q)' => Address(q)' \notin Founders'
      BY <3>2, <3>4, <3>5, <3>7 DEF SlugInv
    <3>9. \A p, q \in Request : p # q /\ Searching(p)' /\ Searching(q)' =>
                                    Address(p)' # Address(q)'
      BY <3>2, <3>6, <3>7 DEF SlugInv
    <3>10. \A q \in Request : \A k \in Nat : k < signup'[q].slug => k \in slugs'
      BY <3>1, <3>2 DEF SlugInv
    <3> QED
      BY <3>1, <3>3, <3>4, <3>8, <3>9, <3>10 DEF SlugInv
  <2> QED
    BY <2>1, <2>2
<1>3. ASSUME NEW r \in Request, TrySlug(r)
      PROVE  SlugInv'
  <2>1. /\ UNCHANGED <<rows, slugs>> /\ Searching(r)
        /\ \A q \in Request \ {r} : signup'[q] = signup[q]
        /\ signup'[r].email = signup[r].email
        /\ signup[r].slug \in Nat
        /\ \/ signup'[r].slug = signup[r].slug
           \/ signup[r].slug \in slugs /\ signup'[r].slug = signup[r].slug + 1
    BY <1>0, <1>3 DEF TrySlug, Goes, SignupTypeOK, Searching
  <2>2. \A q \in Request : Address(q)' = Address(q) /\ (Searching(q)' => Searching(q))
    BY <2>1 DEF Searching, Stage, Address
  <2>3. Founders' = Founders
    BY <2>1 DEF Founders
  <2>4. \A k \in Nat : k < signup'[r].slug => k \in slugs'
    <3>1. \A k \in Nat : k < signup[r].slug + 1 => k < signup[r].slug \/ k = signup[r].slug
      BY <2>1
    <3> QED
      BY <2>1, <3>1 DEF SlugInv
  <2>5. \A q \in Request : \A k \in Nat : k < signup'[q].slug => k \in slugs'
    BY <2>1, <2>4 DEF SlugInv
  <2> QED
    BY <2>1, <2>2, <2>3, <2>5 DEF SlugInv
<1>4. ASSUME NEW r \in Request, InsertWorkspace(r)
      PROVE  SlugInv'
  <2>0. /\ RowsFollow(r) /\ Address(r) \in Email /\ Stage(r) = "workspace"
        /\ Searching(r) /\ Address(r) \notin Founders /\ signup[r].slug \in Nat
        /\ "user" \in rows[Address(r)]
    BY <1>0, <1>4 DEF SignupInv, RowsFollow, InsertWorkspace, Searching, SlugInv,
                      SignupTypeOK
  <2>1. CASE signup[r].slug \in slugs
    <3>1. /\ UNCHANGED <<rows, slugs>> /\ ~Searching(r)'
          /\ \A q \in Request \ {r} : signup'[q] = signup[q]
          /\ signup'[r].slug = signup[r].slug /\ signup'[r].email = signup[r].email
      BY <1>0, <1>4, <2>1 DEF InsertWorkspace, Goes, SignupTypeOK, Searching, Stage
    <3>2. \A e \in Email : "user" \notin rows'[e] => rows'[e] = {}
      BY <3>1 DEF SlugInv
    <3> QED
      BY <1>0, <3>1, <3>2, SearchMoves
  <2>2. CASE signup[r].slug \notin slugs
    <3>1. /\ Goes(r, "member") /\ Insert(r, "workspace")
          /\ slugs' = slugs \union {signup[r].slug}
      BY <1>4, <2>2 DEF InsertWorkspace
    <3>2. /\ \A q \in Request \ {r} : signup'[q] = signup[q]
          /\ signup'[r].slug = signup[r].slug /\ ~Searching(r)'
      BY <1>0, <3>1 DEF Goes, SignupTypeOK, Searching, Stage
    <3>3. \A e \in Email : "user" \notin rows'[e] => rows'[e] = {}
      BY <1>0, <2>0, <3>1 DEF Insert, SignupTypeOK, SlugInv
    <3>4. Founders' = Founders \union {Address(r)}
      BY <1>0, <2>0, <3>1 DEF Insert, SignupTypeOK, Founders
    <3>5. \A q \in Request : Searching(q)' => /\ q # r /\ Searching(q)
                                              /\ Address(q)' = Address(q)
      BY <3>2 DEF Searching, Stage, Address
    <3>6. \A q \in Request : Searching(q)' => Address(q)' \notin Founders'
      BY <2>0, <3>4, <3>5 DEF SlugInv
    <3>7. \A p, q \in Request : p # q /\ Searching(p)' /\ Searching(q)' =>
                                    Address(p)' # Address(q)'
      BY <3>5 DEF SlugInv
    <3>8. \A q \in Request : \A k \in Nat : k < signup'[q].slug => k \in slugs'
      BY <3>1, <3>2 DEF SlugInv
    <3>9. \A s \in slugs' : \A k \in Nat : k < s => k \in slugs'
      BY <3>1 DEF SlugInv
    <3>10. /\ IsFiniteSet(slugs') /\ Cardinality(slugs') = Cardinality(slugs) + 1
           /\ Cardinality(Founders') = Cardinality(Founders) + 1
           /\ Cardinality(slugs) \in Nat /\ Cardinality(Founders) \in Nat
      BY <2>0, <2>2, <3>1, <3>4, FoundersFinite, FS_AddElement, FS_CardinalityType
         DEF SlugInv
    <3>11. Cardinality(slugs') <= Cardinality(Founders')
      BY <3>10 DEF SlugInv
    <3> QED
      BY <3>3, <3>6, <3>7, <3>8, <3>9, <3>10, <3>11 DEF SlugInv
  <2> QED
    BY <2>1, <2>2
<1>5. ASSUME NEW r \in Request, InsertMember(r) \/ InsertProject(r)
      PROVE  SlugInv'
  <2>0. /\ Address(r) \in Email /\ "user" \in rows[Address(r)]
        /\ "workspace" \in rows[Address(r)]
    BY <1>5 DEF SignupInv, RowsFollow, InsertMember, InsertProject
  <2>1. /\ Goes(r, "project") \/ Goes(r, "token")
        /\ Insert(r, "member") \/ Insert(r, "project")
        /\ UNCHANGED slugs
    BY <1>5 DEF InsertMember, InsertProject
  <2>2. /\ \A q \in Request \ {r} : signup'[q] = signup[q]
        /\ signup'[r].slug = signup[r].slug /\ signup'[r].email = signup[r].email
        /\ ~Searching(r)'
    BY <1>0, <2>1 DEF Goes, SignupTypeOK, Searching, Stage
  <2>3. PICK t \in {"member", "project"} :
            \A e \in Email : rows'[e] = IF e = Address(r) THEN rows[e] \union {t} ELSE rows[e]
    BY <1>0, <2>0, <2>1, InsertedRow
  <2>4. \A e \in Email : "workspace" \in rows'[e] <=> "workspace" \in rows[e]
    <3> TAKE e \in Email
    <3>1. CASE e = Address(r)
      BY <2>0, <2>3, <3>1
    <3>2. CASE e # Address(r)
      BY <2>3, <3>2
    <3> QED
      BY <3>1, <3>2
  <2>5. \A e \in Email : "user" \notin rows[e] => rows[e] = {}
    BY DEF SlugInv
  <2>6. \A e \in Email : "user" \notin rows'[e] => rows'[e] = {}
    <3> SUFFICES ASSUME NEW e \in Email, "user" \notin rows'[e] PROVE rows'[e] = {}
      OBVIOUS
    <3>1. e # Address(r)
      BY <2>0, <2>3
    <3> QED
      BY <2>3, <2>5, <3>1
  <2> QED
    BY <1>0, <2>1, <2>2, <2>4, <2>6, SearchMoves
<1>6. ASSUME \/ \E v \in Click : \/ \E e \in Email : FindToken(v, e)
                                 \/ MarkVerified(v) \/ VerifyFails(v)
             \/ \E e \in Email : TokenExpires(e)
      PROVE  SlugInv'
  BY <1>6 DEF FindToken, MarkVerified, VerifyFails, TokenExpires, SlugInv, Searching,
              Stage, Address, Founders
<1> QED
  BY <1>1, <1>2, <1>3, <1>4, <1>5, <1>6 DEF SignupNext

LEMMA SlugsAreFew ==
    ASSUME SignupTypeOK, SlugInv PROVE slugs \subseteq 0..(Cardinality(Email) - 1)
<1> SUFFICES ASSUME NEW s \in slugs PROVE s \in 0..(Cardinality(Email) - 1)
  OBVIOUS
<1>0. s \in Nat
  BY DEF SignupTypeOK
<1>1. 0..s \subseteq slugs
  <2> SUFFICES ASSUME NEW k \in 0..s PROVE k \in slugs
    OBVIOUS
  <2>1. k \in Nat /\ (k < s \/ k = s)
    BY <1>0
  <2> QED
    BY <2>1 DEF SlugInv
<1>2. Cardinality(0..s) = s + 1
  BY <1>0, FS_Interval
<1>3. Cardinality(0..s) <= Cardinality(slugs) /\ Cardinality(slugs) \in Nat
  BY <1>1, FS_Subset, FS_CardinalityType DEF SlugInv
<1> QED
  BY <1>0, <1>2, <1>3, FoundersFinite DEF SlugInv

-----------------------------------------------------------------------------
(* Types.                                                                  *)

PlaceType ==
    /\ who \in Email \union {"nobody"} /\ done \in BOOLEAN
    /\ page \in [project : BOOLEAN, hasFlags : BOOLEAN]
    /\ flag \in [Key -> {"absent", "inactive", "active", "deleted"}]
    /\ sdkKey \in [SdkKey -> {"absent", "live", "revoked"}]

LEMMA PlaceStep == WalkInv /\ PlaceType /\ WalkNext => PlaceType'
<1> SUFFICES ASSUME WalkInv, PlaceType, WalkNext PROVE PlaceType'
  OBVIOUS
<1> USE DEF PlaceType
<1>1. CASE LoadProjects \/ LoadFlags \/ Reload
  <2>1. UNCHANGED <<who, done, flag, sdkKey>>
    BY <1>1 DEF LoadProjects, LoadFlags, Reload
  <2>2. CASE LoadProjects \/ Reload
    <3>1. PICK a \in BOOLEAN, b \in BOOLEAN : page' = [project |-> a, hasFlags |-> b]
      <4>1. LoadProjects => page' = [project |-> TRUE, hasFlags |-> page.hasFlags]
                            /\ page.hasFlags \in BOOLEAN
        <5>1. page \in [project : BOOLEAN, hasFlags : BOOLEAN]
          OBVIOUS
        <5>2. LoadProjects => page' = [page EXCEPT !.project = TRUE]
          BY DEF LoadProjects
        <5> HIDE DEF PlaceType
        <5> QED
          BY <5>1, <5>2
      <4>2. Reload => page' = [project |-> FALSE, hasFlags |-> FALSE]
        BY DEF Reload
      <4> QED
        BY <2>2, <4>1, <4>2
    <3> QED
      BY <2>1, <3>1
  <2>3. CASE LoadFlags
    <3>1. PICK b \in BOOLEAN : page' = [page EXCEPT !.hasFlags = b]
      BY <2>3 DEF LoadFlags
    <3> QED
      BY <2>1, <3>1
  <2> QED
    BY <1>1, <2>2, <2>3
<1>2. CASE Dismiss \/ Skip \/ TimerFires
  BY <1>2 DEF Dismiss, Skip, TimerFires, Complete
<1>3. CASE Begin \/ BackToWelcome \/ Continue \/ BackToKey
  BY <1>3 DEF Begin, BackToWelcome, Continue, BackToKey, Turn
<1>4. CASE Generate \/ InsertKey \/ KeyArrives \/ Test \/ TestEnds \/ LateTestEnds
  BY <1>4 DEF Generate, InsertKey, KeyArrives, Test, TestEnds, LateTestEnds
<1>5. ASSUME NEW j \in Job,
             \/ \E k \in Key : CreateFlag(j, k)
             \/ Post(j) \/ Created(j) \/ Patch(j) \/ Patched(j) \/ JobFails(j)
      PROVE  PlaceType'
  <2>1. UNCHANGED <<who, done, page, sdkKey>>
    BY <1>5 DEF CreateFlag, Post, Created, Patch, Patched, JobFails
  <2>2. \/ UNCHANGED flag
        \/ \E s \in {"inactive", "active"} : flag' = [flag EXCEPT ![job[j].flag] = s]
    BY <1>5 DEF CreateFlag, Post, Created, Patch, Patched, JobFails
  <2> QED
    BY <2>1, <2>2
<1>6. CASE \E e \in Email : SignIn(e)
  BY <1>6 DEF SignIn
<1>7. CASE (\E k \in SdkKey : Revoke(k)) \/ (\E k \in Key : DeleteFlag(k))
  BY <1>7 DEF Revoke, DeleteFlag
<1> QED
  BY <1>1, <1>2, <1>3, <1>4, <1>5, <1>6, <1>7 DEF WalkNext

\* Every variable keeps its type; and the slugs of n addresses that share a
\* local part are among name, name-1, ... name-(n-1), since makeUniqueSlug
\* passes over none that is free (auth.service.ts:28-45).
THEOREM TypeCorrect == Spec => []TypeOK
<1> DEFINE Inv == SignupInv /\ SlugInv /\ WalkInv /\ PlaceType
<1>1. Init => Inv
  <2> SUFFICES ASSUME Init PROVE Inv
    OBVIOUS
  <2>1. SignupInv
    BY DEF Init, SignupInit, SignupInv, SignupTypeOK, RowsFollow, Stage, Address,
           VerifiedIsWhole, Table
  <2>2. WalkInv
    BY DEF Init, WalkInv, StepsAreEarned, UsesKey, NewDialog, NoJob, NoMaking,
           DialogType, JobType
  <2>a. PlaceType
    BY DEF Init, PlaceType
  <2>3. IsFiniteSet(slugs) /\ Cardinality(slugs) = 0
    BY FS_EmptySet DEF Init, SignupInit
  <2>4. Cardinality(slugs) <= Cardinality(Founders)
    BY <2>3, FoundersFinite
  <2>5. SlugInv
    BY <2>3, <2>4 DEF Init, SignupInit, SlugInv, Searching, Stage, Founders
  <2> QED
    BY <2>1, <2>2, <2>a, <2>5
<1>2. Inv /\ [Next]_vars => Inv'
  <2> SUFFICES ASSUME Inv, [Next]_vars PROVE Inv'
    OBVIOUS
  <2>1. UNCHANGED signupVars => SignupInv' /\ SlugInv'
    BY DEF signupVars, SignupInv, SignupTypeOK, RowsFollow, Stage, Address, Whole,
           VerifiedIsWhole, SlugInv, Searching, Founders
  <2>2. UNCHANGED walk => WalkInv' /\ PlaceType'
    BY DEF walk, WalkInv, StepsAreEarned, UsesKey, PlaceType
  <2> QED
    BY <2>1, <2>2, SignupStep, SlugStep, WalkStep, PlaceStep DEF Next, vars, signupVars, walk
<1>3. Inv => TypeOK
  BY SlugsAreFew DEF SignupInv, WalkInv, PlaceType, TypeOK, DialogType, JobType
<1> QED
  BY <1>1, <1>2, <1>3, PTL DEF Spec
=============================================================================
