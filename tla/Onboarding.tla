----------------------------- MODULE Onboarding -----------------------------
(***************************************************************************)
(* What comes after a signup: the user signs in, and the onboarding dialog *)
(* of the dashboard (apps/web/src/components/onboarding and                *)
(* stores/onboarding.store.ts) leads through a first flag, a first SDK key *)
(* and a test of that key, against the flag and SDK-key routes and         *)
(* apps/api/src/middleware/sdk-auth.ts.                                    *)
(*                                                                         *)
(* One of the addresses of Signup signs in, in one tab.  The dialog's      *)
(* store lives in memory, so loading the page starts it over; only the     *)
(* mark that it is complete is kept in localStorage.  A request that is    *)
(* under way when the page is loaded goes on without it (`adrift').        *)
(***************************************************************************)
EXTENDS Signup

CONSTANTS
    Key,     \* keys that a flag may be given
    SdkKey,  \* SDK keys that can be generated
    Job,     \* creations of a flag that can be in progress
    MaxTests \* bound on the tests of a key under way at a time

ASSUME OnboardingAssumption == "none" \notin Key /\ "none" \notin SdkKey
                               /\ "none" \notin Job
ASSUME TestsAssumption == MaxTests \in Nat

VARIABLES
    who,       \* the address that is signed in
    done,      \* localStorage: fv_onboarding_complete
    page,      \* what the page knows: its project, whether it has flags
    dialog,    \* the onboarding store and the state of its components
    job,       \* creations of a flag: POST, then PATCH
    making,    \* the request for an SDK key
    flag,      \* the project's flags
    sdkKey,    \* its SDK keys
    activated  \* history variable: flags this walk has activated

walk == <<who, done, page, dialog, job, making, flag, sdkKey, activated>>
vars == <<signup, rows, slugs, token, verified, click, who, done, page, dialog,
          job, making, flag, sdkKey, activated>>

\* `mine' is the creation whose button shows "Creating...".  `testing' and
\* `tested' are the state of the form that tests the key and are gone with it;
\* `late' tests outlive theirs, and `timer' tells that complete() is due.
NewDialog == [show |-> FALSE, step |-> "welcome", flag |-> "none", key |-> "none",
              mine |-> "none", testing |-> FALSE, tested |-> FALSE,
              late |-> 0, timer |-> FALSE]
NoJob    == [phase |-> "idle", flag |-> "none", adrift |-> FALSE]
NoMaking == [phase |-> "idle", key |-> "none", adrift |-> FALSE]

Init ==
    /\ SignupInit
    /\ who = "nobody" /\ done = FALSE
    /\ page = [project |-> FALSE, hasFlags |-> FALSE]
    /\ dialog = NewDialog
    /\ job = [j \in Job |-> NoJob]
    /\ making = NoMaking
    /\ flag = [k \in Key |-> "absent"]
    /\ sdkKey = [k \in SdkKey |-> "absent"]
    /\ activated = {}

\* authService.login() for a right password: 403 for an unverified address,
\* 500 for one without a workspace.
SignIn(e) ==
    /\ who = "nobody"
    /\ e \in verified /\ "member" \in rows[e]
    /\ who' = e
    /\ UNCHANGED <<done, page, dialog, job, making, flag, sdkKey, activated>>

-----------------------------------------------------------------------------
(* OnboardingModal.                                                        *)

\* GET /me/projects has a project to answer with; the dashboard takes the first.
HasProject == "project" \in rows[who]

\* The projects arrive.  The flags have not been asked for yet, so hasFlags is
\* still FALSE and the dialog is shown, to whoever has not completed it.
LoadProjects ==
    /\ who # "nobody" /\ ~page.project
    /\ HasProject
    /\ page' = [page EXCEPT !.project = TRUE]
    /\ dialog' = [dialog EXCEPT !.show = ~done]
    /\ UNCHANGED <<who, done, job, making, flag, sdkKey, activated>>

Present == {k \in Key : flag[k] \in {"inactive", "active"}}

\* The flags arrive, for the first time or again.  That there are some does
\* not hide the dialog; that the last one is gone shows it.
LoadFlags ==
    /\ page.project
    /\ page' = [page EXCEPT !.hasFlags = Present # {}]
    /\ dialog' = [dialog EXCEPT !.show =
                      @ \/ (~done /\ page.hasFlags /\ Present = {})]
    /\ UNCHANGED <<who, done, job, making, flag, sdkKey, activated>>

\* The page is loaded again.
Reload ==
    /\ who # "nobody"
    /\ page' = [project |-> FALSE, hasFlags |-> FALSE]
    /\ dialog' = NewDialog
    /\ job' = [j \in Job |-> IF job[j].phase \in {"posting", "patching"}
                             THEN [job[j] EXCEPT !.adrift = TRUE] ELSE NoJob]
    /\ making' = IF making.phase = "sent" THEN [making EXCEPT !.adrift = TRUE]
                 ELSE NoMaking
    /\ activated' = {}
    /\ UNCHANGED <<who, done, flag, sdkKey>>

\* The dialog turns to another step, and the forms of the others are unmounted:
\* their state is forgotten, but a test goes on.
TurnedTo(step) ==
    [dialog EXCEPT !.step = step, !.mine = "none", !.testing = FALSE, !.tested = FALSE,
                   !.late = IF dialog.testing THEN @ + 1 ELSE @]

\* complete() of the store; two timers of one walk count as one.
Complete(due) ==
    /\ done' = TRUE
    /\ dialog' = [TurnedTo("complete") EXCEPT !.show = FALSE, !.timer = due]
    /\ UNCHANGED <<who, page, job, making, flag, sdkKey, activated>>

Shows(step) == dialog.show /\ dialog.step = step

\* The cross and the backdrop.
Dismiss == dialog.show /\ Complete(dialog.timer)

Skip == Shows("verify") /\ ~dialog.tested /\ Complete(dialog.timer)

\* The timer that a successful test starts; leaving the form does not stop it.
TimerFires == dialog.timer /\ Complete(FALSE)

Turn(to) ==
    /\ dialog' = TurnedTo(to)
    /\ UNCHANGED <<who, done, page, job, making, flag, sdkKey, activated>>

Begin == Shows("welcome") /\ Turn("create-flag")

\* "Back" unmounts the form, which forgets that a creation is under way; the
\* creation does not stop.
BackToWelcome == Shows("create-flag") /\ Turn("welcome")

\* "I've copied the key".
Continue == Shows("sdk-key") /\ dialog.key # "none" /\ Turn("verify")

BackToKey == Shows("verify") /\ ~dialog.tested /\ Turn("sdk-key")

-----------------------------------------------------------------------------
(* StepCreateFlag.                                                         *)

CreateFlag(j, k) ==
    /\ Shows("create-flag") /\ dialog.mine = "none"
    /\ job[j].phase = "idle"
    /\ job' = [job EXCEPT ![j] = [NoJob EXCEPT !.phase = "posting", !.flag = k]]
    /\ dialog' = [dialog EXCEPT !.mine = j]
    /\ UNCHANGED <<who, done, page, making, flag, sdkKey, activated>>

JobEnds(j) ==
    /\ job' = [job EXCEPT ![j] = NoJob]
    /\ dialog' = [dialog EXCEPT !.mine = IF @ = j THEN "none" ELSE @]

\* flagsService.create: 409 for a key in use, 500 for one of a deleted flag.
Post(j) ==
    /\ job[j].phase = "posting"
    /\ IF flag[job[j].flag] = "absent"
       THEN /\ flag' = [flag EXCEPT ![job[j].flag] = "inactive"]
            /\ job' = [job EXCEPT ![j].phase = "created"]
            /\ UNCHANGED dialog
       ELSE JobEnds(j) /\ UNCHANGED flag
    /\ UNCHANGED <<who, done, page, making, sdkKey, activated>>

\* Mutant of Created: the dialog goes on before the flag is activated.
CreatedGoesOn(j) ==
    /\ job[j].phase = "created"
    /\ IF job[j].adrift THEN JobEnds(j)
       ELSE /\ job' = [job EXCEPT ![j].phase = "patching"]
            /\ dialog' = [dialog EXCEPT !.flag = job[j].flag, !.step = "sdk-key"]
    /\ UNCHANGED <<who, done, page, making, flag, sdkKey, activated>>

\* onSuccess begins: the key is noted and the activation sent.
Created(j) ==
    /\ job[j].phase = "created"
    /\ IF job[j].adrift THEN JobEnds(j)
       ELSE /\ job' = [job EXCEPT ![j].phase = "patching"]
            /\ dialog' = [dialog EXCEPT !.flag = job[j].flag]
    /\ UNCHANGED <<who, done, page, making, flag, sdkKey, activated>>

\* flagsService.updateStatus: 404 for a flag deleted meanwhile.
Patch(j) ==
    /\ job[j].phase = "patching"
    /\ LET k == job[j].flag
       IN  IF flag[k] = "deleted"
           THEN JobEnds(j) /\ UNCHANGED <<flag, activated>>
           ELSE /\ flag' = [flag EXCEPT ![k] = "active"]
                /\ activated' = IF job[j].adrift THEN activated
                                ELSE activated \union {k}
                /\ job' = [job EXCEPT ![j].phase = "patched"]
                /\ UNCHANGED dialog
    /\ UNCHANGED <<who, done, page, making, sdkKey>>

\* onSuccess ends: setStep, wherever the user is by now.
Patched(j) ==
    /\ job[j].phase = "patched"
    /\ job' = [job EXCEPT ![j] = NoJob]
    /\ dialog' = IF job[j].adrift THEN dialog
                 ELSE TurnedTo("sdk-key")
    /\ UNCHANGED <<who, done, page, making, flag, sdkKey, activated>>

\* A request or its answer is lost, and the error is shown.
JobFails(j) ==
    /\ job[j].phase # "idle"
    /\ JobEnds(j)
    /\ UNCHANGED <<who, done, page, making, flag, sdkKey, activated>>

-----------------------------------------------------------------------------
(* StepSDKKey, StepVerify and the SDK-key routes.                          *)

Generate ==
    /\ Shows("sdk-key") /\ dialog.key = "none" /\ making.phase = "idle"
    /\ making' = [NoMaking EXCEPT !.phase = "sent"]
    /\ UNCHANGED <<who, done, page, dialog, job, flag, sdkKey, activated>>

\* POST /sdk-keys: the only answer that ever holds the key.
InsertKey ==
    /\ making.phase = "sent"
    /\ \E k \in SdkKey :
           /\ sdkKey[k] = "absent"
           /\ sdkKey' = [sdkKey EXCEPT ![k] = "live"]
           /\ making' = [making EXCEPT !.phase = "made", !.key = k]
    /\ UNCHANGED <<who, done, page, dialog, job, flag, activated>>

\* The key arrives, or the request fails or its answer is lost.
KeyArrives ==
    /\ making.phase \in {"sent", "made"}
    /\ making' = NoMaking
    /\ \/ /\ making.phase = "made" /\ ~making.adrift
          /\ dialog' = [dialog EXCEPT !.key = making.key]
       \/ UNCHANGED dialog
    /\ UNCHANGED <<who, done, page, job, flag, sdkKey, activated>>

\* authenticateSDKKey: the key has a row that is not revoked; the row's project
\* is always there, since a key of a project comes after it.
Authentic(k) == k # "none" /\ sdkKey[k] = "live"

Test ==
    /\ Shows("verify") /\ ~dialog.tested /\ ~dialog.testing
    /\ dialog.key # "none"
    /\ dialog.late < MaxTests
    /\ dialog' = [dialog EXCEPT !.testing = TRUE]
    /\ UNCHANGED <<who, done, page, job, making, flag, sdkKey, activated>>

\* GET /sdk/v1/flags with the new key is answered.  Any outcome but success
\* shows an error.
TestEnds ==
    /\ dialog.testing
    /\ \/ /\ Authentic(dialog.key)
          /\ dialog' = [dialog EXCEPT !.testing = FALSE, !.tested = TRUE, !.timer = TRUE]
       \/ dialog' = [dialog EXCEPT !.testing = FALSE]
    /\ UNCHANGED <<who, done, page, job, making, flag, sdkKey, activated>>

\* The same for a test whose form is gone: it shows nothing, but starts the timer.
LateTestEnds ==
    /\ dialog.late > 0
    /\ \/ /\ Authentic(dialog.key)
          /\ dialog' = [dialog EXCEPT !.late = @ - 1, !.timer = TRUE]
       \/ dialog' = [dialog EXCEPT !.late = @ - 1]
    /\ UNCHANGED <<who, done, page, job, making, flag, sdkKey, activated>>

\* DELETE /sdk-keys/:keyId and DELETE /flags/:flagId, from other pages.
Revoke(k) ==
    /\ sdkKey[k] = "live"
    /\ sdkKey' = [sdkKey EXCEPT ![k] = "revoked"]
    /\ UNCHANGED <<who, done, page, dialog, job, making, flag, activated>>

DeleteFlag(k) ==
    /\ k \in Present
    /\ flag' = [flag EXCEPT ![k] = "deleted"]
    /\ UNCHANGED <<who, done, page, dialog, job, making, sdkKey, activated>>

-----------------------------------------------------------------------------
WalkNext ==
    \/ \E e \in Email : SignIn(e)
    \/ LoadProjects \/ LoadFlags \/ Reload
    \/ Dismiss \/ Skip \/ TimerFires
    \/ Begin \/ BackToWelcome \/ Continue \/ BackToKey
    \/ \E j \in Job : \/ \E k \in Key : CreateFlag(j, k)
                      \/ Post(j) \/ Created(j) \/ Patch(j) \/ Patched(j)
                      \/ JobFails(j)
    \/ Generate \/ InsertKey \/ KeyArrives \/ Test \/ TestEnds \/ LateTestEnds
    \/ \E k \in SdkKey : Revoke(k)
    \/ \E k \in Key : DeleteFlag(k)

\* The two systems meet in the tables of the account that signs in.
Next == \/ SignupNext /\ UNCHANGED walk
        \/ WalkNext /\ UNCHANGED signupVars

Spec == Init /\ [][Next]_vars

-----------------------------------------------------------------------------
(* Properties.                                                             *)

\* Type invariant.
TypeOK ==
    /\ SignupTypeOK
    /\ slugs \subseteq 0..(Cardinality(Email) - 1)
    /\ who \in Email \union {"nobody"} /\ done \in BOOLEAN
    /\ page \in [project : BOOLEAN, hasFlags : BOOLEAN]
    /\ dialog \in [show : BOOLEAN, flag : Key \union {"none"},
                   step : {"welcome", "create-flag", "sdk-key", "verify", "complete"},
                   key : SdkKey \union {"none"}, mine : Job \union {"none"},
                   testing : BOOLEAN, tested : BOOLEAN, late : Nat, timer : BOOLEAN]
    /\ job \in [Job -> [phase : {"idle", "posting", "created", "patching", "patched"},
                        flag : Key \union {"none"}, adrift : BOOLEAN]]
    /\ making \in [phase : {"idle", "sent", "made"}, adrift : BOOLEAN,
                   key : SdkKey \union {"none"}]
    /\ flag \in [Key -> {"absent", "inactive", "active", "deleted"}]
    /\ sdkKey \in [SdkKey -> {"absent", "live", "revoked"}]
    /\ activated \subseteq Key

\* The dialog tests a key or goes by the success of a test.
UsesKey == \/ dialog.step = "verify" \/ dialog.testing \/ dialog.tested
           \/ dialog.late > 0 \/ dialog.timer

\* The dialog is never ahead of what was done: it offers an SDK key only after
\* this walk has activated a flag, and the test and what follows from it only
\* with a key in hand, even when answers arrive after the user went back, closed the dialog or asked
\* twice (step-create-flag.tsx:21-28, step-sdk-key.tsx:18-20, 131).
StepsAreEarned ==
    /\ dialog.step \in {"sdk-key", "verify"} => activated # {}
    /\ UsesKey => dialog.key # "none"
=============================================================================
