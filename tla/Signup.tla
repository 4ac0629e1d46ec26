------------------------------- MODULE Signup -------------------------------
(***************************************************************************)
(* Registration and e-mail verification (signup and verifyEmail of         *)
(* apps/api/src/modules/auth/auth.service.ts, their routes and the signup  *)
(* page).                                                                  *)
(*                                                                         *)
(* A signup inserts its rows one statement at a time and without a         *)
(* transaction.  The addresses modelled are those of one local part, whose *)
(* workspaces compete for the slugs "name", "name-1", "name-2" and so on,  *)
(* here 0, 1, 2.                                                           *)
(***************************************************************************)
EXTENDS Naturals, FiniteSets

CONSTANTS
    Email,    \* e-mail addresses
    Request,  \* signup requests
    Click     \* visits to a verification link that can be in progress

ASSUME EmailAssumption == IsFiniteSet(Email) /\ "nobody" \notin Email

VARIABLES
    signup,    \* the requests
    rows,      \* the tables in which each address has its row
    slugs,     \* slugs of the workspaces
    token,     \* the verification token of each address
    verified,  \* addresses whose users.emailVerifiedAt is set
    click      \* what each visit has found: an address or "nobody"

signupVars == <<signup, rows, slugs, token, verified, click>>

Table == {"user", "workspace", "member", "project"}

SignupInit ==
    /\ signup = [r \in Request |-> [stage |-> "unused", email |-> "nobody", slug |-> 0]]
    /\ rows = [e \in Email |-> {}]
    /\ slugs = {}
    /\ token = [e \in Email |-> "none"]
    /\ verified = {}
    /\ click = [v \in Click |-> "nobody"]

Stage(r) == signup[r].stage
Address(r) == signup[r].email
Goes(r, stage) == signup' = [signup EXCEPT ![r].stage = stage]

-----------------------------------------------------------------------------
(* POST /v1/auth/signup.                                                   *)

\* The form is sent; another one may be under way in another tab.
Submit(r, e) ==
    /\ Stage(r) = "unused"
    /\ signup' = [signup EXCEPT ![r] = [stage |-> "check", email |-> e, slug |-> 0]]
    /\ UNCHANGED <<rows, slugs, token, verified, click>>

\* 409 for an address that has a user.
CheckAddress(r) ==
    /\ Stage(r) = "check"
    /\ Goes(r, IF "user" \in rows[Address(r)] THEN "taken" ELSE "user")
    /\ UNCHANGED <<rows, slugs, token, verified, click>>

Insert(r, table) == rows' = [rows EXCEPT ![Address(r)] = @ \union {table}]

\* Mutant of InsertUser: the token is made together with the user.
InsertUserAndToken(r) ==
    /\ Stage(r) = "user"
    /\ IF "user" \in rows[Address(r)]
       THEN Goes(r, "error") /\ UNCHANGED <<rows, token>>
       ELSE /\ Goes(r, "slug") /\ Insert(r, "user")
            /\ token' = [token EXCEPT ![Address(r)] = "mailed"]
    /\ UNCHANGED <<slugs, verified, click>>

\* users.email is unique: the second of two signups that both passed the
\* check is answered 500.
InsertUser(r) ==
    /\ Stage(r) = "user"
    /\ IF "user" \in rows[Address(r)]
       THEN Goes(r, "error") /\ UNCHANGED rows
       ELSE Goes(r, "slug") /\ Insert(r, "user")
    /\ UNCHANGED <<slugs, token, verified, click>>

\* Mutant of TrySlug: the counter is raised before the first candidate.
TrySlugFromOne(r) ==
    /\ Stage(r) = "slug"
    /\ signup' = [signup EXCEPT ![r].slug = @ + 1,
                    ![r].stage = IF signup[r].slug + 1 \in slugs THEN "slug" ELSE "workspace"]
    /\ UNCHANGED <<rows, slugs, token, verified, click>>

\* makeUniqueSlug: one SELECT for each candidate.
TrySlug(r) ==
    /\ Stage(r) = "slug"
    /\ IF signup[r].slug \in slugs
       THEN signup' = [signup EXCEPT ![r].slug = @ + 1]
       ELSE Goes(r, "workspace")
    /\ UNCHANGED <<rows, slugs, token, verified, click>>

\* workspaces.slug is unique: of two signups that found the same slug free the
\* second is answered 500, and its user stays without a workspace.
InsertWorkspace(r) ==
    /\ Stage(r) = "workspace"
    /\ IF signup[r].slug \in slugs
       THEN Goes(r, "error") /\ UNCHANGED <<rows, slugs>>
       ELSE /\ Goes(r, "member") /\ Insert(r, "workspace")
            /\ slugs' = slugs \union {signup[r].slug}
    /\ UNCHANGED <<token, verified, click>>

InsertMember(r) ==
    /\ Stage(r) = "member"
    /\ Goes(r, "project") /\ Insert(r, "member")
    /\ UNCHANGED <<slugs, token, verified, click>>

InsertProject(r) ==
    /\ Stage(r) = "project"
    /\ Goes(r, "token") /\ Insert(r, "project")
    /\ UNCHANGED <<slugs, token, verified, click>>

\* The answer is 201 whether or not the mail with the link is delivered.
InsertToken(r) ==
    /\ Stage(r) = "token"
    /\ Goes(r, "created")
    /\ \E t \in {"mailed", "unsent"} : token' = [token EXCEPT ![Address(r)] = t]
    /\ UNCHANGED <<rows, slugs, verified, click>>

\* A statement fails, or the process stops: what was inserted stays.
SignupFails(r) ==
    /\ Stage(r) \notin {"unused", "created", "taken", "error"}
    /\ Goes(r, "error")
    /\ UNCHANGED <<rows, slugs, token, verified, click>>

-----------------------------------------------------------------------------
(* GET /v1/auth/verify-email.                                              *)

\* The SELECT of a token that is neither used nor expired.  Any other link
\* leads to the login page with reason `invalid' (`expired' is for an error
\* that the service never throws) and changes nothing.
FindToken(v, e) ==
    /\ click[v] = "nobody"
    /\ token[e] = "mailed"
    /\ click' = [click EXCEPT ![v] = e]
    /\ UNCHANGED <<signup, rows, slugs, token, verified>>

\* The transaction: used, and verified.
MarkVerified(v) ==
    /\ click[v] # "nobody"
    /\ token' = [token EXCEPT ![click[v]] = "used"]
    /\ verified' = verified \union {click[v]}
    /\ click' = [click EXCEPT ![v] = "nobody"]
    /\ UNCHANGED <<signup, rows, slugs>>

\* The transaction fails; the login page calls the link invalid.
VerifyFails(v) ==
    /\ click[v] # "nobody"
    /\ click' = [click EXCEPT ![v] = "nobody"]
    /\ UNCHANGED <<signup, rows, slugs, token, verified>>

\* 24 hours pass.
TokenExpires(e) ==
    /\ token[e] \in {"mailed", "unsent"}
    /\ token' = [token EXCEPT ![e] = "expired"]
    /\ UNCHANGED <<signup, rows, slugs, verified, click>>

SignupNext ==
    \/ \E r \in Request : \/ \E e \in Email : Submit(r, e)
                          \/ CheckAddress(r) \/ InsertUser(r) \/ TrySlug(r)
                          \/ InsertWorkspace(r) \/ InsertMember(r)
                          \/ InsertProject(r) \/ InsertToken(r) \/ SignupFails(r)
    \/ \E v \in Click : \/ \E e \in Email : FindToken(v, e)
                        \/ MarkVerified(v) \/ VerifyFails(v)
    \/ \E e \in Email : TokenExpires(e)

-----------------------------------------------------------------------------
(* Properties.                                                             *)

SignupTypeOK ==
    /\ signup \in [Request -> [stage : Table \union {"unused", "check", "slug",
                                       "token", "created", "taken", "error"},
                               email : Email \union {"nobody"}, slug : Nat]]
    /\ rows \in [Email -> SUBSET Table]
    /\ slugs \subseteq Nat
    /\ token \in [Email -> {"none", "mailed", "unsent", "used", "expired"}]
    /\ verified \subseteq Email
    /\ click \in [Click -> Email \union {"nobody"}]

\* An address that can sign in has its workspace, its membership and its
\* project, whichever statements of whichever signups failed or raced: the
\* token is inserted last (auth.service.ts:61-104), so a login does not end
\* with "No workspace found for user" (auth.service.ts:197).
VerifiedIsWhole == \A e \in verified : rows[e] = Table
=============================================================================
