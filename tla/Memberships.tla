----------------------------- MODULE Memberships -----------------------------
(***************************************************************************)
(* Referrals, community grants, administrators' overrides and what they    *)
(* entitle an account to while its requests run.                           *)
(*                                                                         *)
(* A referral has one current code, which administrators rotate; signing   *)
(* up with it makes an account with a community grant, in a transaction    *)
(* that locks the referral's row.  The code is checked before the password *)
(* is hashed and again under the lock.  Every request works its            *)
(* entitlement out anew from the billing row, the grant and the email      *)
(* address; the limit on documents comes from that reading, the number of  *)
(* documents is counted once more with the account's row locked.           *)
(*                                                                         *)
(* Accounts are not deleted here (see AccountDeletion) and stay signed in  *)
(* (see PasswordReset); what is written to documents is in DocumentStore.  *)
(* A client is a browser or an agent with one request in flight.           *)
(*                                                                         *)
(* A definition named Mutant... is no part of the model: it is the one     *)
(* after it with a slip of the kind a change to the code could make.       *)
(***************************************************************************)
EXTENDS Naturals, FiniteSets

CONSTANTS
  Emails,     \* addresses, each with at most one account
  Owners,     \* PASSAGE_OWNER_EMAILS
  Referrals,  \* slugs
  Tokens,     \* API tokens
  Clients,    \* requests in flight
  FreeLimit,  \* documents of a Free account
  ProLimit,   \* documents of a Pro account
  Limits,     \* limits that administrators set
  MaxCodes,   \* bound: codes drawn
  MaxEdits,   \* bound: overrides, revocations and changes of subscriptions
  None

ASSUME EmailsAssumption == Owners \subseteq Emails /\ None \notin Emails
ASSUME LimitsAssumption == {FreeLimit, ProLimit} \cup Limits \subseteq Nat
ASSUME NoneAssumption == None \notin Nat \cup Tokens
ASSUME BoundsAssumption == MaxCodes \in Nat /\ MaxEdits \in Nat

Codes == 1..MaxCodes

VARIABLES
  users,     \* the addresses with an account
  ent,       \* billing_accounts and community_grants, by address
  referral,  \* community_referrals
  codes,     \* how many codes have been drawn
  token,     \* api_tokens
  saved,     \* unarchived documents of each account
  proc,      \* what each client's request is doing
  best,      \* history: the most the account was entitled to since it began
  edits

rows == <<users, ent, referral, codes, token, saved>>
vars == <<rows, proc, best, edits>>

Entitlement == [manual: {"none", "free", "pro"}, limit: Limits \cup {None},
                grant: {"none", "live", "revoked"}, paid: BOOLEAN]

Default == [manual |-> "none", limit |-> None, grant |-> "none", paid |-> FALSE]

\* kind: "signup", "create" (a document, by session), "agent" (a document, by
\* token) or "token" (an API token, by session).
Idle == [at |-> "idle", kind |-> "none", email |-> None, referral |-> None, code |-> 0,
         token |-> None, limit |-> 0, usage |-> 0]

Init ==
  /\ users = {}
  /\ ent = [e \in Emails |-> Default]
  /\ referral = [r \in Referrals |-> [state |-> "absent", code |-> 0]]
  /\ codes = 0
  /\ token = [t \in Tokens |-> [of |-> None, state |-> "absent"]]
  /\ saved = [e \in Emails |-> 0]
  /\ proc = [c \in Clients |-> Idle]
  /\ best = [c \in Clients |-> [pro |-> FALSE, limit |-> 0]]
  /\ edits = 0

At(c, step) == proc[c].at = step
Goto(c, step) == proc' = [proc EXCEPT ![c].at = step]
End(c) == proc' = [proc EXCEPT ![c] = Idle]
Begin(c, request) == At(c, "idle") /\ proc' = [proc EXCEPT ![c] = request]

(***************************************************************************)
(* Plans.                                                                  *)
(***************************************************************************)

IsAdmin(e) == e \in Owners

\* accountFromState: an override comes first, then owners, members, customers.
Plan(e, state) ==
  IF state.manual # "none" THEN state.manual
  ELSE IF IsAdmin(e) \/ state.grant = "live" \/ state.paid THEN "pro" ELSE "free"

LimitOf(e, state) ==
  IF state.limit # None THEN state.limit
  ELSE IF Plan(e, state) = "pro" THEN ProLimit ELSE FreeLimit

(***************************************************************************)
(* Referrals and administrators.                                           *)
(***************************************************************************)

\* FindActiveReferral, and the query of Redeem
ActiveReferral(r, code) == referral[r] = [state |-> "active", code |-> code]

MutantShared(r) == FALSE

\* A signup holds the referral's row FOR SHARE: updates of it wait.
Shared(r) == \E c \in Clients : proc[c].at \in {"insert", "commit"} /\ proc[c].referral = r

\* An owner who has an account, at the admin page.
Administered == users \cap Owners # {}

NewCode == codes < MaxCodes /\ codes' = codes + 1

\* By an administrator or at the command line; a slug is taken for good.
CreateReferral(r) ==
  /\ referral[r].state = "absent"
  /\ NewCode
  /\ referral' = [referral EXCEPT ![r] = [state |-> "active", code |-> codes + 1]]
  /\ UNCHANGED <<users, ent, token, saved, proc, edits>>

RotateReferral(r) ==
  /\ Administered
  /\ referral[r].state = "active"
  /\ ~Shared(r)
  /\ NewCode
  /\ referral' = [referral EXCEPT ![r].code = codes + 1]
  /\ UNCHANGED <<users, ent, token, saved, proc, edits>>

\* By id or, at the command line, by slug.
DisableReferral(r) ==
  /\ referral[r].state = "active"
  /\ ~Shared(r)
  /\ referral' = [referral EXCEPT ![r].state = "disabled"]
  /\ UNCHANGED <<users, ent, codes, token, saved, proc, edits>>

MutantEdit(e, state) ==
  /\ edits < MaxEdits
  /\ edits' = edits + 1
  /\ ent' = [ent EXCEPT ![e] = state]
  /\ UNCHANGED <<users, referral, codes, token, saved, proc>>

\* A row that refers to the account.
Edit(e, state) ==
  /\ e \in users
  /\ edits < MaxEdits
  /\ edits' = edits + 1
  /\ ent' = [ent EXCEPT ![e] = state]
  /\ UNCHANGED <<users, referral, codes, token, saved, proc>>

\* The reason stays with the row, and so does the row.
RevokeGrant(e) ==
  ent[e].grant = "live" /\ Edit(e, [ent[e] EXCEPT !.grant = "revoked"])

\* UpdateAdminOverride: plan and limit are both replaced, by null if not given.
UpdateOverride(e, plan, limit) ==
  Administered /\ Edit(e, [ent[e] EXCEPT !.manual = plan, !.limit = limit])

\* A refresh of the subscription has stored its status (see StripeRefresh).
UpdateSubscription(e) == Edit(e, [ent[e] EXCEPT !.paid = ~@])

(***************************************************************************)
(* Signing up.                                                             *)
(***************************************************************************)

\* A transaction has inserted the users row of e and not yet committed: others
\* that insert it wait.
Inserting(e) == \E c \in Clients : At(c, "commit") /\ proc[c].email = e

\* Public signup, or "passage user".
Register(e) ==
  /\ e \notin users
  /\ ~Inserting(e)
  /\ users' = users \cup {e}
  /\ UNCHANGED <<ent, referral, codes, token, saved, proc, edits>>

\* Service.Redeem validates the code before it hashes the password.
Redeem(c, e, r, code) ==
  /\ ActiveReferral(r, code)
  /\ Begin(c, [Idle EXCEPT !.at = "lock", !.kind = "signup", !.email = e,
                           !.referral = r, !.code = code])
  /\ UNCHANGED <<rows, edits>>

\* SELECT ... FOR SHARE: once more, for the code may have been rotated.
LockReferral(c) ==
  /\ At(c, "lock")
  /\ IF ActiveReferral(proc[c].referral, proc[c].code) THEN Goto(c, "insert") ELSE End(c)
  /\ UNCHANGED <<rows, edits>>

\* INSERT INTO users: the address may be taken.
InsertUser(c) ==
  /\ At(c, "insert")
  /\ ~Inserting(proc[c].email)
  /\ IF proc[c].email \in users THEN End(c) ELSE Goto(c, "commit")
  /\ UNCHANGED <<rows, edits>>

\* The session, the grant and the commit.
CommitSignup(c) ==
  LET e == proc[c].email IN
  /\ At(c, "commit")
  /\ users' = users \cup {e}
  /\ ent' = [ent EXCEPT ![e].grant = "live"]
  /\ End(c)
  /\ UNCHANGED <<referral, codes, token, saved, edits>>

(***************************************************************************)
(* Documents and API tokens.                                               *)
(***************************************************************************)

\* requireUserForDocs: the session of the account.
BeginCreate(c, e) ==
  /\ e \in users
  /\ Begin(c, [Idle EXCEPT !.at = "account", !.kind = "create", !.email = e])
  /\ UNCHANGED <<rows, edits>>

\* createAPIToken
BeginToken(c, e) ==
  /\ e \in users
  /\ Begin(c, [Idle EXCEPT !.at = "pro", !.kind = "token", !.email = e])
  /\ UNCHANGED <<rows, edits>>

\* FindActorByAPITokenHash: an agent, at the API or the MCP endpoint.
BeginAgent(c, t) ==
  /\ token[t].state = "live"
  /\ Begin(c, [Idle EXCEPT !.at = "pro", !.kind = "agent", !.email = token[t].of,
                           !.token = t])
  /\ UNCHANGED <<rows, edits>>

MutantEnsurePro(c) ==
  /\ At(c, "pro")
  /\ IF proc[c].kind = "token" /\ Plan(proc[c].email, ent[proc[c].email]) # "pro"
     THEN End(c)
     ELSE Goto(c, IF proc[c].kind = "token" THEN "insert token" ELSE "account")
  /\ UNCHANGED <<rows, edits>>

\* requirePro
EnsurePro(c) ==
  /\ At(c, "pro")
  /\ IF Plan(proc[c].email, ent[proc[c].email]) # "pro" THEN End(c)
     ELSE Goto(c, IF proc[c].kind = "token" THEN "insert token" ELSE "account")
  /\ UNCHANGED <<rows, edits>>

\* Account reads the state, then counts the documents.
ReadState(c) ==
  /\ At(c, "account")
  /\ proc' = [proc EXCEPT ![c].at = "count",
                          ![c].limit = LimitOf(proc[c].email, ent[proc[c].email])]
  /\ UNCHANGED <<rows, edits>>

CountSavedDocs(c) ==
  /\ At(c, "count")
  /\ proc' = [proc EXCEPT ![c].at = "insert document", ![c].usage = saved[proc[c].email]]
  /\ UNCHANGED <<rows, edits>>

\* The usage that the account was read with decides.
MutantCreateDocument(c) ==
  LET e == proc[c].email IN
  /\ At(c, "insert document")
  /\ saved' = IF proc[c].usage < proc[c].limit THEN [saved EXCEPT ![e] = @ + 1] ELSE saved
  /\ End(c)
  /\ UNCHANGED <<users, ent, referral, codes, token, edits>>

\* With the account's row locked and the documents counted again.
CreateDocument(c) ==
  LET e == proc[c].email IN
  /\ At(c, "insert document")
  /\ saved' = IF saved[e] < proc[c].limit THEN [saved EXCEPT ![e] = @ + 1] ELSE saved
  /\ End(c)
  /\ UNCHANGED <<users, ent, referral, codes, token, edits>>

ArchiveDocument(e) ==
  /\ saved[e] > 0
  /\ saved' = [saved EXCEPT ![e] = @ - 1]
  /\ UNCHANGED <<users, ent, referral, codes, token, proc, edits>>

CreateAPIToken(c, t) ==
  /\ At(c, "insert token")
  /\ token[t].state = "absent"
  /\ token' = [token EXCEPT ![t] = [of |-> proc[c].email, state |-> "live"]]
  /\ End(c)
  /\ UNCHANGED <<users, ent, referral, codes, saved, edits>>

RevokeAPIToken(t) ==
  /\ token[t].state = "live"
  /\ token' = [token EXCEPT ![t].state = "revoked"]
  /\ UNCHANGED <<users, ent, referral, codes, saved, proc, edits>>

\* A statement fails, or the client leaves: a transaction is rolled back.
RequestFails(c) ==
  /\ ~At(c, "idle")
  /\ End(c)
  /\ UNCHANGED <<rows, edits>>

-----------------------------------------------------------------------------

Signup(c) == \/ \E e \in Emails, r \in Referrals, code \in Codes : Redeem(c, e, r, code)
             \/ LockReferral(c)
             \/ InsertUser(c)
             \/ CommitSignup(c)

Request(c) == \/ \E e \in Emails : BeginCreate(c, e) \/ BeginToken(c, e)
              \/ \E t \in Tokens : BeginAgent(c, t) \/ CreateAPIToken(c, t)
              \/ EnsurePro(c)
              \/ ReadState(c)
              \/ CountSavedDocs(c)
              \/ CreateDocument(c)

Administer == \/ \E r \in Referrals : \/ CreateReferral(r)
                                      \/ RotateReferral(r)
                                      \/ DisableReferral(r)
              \/ \E e \in Emails : \/ RevokeGrant(e)
                                   \/ \E plan \in {"none", "free", "pro"},
                                         limit \in Limits \cup {None} :
                                        UpdateOverride(e, plan, limit)

Step == \/ \E c \in Clients : Signup(c) \/ Request(c) \/ RequestFails(c)
        \/ Administer
        \/ \E e \in Emails : Register(e) \/ UpdateSubscription(e) \/ ArchiveDocument(e)
        \/ \E t \in Tokens : RevokeAPIToken(t)

Nothing == [pro |-> FALSE, limit |-> 0]

\* The history of a request: what its account was entitled to in each state.
Watched(c, e, state) ==
  [pro |-> best[c].pro \/ Plan(e, state) = "pro",
   limit |-> IF LimitOf(e, state) > best[c].limit THEN LimitOf(e, state) ELSE best[c].limit]

Watch ==
  best' = [c \in Clients |->
             IF proc'[c].kind \in {"none", "signup"} THEN Nothing
             ELSE Watched(c, proc'[c].email, ent'[proc'[c].email])]

Next == Step /\ Watch

Spec == Init /\ [][Next]_vars

(***************************************************************************)
(* Correctness.                                                            *)
(***************************************************************************)

TypeOK ==
  /\ users \subseteq Emails
  /\ ent \in [Emails -> Entitlement]
  /\ \A e \in Emails : ent[e] # Default => e \in users
  /\ referral \in [Referrals -> [state: {"absent", "active", "disabled"},
                                 code: Codes \cup {0}]]
  /\ codes \in 0..MaxCodes
  /\ token \in [Tokens -> [of: users \cup {None}, state: {"absent", "live", "revoked"}]]
  /\ saved \in [Emails -> Nat]
  /\ proc \in [Clients ->
       [at: {"idle", "lock", "insert", "commit", "pro", "account", "count",
             "insert document", "insert token"},
        kind: {"none", "signup", "create", "agent", "token"},
        email: Emails \cup {None}, referral: Referrals \cup {None}, code: Codes \cup {0},
        token: Tokens \cup {None}, limit: Nat, usage: Nat]]
  /\ best \in [Clients -> [pro: BOOLEAN, limit: Nat]]
  /\ edits \in 0..MaxEdits

\* A grant goes to an account made with it, and for the code that is current
\* when the account appears: neither a rotated code nor a disabled referral
\* makes a member any more, however long the password took to hash, and an
\* account that exists is not given, or given back, a grant.
GrantsNeedTheCode ==
  [][\A e \in Emails : ent'[e].grant = "live" /\ ent[e].grant # "live" =>
       /\ e \notin users
       /\ \E c \in Clients : proc[c].email = e /\ ActiveReferral(proc[c].referral, proc[c].code)]_vars

\* A request is given what its account was entitled to at some moment while it
\* ran: an API token, or a write by an agent, if it was Pro, and no document
\* beyond its highest limit.  When a plan is lost or a limit lowered, only
\* requests that were under way can still miss it.
ServedWithinPlan ==
  [][\A c \in Clients :
       LET e == proc[c].email IN
       proc'[c] # proc[c] /\ (token' # token \/ saved' # saved) =>
         /\ proc[c].kind \in {"token", "agent"} => best[c].pro
         /\ saved'[e] > saved[e] => saved'[e] <= best[c].limit]_vars

=============================================================================
