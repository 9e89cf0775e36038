--------------------------- MODULE PasswordReset ---------------------------
(***************************************************************************)
(* The password of the account of one email address, and the queue that    *)
(* mails links to replace it.                                              *)
(*                                                                         *)
(* Anybody may ask for a link.  A request is a row of a queue; the workers *)
(* of all instances claim rows, each under a lease of five minutes, store  *)
(* the link's token and mail it.  The token of a request is an HMAC of its *)
(* id, so every attempt of every worker at one request is about one and    *)
(* the same token.  Visitors follow links, sign in, out and up, and an     *)
(* operator deletes the account, after which the address may sign up       *)
(* again.  Each step is a statement; ResetPassword and account deletion    *)
(* hold row locks from one statement to the next, and PostgreSQL ends the  *)
(* deadlocks they can meet by failing one of the two.                      *)
(*                                                                         *)
(* There is no clock: a lease runs out and a link expires whenever they    *)
(* may, and how long a retry is put off is up to when it is claimed.       *)
(*                                                                         *)
(* A definition named Mutant... is no part of the model: it is the one     *)
(* after it with a slip of the kind a change to the code could make.       *)
(***************************************************************************)
EXTENDS Naturals, FiniteSets

CONSTANTS
  Requests,     \* ids of password_reset_requests
  Workers,      \* the worker goroutine of each instance
  Visitors,     \* people at a browser, each with one request in flight
  Operator,     \* whoever runs "passage account delete"
  MaxAttempts,  \* claims after which a failed delivery is given up: 5
  MaxAccounts,  \* bound: accounts the address has, one after the other
  MaxSessions,  \* bound: sessions there are when one more is asked for
  MaxSlips,     \* bound: leases outlived, workers and requests stopped halfway
  None          \* no request

Accounts == 1..MaxAccounts
NoAccount == 0
Transactions == Visitors \cup {Operator}

ASSUME NamesAssumption == None \notin Requests /\ Operator \notin Visitors
ASSUME BoundsAssumption == MaxAttempts \in Nat \ {0} /\ MaxAccounts \in Nat
                           /\ MaxSessions \in Nat /\ MaxSlips \in Nat

VARIABLES
  account,   \* the users row of the address
  born,      \* how many accounts the address has had
  password,  \* the link that set the password, None: the one of the sign-up
  sessions,  \* the sessions of the account
  queue,     \* password_reset_requests
  tokens,    \* password_reset_tokens, by the request they are made of
  worker,    \* what each worker is doing
  visitor,   \* what each visitor's request is doing
  deleting,  \* the operator's transaction holds the users row
  mails,     \* the links that have reached the mailbox
  refused,   \* the requests that met no account or a dead token
  slips

vars == <<account, born, password, sessions, queue, tokens, worker, visitor,
          deleting, mails, refused, slips>>

\* due, held: processed_at is NULL and the row is claimable, or claimed less
\* than five minutes ago.
QueueStates == {"absent", "due", "held", "done", "deleted"}
Pending == {"due", "held"}

NoToken == [of |-> NoAccount, state |-> "absent"]

\* overtaken is no column: a reset ended the sessions while this login ran.
Session == [password: Requests \cup {None}, overtaken: BOOLEAN]

IdleWorker == [at |-> "idle", request |-> None]
IdleVisitor == [at |-> "idle", of |-> NoAccount, link |-> None, overtaken |-> FALSE,
                doomed |-> {}]

Init ==
  /\ account = NoAccount
  /\ born = 0
  /\ password = None
  /\ sessions = {}
  /\ queue = [r \in Requests |-> [state |-> "absent", attempts |-> 0]]
  /\ tokens = [r \in Requests |-> NoToken]
  /\ worker = [w \in Workers |-> IdleWorker]
  /\ visitor = [v \in Visitors |-> IdleVisitor]
  /\ deleting = FALSE
  /\ mails = {}
  /\ refused = {}
  /\ slips = 0

queueVars == <<queue, worker, mails, refused, slips>>
accountVars == <<account, born, password, sessions, visitor, deleting>>

(***************************************************************************)
(* Row locks.                                                              *)
(***************************************************************************)

InReset == {"password", "sessions", "others"}

\* Whose transaction has updated the token, or the users row.
HoldsToken(t, r) == t \in Visitors /\ visitor[t].at \in InReset /\ visitor[t].link = r
HoldsUser(t) == \/ t \in Visitors /\ visitor[t].at \in {"sessions", "others"}
                \/ t = Operator /\ deleting

Unused(r) == tokens[r].of = account /\ tokens[r].state \in {"live", "expired"}

\* The transactions that the next statement of t waits for.
Blockers(t) ==
  {b \in Transactions \ {t} :
     \/ t \in Visitors /\ visitor[t].at = "token" /\ HoldsToken(b, visitor[t].link)
     \/ t \in Visitors /\ visitor[t].at = "password" /\ HoldsUser(b)
     \/ t \in Visitors /\ visitor[t].at = "others"
          /\ \E r \in Requests : Unused(r) /\ HoldsToken(b, r)
     \/ t = Operator /\ deleting /\ \E r \in Requests : HoldsToken(b, r)}

Deadlocked(t) ==
  \E S \in SUBSET Transactions :
    t \in S /\ \A x \in S : Blockers(x) \cap S # {}

(***************************************************************************)
(* The queue and its workers.                                              *)
(***************************************************************************)

\* A request within the limits becomes a row, whether or not there is an
\* account; the answer is the same.
RequestPasswordReset(r) ==
  /\ queue[r].state = "absent"
  /\ queue' = [queue EXCEPT ![r].state = "due"]
  /\ UNCHANGED <<accountVars, tokens, worker, mails, refused, slips>>

\* What ClaimPasswordResetRequest may pick.
Claimable(r) == queue[r].state = "due"

MutantClaimPasswordResetRequest(w, r) ==
  /\ worker[w].at = "idle"
  /\ Claimable(r)
  /\ queue' = [queue EXCEPT ![r].state = "held"]
  /\ worker' = [worker EXCEPT ![w] = [at |-> "token", request |-> r]]
  /\ UNCHANGED <<accountVars, tokens, mails, refused, slips>>

ClaimPasswordResetRequest(w, r) ==
  /\ worker[w].at = "idle"
  /\ Claimable(r)
  /\ queue' = [queue EXCEPT ![r] = [state |-> "held", attempts |-> @.attempts + 1]]
  /\ worker' = [worker EXCEPT ![w] = [at |-> "token", request |-> r]]
  /\ UNCHANGED <<accountVars, tokens, mails, refused, slips>>

\* A token that has been used or has expired is taken for valid.
MutantTokenStored(r) ==
  [tokens EXCEPT ![r] = [of |-> account, state |-> "live"]]

\* INSERT ... ON CONFLICT (token_hash) DO NOTHING: a used token stays.
TokenStored(r) ==
  [tokens EXCEPT ![r] = IF @.state = "absent" THEN [of |-> account, state |-> "live"]
                                              ELSE @]

\* CreatePasswordResetToken, with the users row locked while it runs.
CreatePasswordResetToken(w) ==
  LET r == worker[w].request
      stored == TokenStored(r)
      valid == account # NoAccount /\ stored[r] = [of |-> account, state |-> "live"] IN
  /\ worker[w].at = "token"
  /\ ~ \E t \in Transactions : HoldsUser(t)
  /\ tokens' = IF valid THEN stored ELSE tokens
  /\ worker' = [worker EXCEPT ![w].at = IF valid THEN "mail" ELSE "complete"]
  /\ refused' = IF valid THEN refused ELSE refused \cup {r}
  /\ UNCHANGED <<accountVars, queue, mails, slips>>

\* Resend accepts the mail.
SendPasswordReset(w) ==
  /\ worker[w].at = "mail"
  /\ mails' = mails \cup {worker[w].request}
  /\ worker' = [worker EXCEPT ![w].at = "complete"]
  /\ UNCHANGED <<accountVars, queue, tokens, refused, slips>>

\* The database or Resend fails; the mail may have gone out all the same.
MailFails(w) ==
  /\ worker[w].at \in {"token", "mail"}
  /\ \/ UNCHANGED mails
     \/ worker[w].at = "mail" /\ mails' = mails \cup {worker[w].request}
  /\ worker' = [worker EXCEPT ![w].at = "retry"]
  /\ UNCHANGED <<accountVars, queue, tokens, refused, slips>>

\* UPDATE ... WHERE id = $1 AND processed_at IS NULL, whoever holds the lease.
Closed(r) ==
  [queue EXCEPT ![r].state = IF @ \in Pending THEN "done" ELSE @]

MutantPutBack(r) ==
  [queue EXCEPT ![r].state = CASE @ \notin Pending -> @
                               [] OTHER -> IF queue[r].attempts > 0 THEN "done"
                                                                    ELSE "due"]

PutBack(r) ==
  [queue EXCEPT ![r].state =
     CASE @ \notin Pending -> @
       [] @ \in Pending /\ queue[r].attempts >= MaxAttempts -> "done"
       [] OTHER -> "due"]

\* The two ends of processPasswordResetRequest.
CompletePasswordResetRequest(w) ==
  /\ worker[w].at = "complete"
  /\ queue' = Closed(worker[w].request)
  /\ worker' = [worker EXCEPT ![w] = IdleWorker]
  /\ UNCHANGED <<accountVars, tokens, mails, refused, slips>>

RetryPasswordResetRequest(w) ==
  /\ worker[w].at = "retry"
  /\ queue' = PutBack(worker[w].request)
  /\ worker' = [worker EXCEPT ![w] = IdleWorker]
  /\ UNCHANGED <<accountVars, tokens, mails, refused, slips>>

\* The instance stops, or the last statement fails: the row stays claimed.
WorkerStops(w) ==
  /\ worker[w].at # "idle"
  /\ slips < MaxSlips
  /\ slips' = slips + 1
  /\ worker' = [worker EXCEPT ![w] = IdleWorker]
  /\ UNCHANGED <<accountVars, queue, tokens, mails, refused>>

\* Five minutes pass: the worker has stopped, or is still at it.
LeaseEnds(r) ==
  /\ queue[r].state = "held"
  /\ IF \E w \in Workers : worker[w].request = r
     THEN slips < MaxSlips /\ slips' = slips + 1
     ELSE UNCHANGED slips
  /\ queue' = [queue EXCEPT ![r].state = "due"]
  /\ UNCHANGED <<accountVars, tokens, worker, mails, refused>>

\* An hour after the claim that stored it.
LinkExpires(r) ==
  /\ tokens[r].state = "live"
  /\ tokens' = [tokens EXCEPT ![r].state = "expired"]
  /\ UNCHANGED <<accountVars, queueVars>>

(***************************************************************************)
(* Signing up, in and out.                                                 *)
(***************************************************************************)

Continue(v, step) == visitor' = [visitor EXCEPT ![v].at = step]

\* The handler is done, or has failed and its transaction is rolled back.
Leave(v) == visitor' = [visitor EXCEPT ![v] = IdleVisitor]

\* CreateUser; the session follows as a statement of its own.
Register(v) ==
  /\ visitor[v].at = "idle"
  /\ account = NoAccount
  /\ born < MaxAccounts
  /\ born' = born + 1
  /\ account' = born + 1
  /\ password' = None
  /\ visitor' = [visitor EXCEPT ![v].at = "session", ![v].of = born + 1,
                                ![v].link = None]
  /\ UNCHANGED <<sessions, tokens, deleting, queueVars>>

\* A reset has ended the sessions and not committed yet.
EndingSessions == \E v \in Visitors : visitor[v].at = "others"

\* FindUserByEmail, and the right password for the hash it finds.
Login(v) ==
  /\ visitor[v].at = "idle"
  /\ account # NoAccount
  /\ Cardinality(sessions) < MaxSessions
  /\ visitor' = [visitor EXCEPT ![v].at = "session", ![v].of = account,
                                ![v].link = password, ![v].overtaken = EndingSessions]
  /\ UNCHANGED <<account, born, password, sessions, deleting, tokens, queueVars>>

\* INSERT INTO sessions: the foreign key waits for a deletion, and fails if
\* the account is gone.
CreateSession(v) ==
  LET me == visitor[v] IN
  /\ me.at = "session"
  /\ ~deleting
  /\ sessions' = IF me.of # account THEN sessions
                 ELSE sessions \cup {[password |-> me.link, overtaken |-> me.overtaken]}
  /\ Leave(v)
  /\ UNCHANGED <<account, born, password, deleting, tokens, queueVars>>

Logout(s) ==
  /\ s \in sessions
  /\ sessions' = sessions \ {s}
  /\ UNCHANGED <<account, born, password, visitor, deleting, tokens, queueVars>>

(***************************************************************************)
(* Following a link.                                                       *)
(***************************************************************************)

TokenValid(r) == tokens[r].state = "live"

\* The handler looks at the token before it hashes the password.
ResetPassword(v, r) ==
  /\ visitor[v].at = "idle"
  /\ r \in mails
  /\ TokenValid(r)
  /\ visitor' = [visitor EXCEPT ![v].at = "token", ![v].link = r]
  /\ UNCHANGED <<account, born, password, sessions, deleting, tokens, queueVars>>

MutantUseToken(v) ==
  /\ visitor[v].at = "token"
  /\ Blockers(v) = {}
  /\ tokens[visitor[v].link].of # NoAccount
  /\ Continue(v, "password")
  /\ UNCHANGED <<account, born, password, sessions, deleting, tokens, queueVars>>

\* UPDATE password_reset_tokens ... WHERE used_at IS NULL AND expires_at > now,
\* once more in the transaction; the row is locked from here on.
UseToken(v) ==
  /\ visitor[v].at = "token"
  /\ Blockers(v) = {}
  /\ IF TokenValid(visitor[v].link)
     THEN Continue(v, "password")
     ELSE Leave(v)
  /\ UNCHANGED <<account, born, password, sessions, deleting, tokens, queueVars>>

\* UPDATE users
SetPassword(v) ==
  /\ visitor[v].at = "password"
  /\ Blockers(v) = {}
  /\ Continue(v, "sessions")
  /\ UNCHANGED <<account, born, password, sessions, deleting, tokens, queueVars>>

MutantEndSessions(v) ==
  /\ visitor[v].at = "sessions"
  /\ visitor' = [visitor EXCEPT ![v].at = "others",
                   ![v].doomed = {s \in sessions : s.password = None}]
  /\ UNCHANGED <<account, born, password, sessions, deleting, tokens, queueVars>>

\* DELETE FROM sessions: the ones there are now.  Logins in flight are marked.
EndSessions(v) ==
  /\ visitor[v].at = "sessions"
  /\ visitor' = [x \in Visitors |->
       IF x = v THEN [visitor[x] EXCEPT !.at = "others", !.doomed = sessions]
       ELSE [visitor[x] EXCEPT !.overtaken = @ \/ visitor[x].at = "session"]]
  /\ UNCHANGED <<account, born, password, sessions, deleting, tokens, queueVars>>

MutantUseOtherTokens(v) ==
  /\ visitor[v].at = "others"
  /\ Blockers(v) = {}
  /\ password' = visitor[v].link
  /\ sessions' = sessions \ visitor[v].doomed
  /\ tokens' = [tokens EXCEPT ![visitor[v].link].state = "used"]
  /\ Leave(v)
  /\ UNCHANGED <<account, born, deleting, queueVars>>

\* Every other token of the account, and the commit.
UseOtherTokens(v) ==
  /\ visitor[v].at = "others"
  /\ Blockers(v) = {}
  /\ password' = visitor[v].link
  /\ sessions' = sessions \ visitor[v].doomed
  /\ tokens' = [r \in Requests |->
       IF Unused(r) THEN [tokens[r] EXCEPT !.state = "used"] ELSE tokens[r]]
  /\ Leave(v)
  /\ UNCHANGED <<account, born, deleting, queueVars>>

\* A statement fails or the visitor leaves; or PostgreSQL ends a deadlock.
Slip == slips < MaxSlips /\ slips' = slips + 1

VisitorFails(v) ==
  /\ visitor[v].at # "idle"
  /\ Slip \/ (Deadlocked(v) /\ UNCHANGED slips)
  /\ Leave(v)
  /\ UNCHANGED <<account, born, password, sessions, deleting, tokens, queue, worker,
                 mails, refused>>

(***************************************************************************)
(* Deleting the account.                                                   *)
(***************************************************************************)

\* SELECT ... FOR UPDATE OF users
BeginDelete ==
  /\ account # NoAccount
  /\ ~ \E t \in Transactions : HoldsUser(t)
  /\ deleting' = TRUE
  /\ UNCHANGED <<account, born, password, sessions, visitor, tokens, queueVars>>

MutantDelete ==
  /\ deleting
  /\ Blockers(Operator) = {}
  /\ deleting' = FALSE
  /\ account' = NoAccount
  /\ password' = None
  /\ sessions' = {}
  /\ queue' = [r \in Requests |->
       [queue[r] EXCEPT !.state = IF @ = "absent" THEN @ ELSE "deleted"]]
  /\ UNCHANGED <<born, visitor, tokens, worker, mails, refused, slips>>

\* DELETE FROM password_reset_requests and users, sessions and tokens with it.
Delete ==
  /\ deleting
  /\ Blockers(Operator) = {}
  /\ deleting' = FALSE
  /\ account' = NoAccount
  /\ password' = None
  /\ sessions' = {}
  /\ tokens' = [r \in Requests |-> NoToken]
  /\ queue' = [r \in Requests |->
       [queue[r] EXCEPT !.state = IF @ = "absent" THEN @ ELSE "deleted"]]
  /\ UNCHANGED <<born, visitor, worker, mails, refused, slips>>

DeleteFails ==
  /\ deleting
  /\ Slip \/ (Deadlocked(Operator) /\ UNCHANGED slips)
  /\ deleting' = FALSE
  /\ UNCHANGED <<account, born, password, sessions, visitor, tokens, queue, worker,
                 mails, refused>>

-----------------------------------------------------------------------------

Work(w) == \/ \E r \in Requests : ClaimPasswordResetRequest(w, r)
           \/ CreatePasswordResetToken(w)
           \/ SendPasswordReset(w)
           \/ MailFails(w)
           \/ CompletePasswordResetRequest(w)
           \/ RetryPasswordResetRequest(w)
           \/ WorkerStops(w)

TimePasses == \E r \in Requests : LeaseEnds(r) \/ LinkExpires(r)

Visit(v) == \/ Register(v)
            \/ Login(v)
            \/ CreateSession(v)
            \/ \E r \in Requests : ResetPassword(v, r)
            \/ UseToken(v)
            \/ SetPassword(v)
            \/ EndSessions(v)
            \/ UseOtherTokens(v)
            \/ VisitorFails(v)

Next == \/ \E r \in Requests : RequestPasswordReset(r)
        \/ \E w \in Workers : Work(w)
        \/ TimePasses
        \/ \E v \in Visitors : Visit(v)
        \/ \E s \in sessions : Logout(s)
        \/ BeginDelete
        \/ Delete
        \/ DeleteFails

Spec == Init /\ [][Next]_vars

\* Workers run in a loop on every instance, time passes, and PostgreSQL serves
\* those who wait for a row in turn and ends every deadlock.
Fairness ==
  /\ \A w \in Workers :
       /\ \A r \in Requests : WF_vars(ClaimPasswordResetRequest(w, r))
       /\ SF_vars(\/ CreatePasswordResetToken(w) \/ SendPasswordReset(w)
                  \/ CompletePasswordResetRequest(w) \/ RetryPasswordResetRequest(w))
  /\ \A r \in Requests : WF_vars(LeaseEnds(r))
  /\ \A v \in Visitors :
       /\ SF_vars(\/ CreateSession(v) \/ UseToken(v) \/ SetPassword(v)
                  \/ EndSessions(v) \/ UseOtherTokens(v))
       /\ SF_vars(Deadlocked(v) /\ VisitorFails(v))
  /\ SF_vars(Delete)
  /\ SF_vars(Deadlocked(Operator) /\ DeleteFails)

FairSpec == Spec /\ Fairness

(***************************************************************************)
(* Correctness.                                                            *)
(***************************************************************************)

TypeOK ==
  /\ account \in Accounts \cup {NoAccount}
  /\ born \in 0..MaxAccounts
  /\ password \in Requests \cup {None}
  /\ sessions \subseteq Session
  /\ queue \in [Requests -> [state: QueueStates, attempts: Nat]]
  /\ tokens \in [Requests -> [of: Accounts \cup {NoAccount},
                              state: {"absent", "live", "expired", "used"}]]
  /\ \A r \in Requests : tokens[r].of \in {NoAccount, account}
  /\ worker \in [Workers -> [at: {"idle", "token", "mail", "complete", "retry"},
                             request: Requests \cup {None}]]
  /\ visitor \in [Visitors ->
       [at: {"idle", "session", "token"} \cup InReset, of: Accounts \cup {NoAccount},
        link: Requests \cup {None}, overtaken: BOOLEAN, doomed: SUBSET Session]]
  /\ deleting \in BOOLEAN
  /\ mails \subseteq Requests
  /\ refused \subseteq Requests
  /\ slips \in Nat

\* The password on record was set by a link of this very account that was
\* mailed and is spent; what was not mailed, or belonged to an account that is
\* gone, sets no password.
PasswordByLink ==
  password # None => /\ password \in mails
                     /\ tokens[password] = [of |-> account, state |-> "used"]

\* "To prevent reviving a used credential": while the account lives, a spent
\* link stays spent, whatever worker comes back to its request.
UsedLinksStayUsed ==
  [][\A r \in Requests :
       tokens[r].state = "used" /\ account' = account => tokens'[r] = tokens[r]]_vars

\* A link sets one password, however many visitors follow it at once, and leaves
\* no link behind that could replace it, whenever that link was stored.
ResetSpendsEveryLink ==
  [][password' \notin {None, password} =>
       /\ tokens[password'].state \in {"live", "expired"}
       /\ \A r \in Requests : tokens'[r].state \in {"absent", "used"}]_vars

\* A session opened with a password that has been replaced belongs to a login
\* that ran while the reset did.
ResetEndsSessions ==
  \A s \in sessions : account # NoAccount /\ (s.password = password \/ s.overtaken)

\* A request is closed without a mail only if there was nobody to mail or
\* nothing to mail, or after MaxAttempts attempts.
ClosedMeansMailed ==
  \A r \in Requests : queue[r].state = "done" =>
    r \in mails \cup refused \/ queue[r].attempts >= MaxAttempts

\* No request stays in the queue, although leases lapse, workers stop and
\* deliveries fail.
RequestsAreServed ==
  \A r \in Requests : queue[r].state \in Pending ~> queue[r].state \notin Pending

\* What lets it leave: however often its workers fail, stop or outlive their leases, a
\* request is claimed at most MaxAttempts times, and once more for every slip.
ClaimsAreCounted ==
  \A r \in Requests : queue[r].attempts <= MaxAttempts + slips

\* Whether a link can set the password: none before it is stored, and none after
\* a reset.  When it expires is left out.
LinkStates == [absent |-> "none", live |-> "usable", expired |-> "usable", used |-> "spent"]
Links == [r \in Requests |-> LinkStates[tokens[r].state]]

C == INSTANCE Credentials WITH links <- Links

\* The queue, its workers, and the resets and deletions with their statements, locks
\* and failures, do to the credentials what Credentials does in one step each.
ImplementsCredentials == C!Spec

=============================================================================
