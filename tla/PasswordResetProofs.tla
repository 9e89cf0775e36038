------------------------ MODULE PasswordResetProofs ------------------------
(***************************************************************************)
(* Proofs about PasswordReset, for every number of requests, workers,      *)
(* visitors and accounts, and every bound on what may go wrong.            *)
(***************************************************************************)
EXTENDS PasswordReset, TLAPS

-----------------------------------------------------------------------------
(* The inductive invariant.                                                *)

\* What the row of a visitor is.
VisitorType ==
  [at: {"idle", "session", "token"} \cup InReset, of: Accounts \cup {NoAccount},
   link: Requests \cup {None}, overtaken: BOOLEAN, doomed: SUBSET Session]

WorkerType ==
  [at: {"idle", "token", "mail", "complete", "retry"}, request: Requests \cup {None}]

TokenType == [of: Accounts \cup {NoAccount}, state: {"absent", "live", "expired", "used"}]

QueueType == [state: QueueStates, attempts: Nat]

\* TypeOK, with its records named.
Types ==
  /\ account \in Accounts \cup {NoAccount}
  /\ born \in 0..MaxAccounts
  /\ password \in Requests \cup {None}
  /\ sessions \subseteq Session
  /\ queue \in [Requests -> QueueType]
  /\ tokens \in [Requests -> TokenType]
  /\ \A r \in Requests : tokens[r].of \in {NoAccount, account}
  /\ worker \in [Workers -> WorkerType]
  /\ visitor \in [Visitors -> VisitorType]
  /\ deleting \in BOOLEAN
  /\ mails \subseteq Requests
  /\ refused \subseteq Requests
  /\ slips \in Nat

\* A token is of the account there is.
TokensInv ==
  \A r \in Requests : tokens[r].state # "absent" => tokens[r].of # NoAccount

\* A visitor has a link that was mailed, and a reset holds an unused token: no
\* other reset and no deletion can have spent or removed it.
Following(v) == visitor[v].at \in {"token"} \cup InReset

LinksInv ==
  \A v \in Visitors :
    /\ Following(v) => visitor[v].link \in mails
    /\ visitor[v].at \in InReset => Unused(visitor[v].link)

\* A login for the account there is knows its password, or is overtaken.
LoginInv(v) ==
  visitor[v].at = "session" =>
    /\ visitor[v].of \in 1..born
    /\ visitor[v].of = account => visitor[v].link = password \/ visitor[v].overtaken

\* Once a reset has ended the sessions, whatever it will not remove is overtaken.
EndedInv(v) ==
  visitor[v].at = "others" =>
    /\ \A s \in sessions : s \in visitor[v].doomed \/ s.overtaken
    /\ \A u \in Visitors :
         visitor[u].at = "session" /\ visitor[u].of = account => visitor[u].overtaken

SessionsInv ==
  /\ ResetEndsSessions
  /\ account <= born
  /\ \A v \in Visitors : LoginInv(v) /\ EndedInv(v)

\* Who completes a request has mailed it or has found nothing to mail.
WorkersInv ==
  \A w \in Workers :
    /\ worker[w].at # "idle" => worker[w].request \in Requests
    /\ worker[w].at = "complete" => worker[w].request \in mails \cup refused

ResetInv ==
  /\ Types
  /\ TokensInv
  /\ LinksInv
  /\ PasswordByLink
  /\ SessionsInv
  /\ WorkersInv
  /\ ClosedMeansMailed

-----------------------------------------------------------------------------
(* Types.                                                                  *)

LEMMA TypesAreTypeOK == Types <=> TypeOK
  BY Zenon DEF Types, TypeOK, QueueType, TokenType, WorkerType, VisitorType

LEMMA InitInv == Init => ResetInv
  <1> SUFFICES ASSUME Init PROVE ResetInv
    OBVIOUS
  <1>1. Types
    <2>1. /\ queue \in [Requests -> QueueType]
          /\ tokens \in [Requests -> TokenType]
          /\ \A r \in Requests : tokens[r].of \in {NoAccount, account}
      BY DEF Init, QueueType, TokenType, QueueStates, NoToken
    <2>2. /\ worker \in [Workers -> WorkerType]
          /\ visitor \in [Visitors -> VisitorType]
      BY DEF Init, WorkerType, VisitorType, IdleWorker, IdleVisitor
    <2>3. born \in 0..MaxAccounts /\ slips \in Nat
      BY BoundsAssumption DEF BoundsAssumption, Init
    <2>4. /\ account \in Accounts \cup {NoAccount}
          /\ password \in Requests \cup {None}
          /\ deleting \in BOOLEAN
      BY DEF Init
    <2>5. /\ sessions \subseteq Session
          /\ mails \subseteq Requests
          /\ refused \subseteq Requests
      BY DEF Init
    <2> QED BY <2>1, <2>2, <2>3, <2>4, <2>5 DEF Types
  <1>2. TokensInv /\ PasswordByLink /\ ClosedMeansMailed
    BY DEF Init, TokensInv, NoToken, PasswordByLink, ClosedMeansMailed
  <1>3. LinksInv /\ WorkersInv
    BY DEF Init, LinksInv, Following, InReset, WorkersInv, IdleVisitor, IdleWorker
  <1>4. SessionsInv
    BY DEF Init, SessionsInv, ResetEndsSessions, LoginInv, EndedInv, IdleVisitor, NoAccount
  <1> QED BY <1>1, <1>2, <1>3, <1>4 DEF ResetInv

-----------------------------------------------------------------------------
(* The queue and its workers.                                              *)

\* What no step of the queue touches.
LEMMA QueueSteps ==
  ASSUME ResetInv, UNCHANGED accountVars, UNCHANGED tokens, mails \subseteq mails'
  PROVE  TokensInv' /\ LinksInv' /\ PasswordByLink' /\ SessionsInv'
  <1>1. TokensInv'
    BY DEF ResetInv, TokensInv
  <1>2. LinksInv'
    BY DEF ResetInv, LinksInv, Following, Unused, accountVars
  <1>3. PasswordByLink'
    BY DEF ResetInv, PasswordByLink, accountVars
  <1>4. SessionsInv'
    BY DEF ResetInv, SessionsInv, ResetEndsSessions, LoginInv, EndedInv, accountVars
  <1> QED BY <1>1, <1>2, <1>3, <1>4

LEMMA RequestKeepsInv ==
  ASSUME ResetInv, NEW r \in Requests, RequestPasswordReset(r)
  PROVE  ResetInv'
  <1>1. Types'
    BY DEF ResetInv, Types, RequestPasswordReset, accountVars, QueueType, QueueStates
  <1>2. WorkersInv'
    BY DEF ResetInv, WorkersInv, RequestPasswordReset
  <1>3. ClosedMeansMailed'
    BY DEF ResetInv, ClosedMeansMailed, Types, QueueType, RequestPasswordReset
  <1> QED BY <1>1, <1>2, <1>3, QueueSteps DEF ResetInv, RequestPasswordReset

LEMMA ClaimKeepsInv ==
  ASSUME ResetInv, NEW w \in Workers, NEW r \in Requests, ClaimPasswordResetRequest(w, r)
  PROVE  ResetInv'
  <1>1. Types'
    BY DEF ResetInv, Types, ClaimPasswordResetRequest, accountVars, QueueType, QueueStates,
           WorkerType
  <1>2. WorkersInv'
    BY DEF ResetInv, Types, WorkerType, WorkersInv, ClaimPasswordResetRequest
  <1>3. ClosedMeansMailed'
    BY DEF ResetInv, ClosedMeansMailed, Types, QueueType, ClaimPasswordResetRequest, Claimable
  <1> QED BY <1>1, <1>2, <1>3, QueueSteps DEF ResetInv, ClaimPasswordResetRequest

LEMMA SendKeepsInv ==
  ASSUME ResetInv, NEW w \in Workers, SendPasswordReset(w) \/ MailFails(w)
  PROVE  ResetInv'
  <1>1. worker[w].request \in Requests
    BY DEF ResetInv, WorkersInv, SendPasswordReset, MailFails
  <1>2. Types'
    BY <1>1 DEF ResetInv, Types, SendPasswordReset, MailFails, accountVars, WorkerType
  <1>3. WorkersInv'
    BY <1>1 DEF ResetInv, Types, WorkerType, WorkersInv, SendPasswordReset, MailFails
  <1>4. ClosedMeansMailed' /\ UNCHANGED <<accountVars, tokens>> /\ mails \subseteq mails'
    BY DEF ResetInv, ClosedMeansMailed, SendPasswordReset, MailFails
  <1> QED BY <1>2, <1>3, <1>4, QueueSteps DEF ResetInv

\* The two ends of a request: it is closed with its mail, or put back.
LEMMA EndKeepsInv ==
  ASSUME ResetInv, NEW w \in Workers,
         CompletePasswordResetRequest(w) \/ RetryPasswordResetRequest(w)
  PROVE  ResetInv'
  <1>1. /\ worker[w].request \in Requests
        /\ worker[w].at = "complete" => worker[w].request \in mails \cup refused
    BY DEF ResetInv, WorkersInv, CompletePasswordResetRequest, RetryPasswordResetRequest
  <1>2. worker' \in [Workers -> WorkerType]
    BY DEF ResetInv, Types, WorkerType, IdleWorker, CompletePasswordResetRequest,
           RetryPasswordResetRequest
  <1>3. /\ Closed(worker[w].request) \in [Requests -> QueueType]
        /\ PutBack(worker[w].request) \in [Requests -> QueueType]
    BY <1>1 DEF ResetInv, Types, Closed, PutBack, QueueType, QueueStates, Pending
  <1>4. Types'
    BY <1>2, <1>3 DEF ResetInv, Types, CompletePasswordResetRequest,
                      RetryPasswordResetRequest, accountVars
  <1>5. WorkersInv'
    BY <1>1 DEF ResetInv, Types, WorkerType, WorkersInv, IdleWorker,
                CompletePasswordResetRequest, RetryPasswordResetRequest
  <1>6. ClosedMeansMailed'
    <2>1. CASE CompletePasswordResetRequest(w)
      BY <1>1, <2>1 DEF ResetInv, Types, QueueType, ClosedMeansMailed, Closed,
                        CompletePasswordResetRequest
    <2>2. CASE RetryPasswordResetRequest(w)
      BY <1>1, <2>2 DEF ResetInv, Types, QueueType, ClosedMeansMailed, PutBack,
                        RetryPasswordResetRequest
    <2> QED BY <2>1, <2>2
  <1>7. UNCHANGED <<accountVars, tokens>> /\ mails \subseteq mails'
    BY DEF CompletePasswordResetRequest, RetryPasswordResetRequest
  <1> QED BY <1>4, <1>5, <1>6, <1>7, QueueSteps DEF ResetInv

LEMMA StopKeepsInv ==
  ASSUME ResetInv, NEW w \in Workers, WorkerStops(w)
  PROVE  ResetInv'
  <1>1. Types'
    BY DEF ResetInv, Types, WorkerStops, accountVars, WorkerType, IdleWorker
  <1>2. WorkersInv' /\ ClosedMeansMailed'
    BY DEF ResetInv, Types, WorkerType, WorkersInv, ClosedMeansMailed, WorkerStops, IdleWorker
  <1>3. UNCHANGED <<accountVars, tokens>> /\ mails \subseteq mails'
    BY DEF WorkerStops
  <1> QED BY <1>1, <1>2, <1>3, QueueSteps DEF ResetInv

LEMMA LeaseKeepsInv ==
  ASSUME ResetInv, NEW r \in Requests, LeaseEnds(r)
  PROVE  ResetInv'
  <1>1. queue' \in [Requests -> QueueType] /\ slips' \in Nat
    BY DEF ResetInv, Types, LeaseEnds, QueueType, QueueStates
  <1>2. Types'
    BY <1>1 DEF ResetInv, Types, LeaseEnds, accountVars
  <1>3. WorkersInv' /\ ClosedMeansMailed'
    BY DEF ResetInv, Types, QueueType, WorkersInv, ClosedMeansMailed, LeaseEnds
  <1>4. UNCHANGED <<accountVars, tokens>> /\ mails \subseteq mails'
    BY DEF LeaseEnds
  <1> QED BY <1>2, <1>3, <1>4, QueueSteps DEF ResetInv

\* Only a token that was not there is stored, and nobody can be following it.
LEMMA TokenKeepsInv ==
  ASSUME ResetInv, NEW w \in Workers, CreatePasswordResetToken(w)
  PROVE  ResetInv'
  <1> DEFINE r == worker[w].request
             stored == TokenStored(r)
             valid == account # NoAccount /\ stored[r] = [of |-> account, state |-> "live"]
  <1>1. r \in Requests
    BY DEF ResetInv, WorkersInv, CreatePasswordResetToken
  <1>2. tokens' = IF valid THEN stored ELSE tokens
    BY DEF CreatePasswordResetToken
  <1>3. /\ tokens' \in [Requests -> TokenType]
        /\ \A q \in Requests : tokens'[q].of \in {NoAccount, account}
        /\ \A q \in Requests : tokens'[q].state # "absent" => tokens'[q].of # NoAccount
        /\ \A q \in Requests : tokens[q].state # "absent" => tokens'[q] = tokens[q]
    BY <1>1, <1>2 DEF ResetInv, Types, TokensInv, TokenStored, TokenType, Accounts, NoAccount
  <1>4. UNCHANGED <<accountVars, queue, mails, slips>>
    BY DEF CreatePasswordResetToken
  <1>5. /\ worker' \in [Workers -> WorkerType]
        /\ refused' \subseteq Requests
        /\ refused \subseteq refused'
        /\ WorkersInv'
    <2>1. worker' = [worker EXCEPT ![w].at = IF valid THEN "mail" ELSE "complete"]
      BY DEF CreatePasswordResetToken
    <2>2. refused' = IF valid THEN refused ELSE refused \cup {r}
      BY DEF CreatePasswordResetToken
    <2> HIDE DEF valid
    <2> QED BY <1>1, <1>4, <2>1, <2>2 DEF ResetInv, Types, WorkerType, WorkersInv
  <1>6. Types'
    BY <1>3, <1>4, <1>5 DEF ResetInv, Types, accountVars
  <1>7. TokensInv' /\ LinksInv'
    BY <1>3, <1>4 DEF ResetInv, Types, TokensInv, LinksInv, Following, Unused, accountVars
  <1>8. PasswordByLink'
    BY <1>3, <1>4 DEF ResetInv, Types, PasswordByLink, accountVars
  <1>9. SessionsInv'
    BY <1>4 DEF ResetInv, SessionsInv, ResetEndsSessions, LoginInv, EndedInv, accountVars
  <1>10. ClosedMeansMailed'
    BY <1>4, <1>5 DEF ResetInv, ClosedMeansMailed
  <1> QED BY <1>5, <1>6, <1>7, <1>8, <1>9, <1>10 DEF ResetInv

LEMMA ExpiryKeepsInv ==
  ASSUME ResetInv, NEW r \in Requests, LinkExpires(r)
  PROVE  ResetInv'
  <1>1. UNCHANGED <<accountVars, queueVars>>
    BY DEF LinkExpires
  <1>2. tokens' \in [Requests -> TokenType]
    BY DEF ResetInv, Types, TokenType, LinkExpires
  <1>3. \A q \in Requests : /\ tokens'[q].of = tokens[q].of
                            /\ tokens[q].state # "live" => tokens'[q] = tokens[q]
                            /\ tokens[q].state = "live" => tokens'[q].state \in {"live", "expired"}
    BY DEF ResetInv, Types, TokenType, LinkExpires
  <1>4. Types'
    BY <1>1, <1>2, <1>3 DEF ResetInv, Types, accountVars, queueVars
  <1>5. TokensInv' /\ LinksInv' /\ PasswordByLink'
    BY <1>1, <1>3 DEF ResetInv, Types, TokenType, TokensInv, LinksInv, Following, Unused,
                      PasswordByLink, accountVars, queueVars
  <1>6. SessionsInv' /\ WorkersInv' /\ ClosedMeansMailed'
    BY <1>1 DEF ResetInv, SessionsInv, ResetEndsSessions, LoginInv, EndedInv, WorkersInv,
                ClosedMeansMailed, accountVars, queueVars
  <1> QED BY <1>4, <1>5, <1>6 DEF ResetInv

-----------------------------------------------------------------------------
(* Signing up, in and out, and following a link.                           *)

\* What no step of a visitor or of the operator touches, if the queue stays.
LEMMA VisitorSteps ==
  ASSUME ResetInv, UNCHANGED <<queue, worker, mails, refused>>
  PROVE  WorkersInv' /\ ClosedMeansMailed'
  BY DEF ResetInv, WorkersInv, ClosedMeansMailed

\* Without an account nobody is in the middle of a reset.
LEMMA ResetsNeedAnAccount ==
  ASSUME ResetInv, account = NoAccount, NEW v \in Visitors
  PROVE  visitor[v].at \notin InReset /\ sessions = {}
  BY DEF ResetInv, Types, TokensInv, LinksInv, Following, Unused, SessionsInv,
         ResetEndsSessions, InReset

\* A visitor's row with a new step is such a row, and so for an idle one.
LEMMA VisitorStep ==
  ASSUME visitor \in [Visitors -> VisitorType], NEW v \in Visitors,
         NEW step \in {"idle", "session", "token"} \cup InReset
  PROVE  /\ [visitor EXCEPT ![v].at = step] \in [Visitors -> VisitorType]
         /\ [visitor EXCEPT ![v] = IdleVisitor] \in [Visitors -> VisitorType]
  BY DEF VisitorType, IdleVisitor, InReset

LEMMA RegisterKeepsInv ==
  ASSUME ResetInv, NEW v \in Visitors, Register(v)
  PROVE  ResetInv'
  <1> DEFINE new == [visitor[v] EXCEPT !.at = "session", !.of = born + 1, !.link = None]
  <1>1. /\ account = NoAccount
        /\ account' = born + 1 /\ born' = born + 1 /\ born + 1 \in 1..MaxAccounts
        /\ born \in Nat
        /\ password' = None
        /\ UNCHANGED <<sessions, tokens, deleting, queueVars>>
    BY BoundsAssumption DEF BoundsAssumption, ResetInv, Types, Register
  <1>2. /\ visitor' = [visitor EXCEPT ![v] = new]
        /\ new \in VisitorType
        /\ new.at = "session" /\ new.of = born + 1 /\ new.link = None
    BY <1>1 DEF ResetInv, Types, VisitorType, Register, Accounts
  <1> HIDE DEF new
  <1>3. \A u \in Visitors : visitor[u].at \notin InReset /\ sessions = {}
    BY <1>1, ResetsNeedAnAccount
  <1>4. \A u \in Visitors : visitor'[u] = IF u = v THEN new ELSE visitor[u]
    BY <1>2 DEF ResetInv, Types
  <1>5. \A r \in Requests : tokens[r].of = NoAccount
    BY <1>1 DEF ResetInv, Types
  <1>6. Types'
    BY <1>1, <1>2, <1>5 DEF ResetInv, Types, Accounts, NoAccount, queueVars
  <1>7. TokensInv' /\ PasswordByLink'
    BY <1>1 DEF ResetInv, TokensInv, PasswordByLink
  <1>8. LinksInv'
    BY <1>1, <1>2, <1>3, <1>4 DEF ResetInv, LinksInv, Following, InReset, queueVars
  <1>9. SessionsInv'
    <2>1. ResetEndsSessions' /\ account' <= born'
      BY <1>1, <1>3 DEF ResetEndsSessions
    <2>2. ASSUME NEW u \in Visitors PROVE LoginInv(u)'
      BY <1>1, <1>2, <1>4 DEF ResetInv, SessionsInv, LoginInv
    <2>3. ASSUME NEW u \in Visitors PROVE EndedInv(u)'
      BY <1>2, <1>3, <1>4 DEF EndedInv, InReset
    <2> QED BY <2>1, <2>2, <2>3 DEF SessionsInv
  <1> QED BY <1>1, <1>6, <1>7, <1>8, <1>9, VisitorSteps DEF ResetInv, queueVars

LEMMA LoginKeepsInv ==
  ASSUME ResetInv, NEW v \in Visitors, Login(v)
  PROVE  ResetInv'
  <1> DEFINE new == [visitor[v] EXCEPT !.at = "session", !.of = account, !.link = password,
                                       !.overtaken = EndingSessions]
  <1>1. /\ account # NoAccount
        /\ UNCHANGED <<account, born, password, sessions, deleting, tokens, queueVars>>
    BY DEF Login
  <1>2. /\ visitor' = [visitor EXCEPT ![v] = new]
        /\ new \in VisitorType
        /\ new.at = "session" /\ new.of = account /\ new.link = password
        /\ new.overtaken = EndingSessions
    BY DEF ResetInv, Types, VisitorType, Login, EndingSessions
  <1> HIDE DEF new
  <1>3. \A u \in Visitors : visitor'[u] = IF u = v THEN new ELSE visitor[u]
    BY <1>2 DEF ResetInv, Types
  <1>4. Types'
    BY <1>1, <1>2 DEF ResetInv, Types, queueVars
  <1>5. TokensInv' /\ PasswordByLink'
    BY <1>1 DEF ResetInv, TokensInv, PasswordByLink, queueVars
  <1>6. LinksInv'
    BY <1>1, <1>2, <1>3 DEF ResetInv, LinksInv, Following, Unused, InReset, queueVars
  <1>7. SessionsInv'
    <2>1. ResetEndsSessions' /\ account' <= born' /\ account \in 1..born
      BY <1>1 DEF ResetInv, Types, Accounts, NoAccount, SessionsInv, ResetEndsSessions
    <2>2. ASSUME NEW u \in Visitors PROVE LoginInv(u)'
      BY <1>1, <1>2, <1>3, <2>1 DEF ResetInv, SessionsInv, LoginInv
    <2>3. ASSUME NEW u \in Visitors PROVE EndedInv(u)'
      <3>1. visitor'[u].at = "others" => u # v /\ visitor[u].at = "others"
        BY <1>2, <1>3
      <3>2. visitor'[u].at = "others" => new.overtaken
        BY <1>2, <3>1 DEF EndingSessions
      <3>3. visitor[u].at = "others" => EndedInv(u)
        BY DEF ResetInv, SessionsInv
      <3> QED BY <1>1, <1>3, <3>1, <3>2, <3>3 DEF EndedInv, queueVars
    <2> QED BY <2>1, <2>2, <2>3 DEF SessionsInv
  <1> QED BY <1>1, <1>4, <1>5, <1>6, <1>7, VisitorSteps DEF ResetInv, queueVars

\* A visitor who is done, or gives up, leaves nothing behind.
LEMMA LeavingKeepsVisitors ==
  ASSUME ResetInv, NEW v \in Visitors, Leave(v),
         UNCHANGED <<account, born, password, sessions, tokens, mails>>
  PROVE  /\ visitor' \in [Visitors -> VisitorType]
         /\ LinksInv' /\ SessionsInv'
  <1>1. visitor' \in [Visitors -> VisitorType]
    BY VisitorStep DEF ResetInv, Types, Leave
  <1>2. /\ visitor'[v].at = "idle"
        /\ \A u \in Visitors \ {v} : visitor'[u] = visitor[u]
    BY DEF ResetInv, Types, Leave, IdleVisitor
  <1>3. LinksInv'
    BY <1>2 DEF ResetInv, LinksInv, Following, Unused, InReset
  <1>4. SessionsInv'
    <2>1. ASSUME NEW u \in Visitors PROVE LoginInv(u)' /\ EndedInv(u)'
      BY <1>2 DEF ResetInv, SessionsInv, LoginInv, EndedInv
    <2> QED BY <2>1 DEF ResetInv, SessionsInv, ResetEndsSessions
  <1> QED BY <1>1, <1>3, <1>4

LEMMA FailureKeepsInv ==
  ASSUME ResetInv, NEW v \in Visitors, VisitorFails(v)
  PROVE  ResetInv'
  <1>1. /\ Leave(v)
        /\ UNCHANGED <<account, born, password, sessions, deleting, tokens, queue, worker,
                       mails, refused>>
        /\ slips' \in Nat
    BY DEF VisitorFails, Slip, ResetInv, Types
  <1>2. Types' /\ TokensInv' /\ PasswordByLink'
    BY <1>1, LeavingKeepsVisitors DEF ResetInv, Types, TokensInv, PasswordByLink
  <1> QED BY <1>1, <1>2, LeavingKeepsVisitors, VisitorSteps DEF ResetInv

LEMMA CreateSessionKeepsInv ==
  ASSUME ResetInv, NEW v \in Visitors, CreateSession(v)
  PROVE  ResetInv'
  <1> DEFINE s == [password |-> visitor[v].link, overtaken |-> visitor[v].overtaken]
  <1>1. /\ visitor[v].at = "session"
        /\ Leave(v)
        /\ UNCHANGED <<account, born, password, deleting, tokens, queueVars>>
        /\ \/ UNCHANGED sessions
           \/ visitor[v].of = account /\ sessions' = sessions \cup {s}
    BY DEF CreateSession
  <1>2. /\ s \in Session
        /\ s.password = visitor[v].link /\ s.overtaken = visitor[v].overtaken
    BY DEF ResetInv, Types, VisitorType, Session
  <1> HIDE DEF s
  <1>3. /\ visitor' \in [Visitors -> VisitorType]
        /\ visitor'[v].at = "idle"
        /\ \A u \in Visitors \ {v} : visitor'[u] = visitor[u]
    BY <1>1, VisitorStep DEF ResetInv, Types, Leave, IdleVisitor
  <1>4. Types' /\ TokensInv' /\ PasswordByLink'
    BY <1>1, <1>2, <1>3 DEF ResetInv, Types, TokensInv, PasswordByLink, queueVars
  <1>5. LinksInv'
    BY <1>1, <1>3 DEF ResetInv, LinksInv, Following, Unused, InReset, queueVars
  <1>6. SessionsInv'
    <2>1. visitor[v].of = account =>
            account # NoAccount /\ (s.password = password \/ s.overtaken)
      BY <1>1, <1>2 DEF ResetInv, SessionsInv, LoginInv, NoAccount
    <2>2. ResetEndsSessions' /\ account' <= born'
      BY <1>1, <2>1 DEF ResetInv, SessionsInv, ResetEndsSessions
    <2>3. ASSUME NEW u \in Visitors PROVE LoginInv(u)'
      BY <1>1, <1>3 DEF ResetInv, SessionsInv, LoginInv
    <2>4. ASSUME NEW u \in Visitors PROVE EndedInv(u)'
      BY <1>1, <1>2, <1>3 DEF ResetInv, SessionsInv, EndedInv
    <2> QED BY <2>2, <2>3, <2>4 DEF SessionsInv
  <1> QED BY <1>1, <1>4, <1>5, <1>6, VisitorSteps DEF ResetInv, queueVars

LEMMA LogoutKeepsInv ==
  ASSUME ResetInv, NEW s \in sessions, Logout(s)
  PROVE  ResetInv'
  <1>1. /\ UNCHANGED <<account, born, password, visitor, deleting, tokens, queueVars>>
        /\ sessions' \subseteq sessions
    BY DEF Logout
  <1>2. Types' /\ TokensInv' /\ PasswordByLink' /\ LinksInv'
    BY <1>1 DEF ResetInv, Types, TokensInv, PasswordByLink, LinksInv, Following, Unused,
                queueVars
  <1>3. SessionsInv'
    BY <1>1 DEF ResetInv, SessionsInv, ResetEndsSessions, LoginInv, EndedInv
  <1> QED BY <1>1, <1>2, <1>3, VisitorSteps DEF ResetInv, queueVars

\* A step from one statement to the next that ends no session and changes no row.
LEMMA StatementKeepsInv ==
  ASSUME ResetInv, NEW v \in Visitors,
         UNCHANGED <<account, born, password, sessions, deleting, tokens, queueVars>>,
         NEW step \in {"token", "password", "sessions"}, NEW link \in mails,
         visitor' = [visitor EXCEPT ![v] = [visitor[v] EXCEPT !.at = step, !.link = link]],
         step \in InReset => Unused(link)
  PROVE  ResetInv'
  <1> DEFINE new == [visitor[v] EXCEPT !.at = step, !.link = link]
  <1>1. new \in VisitorType /\ new.at = step /\ new.link = link
    BY DEF ResetInv, Types, VisitorType, InReset
  <1>2. visitor' = [visitor EXCEPT ![v] = new]
    OBVIOUS
  <1> HIDE DEF new
  <1>3. \A u \in Visitors : visitor'[u] = IF u = v THEN new ELSE visitor[u]
    BY <1>2 DEF ResetInv, Types
  <1>4. Types' /\ TokensInv' /\ PasswordByLink'
    BY <1>1, <1>2 DEF ResetInv, Types, TokensInv, PasswordByLink, queueVars
  <1>5. LinksInv'
    BY <1>1, <1>3 DEF ResetInv, LinksInv, Following, Unused, queueVars
  <1>6. SessionsInv'
    BY <1>1, <1>3 DEF ResetInv, SessionsInv, ResetEndsSessions, LoginInv, EndedInv
  <1> QED BY <1>4, <1>5, <1>6, VisitorSteps DEF ResetInv, queueVars

LEMMA LinkKeepsInv ==
  ASSUME ResetInv, NEW v \in Visitors, NEW r \in Requests, ResetPassword(v, r)
  PROVE  ResetInv'
  <1>1. visitor' = [visitor EXCEPT ![v] = [visitor[v] EXCEPT !.at = "token", !.link = r]]
    BY DEF ResetInv, Types, VisitorType, ResetPassword
  <1> QED BY <1>1, StatementKeepsInv DEF ResetPassword, InReset

LEMMA UseTokenKeepsInv ==
  ASSUME ResetInv, NEW v \in Visitors, UseToken(v)
  PROVE  ResetInv'
  <1> DEFINE link == visitor[v].link
  <1>1. /\ UNCHANGED <<account, born, password, sessions, deleting, tokens, queueVars>>
        /\ link \in mails /\ link \in Requests
    BY DEF UseToken, ResetInv, Types, LinksInv, Following
  <1>2. CASE TokenValid(link)
    <2>1. visitor' = [visitor EXCEPT ![v] = [visitor[v] EXCEPT !.at = "password",
                                                               !.link = link]]
      BY <1>2 DEF ResetInv, Types, VisitorType, UseToken, Continue
    <2>2. Unused(link)
      BY <1>1, <1>2 DEF ResetInv, Types, TokensInv, TokenValid, Unused
    <2> QED BY <1>1, <2>1, <2>2, StatementKeepsInv
  <1>3. CASE ~TokenValid(link)
    <2>1. Leave(v)
      BY <1>3 DEF UseToken
    <2>2. Types' /\ TokensInv' /\ PasswordByLink'
      BY <1>1, <2>1, LeavingKeepsVisitors DEF ResetInv, Types, TokensInv, PasswordByLink, queueVars
    <2> QED BY <1>1, <2>1, <2>2, LeavingKeepsVisitors, VisitorSteps DEF ResetInv, queueVars
  <1> QED BY <1>2, <1>3

LEMMA SetPasswordKeepsInv ==
  ASSUME ResetInv, NEW v \in Visitors, SetPassword(v)
  PROVE  ResetInv'
  <1>1. visitor' = [visitor EXCEPT ![v] = [visitor[v] EXCEPT !.at = "sessions",
                                                             !.link = visitor[v].link]]
    BY DEF ResetInv, Types, VisitorType, SetPassword, Continue
  <1>2. visitor[v].link \in mails /\ Unused(visitor[v].link)
    BY DEF SetPassword, ResetInv, LinksInv, Following, InReset
  <1> QED BY <1>1, <1>2, StatementKeepsInv DEF SetPassword

\* The sessions there are will go, and the logins under way are overtaken.
LEMMA EndSessionsKeepsInv ==
  ASSUME ResetInv, NEW v \in Visitors, EndSessions(v)
  PROVE  ResetInv'
  <1>1. /\ visitor[v].at = "sessions"
        /\ UNCHANGED <<account, born, password, sessions, deleting, tokens, queueVars>>
    BY DEF EndSessions
  <1>2. /\ visitor' \in [Visitors -> VisitorType]
        /\ visitor'[v].at = "others" /\ visitor'[v].link = visitor[v].link
        /\ visitor'[v].doomed = sessions
        /\ \A u \in Visitors \ {v} :
             /\ visitor'[u].at = visitor[u].at /\ visitor'[u].link = visitor[u].link
             /\ visitor'[u].of = visitor[u].of /\ visitor'[u].doomed = visitor[u].doomed
             /\ visitor[u].overtaken \/ visitor[u].at = "session" => visitor'[u].overtaken
    BY DEF EndSessions, ResetInv, Types, VisitorType, InReset
  <1>3. Types' /\ TokensInv' /\ PasswordByLink'
    BY <1>1, <1>2 DEF ResetInv, Types, TokensInv, PasswordByLink, queueVars
  <1>4. LinksInv'
    BY <1>1, <1>2 DEF ResetInv, LinksInv, Following, Unused, InReset, queueVars
  <1>5. SessionsInv'
    <2>1. ResetEndsSessions' /\ account' <= born'
      BY <1>1 DEF ResetInv, SessionsInv, ResetEndsSessions
    <2>2. ASSUME NEW u \in Visitors PROVE LoginInv(u)'
      BY <1>1, <1>2 DEF ResetInv, SessionsInv, LoginInv
    <2>3. ASSUME NEW u \in Visitors PROVE EndedInv(u)'
      BY <1>1, <1>2 DEF ResetInv, SessionsInv, EndedInv
    <2> QED BY <2>1, <2>2, <2>3 DEF SessionsInv
  <1> QED BY <1>1, <1>3, <1>4, <1>5, VisitorSteps DEF ResetInv, queueVars

\* What the commit of a reset does, and what it finds.
LEMMA CommitFacts ==
  ASSUME ResetInv, NEW v \in Visitors, UseOtherTokens(v)
  PROVE  /\ visitor[v].link \in mails \cap Requests
         /\ Unused(visitor[v].link)
         /\ tokens' \in [Requests -> TokenType]
         /\ \A r \in Requests : /\ tokens'[r].of = tokens[r].of
                                /\ Unused(r) => tokens'[r].state = "used"
                                /\ ~Unused(r) => tokens'[r] = tokens[r]
         /\ \A u \in Visitors \ {v} : visitor[u].at \notin InReset
  <1>1. visitor[v].link \in mails \cap Requests /\ Unused(visitor[v].link)
    BY DEF UseOtherTokens, ResetInv, Types, LinksInv, Following, InReset
  <1>2. /\ tokens' \in [Requests -> TokenType]
        /\ \A r \in Requests : /\ tokens'[r].of = tokens[r].of
                               /\ Unused(r) => tokens'[r].state = "used"
                               /\ ~Unused(r) => tokens'[r] = tokens[r]
    BY DEF UseOtherTokens, ResetInv, Types, TokenType
  <1>3. ASSUME NEW u \in Visitors \ {v}, visitor[u].at \in InReset PROVE FALSE
    <2>1. visitor[u].link \in Requests /\ Unused(visitor[u].link)
      BY <1>3 DEF ResetInv, Types, LinksInv, Following
    <2>2. HoldsToken(u, visitor[u].link)
      BY <1>3 DEF HoldsToken
    <2>3. u \in Blockers(v)
      BY <2>1, <2>2 DEF Blockers, Transactions, UseOtherTokens
    <2> QED BY <2>3 DEF UseOtherTokens
  <1> QED BY <1>1, <1>2, <1>3

LEMMA CommitKeepsInv ==
  ASSUME ResetInv, NEW v \in Visitors, UseOtherTokens(v)
  PROVE  ResetInv'
  <1>1. /\ visitor[v].at = "others"
        /\ password' = visitor[v].link
        /\ sessions' = sessions \ visitor[v].doomed
        /\ Leave(v)
        /\ UNCHANGED <<account, born, deleting, queueVars>>
    BY DEF UseOtherTokens
  <1>2. /\ visitor' \in [Visitors -> VisitorType]
        /\ visitor'[v].at = "idle"
        /\ \A u \in Visitors \ {v} : visitor'[u] = visitor[u]
    BY <1>1, VisitorStep DEF ResetInv, Types, Leave, IdleVisitor
  <1>3. Types'
    BY <1>1, <1>2, CommitFacts DEF ResetInv, Types, queueVars
  <1>4. TokensInv'
    BY CommitFacts DEF ResetInv, TokensInv, Unused, Types, TokenType
  <1>5. PasswordByLink'
    <2>1. tokens'[visitor[v].link] = [of |-> account, state |-> "used"]
      BY CommitFacts DEF Unused, TokenType
    <2> QED BY <1>1, <2>1, CommitFacts DEF PasswordByLink, queueVars
  <1>6. LinksInv'
    BY <1>1, <1>2, CommitFacts DEF ResetInv, LinksInv, Following, InReset, queueVars
  <1>7. SessionsInv'
    <2>1. EndedInv(v)
      BY DEF ResetInv, SessionsInv
    <2>2. ResetEndsSessions' /\ account' <= born'
      BY <1>1, <2>1 DEF ResetInv, SessionsInv, ResetEndsSessions, EndedInv
    <2>3. ASSUME NEW u \in Visitors PROVE LoginInv(u)'
      BY <1>1, <1>2, <2>1 DEF ResetInv, SessionsInv, LoginInv, EndedInv
    <2>4. ASSUME NEW u \in Visitors PROVE EndedInv(u)'
      BY <1>1, <1>2, CommitFacts DEF EndedInv, InReset
    <2> QED BY <2>2, <2>3, <2>4 DEF SessionsInv
  <1> QED BY <1>1, <1>3, <1>4, <1>5, <1>6, <1>7, VisitorSteps DEF ResetInv, queueVars

-----------------------------------------------------------------------------
(* Deleting the account.                                                   *)

LEMMA LockingKeepsInv ==
  ASSUME ResetInv, BeginDelete \/ DeleteFails
  PROVE  ResetInv'
  <1>1. /\ UNCHANGED <<account, born, password, sessions, visitor, tokens, queue, worker,
                       mails, refused>>
        /\ deleting' \in BOOLEAN /\ slips' \in Nat
    <2>1. slips \in Nat
      BY DEF ResetInv, Types
    <2>2. CASE BeginDelete
      BY <2>1, <2>2 DEF BeginDelete, queueVars
    <2>3. CASE DeleteFails
      <3>1. /\ UNCHANGED <<account, born, password, sessions, visitor, tokens, queue, worker,
                           mails, refused>>
            /\ deleting' = FALSE
            /\ slips' = slips + 1 \/ slips' = slips
        BY <2>3, Zenon DEF DeleteFails, Slip
      <3>2. deleting' \in BOOLEAN
        BY <3>1, Zenon
      <3>3. slips' = slips + 1 \/ slips' = slips
        BY <3>1, Zenon
      <3>4. slips' \in Nat
        BY <2>1, <3>3
      <3> QED BY <3>1, <3>2, <3>4
    <2> QED BY <2>2, <2>3
  <1>2. Types' /\ TokensInv' /\ PasswordByLink' /\ LinksInv'
    BY <1>1 DEF ResetInv, Types, TokensInv, PasswordByLink, LinksInv, Following, Unused
  <1>3. SessionsInv'
    BY <1>1 DEF ResetInv, SessionsInv, ResetEndsSessions, LoginInv, EndedInv
  <1> QED BY <1>1, <1>2, <1>3, VisitorSteps DEF ResetInv

\* A deletion waits for every reset that holds a token.
LEMMA DeletionFindsNoReset ==
  ASSUME ResetInv, Delete, NEW v \in Visitors
  PROVE  visitor[v].at \notin InReset
  <1>1. SUFFICES ASSUME visitor[v].at \in InReset PROVE FALSE
    OBVIOUS
  <1>2. visitor[v].link \in Requests /\ HoldsToken(v, visitor[v].link)
    BY <1>1 DEF ResetInv, Types, LinksInv, Following, HoldsToken
  <1>3. v \in Blockers(Operator)
    BY <1>2, NamesAssumption DEF NamesAssumption, Blockers, Transactions, Delete
  <1> QED BY <1>3 DEF Delete

LEMMA DeleteKeepsInv ==
  ASSUME ResetInv, Delete
  PROVE  ResetInv'
  <1>1. /\ account' = NoAccount /\ password' = None /\ sessions' = {} /\ deleting' = FALSE
        /\ UNCHANGED <<born, visitor, worker, mails, refused, slips>>
    BY DEF Delete
  <1>2. /\ tokens' \in [Requests -> TokenType]
        /\ \A r \in Requests : tokens'[r] = NoToken
    BY DEF Delete, NoToken, TokenType
  <1>3. /\ queue' \in [Requests -> QueueType]
        /\ \A r \in Requests : queue'[r].state # "done"
    BY DEF Delete, ResetInv, Types, QueueType, QueueStates
  <1>4. Types'
    <2>1. \A r \in Requests : tokens'[r].of \in {NoAccount, account'}
      BY <1>2 DEF NoToken
    <2>2. /\ account' \in Accounts \cup {NoAccount} /\ password' \in Requests \cup {None}
          /\ sessions' \subseteq Session /\ deleting' \in BOOLEAN
      BY <1>1
    <2>3. /\ born' \in 0..MaxAccounts /\ worker' \in [Workers -> WorkerType]
          /\ visitor' \in [Visitors -> VisitorType]
          /\ mails' \subseteq Requests /\ refused' \subseteq Requests /\ slips' \in Nat
      BY <1>1 DEF ResetInv, Types
    <2> QED BY <1>2, <1>3, <2>1, <2>2, <2>3 DEF Types
  <1>5. TokensInv' /\ PasswordByLink' /\ WorkersInv' /\ ClosedMeansMailed'
    BY <1>1, <1>2, <1>3 DEF ResetInv, TokensInv, NoToken, PasswordByLink, WorkersInv,
                            ClosedMeansMailed
  <1>6. LinksInv'
    BY <1>1, DeletionFindsNoReset DEF ResetInv, LinksInv, Following
  <1>7. SessionsInv'
    <2>1. ResetEndsSessions' /\ account' <= born'
      BY <1>1 DEF ResetEndsSessions, ResetInv, Types, NoAccount
    <2>2. ASSUME NEW v \in Visitors PROVE LoginInv(v)'
      BY <1>1 DEF ResetInv, SessionsInv, LoginInv, NoAccount
    <2>3. ASSUME NEW v \in Visitors PROVE EndedInv(v)'
      BY <1>1, DeletionFindsNoReset DEF EndedInv, InReset
    <2> QED BY <2>1, <2>2, <2>3 DEF SessionsInv
  <1> QED BY <1>4, <1>5, <1>6, <1>7 DEF ResetInv

-----------------------------------------------------------------------------
(* The theorems.                                                           *)

LEMMA StepInv ==
  ASSUME ResetInv, [Next]_vars
  PROVE  ResetInv'
  <1>1. ASSUME NEW r \in Requests, RequestPasswordReset(r) PROVE ResetInv'
    BY <1>1, RequestKeepsInv
  <1>2. ASSUME NEW w \in Workers, Work(w) PROVE ResetInv'
    BY <1>2, ClaimKeepsInv, TokenKeepsInv, SendKeepsInv, EndKeepsInv, StopKeepsInv DEF Work
  <1>3. CASE TimePasses
    BY <1>3, LeaseKeepsInv, ExpiryKeepsInv DEF TimePasses
  <1>4. ASSUME NEW v \in Visitors, Visit(v) PROVE ResetInv'
    BY <1>4, RegisterKeepsInv, LoginKeepsInv, CreateSessionKeepsInv, LinkKeepsInv,
       UseTokenKeepsInv, SetPasswordKeepsInv, EndSessionsKeepsInv, CommitKeepsInv,
       FailureKeepsInv DEF Visit
  <1>5. ASSUME NEW s \in sessions, Logout(s) PROVE ResetInv'
    BY <1>5, LogoutKeepsInv
  <1>6. CASE BeginDelete \/ Delete \/ DeleteFails
    BY <1>6, LockingKeepsInv, DeleteKeepsInv
  <1>7. CASE UNCHANGED vars
    <2>1. Types' /\ TokensInv' /\ PasswordByLink' /\ LinksInv'
      BY <1>7 DEF vars, ResetInv, Types, TokensInv, PasswordByLink, LinksInv, Following, Unused
    <2>2. SessionsInv'
      BY <1>7 DEF vars, ResetInv, SessionsInv, ResetEndsSessions, LoginInv, EndedInv
    <2> QED BY <1>7, <2>1, <2>2, VisitorSteps DEF vars, ResetInv
  <1> QED BY <1>1, <1>2, <1>3, <1>4, <1>5, <1>6, <1>7 DEF Next

LEMMA ResetInvariant == Spec => []ResetInv
  <1> QED BY InitInv, StepInv, PTL DEF Spec

\* Every variable keeps its type, for any number of requests, workers, visitors
\* and accounts.
THEOREM ResetTypes == Spec => []TypeOK
  <1>1. ResetInv => TypeOK
    BY TypesAreTypeOK DEF ResetInv
  <1> QED BY <1>1, ResetInvariant, PTL

\* The password on record was set by a link of this account that was mailed and
\* is spent.
THEOREM PasswordsComeByLink == Spec => []PasswordByLink
  <1>1. ResetInv => PasswordByLink
    BY DEF ResetInv
  <1> QED BY <1>1, ResetInvariant, PTL

\* A session opened with a password that has been replaced belongs to a login
\* that ran while the reset did.
THEOREM ResetsEndSessions == Spec => []ResetEndsSessions
  <1>1. ResetInv => ResetEndsSessions
    BY DEF ResetInv, SessionsInv
  <1> QED BY <1>1, ResetInvariant, PTL

\* A request is closed with its mail, with nobody or nothing to mail, or after the
\* last attempt.
THEOREM ClosedRequestsAreMailed == Spec => []ClosedMeansMailed
  <1>1. ResetInv => ClosedMeansMailed
    BY DEF ResetInv
  <1> QED BY <1>1, ResetInvariant, PTL

\* A link sets one password and leaves no unused link behind.
THEOREM ResetsSpendEveryLink == Spec => ResetSpendsEveryLink
  <1>1. ASSUME ResetInv, [Next]_vars, password' \notin {None, password}
        PROVE  /\ tokens[password'].state \in {"live", "expired"}
               /\ \A r \in Requests : tokens'[r].state \in {"absent", "used"}
    <2>1. PICK v \in Visitors : UseOtherTokens(v)
      BY <1>1 DEF Next, Work, TimePasses, Visit, vars, accountVars, queueVars,
         RequestPasswordReset, ClaimPasswordResetRequest, CreatePasswordResetToken,
         SendPasswordReset, MailFails, CompletePasswordResetRequest,
         RetryPasswordResetRequest, WorkerStops, LeaseEnds, LinkExpires, Register, Login,
         CreateSession, ResetPassword, UseToken, SetPassword, EndSessions, VisitorFails,
         Logout, BeginDelete, Delete, DeleteFails
    <2>2. password' = visitor[v].link
      BY <2>1 DEF UseOtherTokens
    <2>3. \A r \in Requests : ~Unused(r) => tokens[r].state \in {"absent", "used"}
      BY <1>1 DEF ResetInv, Types, TokenType, TokensInv, Unused
    <2> QED BY <1>1, <2>1, <2>2, <2>3, CommitFacts DEF Unused
  <1>2. ResetInv /\ [Next]_vars =>
          [password' \notin {None, password} =>
             /\ tokens[password'].state \in {"live", "expired"}
             /\ \A r \in Requests : tokens'[r].state \in {"absent", "used"}]_vars
    BY <1>1
  <1> QED BY <1>2, ResetInvariant, PTL DEF Spec, ResetSpendsEveryLink

\* While the account lives, a spent link stays spent.
THEOREM UsedLinksAreSpent == Spec => UsedLinksStayUsed
  <1>1. ASSUME ResetInv, [Next]_vars, NEW r \in Requests, tokens[r].state = "used",
               account' = account
        PROVE  tokens'[r] = tokens[r]
    <2>1. CASE UNCHANGED tokens
      BY <2>1
    <2>2. ASSUME NEW w \in Workers, CreatePasswordResetToken(w) PROVE tokens'[r] = tokens[r]
      BY <1>1, <2>2 DEF ResetInv, Types, CreatePasswordResetToken, TokenStored
    <2>3. ASSUME NEW q \in Requests, LinkExpires(q) PROVE tokens'[r] = tokens[r]
      BY <1>1, <2>3 DEF ResetInv, Types, LinkExpires
    <2>4. ASSUME NEW v \in Visitors, UseOtherTokens(v) PROVE tokens'[r] = tokens[r]
      BY <1>1, <2>4, CommitFacts DEF Unused
    <2>5. ~Delete
      BY <1>1 DEF Delete, ResetInv, Types, TokensInv
    <2> QED
      BY <1>1, <2>1, <2>2, <2>3, <2>4, <2>5 DEF Next, Work, TimePasses, Visit, vars,
         accountVars, queueVars,
         RequestPasswordReset, ClaimPasswordResetRequest, SendPasswordReset, MailFails,
         CompletePasswordResetRequest, RetryPasswordResetRequest, WorkerStops, LeaseEnds,
         Register, Login, CreateSession, ResetPassword, UseToken, SetPassword, EndSessions,
         VisitorFails, Logout, BeginDelete, DeleteFails
  <1>2. ResetInv /\ [Next]_vars =>
          [\A r \in Requests :
             tokens[r].state = "used" /\ account' = account => tokens'[r] = tokens[r]]_vars
    BY <1>1
  <1> QED BY <1>2, ResetInvariant, PTL DEF Spec, UsedLinksStayUsed
-----------------------------------------------------------------------------
(* Refinement: every step is one of Credentials, or leaves what it is about *)
(* alone.                                                                   *)

LEMMA LinkOf ==
  ASSUME tokens \in [Requests -> TokenType]
  PROVE  \A r \in Requests :
           Links[r] = CASE tokens[r].state = "absent" -> "none"
                        [] tokens[r].state = "used" -> "spent"
                        [] OTHER -> "usable"
  BY DEF Links, LinkStates, TokenType

LEMMA InitCredentials == Init => C!Init
  BY DEF Init, C!Init, Links, LinkStates, NoToken

\* A delivery that stores a token makes one link.
LEMMA StoringLinks ==
  ASSUME ResetInv, NEW w \in Workers, CreatePasswordResetToken(w)
  PROVE  (\E r \in Requests : C!Linked(r)) \/ UNCHANGED C!vars
  <1> DEFINE r == worker[w].request
  <1>1. UNCHANGED <<account, born, password, sessions, mails>>
    BY DEF CreatePasswordResetToken, accountVars
  <1>2. r \in Requests /\ tokens \in [Requests -> TokenType]
    BY DEF ResetInv, Types, WorkersInv, CreatePasswordResetToken
  <1>3. CASE tokens' = tokens
    <2>1. Links' = Links
      BY <1>3 DEF Links
    <2> QED BY <1>1, <2>1 DEF C!vars
  <1>4. CASE tokens' # tokens
    <2>1. /\ account # NoAccount
          /\ tokens' = TokenStored(r)
      BY <1>4 DEF CreatePasswordResetToken
    <2>2. /\ tokens[r].state = "absent"
          /\ tokens' = [tokens EXCEPT ![r] = [of |-> account, state |-> "live"]]
      BY <1>2, <1>4, <2>1 DEF TokenStored
    <2>3. Links[r] = "none" /\ Links' = [Links EXCEPT ![r] = "usable"]
      BY <1>2, <2>2 DEF Links, LinkStates, TokenType
    <2> QED BY <1>1, <1>2, <2>1, <2>3 DEF C!Linked
  <1> QED BY <1>3, <1>4

\* An unused link stays one when its hour is over.
LEMMA ExpiryIsNoStep ==
  ASSUME ResetInv, NEW r \in Requests, LinkExpires(r)
  PROVE  UNCHANGED C!vars
  <1>1. UNCHANGED <<account, born, password, sessions, mails>>
    BY DEF LinkExpires, accountVars, queueVars
  <1>2. Links' = Links
    BY DEF ResetInv, Types, TokenType, LinkExpires, Links, LinkStates
  <1> QED BY <1>1, <1>2 DEF C!vars

\* A login that saw an older password is one that a reset overtook; one for an
\* account that is gone opens nothing.
LEMMA SessionsOpen ==
  ASSUME ResetInv, NEW v \in Visitors, CreateSession(v)
  PROVE  C!SignedIn \/ UNCHANGED C!vars
  <1>1. UNCHANGED <<account, born, password, mails, Links>>
    BY DEF CreateSession, queueVars, Links
  <1>2. CASE visitor[v].of # account
    BY <1>1, <1>2 DEF CreateSession, C!vars
  <1>3. CASE visitor[v].of = account
    <2>1. /\ visitor[v].link \in Requests \cup {None}
          /\ visitor[v].overtaken \in BOOLEAN
      BY DEF ResetInv, Types, VisitorType
    <2>2. /\ account # NoAccount
          /\ visitor[v].link = password \/ visitor[v].overtaken
      BY <1>3 DEF ResetInv, Types, SessionsInv, LoginInv, CreateSession, NoAccount
    <2>3. sessions' = sessions \cup
            {[password |-> visitor[v].link, overtaken |-> visitor[v].overtaken]}
      BY <1>3 DEF CreateSession
    <2> QED BY <1>1, <2>1, <2>2, <2>3 DEF C!SignedIn
  <1> QED BY <1>2, <1>3

\* The commit is the reset: its link was mailed and is unused, it spends every link,
\* and the sessions it did not see are those of logins it overtook.
LEMMA CommitIsReset ==
  ASSUME ResetInv, NEW v \in Visitors, UseOtherTokens(v)
  PROVE  C!Reset(visitor[v].link)
  <1> DEFINE r == visitor[v].link
  <1>1. /\ visitor[v].at = "others"
        /\ password' = r
        /\ sessions' = sessions \ visitor[v].doomed
        /\ UNCHANGED <<account, born, mails>>
    BY DEF UseOtherTokens, queueVars
  <1>2. r \in mails /\ r \in Requests /\ Unused(r)
    BY CommitFacts
  <1>3. account # NoAccount
    BY <1>1, ResetsNeedAnAccount DEF InReset
  <1>4. sessions' \subseteq {s \in sessions : s.overtaken}
    BY <1>1 DEF ResetInv, SessionsInv, EndedInv
  <1>5. tokens \in [Requests -> TokenType] /\ tokens' \in [Requests -> TokenType]
    BY CommitFacts DEF ResetInv, Types
  <1>6. \A q \in Requests : Unused(q) <=> Links[q] = "usable"
    BY <1>5, LinkOf DEF ResetInv, Types, TokensInv, TokenType, Unused
  <1>7. \A q \in Requests : Links'[q] = IF Links[q] = "usable" THEN "spent" ELSE Links[q]
    <2> SUFFICES ASSUME NEW q \in Requests
                 PROVE Links'[q] = IF Links[q] = "usable" THEN "spent" ELSE Links[q]
      OBVIOUS
    <2>1. Links'[q] = LinkStates[tokens'[q].state] /\ Links[q] = LinkStates[tokens[q].state]
      BY DEF Links
    <2>2. CASE Unused(q)
      <3>1. tokens'[q].state = "used"
        BY <2>2, CommitFacts
      <3> QED BY <1>6, <2>1, <2>2, <3>1 DEF LinkStates
    <2>3. CASE ~Unused(q)
      <3>1. tokens'[q] = tokens[q]
        BY <2>3, CommitFacts
      <3> QED BY <1>6, <2>1, <2>3, <3>1
    <2> QED BY <2>2, <2>3
  <1>8. Links' = [q \in Requests |-> IF Links[q] = "usable" THEN "spent" ELSE Links[q]]
    BY <1>7 DEF Links
  <1> QED BY <1>1, <1>2, <1>3, <1>4, <1>6, <1>8 DEF C!Reset

\* The deletion takes sessions and links with the account.
LEMMA DeletionIsDeleted ==
  ASSUME ResetInv, Delete
  PROVE  C!Deleted \/ UNCHANGED C!vars
  <1>1. /\ account' = NoAccount /\ password' = None /\ sessions' = {}
        /\ UNCHANGED <<born, mails>>
        /\ tokens' = [r \in Requests |-> NoToken]
    BY DEF Delete
  <1>2. Links' = [r \in Requests |-> "none"]
    BY <1>1 DEF Links, LinkStates, NoToken
  <1>3. CASE account # NoAccount
    BY <1>1, <1>2, <1>3 DEF C!Deleted
  <1>4. CASE account = NoAccount
    <2>1. sessions = {} /\ password = None
      BY <1>4 DEF ResetInv, SessionsInv, ResetEndsSessions, PasswordByLink, Types, TokensInv
    <2>2. Links = [r \in Requests |-> "none"]
      BY <1>4 DEF ResetInv, Types, TokensInv, TokenType, Links, LinkStates
    <2> QED BY <1>1, <1>2, <1>4, <2>1, <2>2 DEF C!vars
  <1> QED BY <1>3, <1>4

LEMMA StepCredentials ==
  ASSUME ResetInv, [Next]_vars
  PROVE  C!Next \/ UNCHANGED C!vars
  <1>1. ASSUME UNCHANGED <<account, born, password, sessions, mails, tokens>>
        PROVE  UNCHANGED C!vars
    BY <1>1 DEF C!vars, Links
  <1>2. ASSUME NEW r \in Requests, mails' = mails \cup {r},
               UNCHANGED <<account, born, password, sessions, tokens>>
        PROVE  C!Mailed(r)
    BY <1>2 DEF C!Mailed, Links
  <1>3. ASSUME NEW r \in Requests, RequestPasswordReset(r) \/ LeaseEnds(r)
        PROVE  UNCHANGED C!vars
    BY <1>1, <1>3 DEF RequestPasswordReset, LeaseEnds, accountVars
  <1>4. ASSUME NEW w \in Workers, Work(w) PROVE C!Next \/ UNCHANGED C!vars
    <2>1. CASE CreatePasswordResetToken(w)
      BY <2>1, StoringLinks DEF C!Next
    <2>2. CASE SendPasswordReset(w) \/ MailFails(w)
      <3>1. worker[w].at # "idle" /\ UNCHANGED <<account, born, password, sessions, tokens>>
        BY <2>2 DEF SendPasswordReset, MailFails, accountVars
      <3>2. worker[w].request \in Requests
        BY <3>1 DEF ResetInv, WorkersInv
      <3>3. mails' = mails \/ mails' = mails \cup {worker[w].request}
        BY <2>2 DEF SendPasswordReset, MailFails
      <3> QED BY <1>1, <1>2, <3>1, <3>2, <3>3 DEF C!Next
    <2>3. CASE \/ \E r \in Requests : ClaimPasswordResetRequest(w, r)
               \/ CompletePasswordResetRequest(w) \/ RetryPasswordResetRequest(w)
               \/ WorkerStops(w)
      BY <1>1, <2>3 DEF ClaimPasswordResetRequest, CompletePasswordResetRequest,
         RetryPasswordResetRequest, WorkerStops, accountVars
    <2> QED BY <1>4, <2>1, <2>2, <2>3 DEF Work
  <1>5. ASSUME NEW v \in Visitors, Visit(v) PROVE C!Next \/ UNCHANGED C!vars
    <2>1. CASE Register(v)
      BY <2>1 DEF Register, queueVars, C!Next, C!SignedUp, Links
    <2>2. CASE CreateSession(v)
      BY <2>2, SessionsOpen DEF C!Next
    <2>3. CASE UseOtherTokens(v)
      BY <2>3, CommitIsReset, CommitFacts DEF C!Next
    <2>4. CASE \/ Login(v) \/ \E r \in Requests : ResetPassword(v, r)
               \/ UseToken(v) \/ SetPassword(v) \/ EndSessions(v) \/ VisitorFails(v)
      BY <1>1, <2>4 DEF Login, ResetPassword, UseToken, SetPassword, EndSessions,
         VisitorFails, queueVars
    <2> QED BY <1>5, <2>1, <2>2, <2>3, <2>4 DEF Visit
  <1>6. ASSUME NEW s \in sessions, Logout(s) PROVE C!SignedOut
    BY <1>6 DEF Logout, C!SignedOut, queueVars, Links
  <1>7. CASE BeginDelete \/ DeleteFails \/ UNCHANGED vars
    BY <1>1, <1>7 DEF BeginDelete, DeleteFails, vars, queueVars
  <1> QED BY <1>3, <1>4, <1>5, <1>6, <1>7, ExpiryIsNoStep, DeletionIsDeleted
          DEF Next, TimePasses, C!Next

\* However many visitors, workers and deletions overlap, lapse and fail, the password
\* changes at one moment, by a mailed and unused link of the account, with every link
\* spent and every session ended at that moment.
THEOREM ResetImplementsCredentials == Spec => ImplementsCredentials
  <1>1. ResetInv /\ [Next]_vars => [C!Next]_(C!vars)
    BY StepCredentials
  <1> QED BY <1>1, InitCredentials, ResetInvariant, PTL DEF Spec, ImplementsCredentials, C!Spec

(***************************************************************************)
(* Claims.                                                                 *)
(***************************************************************************)

Manned(r) == \E w \in Workers : worker[w].request = r

\* A request that may be claimed once more has a claim left: a delivery that fails
\* returns it only below MaxAttempts, and otherwise it took a slip to come back.
ClaimLeft ==
  \A r \in Requests :
    /\ queue[r].attempts <= MaxAttempts + slips
    /\ queue[r].state \in {"absent", "due"} \/ (queue[r].state = "held" /\ ~Manned(r))
         => queue[r].attempts < MaxAttempts + slips

IdleHoldNothing ==
  \A w \in Workers : worker[w].at = "idle" => worker[w].request = None

LEMMA InitIdle == Init => IdleHoldNothing
  BY DEF Init, IdleWorker, IdleHoldNothing

LEMMA StepIdle == ResetInv /\ IdleHoldNothing /\ [Next]_vars => IdleHoldNothing'
<1> SUFFICES ASSUME ResetInv, IdleHoldNothing, [Next]_vars PROVE IdleHoldNothing'
  OBVIOUS
<1>0. worker \in [Workers -> WorkerType]
  BY DEF ResetInv, Types
<1>1. ASSUME NEW w \in Workers, Work(w) PROVE IdleHoldNothing'
  <2>1. \A x \in Workers \ {w} : worker'[x] = worker[x]
    BY <1>0, <1>1 DEF Work, ClaimPasswordResetRequest, CreatePasswordResetToken,
       SendPasswordReset, MailFails, CompletePasswordResetRequest,
       RetryPasswordResetRequest, WorkerStops
  <2>2. worker'[w].at # "idle" \/ worker'[w] = IdleWorker
    BY <1>0, <1>1 DEF Work, ClaimPasswordResetRequest, CreatePasswordResetToken,
       SendPasswordReset, MailFails, CompletePasswordResetRequest,
       RetryPasswordResetRequest, WorkerStops, WorkerType
  <2> QED BY <2>1, <2>2 DEF IdleHoldNothing, IdleWorker
<1>2. CASE UNCHANGED worker
  BY <1>2 DEF IdleHoldNothing
<1>3. (\E w \in Workers : Work(w)) \/ UNCHANGED worker
  BY DEF Next, vars, TimePasses, RequestPasswordReset, LeaseEnds, LinkExpires, Visit,
     Register, Login, CreateSession, ResetPassword, UseToken, SetPassword, EndSessions,
     UseOtherTokens, VisitorFails, Logout, BeginDelete, Delete, DeleteFails, queueVars,
     accountVars
<1> QED BY <1>1, <1>2, <1>3

LEMMA InitClaimLeft == Init => ClaimLeft
  BY BoundsAssumption DEF BoundsAssumption, Init, ClaimLeft

\* What moves no request and takes no worker off one keeps ClaimLeft.
LEMMA IdleKeepsClaimLeft ==
  ASSUME Types, ClaimLeft, slips' \in Nat, slips <= slips',
         \A r \in Requests : /\ queue'[r].attempts = queue[r].attempts
                             /\ queue'[r].state = queue[r].state
                                  \/ queue'[r].state \in {"done", "deleted"},
         \A r \in Requests :
           Manned(r) => Manned(r)' \/ queue'[r].state # "held" \/ slips < slips'
  PROVE  ClaimLeft'
<1> SUFFICES ASSUME NEW r \in Requests
             PROVE  /\ queue'[r].attempts <= MaxAttempts + slips'
                    /\ queue'[r].state \in {"absent", "due"}
                       \/ (queue'[r].state = "held" /\ ~Manned(r)')
                         => queue'[r].attempts < MaxAttempts + slips'
  BY DEF ClaimLeft
<1>1. queue[r].attempts \in Nat /\ slips \in Nat /\ MaxAttempts \in Nat
  BY BoundsAssumption DEF BoundsAssumption, Types, QueueType
<1>2. queue'[r].attempts <= MaxAttempts + slips'
  BY <1>1 DEF ClaimLeft
<1>3. ASSUME queue'[r].state \in {"absent", "due"} \/ (queue'[r].state = "held" /\ ~Manned(r)')
      PROVE  queue'[r].attempts < MaxAttempts + slips'
  <2>2. queue[r].state = queue'[r].state
    BY <1>3
  <2>3. CASE slips < slips'
    BY <1>1, <2>3 DEF ClaimLeft
  <2>4. CASE ~(slips < slips')
    <3>1. queue[r].state \in {"absent", "due"} \/ (queue[r].state = "held" /\ ~Manned(r))
      BY <1>3, <2>2, <2>4
    <3> QED BY <1>1, <3>1 DEF ClaimLeft
  <2> QED BY <2>3, <2>4
<1> QED BY <1>2, <1>3

LEMMA StepClaimLeft ==
  ResetInv /\ IdleHoldNothing /\ ClaimLeft /\ [Next]_vars => ClaimLeft'
<1> SUFFICES ASSUME ResetInv, IdleHoldNothing, ClaimLeft, [Next]_vars PROVE ClaimLeft'
  OBVIOUS
<1> USE DEF ResetInv
<1>0. /\ slips \in Nat /\ MaxAttempts \in Nat \ {0} /\ MaxSlips \in Nat
      /\ \A r \in Requests : queue[r].attempts \in Nat
      /\ queue \in [Requests -> QueueType] /\ worker \in [Workers -> WorkerType]
      /\ None \notin Requests
  BY BoundsAssumption, NamesAssumption
     DEF BoundsAssumption, NamesAssumption, Types, QueueType
<1>k. ASSUME UNCHANGED queue, UNCHANGED worker, slips' \in Nat, slips <= slips'
      PROVE  ClaimLeft'
  BY <1>0, <1>k, IdleKeepsClaimLeft DEF Manned
<1>1. CASE \E r \in Requests : RequestPasswordReset(r)
  <2> PICK q \in Requests : RequestPasswordReset(q)
    BY <1>1
  <2>1. UNCHANGED <<worker, slips>> /\ queue[q].state = "absent"
    BY DEF RequestPasswordReset
  <2>2. \A r \in Requests : queue'[r].attempts = queue[r].attempts
    BY <1>0 DEF RequestPasswordReset, QueueType
  <2>3. \A r \in Requests \ {q} : queue'[r].state = queue[r].state
    BY <1>0 DEF RequestPasswordReset, QueueType
  <2>4. queue[q].attempts < MaxAttempts + slips
    BY <2>1 DEF ClaimLeft
  <2> QED BY <1>0, <2>1, <2>2, <2>3, <2>4 DEF ClaimLeft, Manned
<1>2. ASSUME NEW w \in Workers, Work(w) PROVE ClaimLeft'
  <2> DEFINE q == worker[w].request
  <2>t. worker[w].at # "idle" => q \in Requests
    BY DEF WorkersInv, Types, WorkerType
  <2>1. CASE \E r \in Requests : ClaimPasswordResetRequest(w, r)
    <3> PICK c \in Requests : ClaimPasswordResetRequest(w, c)
      BY <2>1
    <3>1. /\ worker[w].at = "idle" /\ queue[c].state = "due" /\ UNCHANGED slips
          /\ queue'[c] = [state |-> "held", attempts |-> queue[c].attempts + 1]
          /\ \A r \in Requests \ {c} : queue'[r] = queue[r]
          /\ worker'[w].request = c
          /\ \A x \in Workers \ {w} : worker'[x] = worker[x]
      BY <1>0 DEF ClaimPasswordResetRequest, Claimable, QueueType
    <3>2. q = None
      BY <3>1 DEF IdleHoldNothing
    <3>3. ASSUME NEW r \in Requests PROVE Manned(r) => Manned(r)'
      BY <1>0, <3>1, <3>2 DEF Manned
    <3>4. Manned(c)'
      BY <3>1 DEF Manned
    <3> QED BY <1>0, <3>1, <3>3, <3>4 DEF ClaimLeft
  <2>2. CASE CreatePasswordResetToken(w) \/ SendPasswordReset(w) \/ MailFails(w)
    <3>1. UNCHANGED <<queue, slips>>
          /\ \A x \in Workers : worker'[x].request = worker[x].request
      BY <1>0, <2>2 DEF CreatePasswordResetToken, SendPasswordReset, MailFails,
                        accountVars, WorkerType
    <3> QED BY <1>0, <3>1, IdleKeepsClaimLeft DEF Manned
  <2>3. CASE CompletePasswordResetRequest(w)
    <3>1. UNCHANGED slips /\ q \in Requests
          /\ \A x \in Workers \ {w} : worker'[x] = worker[x]
      BY <2>3, <2>t, <1>0 DEF CompletePasswordResetRequest
    <3>2. \A r \in Requests : queue'[r].attempts = queue[r].attempts
      BY <1>0, <2>3 DEF CompletePasswordResetRequest, Closed, QueueType
    <3>3. \A r \in Requests \ {q} : queue'[r].state = queue[r].state
      BY <1>0, <2>3 DEF CompletePasswordResetRequest, Closed, QueueType
    <3>4. \/ queue'[q].state = queue[q].state /\ queue[q].state # "held"
          \/ queue'[q].state = "done"
      BY <1>0, <2>3, <3>1 DEF CompletePasswordResetRequest, Closed, QueueType, Pending
    <3> QED BY <1>0, <3>1, <3>2, <3>3, <3>4, IdleKeepsClaimLeft DEF Manned
  <2>4. CASE RetryPasswordResetRequest(w)
    <3>1. UNCHANGED slips /\ q \in Requests
          /\ \A x \in Workers \ {w} : worker'[x] = worker[x]
      BY <2>4, <2>t, <1>0 DEF RetryPasswordResetRequest
    <3>2. \A r \in Requests : queue'[r].attempts = queue[r].attempts
      BY <1>0, <2>4 DEF RetryPasswordResetRequest, PutBack, QueueType
    <3>3. \A r \in Requests \ {q} : queue'[r].state = queue[r].state
      BY <1>0, <2>4 DEF RetryPasswordResetRequest, PutBack, QueueType
    <3>4. \/ queue'[q].state = queue[q].state /\ queue[q].state \notin Pending
          \/ queue'[q].state = "done"
          \/ queue'[q].state = "due" /\ queue[q].attempts < MaxAttempts
      BY <1>0, <2>4, <3>1 DEF RetryPasswordResetRequest, PutBack, QueueType, Pending
    <3>5. ASSUME NEW r \in Requests \ {q} PROVE Manned(r) => Manned(r)'
      BY <3>1 DEF Manned
    <3>6. queue[q].attempts <= MaxAttempts + slips
          /\ (queue[q].state \notin Pending => queue'[q].state # "held")
      BY <3>1, <3>4 DEF ClaimLeft, Pending
    <3> QED BY <1>0, <3>1, <3>2, <3>3, <3>4, <3>5, <3>6 DEF ClaimLeft, Pending
  <2>5. CASE WorkerStops(w)
    <3>1. UNCHANGED queue /\ slips' = slips + 1
      BY <2>5 DEF WorkerStops
    <3> QED BY <1>0, <3>1, IdleKeepsClaimLeft
  <2> QED BY <1>2, <2>1, <2>2, <2>3, <2>4, <2>5 DEF Work
<1>3. ASSUME NEW q \in Requests, LeaseEnds(q) PROVE ClaimLeft'
  <2>1. /\ queue[q].state = "held" /\ UNCHANGED worker
        /\ IF Manned(q) THEN slips' = slips + 1 ELSE UNCHANGED slips
    BY <1>3 DEF LeaseEnds, Manned
  <2>2. \A r \in Requests : queue'[r].attempts = queue[r].attempts
    BY <1>0, <1>3 DEF LeaseEnds, QueueType
  <2>3. \A r \in Requests \ {q} : queue'[r].state = queue[r].state
    BY <1>0, <1>3 DEF LeaseEnds, QueueType
  <2>4. queue[q].attempts < MaxAttempts + slips'
    BY <1>0, <2>1 DEF ClaimLeft
  <2> QED BY <1>0, <2>1, <2>2, <2>3, <2>4 DEF ClaimLeft, Manned
<1>4. CASE \E q \in Requests : LinkExpires(q)
  BY <1>0, <1>4, <1>k DEF LinkExpires, queueVars
<1>5. ASSUME NEW v \in Visitors, Visit(v) PROVE ClaimLeft'
  <2>1. UNCHANGED queue /\ UNCHANGED worker /\ (UNCHANGED slips \/ slips' = slips + 1)
    BY <1>5 DEF Visit, Register, Login, CreateSession, ResetPassword, UseToken,
     SetPassword, EndSessions, UseOtherTokens, VisitorFails, Slip, queueVars
  <2> QED BY <1>0, <1>k, <2>1
<1>6. CASE (\E s \in sessions : Logout(s)) \/ BeginDelete \/ DeleteFails
  BY <1>0, <1>6, <1>k DEF Logout, BeginDelete, DeleteFails, Slip, queueVars
<1>7. CASE Delete
  <2>1. UNCHANGED <<worker, slips>>
    BY <1>7 DEF Delete
  <2>2. \A r \in Requests : queue'[r].attempts = queue[r].attempts
    BY <1>0, <1>7 DEF Delete, QueueType
  <2>3. \A r \in Requests : queue'[r].state = queue[r].state \/ queue'[r].state = "deleted"
    BY <1>0, <1>7 DEF Delete, QueueType
  <2>4. \A r \in Requests : Manned(r) => Manned(r)'
    BY <2>1 DEF Manned
  <2> QED BY <1>0, <2>1, <2>2, <2>3, <2>4, IdleKeepsClaimLeft
<1>8. CASE UNCHANGED vars
  BY <1>0, <1>8, <1>k DEF vars
<1> QED BY <1>1, <1>2, <1>3, <1>4, <1>5, <1>6, <1>7, <1>8 DEF Next, TimePasses

\* A request is claimed MaxAttempts times, and once more for every lease outlived and
\* every worker or statement that stopped: the retries of
\* processPasswordResetRequest come to an end.
THEOREM ClaimsComeToAnEnd == Spec => []ClaimsAreCounted
<1>1. ClaimLeft => ClaimsAreCounted
  BY DEF ClaimLeft, ClaimsAreCounted
<1> QED BY <1>1, ResetInvariant, InitIdle, StepIdle, InitClaimLeft, StepClaimLeft, PTL
        DEF Spec

=============================================================================
