--------------------------- MODULE DocumentStore ---------------------------
(***************************************************************************)
(* Saved documents and the requests that read and write them.              *)
(*                                                                         *)
(* Every account has browsers (session cookie) and API tokens (REST, or    *)
(* the MCP tools).  A client has at most one request in flight.  A request *)
(* is a sequence of SQL statements, each one step: PostgreSQL runs them    *)
(* under READ COMMITTED, so a statement sees what other requests committed *)
(* since the previous one, and anything may happen between two steps.      *)
(*                                                                         *)
(* A body is the number of times it holds each passage: where a passage    *)
(* stands is layout, whether it is there, and how often, is what an edit   *)
(* tests and what an overwritten draft loses.                              *)
(*                                                                         *)
(* A definition named Mutant... is no part of the model: it is the one     *)
(* after it with a slip of the kind a change to the code could make, and   *)
(* shows that the property it is paired with in PROJECT.json would see it. *)
(***************************************************************************)
EXTENDS Integers, FiniteSets, FiniteSetsExt

CONSTANTS
  Users,           \* accounts
  Browsers,        \* clients that hold a session
  Tokens,          \* clients that hold an API token
  AccountOf,       \* the account each client acts for
  PublicIds,       \* the public ids randomPublicID can draw
  Passages,        \* pieces of text
  MaxBody,         \* MaxDocumentBodyBytes, counted in passages
  AccountStates,   \* what billing can say of an account: [pro, limit] records
  CreateAttempts,  \* public ids Create tries (5 in the code)
  WriteAttempts,   \* mcpWriteAttempts
  Operations,      \* the operations each client uses
  MaxVersion,      \* bound: no content write begins that could pass it
  OwnerActorKey,   \* the contributor key of every browser
  None             \* no document, no client, no passage, no editor

Clients == Browsers \cup Tokens
Actors == Tokens \cup {OwnerActorKey}
NoLimit == -1      \* NoSavedDocumentLimit
Limits == {s.limit : s \in AccountStates}
NoVersion == 0     \* a nil IfVersion: stored versions start at 1

Bodies == {b \in [Passages -> 0..MaxBody] :
             MapThenSumSet(LAMBDA p : b[p], Passages) <= MaxBody}
EmptyBody == [p \in Passages |-> 0]

OpNames == {"create", "get", "patch", "star", "archive", "share", "unshare",
            "edit", "append"}
AgentOps == {"edit", "append"}
ContentOps == AgentOps \cup {"patch", "star"}

ASSUME AccountsAssumption == AccountOf \in [Clients -> Users]
ASSUME ActorsAssumption == /\ OwnerActorKey \notin Tokens
                           /\ Browsers \cap Tokens = {}
ASSUME NoneAssumption == None \notin Users \cup Clients \cup PublicIds \cup Passages
                                       \cup Actors
ASSUME FiniteAssumption == IsFiniteSet(PublicIds) /\ IsFiniteSet(Passages)
ASSUME AccountStatesAssumption ==
  AccountStates \subseteq [pro: BOOLEAN, limit: Nat \cup {NoLimit}]
ASSUME BoundsAssumption == /\ MaxBody \in Nat
                           /\ MaxVersion \in Nat
                           /\ CreateAttempts \in Nat \ {0}
                           /\ WriteAttempts \in Nat \ {0}
                           /\ Operations \in [Clients -> SUBSET OpNames]
\* Holds of every MaxBody and Passages; stated because the sum is a fold.
ASSUME EmptyBodyAssumption == EmptyBody \in Bodies

VARIABLES
  docs,          \* the documents table
  contributors,  \* document_contributors: who has changed each document
  account,       \* what billing says of each account
  lockedBy,      \* the client whose transaction locks each users row
  pc,            \* the next statement of each client's request
  req,           \* what the request asks for
  copy,          \* the document each client was sent last
  answer         \* the answer the last step gave, and to whom

vars == <<docs, contributors, account, lockedBy, pc, req, copy, answer>>

Row == [state: {"absent", "active", "archived"}, owner: Users \cup {None},
        body: Bodies, version: Nat, starred: BOOLEAN, shared: BOOLEAN,
        editor: Actors \cup {None}]
NoRow == [state |-> "absent", owner |-> None, body |-> EmptyBody, version |-> 0,
          starred |-> FALSE, shared |-> FALSE, editor |-> None]

Request == [op: OpNames \cup {"none"}, id: PublicIds \cup {None},
            setBody: BOOLEAN, body: Bodies, setStarred: BOOLEAN, starred: BOOLEAN,
            version: Nat, old: Passages \cup {None}, new: Passages \cup {None},
            limit: Nat \cup {NoLimit}, attempt: Nat]
NoRequest == [op |-> "none", id |-> None, setBody |-> FALSE, body |-> EmptyBody,
              setStarred |-> FALSE, starred |-> FALSE, version |-> NoVersion,
              old |-> None, new |-> None, limit |-> NoLimit, attempt |-> 0]

Copy == [id: PublicIds \cup {None}, version: Nat, body: Bodies]
NoCopy == [id |-> None, version |-> 0, body |-> EmptyBody]

Steps == {"idle", "account", "lock", "count", "insert", "get", "update", "recheck",
          "conflict", "read", "snapshot", "archive", "share", "unshare"}
Answers == {"none", "ok", "upgrade", "limit", "collision", "missing", "conflict",
            "shared", "unmatched", "busy"}

NoAnswer == [to |-> None, is |-> "none"]

Init ==
  /\ docs = [d \in PublicIds |-> NoRow]
  /\ contributors = [d \in PublicIds |-> {}]
  /\ account \in [Users -> AccountStates]
  /\ lockedBy = [u \in Users |-> None]
  /\ pc = [c \in Clients |-> "idle"]
  /\ req = [c \in Clients |-> NoRequest]
  /\ copy = [c \in Clients |-> NoCopy]
  /\ answer = NoAnswer

-----------------------------------------------------------------------------
(* What a statement sees. *)

\* The owner is left out of the WHERE clause.
MutantLive(u, d) == d \in PublicIds /\ docs[d].state = "active"

\* WHERE owner_user_id = $1 AND id = $2 AND archived_at IS NULL
Live(u, d) == d \in PublicIds /\ docs[d].state = "active" /\ docs[d].owner = u

Mine(c) == Live(AccountOf[c], req[c].id)

Active(u) == {d \in PublicIds : Live(u, d)}

CopyOf(d, row) == [id |-> d, version |-> row.version, body |-> row.body]

ActorKey(c) == IF c \in Tokens THEN c ELSE OwnerActorKey

\* The ids a client can name: it learns one from a document that was created.
\* Another account's, or an archived document's, are among them.
Known == {d \in PublicIds : docs[d].state # "absent"}

-----------------------------------------------------------------------------
(* A request begins, moves to its next statement, or is answered. *)

NeedsPro(c, op) == c \in Tokens \/ op = "share"

\* The bearer token or the share route needs Pro, and the account has it.
Begin(c, step, r) ==
  /\ pc[c] = "idle"
  /\ r.op \in Operations[c]
  /\ NeedsPro(c, r.op) => account[AccountOf[c]].pro
  /\ pc' = [pc EXCEPT ![c] = step]
  /\ req' = [req EXCEPT ![c] = r]
  /\ answer' = NoAnswer
  /\ UNCHANGED <<docs, contributors, account, lockedBy, copy>>

RequirePro(c) ==
  /\ pc[c] = "idle"
  /\ \E op \in Operations[c] : NeedsPro(c, op)
  /\ ~account[AccountOf[c]].pro
  /\ answer' = [to |-> c, is |-> "upgrade"]
  /\ UNCHANGED <<docs, contributors, account, lockedBy, pc, req, copy>>

Goto(c, step) == pc' = [pc EXCEPT ![c] = step] /\ answer' = NoAnswer

Answered(c, a) ==
  /\ pc' = [pc EXCEPT ![c] = "idle"]
  /\ req' = [req EXCEPT ![c] = NoRequest]
  /\ answer' = [to |-> c, is |-> a]

\* The rollback or commit that ends createWithPublicID's transaction.
Unlock(c) == lockedBy' = [lockedBy EXCEPT ![AccountOf[c]] = None]

\* Bound: versions that writes in flight may still add stay within MaxVersion.
MayWrite(d) ==
  docs[d].version + Cardinality({c \in Clients : req[c].op \in ContentOps}) < MaxVersion

-----------------------------------------------------------------------------
(* POST /docs, and create_document: read the plan, then one transaction.   *)

BeginCreate(c) ==
  \E b \in Bodies :
    Begin(c, "account", [NoRequest EXCEPT !.op = "create", !.body = b])

\* The limit is read before the transaction and may be stale inside it.
ReadAccount(c) ==
  /\ pc[c] = "account"
  /\ Goto(c, "lock")
  /\ req' = [req EXCEPT ![c].limit = account[AccountOf[c]].limit]
  /\ UNCHANGED <<docs, contributors, account, lockedBy, copy>>

\* A plain SELECT in place of FOR UPDATE.
MutantLockUser(c) ==
  /\ pc[c] = "lock"
  /\ Goto(c, IF req[c].limit = NoLimit THEN "insert" ELSE "count")
  /\ UNCHANGED <<docs, contributors, account, lockedBy, req, copy>>

\* SELECT ... FROM users FOR UPDATE waits for whoever holds the row.
LockUser(c) ==
  /\ pc[c] = "lock"
  /\ lockedBy[AccountOf[c]] = None
  /\ lockedBy' = [lockedBy EXCEPT ![AccountOf[c]] = c]
  /\ Goto(c, IF req[c].limit = NoLimit THEN "insert" ELSE "count")
  /\ UNCHANGED <<docs, contributors, account, req, copy>>

AtLimit(c) == Cardinality(Active(AccountOf[c])) >= req[c].limit

CountSaved(c) ==
  /\ pc[c] = "count"
  /\ \/ /\ AtLimit(c)
        /\ Answered(c, "limit")
        /\ Unlock(c)
     \/ /\ ~AtLimit(c)
        /\ Goto(c, "insert")
        /\ UNCHANGED <<req, lockedBy>>
  /\ UNCHANGED <<docs, contributors, account, copy>>

NewRow(c) == [state |-> "active", owner |-> AccountOf[c], body |-> req[c].body,
              version |-> 1, starred |-> FALSE, shared |-> FALSE,
              editor |-> ActorKey(c)]

\* INSERT, recordContribution and COMMIT.
Insert(c) ==
  /\ pc[c] = "insert"
  /\ \E d \in PublicIds :
       /\ docs[d].state = "absent"
       /\ docs' = [docs EXCEPT ![d] = NewRow(c)]
       /\ contributors' = [contributors EXCEPT ![d] = @ \cup {ActorKey(c)}]
       /\ copy' = [copy EXCEPT ![c] = CopyOf(d, NewRow(c))]
  /\ Unlock(c)
  /\ Answered(c, "ok")
  /\ UNCHANGED account

\* The retry is not counted.
MutantInsertCollides(c) ==
  /\ pc[c] = "insert"
  /\ \E d \in PublicIds : docs[d].state # "absent"
  /\ Unlock(c)
  /\ Goto(c, "lock")
  /\ UNCHANGED <<docs, contributors, account, req, copy>>

\* The drawn id is taken: roll back and draw again, CreateAttempts times in all.
InsertCollides(c) ==
  /\ pc[c] = "insert"
  /\ \E d \in PublicIds : docs[d].state # "absent"
  /\ Unlock(c)
  /\ \/ /\ req[c].attempt + 1 < CreateAttempts
        /\ Goto(c, "lock")
        /\ req' = [req EXCEPT ![c].attempt = @ + 1]
     \/ /\ req[c].attempt + 1 >= CreateAttempts
        /\ Answered(c, "collision")
  /\ UNCHANGED <<docs, contributors, account, copy>>

-----------------------------------------------------------------------------
(* GET /docs/{id}, and read_document. *)

BeginGet(c) ==
  \E d \in Known : Begin(c, "get", [NoRequest EXCEPT !.op = "get", !.id = d])

Get(c) ==
  /\ pc[c] = "get"
  /\ \/ /\ Mine(c)
        /\ copy' = [copy EXCEPT ![c] = CopyOf(req[c].id, docs[req[c].id])]
        /\ Answered(c, "ok")
     \/ /\ ~Mine(c)
        /\ Answered(c, "missing")
        /\ UNCHANGED copy
  /\ UNCHANGED <<docs, contributors, account, lockedBy>>

-----------------------------------------------------------------------------
(* PATCH /docs/{id}.  The client sends a whole body, a star, or both; with *)
(* the version of the copy it holds, or, as older clients do, with none.   *)

VersionsSent(c, d) == {NoVersion} \cup (IF copy[c].id = d THEN {copy[c].version} ELSE {})

BeginPatch(c) ==
  \E d \in Known : \E b \in Bodies, v \in VersionsSent(c, d) :
    /\ MayWrite(d)
    /\ Begin(c, "update", [NoRequest EXCEPT !.op = "patch", !.id = d, !.version = v,
                                            !.setBody = TRUE, !.body = b])

BeginStar(c) ==
  \E d \in Known, s \in BOOLEAN, withBody \in BOOLEAN :
  \E b \in (IF withBody THEN Bodies ELSE {EmptyBody}), v \in VersionsSent(c, d) :
    /\ MayWrite(d)
    /\ Begin(c, "update", [NoRequest EXCEPT !.op = "star", !.id = d, !.version = v,
                                            !.setStarred = TRUE, !.starred = s,
                                            !.setBody = withBody, !.body = b])

\* The version is checked nowhere.
MutantMatches(c) == Mine(c)

\* The WHERE clause of the UPDATE: the version guard is part of the write.
Matches(c) == /\ Mine(c)
              /\ req[c].version \in {NoVersion, docs[req[c].id].version}

\* The body is written and content_version stays.
MutantUpdated(c, row) ==
  [row EXCEPT !.body = IF req[c].setBody THEN req[c].body ELSE @,
              !.editor = IF req[c].setBody THEN ActorKey(c) ELSE @,
              !.starred = IF req[c].setStarred THEN req[c].starred ELSE @]

\* Only a body counts as a contribution and as a new version.
Updated(c, row) ==
  [row EXCEPT !.body = IF req[c].setBody THEN req[c].body ELSE @,
              !.version = IF req[c].setBody THEN @ + 1 ELSE @,
              !.editor = IF req[c].setBody THEN ActorKey(c) ELSE @,
              !.starred = IF req[c].setStarred THEN req[c].starred ELSE @]

\* A star counts as a contribution.
MutantContributed(c, names) == names \cup {ActorKey(c)}

Contributed(c, names) == names \cup (IF req[c].setBody THEN {ActorKey(c)} ELSE {})

Update(c) ==
  /\ pc[c] = "update"
  /\ Matches(c)
  /\ docs' = [docs EXCEPT ![req[c].id] = Updated(c, @)]
  /\ contributors' = [contributors EXCEPT ![req[c].id] = Contributed(c, @)]
  \* A tool call returns the id, the title and the address; PATCH the document.
  /\ copy' = IF req[c].op \in AgentOps THEN copy
             ELSE [copy EXCEPT ![c] = CopyOf(req[c].id, Updated(c, docs[req[c].id]))]
  /\ Answered(c, "ok")
  /\ UNCHANGED <<account, lockedBy>>

UpdateMatchesNoRow(c) ==
  /\ pc[c] = "update"
  /\ ~Matches(c)
  /\ Goto(c, "recheck")
  /\ UNCHANGED <<docs, contributors, account, lockedBy, req, copy>>

\* The comparison is the wrong way round.
MutantConflicts(c) == Mine(c) /\ req[c].version > docs[req[c].id].version

\* The SELECT content_version that tells a conflict from a missing document.
Conflicts(c) == /\ Mine(c)
                /\ req[c].version \notin {NoVersion, docs[req[c].id].version}

Recheck(c) ==
  /\ pc[c] = "recheck"
  /\ \/ /\ ~Conflicts(c)
        /\ Answered(c, "missing")
     \/ /\ Conflicts(c)
        /\ req[c].op \notin AgentOps
        /\ Goto(c, "conflict")
        /\ UNCHANGED req
     \/ /\ Conflicts(c)
        /\ req[c].op \in AgentOps
        /\ req[c].attempt + 1 < WriteAttempts
        /\ Goto(c, "read")
        /\ req' = [req EXCEPT ![c].attempt = @ + 1]
     \/ /\ Conflicts(c)
        /\ req[c].op \in AgentOps
        /\ req[c].attempt + 1 >= WriteAttempts
        /\ Answered(c, "busy")
  /\ UNCHANGED <<docs, contributors, account, lockedBy, copy>>

\* 409 answers with the document the client already had.
MutantWriteVersionConflict(c) ==
  /\ pc[c] = "conflict"
  /\ Answered(c, "conflict")
  /\ UNCHANGED <<docs, contributors, account, lockedBy, copy>>

\* 409 carries the stored document, unless it was archived meanwhile.
WriteVersionConflict(c) ==
  /\ pc[c] = "conflict"
  /\ \/ /\ Mine(c)
        /\ copy' = [copy EXCEPT ![c] = CopyOf(req[c].id, docs[req[c].id])]
        /\ Answered(c, "conflict")
     \/ /\ ~Mine(c)
        /\ Answered(c, "missing")
        /\ UNCHANGED copy
  /\ UNCHANGED <<docs, contributors, account, lockedBy>>

-----------------------------------------------------------------------------
(* edit_document and append_to_document. *)

BeginEdit(c) ==
  /\ c \in Tokens
  /\ \E d \in Known, old \in Passages, new \in Passages \cup {None} :
       /\ MayWrite(d)
       /\ Begin(c, "read", [NoRequest EXCEPT !.op = "edit", !.id = d, !.setBody = TRUE,
                                             !.old = old, !.new = new])

BeginAppend(c) ==
  /\ c \in Tokens
  /\ \E d \in Known, new \in Passages :
       /\ MayWrite(d)
       /\ Begin(c, "read", [NoRequest EXCEPT !.op = "append", !.id = d,
                                             !.setBody = TRUE, !.new = new])

\* The change a tool call asks for, applied to a body.
Change(r, b) == [p \in Passages |-> b[p] + (IF p = r.new THEN 1 ELSE 0)
                                         - (IF p = r.old THEN 1 ELSE 0)]

\* The size of the changed body is not checked.
MutantChangeable(r, b) == r.op = "edit" => b[r.old] = 1

\* An edit needs its passage exactly once; neither tool may pass the size limit.
Changeable(r, b) == /\ r.op = "edit" => b[r.old] = 1
                    /\ Change(r, b) \in Bodies

\* The version read with the text is not sent with the change.
MutantReadForRewrite(c) ==
  /\ pc[c] = "read"
  /\ Mine(c)
  /\ Changeable(req[c], docs[req[c].id].body)
  /\ req' = [req EXCEPT ![c].body = Change(req[c], docs[req[c].id].body)]
  /\ Goto(c, "update")
  /\ UNCHANGED <<docs, contributors, account, lockedBy, copy>>

ReadForRewrite(c) ==
  /\ pc[c] = "read"
  /\ \/ /\ ~Mine(c)
        /\ Answered(c, "missing")
     \/ /\ Mine(c)
        /\ ~Changeable(req[c], docs[req[c].id].body)
        /\ Answered(c, "unmatched")
     \/ /\ Mine(c)
        /\ Changeable(req[c], docs[req[c].id].body)
        /\ req' = [req EXCEPT ![c].body = Change(req[c], docs[req[c].id].body),
                              ![c].version = docs[req[c].id].version]
        /\ Goto(c, "update")
  /\ UNCHANGED <<docs, contributors, account, lockedBy, copy>>

-----------------------------------------------------------------------------
(* DELETE /docs/{id}: one statement, two moments.  Its plain SELECT sees   *)
(* the snapshot the statement began with; its UPDATE looks at the row      *)
(* again, as committed when it gets the row lock.                          *)

BeginArchive(c) ==
  \E d \in Known :
    Begin(c, "snapshot", [NoRequest EXCEPT !.op = "archive", !.id = d])

ArchiveSnapshot(c) ==
  /\ pc[c] = "snapshot"
  /\ \/ /\ ~Mine(c)
        /\ Answered(c, "missing")
     \/ /\ Mine(c)
        /\ docs[req[c].id].shared
        /\ Answered(c, "shared")
     \/ /\ Mine(c)
        /\ ~docs[req[c].id].shared
        /\ Goto(c, "archive")
        /\ UNCHANGED req
  /\ UNCHANGED <<docs, contributors, account, lockedBy, copy>>

\* The UPDATE of the archive relies on what its snapshot saw.
MutantArchivable(c) == Mine(c)

Archivable(c) == Mine(c) /\ ~docs[req[c].id].shared

Archive(c) ==
  /\ pc[c] = "archive"
  /\ \/ /\ Archivable(c)
        /\ docs' = [docs EXCEPT ![req[c].id].state = "archived"]
        /\ Answered(c, "ok")
     \/ /\ ~Archivable(c)
        /\ Answered(c, "missing")
        /\ UNCHANGED docs
  /\ UNCHANGED <<contributors, account, lockedBy, copy>>

-----------------------------------------------------------------------------
(* POST and DELETE /docs/{id}/share. *)

BeginShare(c) ==
  \E d \in Known : Begin(c, "share", [NoRequest EXCEPT !.op = "share", !.id = d])

BeginUnshare(c) ==
  \E d \in Known :
    Begin(c, "unshare", [NoRequest EXCEPT !.op = "unshare", !.id = d])

SetShared(c, step, shared) ==
  /\ pc[c] = step
  /\ \/ /\ Mine(c)
        /\ docs' = [docs EXCEPT ![req[c].id].shared = shared]
        /\ Answered(c, "ok")
     \/ /\ ~Mine(c)
        /\ Answered(c, "missing")
        /\ UNCHANGED docs
  /\ UNCHANGED <<contributors, account, lockedBy, copy>>

Share(c) == SetShared(c, "share", TRUE)
Unshare(c) == SetShared(c, "unshare", FALSE)

-----------------------------------------------------------------------------
(* The environment. *)

\* The client disconnects or the server stops: an open transaction rolls back,
\* committed statements stay, and the client does not learn what happened.
Lose(c) ==
  /\ pc[c] # "idle"
  /\ Answered(c, "none")
  /\ lockedBy' = [u \in Users |-> IF lockedBy[u] = c THEN None ELSE lockedBy[u]]
  /\ UNCHANGED <<docs, contributors, account, copy>>

\* Stripe, an administrator or a community grant changes the account.
ChangeAccount(u) ==
  /\ \E s \in AccountStates : account' = [account EXCEPT ![u] = s]
  /\ answer' = NoAnswer
  /\ UNCHANGED <<docs, contributors, lockedBy, pc, req, copy>>

BeginRequest(c) ==
  \/ BeginCreate(c) \/ BeginGet(c) \/ BeginPatch(c) \/ BeginStar(c) \/ BeginEdit(c)
  \/ BeginAppend(c) \/ BeginArchive(c) \/ BeginShare(c) \/ BeginUnshare(c)

\* A step of a request already begun, other than waiting for a row lock.
Statement(c) ==
  \/ ReadAccount(c) \/ CountSaved(c) \/ Insert(c) \/ InsertCollides(c) \/ Get(c)
  \/ Update(c) \/ UpdateMatchesNoRow(c) \/ Recheck(c) \/ WriteVersionConflict(c)
  \/ ReadForRewrite(c) \/ ArchiveSnapshot(c) \/ Archive(c) \/ Share(c) \/ Unshare(c)

Next ==
  \/ \E c \in Clients :
       BeginRequest(c) \/ RequirePro(c) \/ LockUser(c) \/ Statement(c) \/ Lose(c)
  \/ \E u \in Users : ChangeAccount(u)

Spec == Init /\ [][Next]_vars

\* The database answers every statement; PostgreSQL queues the waiters of a row
\* lock, so none is passed over for ever.
Fairness == \A c \in Clients : WF_vars(Statement(c)) /\ SF_vars(LockUser(c))

FairSpec == Spec /\ Fairness

-----------------------------------------------------------------------------
(* Properties. *)

\* Every variable holds a value of its type.
TypeOK ==
  /\ docs \in [PublicIds -> Row]
  /\ contributors \in [PublicIds -> SUBSET Actors]
  /\ account \in [Users -> AccountStates]
  /\ lockedBy \in [Users -> Clients \cup {None}]
  /\ pc \in [Clients -> Steps]
  /\ req \in [Clients -> Request]
  /\ copy \in [Clients -> Copy]
  /\ answer \in [to: Clients \cup {None}, is: Answers]

\* A content version names one body: a client whose copy carries the stored
\* version holds the stored text, whatever was written in between, and no copy
\* is ahead of the table.  The version guard of Update means nothing otherwise.
VersionNamesBody ==
  \A c \in Clients : copy[c].id # None =>
    LET row == docs[copy[c].id] IN
    /\ row.state # "absent"
    /\ copy[c].version <= row.version
    /\ copy[c].version = row.version => copy[c].body = row.body

\* This step gives c the answer a.
Gets(c, a) == answer' = [to |-> c, is |-> a]

\* c's PATCH or tool call writes a body in this step.
Writes(c) == pc[c] = "update" /\ req[c].setBody /\ Gets(c, "ok")

\* A PATCH that carries a version replaces exactly the text its client had
\* read: what others typed since then makes it a conflict, never a loss.
NoBlindOverwrite ==
  [][\A c \in Clients :
       Writes(c) /\ req[c].op \notin AgentOps /\ req[c].version # NoVersion =>
       /\ copy[c].id = req[c].id
       /\ copy[c].body = docs[req[c].id].body]_vars

\* docs/mcp.md: an agent never overwrites a sentence the owner just typed.  A
\* tool call's write is its change, applied to the text stored at that moment.
AgentChangesStoredText ==
  [][\A c \in Clients : Writes(c) /\ req[c].op \in AgentOps =>
       LET d == req[c].id IN
       /\ docs'[d].body = Change(req[c], docs[d].body)
       /\ req[c].op = "edit" => docs[d].body[req[c].old] = 1]_vars

\* c's request is answered "not found" in this step.
NotFound(c) == pc[c] # "idle" /\ Gets(c, "missing")

\* Read, update, edit, append, share and unshare answer 404 only for a document
\* that is archived, absent or another account's: a refused write whose row is
\* still there is never reported as a missing document.
NotFoundMeansGone ==
  [][\A c \in Clients : NotFound(c) /\ pc[c] # "archive" => ~Mine(c)]_vars

\* docs/document-api.md on DELETE: "Shared documents return 409".
SharedIsNotArchivable ==
  [][\A c \in Clients : NotFound(c) /\ pc[c] = "archive" =>
       ~(Mine(c) /\ docs[req[c].id].shared)]_vars

\* A 409 shows the writer a document newer than the one the draft was made from.
ConflictShowsNewerText ==
  [][\A c \in Clients :
       pc[c] = "conflict" /\ Gets(c, "conflict") =>
         copy'[c].id = req[c].id /\ copy'[c].version > req[c].version]_vars

\* However many creates run at once, one that succeeds leaves the account with
\* no more active documents than the limit it was checked against.
CreateWithinLimit ==
  [][\A c \in Clients :
       pc[c] = "insert" /\ Gets(c, "ok") /\ req[c].limit # NoLimit =>
           Cardinality(Active(AccountOf[c])') <= req[c].limit]_vars

\* A document is unshared before it is archived, so no link outlives it.
ArchivedIsPrivate ==
  \A d \in PublicIds : docs[d].state = "archived" => ~docs[d].shared

\* The row and its contributor table agree on who wrote it, and every writer
\* acts for the account that owns the document.
WritersAreContributors ==
  \A d \in PublicIds : docs[d].state # "absent" =>
    /\ docs[d].editor \in contributors[d]
    /\ \A a \in contributors[d] \cap Tokens : AccountOf[a] = docs[d].owner

\* Every request ends: no retry loop and no queue for the users row keeps one
\* in flight for ever, whatever the other clients do.
RequestsEnd == \A c \in Clients : pc[c] # "idle" ~> pc[c] = "idle"

\* The statements ahead of a request in the attempt it is at, and in those it has left.
StepsAhead ==
  [idle |-> 0, account |-> 4, lock |-> 3, count |-> 2, insert |-> 1, read |-> 4,
   update |-> 3, recheck |-> 2, conflict |-> 1, snapshot |-> 2, archive |-> 1, get |-> 1,
   share |-> 1, unshare |-> 1]
AttemptsOf(c) == IF req[c].op = "create" THEN CreateAttempts ELSE WriteAttempts
Ahead(c) == StepsAhead[pc[c]] + 4 * (AttemptsOf(c) - 1 - req[c].attempt)

\* What lets them end: however often others are faster, every statement of a request
\* brings its answer closer, and nobody else's takes it further away.
AnswersComeCloser ==
  [][\A c \in Clients : pc[c] # "idle" /\ pc'[c] # "idle" =>
       Ahead(c)' < Ahead(c) \/ (pc'[c] = pc[c] /\ req'[c] = req[c])]_vars

\* And a create that waits for its users row waits for one that waits for nothing:
\* whoever holds a row is a create of that account past its lock.
LocksAreShort ==
  /\ \A c \in Clients : req[c].attempt < AttemptsOf(c)
  /\ \A u \in Users : lockedBy[u] # None =>
       AccountOf[lockedBy[u]] = u /\ pc[lockedBy[u]] \in {"count", "insert"}

ActorsOf == [u \in Users |-> {OwnerActorKey} \cup {t \in Tokens : AccountOf[t] = u}]

L == INSTANCE Library WITH docs <- docs, contributors <- contributors

\* The requests, with their separate statements, do to the documents what the
\* operations of the Library do in one step.
ImplementsLibrary == L!Spec

=============================================================================
