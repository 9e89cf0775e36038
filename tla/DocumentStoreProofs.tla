------------------------ MODULE DocumentStoreProofs ------------------------
(***************************************************************************)
(* Proofs about DocumentStore, for every number of accounts, clients,      *)
(* documents and passages.                                                 *)
(***************************************************************************)
EXTENDS DocumentStore, TLAPS, FiniteSetTheorems

-----------------------------------------------------------------------------
(* The inductive invariant: what a request in flight may rely on.          *)

AddressSteps == {"get", "update", "recheck", "conflict", "read", "snapshot", "archive",
                 "share", "unshare"}

\* A request that names a document names one that was created.
NamesDocument(c) == pc[c] \in AddressSteps => req[c].id \in Known

\* Only the tools read before they write, and they always write a body.
ToolsRewrite(c) ==
  /\ pc[c] = "read" => req[c].op \in AgentOps
  /\ req[c].op \in AgentOps => req[c].setBody
  /\ req[c].op = "edit" => req[c].old \in Passages

\* The version a PATCH sends is that of the copy its client holds.
PatchSendsItsCopy(c) ==
  pc[c] = "update" /\ req[c].op \notin AgentOps /\ req[c].version # NoVersion =>
    copy[c].id = req[c].id /\ copy[c].version = req[c].version

\* A tool call about to write holds its change to the text of the version it sends.
RewriteIsCurrent(c) ==
  pc[c] = "update" /\ req[c].op \in AgentOps =>
    LET row == docs[req[c].id] IN
    /\ req[c].version \in 1..row.version
    /\ req[c].version = row.version =>
         /\ req[c].body = Change(req[c], row.body)
         /\ Changeable(req[c], row.body)

\* A refused write of a document still there lost to a later version.
RefusedIsOutdated(c) ==
  pc[c] \in {"recheck", "conflict"} /\ Mine(c) =>
    req[c].version \in 1..(docs[req[c].id].version - 1)

RequestInv(c) ==
  /\ NamesDocument(c)
  /\ ToolsRewrite(c)
  /\ PatchSendsItsCopy(c)
  /\ RewriteIsCurrent(c)
  /\ RefusedIsOutdated(c)

\* A created document has had at least one version.
VersionsStartAtOne == \A d \in Known : docs[d].version >= 1

TextInv ==
  /\ VersionsStartAtOne
  /\ VersionNamesBody
  /\ \A c \in Clients : RequestInv(c)

\* The users row is locked by the create between its count and its commit.
LockIsHeld(c) == pc[c] \in {"count", "insert"} => lockedBy[AccountOf[c]] = c

\* What the count found still holds when the INSERT runs.
RoomIsKept(c) ==
  pc[c] = "insert" /\ req[c].limit # NoLimit =>
    Cardinality(Active(AccountOf[c])) < req[c].limit

QuotaInv == \A c \in Clients : LockIsHeld(c) /\ RoomIsKept(c)

-----------------------------------------------------------------------------
(* Types. *)

\* The three records that mean "nothing" have their types.
LEMMA NothingIsTyped == NoRow \in Row /\ NoRequest \in Request /\ NoCopy \in Copy
BY EmptyBodyAssumption, NoneAssumption
   DEF NoRow, Row, NoRequest, Request, NoCopy, Copy, OpNames, NoVersion, NoLimit

\* What a client is sent of a document is a copy.
LEMMA CopyIsTyped ==
  ASSUME NEW d \in PublicIds, NEW row \in Row
  PROVE  CopyOf(d, row) \in Copy
BY DEF CopyOf, Copy, Row

\* The contributor key of a client is an actor, and is not None.
LEMMA ActorKeyIsActor ==
  ASSUME NEW c \in Clients
  PROVE  ActorKey(c) \in Actors
BY DEF ActorKey, Actors, Clients

\* Beginning a request keeps the types, if the request and its first statement
\* have theirs.
LEMMA BeginIsTyped ==
  ASSUME TypeOK, NEW c \in Clients, NEW step \in Steps, NEW r \in Request,
         Begin(c, step, r)
  PROVE  TypeOK'
BY NoneAssumption DEF TypeOK, Begin, NoAnswer, Answers

\* An answer keeps the types of what it assigns.
LEMMA AnsweredIsTyped ==
  ASSUME TypeOK, NEW c \in Clients, NEW a \in Answers, Answered(c, a)
  PROVE  /\ pc' \in [Clients -> Steps]
         /\ req' \in [Clients -> Request]
         /\ answer' \in [to: Clients \cup {None}, is: Answers]
BY NothingIsTyped DEF TypeOK, Answered, Steps

\* So does moving on to the next statement.
LEMMA GotoIsTyped ==
  ASSUME TypeOK, NEW c \in Clients, NEW step \in Steps, Goto(c, step)
  PROVE  /\ pc' \in [Clients -> Steps]
         /\ answer' \in [to: Clients \cup {None}, is: Answers]
BY DEF TypeOK, Goto, NoAnswer, Answers

\* Every request that can begin has its type.
LEMMA BeginRequestIsTyped ==
  ASSUME TypeOK, NEW c \in Clients, BeginRequest(c)
  PROVE  TypeOK'
<1> USE DEF Known, Steps, OpNames
<1>1. CASE BeginCreate(c)
  <2>1. PICK b \in Bodies :
          Begin(c, "account", [NoRequest EXCEPT !.op = "create", !.body = b])
    BY <1>1 DEF BeginCreate
  <2>2. [NoRequest EXCEPT !.op = "create", !.body = b] \in Request
    BY NothingIsTyped DEF Request
  <2> QED BY <2>1, <2>2, BeginIsTyped
<1>2. CASE BeginGet(c)
  <2>1. PICK d \in PublicIds :
          Begin(c, "get", [NoRequest EXCEPT !.op = "get", !.id = d])
    BY <1>2 DEF BeginGet
  <2>2. [NoRequest EXCEPT !.op = "get", !.id = d] \in Request
    BY NothingIsTyped DEF Request
  <2> QED BY <2>1, <2>2, BeginIsTyped
<1>3. CASE BeginPatch(c)
  <2>0. \A d \in PublicIds : VersionsSent(c, d) \subseteq Nat
    BY DEF VersionsSent, TypeOK, Copy, NoVersion
  <2>1. PICK d \in PublicIds, b \in Bodies, v \in Nat :
          Begin(c, "update", [NoRequest EXCEPT !.op = "patch", !.id = d, !.version = v,
                                               !.setBody = TRUE, !.body = b])
    BY <1>3, <2>0 DEF BeginPatch
  <2>2. [NoRequest EXCEPT !.op = "patch", !.id = d, !.version = v,
                          !.setBody = TRUE, !.body = b] \in Request
    BY NothingIsTyped DEF Request
  <2> QED BY <2>1, <2>2, BeginIsTyped
<1>4. CASE BeginStar(c)
  <2>0. \A d \in PublicIds : VersionsSent(c, d) \subseteq Nat
    BY DEF VersionsSent, TypeOK, Copy, NoVersion
  <2>1. PICK d \in PublicIds, s \in BOOLEAN, withBody \in BOOLEAN,
             b \in Bodies, v \in Nat :
          Begin(c, "update", [NoRequest EXCEPT !.op = "star", !.id = d, !.version = v,
                                               !.setStarred = TRUE, !.starred = s,
                                               !.setBody = withBody, !.body = b])
    BY <1>4, <2>0, EmptyBodyAssumption DEF BeginStar
  <2>2. [NoRequest EXCEPT !.op = "star", !.id = d, !.version = v,
                          !.setStarred = TRUE, !.starred = s,
                          !.setBody = withBody, !.body = b] \in Request
    BY NothingIsTyped DEF Request
  <2> QED BY <2>1, <2>2, BeginIsTyped
<1>5. CASE BeginEdit(c)
  <2>1. PICK d \in PublicIds, old \in Passages, new \in Passages \cup {None} :
          Begin(c, "read", [NoRequest EXCEPT !.op = "edit", !.id = d, !.setBody = TRUE,
                                             !.old = old, !.new = new])
    BY <1>5 DEF BeginEdit
  <2>2. [NoRequest EXCEPT !.op = "edit", !.id = d, !.setBody = TRUE,
                          !.old = old, !.new = new] \in Request
    BY NothingIsTyped DEF Request
  <2> QED BY <2>1, <2>2, BeginIsTyped
<1>6. CASE BeginAppend(c)
  <2>1. PICK d \in PublicIds, new \in Passages :
          Begin(c, "read", [NoRequest EXCEPT !.op = "append", !.id = d,
                                             !.setBody = TRUE, !.new = new])
    BY <1>6 DEF BeginAppend
  <2>2. [NoRequest EXCEPT !.op = "append", !.id = d,
                          !.setBody = TRUE, !.new = new] \in Request
    BY NothingIsTyped DEF Request
  <2> QED BY <2>1, <2>2, BeginIsTyped
<1>7. CASE BeginArchive(c)
  <2>1. PICK d \in PublicIds :
          Begin(c, "snapshot", [NoRequest EXCEPT !.op = "archive", !.id = d])
    BY <1>7 DEF BeginArchive
  <2>2. [NoRequest EXCEPT !.op = "archive", !.id = d] \in Request
    BY NothingIsTyped DEF Request
  <2> QED BY <2>1, <2>2, BeginIsTyped
<1>8. CASE BeginShare(c)
  <2>1. PICK d \in PublicIds :
          Begin(c, "share", [NoRequest EXCEPT !.op = "share", !.id = d])
    BY <1>8 DEF BeginShare
  <2>2. [NoRequest EXCEPT !.op = "share", !.id = d] \in Request
    BY NothingIsTyped DEF Request
  <2> QED BY <2>1, <2>2, BeginIsTyped
<1>9. CASE BeginUnshare(c)
  <2>1. PICK d \in PublicIds :
          Begin(c, "unshare", [NoRequest EXCEPT !.op = "unshare", !.id = d])
    BY <1>9 DEF BeginUnshare
  <2>2. [NoRequest EXCEPT !.op = "unshare", !.id = d] \in Request
    BY NothingIsTyped DEF Request
  <2> QED BY <2>1, <2>2, BeginIsTyped
<1> QED BY <1>1, <1>2, <1>3, <1>4, <1>5, <1>6, <1>7, <1>8, <1>9 DEF BeginRequest

\* A request with another attempt, or another body and version, is a request.
LEMMA RequestsAreClosed ==
  ASSUME NEW r \in Request
  PROVE  /\ [r EXCEPT !.attempt = @ + 1] \in Request
         /\ \A b \in Bodies, v \in Nat : [r EXCEPT !.body = b, !.version = v] \in Request
<1>1. [r EXCEPT !.attempt = @ + 1] \in Request
  BY DEF Request
<1>2. ASSUME NEW b \in Bodies, NEW v \in Nat
      PROVE  [r EXCEPT !.body = b, !.version = v] \in Request
  BY DEF Request
<1> QED BY <1>1, <1>2

\* A written row is a row.
LEMMA UpdatedIsTyped ==
  ASSUME TypeOK, NEW c \in Clients, NEW row \in Row
  PROVE  Updated(c, row) \in Row
<1> DEFINE body == IF req[c].setBody THEN req[c].body ELSE row.body
           version == IF req[c].setBody THEN row.version + 1 ELSE row.version
           editor == IF req[c].setBody THEN ActorKey(c) ELSE row.editor
           starred == IF req[c].setStarred THEN req[c].starred ELSE row.starred
<1>1. req[c] \in Request
  BY DEF TypeOK
<1>2. body \in Bodies /\ version \in Nat /\ editor \in Actors \cup {None} /\ starred \in BOOLEAN
  BY <1>1, ActorKeyIsActor DEF Request, Row
<1>3. Updated(c, row) = [row EXCEPT !.body = body, !.version = version,
                                    !.editor = editor, !.starred = starred]
  BY DEF Updated, Row
<1> HIDE DEF body, version, editor, starred
<1> QED BY <1>2, <1>3 DEF Row

\* Every statement of a request leaves the variables in their types.
LEMMA StatementIsTyped ==
  ASSUME TypeOK, NEW c \in Clients, Statement(c)
  PROVE  TypeOK'
<1> USE DEF Steps, Answers
<1>1. CASE ReadAccount(c)
  <2>1. account[AccountOf[c]].limit \in Nat \cup {NoLimit}
    BY AccountsAssumption, AccountStatesAssumption DEF TypeOK
  <2>2. req' \in [Clients -> Request]
    BY <1>1, <2>1 DEF TypeOK, ReadAccount, Request
  <2> QED BY <1>1, <2>2, GotoIsTyped DEF TypeOK, ReadAccount
<1>2. CASE CountSaved(c)
  <2>1. lockedBy' \in [Users -> Clients \cup {None}]
    BY <1>2 DEF TypeOK, CountSaved, Unlock
  <2> QED BY <1>2, <2>1, GotoIsTyped, AnsweredIsTyped DEF TypeOK, CountSaved
<1>3. CASE Insert(c)
  <2>1. NewRow(c) \in Row
    BY AccountsAssumption, ActorKeyIsActor DEF NewRow, Row, TypeOK, Request
  <2>2. lockedBy' \in [Users -> Clients \cup {None}]
    BY <1>3 DEF TypeOK, Insert, Unlock
  <2>3. docs' \in [PublicIds -> Row] /\ copy' \in [Clients -> Copy]
    BY <1>3, <2>1, CopyIsTyped DEF TypeOK, Insert
  <2>4. contributors' \in [PublicIds -> SUBSET Actors]
    BY <1>3, ActorKeyIsActor DEF TypeOK, Insert
  <2> QED BY <1>3, <2>2, <2>3, <2>4, AnsweredIsTyped DEF TypeOK, Insert
<1>4. CASE InsertCollides(c)
  <2>1. lockedBy' \in [Users -> Clients \cup {None}]
    BY <1>4 DEF TypeOK, InsertCollides, Unlock
  <2>2. req' \in [Clients -> Request]
    BY <1>4, AnsweredIsTyped DEF TypeOK, InsertCollides, Request
  <2> QED BY <1>4, <2>1, <2>2, GotoIsTyped, AnsweredIsTyped DEF TypeOK, InsertCollides
<1>5. CASE Get(c)
  <2>1. copy' \in [Clients -> Copy]
    BY <1>5, CopyIsTyped DEF TypeOK, Get, Mine, Live
  <2> QED BY <1>5, <2>1, AnsweredIsTyped DEF TypeOK, Get
<1>6. CASE Update(c)
  <2>1. req[c].id \in PublicIds
    BY <1>6 DEF Update, Matches, Mine, Live
  <2>2. Updated(c, docs[req[c].id]) \in Row
    BY <2>1, UpdatedIsTyped DEF TypeOK
  <2>3. docs' \in [PublicIds -> Row] /\ copy' \in [Clients -> Copy]
    BY <1>6, <2>1, <2>2, CopyIsTyped DEF TypeOK, Update
  <2>4. contributors' \in [PublicIds -> SUBSET Actors]
    BY <1>6, <2>1, ActorKeyIsActor DEF TypeOK, Update, Contributed
  <2> QED BY <1>6, <2>3, <2>4, AnsweredIsTyped DEF TypeOK, Update
<1>7. CASE UpdateMatchesNoRow(c)
  BY <1>7, GotoIsTyped DEF TypeOK, UpdateMatchesNoRow
<1>8. CASE Recheck(c)
  <2>1. [req EXCEPT ![c].attempt = @ + 1] \in [Clients -> Request]
    BY RequestsAreClosed DEF TypeOK
  <2>2. req' \in [Clients -> Request]
    BY <1>8, <2>1, AnsweredIsTyped DEF TypeOK, Recheck
  <2> QED BY <1>8, <2>2, GotoIsTyped, AnsweredIsTyped DEF TypeOK, Recheck
<1>9. CASE WriteVersionConflict(c)
  <2>1. copy' \in [Clients -> Copy]
    BY <1>9, CopyIsTyped DEF TypeOK, WriteVersionConflict, Mine, Live
  <2> QED BY <1>9, <2>1, AnsweredIsTyped DEF TypeOK, WriteVersionConflict
<1>10. CASE ReadForRewrite(c)
  <2>1. CASE Mine(c) /\ Changeable(req[c], docs[req[c].id].body) /\ Goto(c, "update")
             /\ req' = [req EXCEPT ![c].body = Change(req[c], docs[req[c].id].body),
                                   ![c].version = docs[req[c].id].version]
    <3>1. docs[req[c].id].version \in Nat /\ Change(req[c], docs[req[c].id].body) \in Bodies
      BY <2>1 DEF Mine, Live, TypeOK, Row, Changeable
    <3>2. \A b \in Bodies, v \in Nat : [req EXCEPT ![c].body = b, ![c].version = v]
                                       \in [Clients -> Request]
      BY RequestsAreClosed DEF TypeOK
    <3>3. req' \in [Clients -> Request]
      BY <2>1, <3>1, <3>2
    <3> QED BY <1>10, <2>1, <3>3, GotoIsTyped DEF TypeOK, ReadForRewrite
  <2>2. CASE Answered(c, "missing") \/ Answered(c, "unmatched")
    BY <1>10, <2>2, AnsweredIsTyped DEF TypeOK, ReadForRewrite
  <2> QED BY <1>10, <2>1, <2>2 DEF ReadForRewrite
<1>11. CASE ArchiveSnapshot(c)
  BY <1>11, GotoIsTyped, AnsweredIsTyped DEF TypeOK, ArchiveSnapshot
<1>12. CASE Archive(c)
  <2>1. docs' \in [PublicIds -> Row]
    BY <1>12 DEF TypeOK, Archive, Row
  <2> QED BY <1>12, <2>1, AnsweredIsTyped DEF TypeOK, Archive
<1>13. ASSUME NEW step, NEW shared \in BOOLEAN, SetShared(c, step, shared)
       PROVE  TypeOK'
  <2>1. \A d \in PublicIds : [docs EXCEPT ![d].shared = shared] \in [PublicIds -> Row]
    BY <1>13 DEF TypeOK, Row
  <2>2. docs' \in [PublicIds -> Row]
    BY <1>13, <2>1 DEF TypeOK, SetShared, Mine, Live
  <2> QED BY <1>13, <2>2, AnsweredIsTyped DEF TypeOK, SetShared
<1> QED
  BY <1>1, <1>2, <1>3, <1>4, <1>5, <1>6, <1>7, <1>8, <1>9, <1>10, <1>11, <1>12, <1>13
  DEF Statement, Share, Unshare

\* A step of any kind keeps every variable in its type.
LEMMA StepIsTyped ==
  ASSUME TypeOK, [Next]_vars
  PROVE  TypeOK'
<1>1. ASSUME NEW c \in Clients, RequirePro(c)
      PROVE  TypeOK'
  BY <1>1 DEF TypeOK, RequirePro, Answers
<1>2. ASSUME NEW c \in Clients, LockUser(c)
      PROVE  TypeOK'
  <2>1. lockedBy' \in [Users -> Clients \cup {None}]
    BY <1>2 DEF TypeOK, LockUser
  <2> QED BY <1>2, <2>1, GotoIsTyped DEF TypeOK, LockUser, Steps
<1>3. ASSUME NEW c \in Clients, Lose(c)
      PROVE  TypeOK'
  <2>1. lockedBy' \in [Users -> Clients \cup {None}]
    BY <1>3 DEF TypeOK, Lose
  <2> QED BY <1>3, <2>1, AnsweredIsTyped DEF TypeOK, Lose, Answers
<1>4. ASSUME NEW u \in Users, ChangeAccount(u)
      PROVE  TypeOK'
  BY <1>4 DEF TypeOK, ChangeAccount, NoAnswer, Answers
<1>5. CASE UNCHANGED vars
  BY <1>5 DEF TypeOK, vars
<1> QED BY <1>1, <1>2, <1>3, <1>4, <1>5, BeginRequestIsTyped, StatementIsTyped DEF Next

\* The database never holds a row, a lock or a request of the wrong shape: every
\* variable of DocumentStore keeps its type, whatever the requests interleave.
THEOREM TypeCorrect == Spec => []TypeOK
<1>1. Init => TypeOK
  BY NothingIsTyped DEF Init, TypeOK, Steps, NoAnswer, Answers
<1>2. TypeOK /\ [Next]_vars => TypeOK'
  BY StepIsTyped
<1> QED BY <1>1, <1>2, PTL DEF Spec

-----------------------------------------------------------------------------
(* What one step does to a row, to a copy and to a client's request. *)

\* A row only moves forward: it keeps its owner, is never written back to an
\* earlier version, never changes text within a version, never returns from
\* the archive.
Later(old, new) ==
  /\ new.state # "absent" /\ new.owner = old.owner
  /\ new.state = "active" => old.state = "active"
  /\ new.version >= old.version
  /\ new.version = old.version => new.body = old.body

\* A row that exists is a later version of itself.
LEMMA LaterIsReflexive ==
  ASSUME NEW row \in Row, row.state # "absent"
  PROVE  Later(row, row)
BY DEF Later, Row

\* An update takes a row to a later one, whether or not it sets the body.
LEMMA UpdatedIsLater ==
  ASSUME TypeOK, NEW c \in Clients, NEW row \in Row, row.state # "absent"
  PROVE  Later(row, Updated(c, row))
<1>1. req[c].setBody \in BOOLEAN /\ row.version \in Nat
  BY DEF TypeOK, Request, Row
<1>2. /\ Updated(c, row).state = row.state
      /\ Updated(c, row).owner = row.owner
      /\ Updated(c, row).version = IF req[c].setBody THEN row.version + 1 ELSE row.version
      /\ Updated(c, row).body = IF req[c].setBody THEN req[c].body ELSE row.body
  BY DEF Updated, Row
<1> QED BY <1>1, <1>2 DEF Later

\* To begin a request changes nothing but the client's own request.
LEMMA BeginsChangeNoTable ==
  ASSUME TypeOK, NEW c \in Clients, BeginRequest(c)
  PROVE  /\ UNCHANGED <<docs, contributors, account, lockedBy, copy>>
         /\ pc[c] = "idle" /\ answer' = NoAnswer
         /\ \A e \in Clients \ {c} : pc'[e] = pc[e] /\ req'[e] = req[e]
<1>1. ASSUME NEW step, NEW r, Begin(c, step, r)
      PROVE  /\ UNCHANGED <<docs, contributors, account, lockedBy, copy>>
             /\ pc[c] = "idle" /\ answer' = NoAnswer
             /\ \A e \in Clients \ {c} : pc'[e] = pc[e] /\ req'[e] = req[e]
  BY <1>1 DEF Begin, TypeOK
<1>2. \E step, r : Begin(c, step, r)
  <2>1. ASSUME BeginCreate(c) \/ BeginGet(c) \/ BeginPatch(c)
        PROVE  \E step, r : Begin(c, step, r)
    BY <2>1 DEF BeginCreate, BeginGet, BeginPatch
  <2>2. ASSUME BeginStar(c)
        PROVE  \E step, r : Begin(c, step, r)
    BY <2>2 DEF BeginStar
  <2>3. ASSUME BeginEdit(c) \/ BeginAppend(c) 
        PROVE  \E step, r : Begin(c, step, r)
    BY <2>3 DEF BeginEdit, BeginAppend
  <2>4. ASSUME BeginArchive(c) \/ BeginShare(c) \/ BeginUnshare(c)
        PROVE  \E step, r : Begin(c, step, r)
    BY <2>4 DEF BeginArchive, BeginShare, BeginUnshare
  <2> QED BY <2>1, <2>2, <2>3, <2>4 DEF BeginRequest
<1> QED BY <1>1, <1>2

\* Five statements write the documents table; the rest leave both tables alone.
LEMMA OnlyFiveStatementsWrite ==
  ASSUME TypeOK, [Next]_vars, docs' # docs \/ contributors' # contributors
  PROVE  \E c \in Clients : Insert(c) \/ Update(c) \/ Archive(c) \/ Share(c) \/ Unshare(c)
<1>1. ASSUME NEW c \in Clients,
             \/ BeginRequest(c) \/ RequirePro(c) \/ LockUser(c) \/ Lose(c)
             \/ ReadAccount(c) \/ CountSaved(c) \/ InsertCollides(c) \/ Get(c)
             \/ UpdateMatchesNoRow(c) \/ Recheck(c) \/ WriteVersionConflict(c)
             \/ ReadForRewrite(c) \/ ArchiveSnapshot(c)
      PROVE  docs' = docs /\ contributors' = contributors
  BY <1>1, BeginsChangeNoTable DEF RequirePro, LockUser, Lose, ReadAccount, CountSaved,
     InsertCollides, Get, UpdateMatchesNoRow, Recheck, WriteVersionConflict,
     ReadForRewrite, ArchiveSnapshot
<1>2. ASSUME NEW u \in Users, ChangeAccount(u)
      PROVE  docs' = docs /\ contributors' = contributors
  BY <1>2 DEF ChangeAccount
<1>3. UNCHANGED vars => docs' = docs /\ contributors' = contributors
  BY DEF vars
<1> QED BY <1>1, <1>2, <1>3 DEF Next, Statement

\* What a step does to the table: nothing, a first version, or a later row.
LEMMA RowsMoveForward ==
  ASSUME TypeOK, [Next]_vars, NEW d \in PublicIds
  PROVE  \/ docs'[d] = docs[d]
         \/ docs[d].state = "absent" /\ docs'[d].state = "active" /\ docs'[d].version = 1
         \/ docs[d].state # "absent" /\ Later(docs[d], docs'[d])
<1>1. docs[d] \in Row
  BY DEF TypeOK
<1>2. ASSUME NEW c \in Clients, Insert(c)
      PROVE  docs'[d] = docs[d] \/ (docs[d].state = "absent" /\ docs'[d].state = "active"
                                    /\ docs'[d].version = 1)
  BY <1>2 DEF Insert, NewRow, TypeOK
<1>3. ASSUME NEW c \in Clients, Update(c)
      PROVE  docs'[d] = docs[d] \/ (docs[d].state # "absent" /\ Later(docs[d], docs'[d]))
  <2>1. docs'[d] = docs[d] \/ (docs[d].state = "active" /\ docs'[d] = Updated(c, docs[d]))
    BY <1>3 DEF Update, Matches, Mine, Live, TypeOK
  <2> QED BY <1>1, <2>1, UpdatedIsLater
<1>4. ASSUME NEW c \in Clients, Archive(c)
      PROVE  docs'[d] = docs[d] \/ (docs[d].state # "absent" /\ Later(docs[d], docs'[d]))
  <2>1. docs'[d] = docs[d]
        \/ (docs[d].state = "active" /\ docs'[d] = [docs[d] EXCEPT !.state = "archived"])
    BY <1>4 DEF Archive, Archivable, Mine, Live, TypeOK
  <2> QED BY <1>1, <2>1 DEF Later, Row
<1>5. ASSUME NEW c \in Clients, NEW step, NEW shared \in BOOLEAN, SetShared(c, step, shared)
      PROVE  docs'[d] = docs[d] \/ (docs[d].state # "absent" /\ Later(docs[d], docs'[d]))
  <2>1. docs'[d] = docs[d]
        \/ (docs[d].state = "active" /\ docs'[d] = [docs[d] EXCEPT !.shared = shared])
    BY <1>5 DEF SetShared, Mine, Live, TypeOK
  <2> QED BY <1>1, <2>1 DEF Later, Row
<1>6. docs' = docs \/ \E c \in Clients : Insert(c) \/ Update(c) \/ Archive(c)
                                            \/ Share(c) \/ Unshare(c)
  BY OnlyFiveStatementsWrite
<1> QED BY <1>2, <1>3, <1>4, <1>5, <1>6 DEF Share, Unshare

\* What a client is sent is a row as the step leaves it.
LEMMA CopiesAreStoredRows ==
  ASSUME TypeOK, [Next]_vars, NEW c \in Clients, copy'[c] # copy[c]
  PROVE  \E d \in PublicIds : docs'[d].state # "absent" /\ copy'[c] = CopyOf(d, docs'[d])
<1> DEFINE Sent == \E d \in PublicIds : docs'[d].state # "absent"
                                         /\ copy'[c] = CopyOf(d, docs'[d])
<1>1. ASSUME NEW e \in Clients, Insert(e)
      PROVE  Sent
  BY <1>1 DEF Insert, NewRow, TypeOK
<1>2. ASSUME NEW e \in Clients, Update(e)
      PROVE  Sent
  <2>1. /\ req[e].id \in PublicIds /\ docs[req[e].id].state = "active"
        /\ docs'[req[e].id] = Updated(e, docs[req[e].id])
        /\ copy'[c] = CopyOf(req[e].id, docs'[req[e].id])
    BY <1>2 DEF Update, Matches, Mine, Live, TypeOK
  <2>2. docs'[req[e].id].state = "active"
    BY <2>1 DEF Updated, TypeOK, Row
  <2> QED BY <2>1, <2>2
<1>3. ASSUME NEW e \in Clients, Get(e) \/ WriteVersionConflict(e)
      PROVE  Sent
  BY <1>3 DEF Get, WriteVersionConflict, Mine, Live, TypeOK
<1>4. ASSUME NEW e \in Clients,
             \/ BeginRequest(e) \/ RequirePro(e) \/ LockUser(e) \/ Lose(e)
             \/ ReadAccount(e) \/ CountSaved(e) \/ InsertCollides(e)
             \/ UpdateMatchesNoRow(e) \/ Recheck(e) \/ ReadForRewrite(e)
             \/ ArchiveSnapshot(e) \/ Archive(e) \/ Share(e) \/ Unshare(e)
      PROVE  copy' = copy
  BY <1>4, BeginsChangeNoTable DEF RequirePro, LockUser, Lose, ReadAccount, CountSaved, InsertCollides, UpdateMatchesNoRow, Recheck,
     ReadForRewrite, ArchiveSnapshot, Archive, Share, Unshare, SetShared
<1>5. ASSUME NEW u \in Users, ChangeAccount(u)
      PROVE  copy' = copy
  BY <1>5 DEF ChangeAccount
<1>6. UNCHANGED vars => copy' = copy
  BY DEF vars
<1> HIDE DEF Sent
<1>7. Sent
  BY <1>1, <1>2, <1>3, <1>4, <1>5, <1>6 DEF Next, Statement
<1> QED BY <1>7 DEF Sent

-----------------------------------------------------------------------------
(* The text invariant is inductive. *)

\* Versions start at one and never fall below it.
LEMMA VersionsStay ==
  ASSUME TypeOK, VersionsStartAtOne, [Next]_vars
  PROVE  VersionsStartAtOne'
<1> SUFFICES ASSUME NEW d \in PublicIds, docs'[d].state # "absent"
             PROVE  docs'[d].version >= 1
  BY DEF VersionsStartAtOne, Known
<1>1. docs[d].state # "absent" => docs[d].version >= 1
  BY DEF VersionsStartAtOne, Known
<1>2. docs[d] \in Row /\ docs'[d] \in Row
  BY StepIsTyped DEF TypeOK
<1> QED BY <1>1, <1>2, RowsMoveForward DEF Later, Row

\* A copy at the stored version keeps holding the stored text.
LEMMA VersionsKeepNaming ==
  ASSUME TypeOK, VersionNamesBody, [Next]_vars
  PROVE  VersionNamesBody'
<1> SUFFICES ASSUME NEW c \in Clients, copy'[c].id # None
             PROVE  /\ docs'[copy'[c].id].state # "absent"
                    /\ copy'[c].version <= docs'[copy'[c].id].version
                    /\ copy'[c].version = docs'[copy'[c].id].version
                         => copy'[c].body = docs'[copy'[c].id].body
  BY DEF VersionNamesBody
<1> TypeOK'
  BY StepIsTyped
<1>1. CASE copy'[c] = copy[c]
  <2>1. PICK d \in PublicIds : d = copy[c].id
    BY <1>1 DEF TypeOK, Copy
  <2>2. docs[d] \in Row /\ docs'[d] \in Row /\ copy[c].version \in Nat
    BY DEF TypeOK, Copy
  <2>3. /\ docs[d].state # "absent" /\ copy[c].version <= docs[d].version
        /\ copy[c].version = docs[d].version => copy[c].body = docs[d].body
    BY <1>1, <2>1 DEF VersionNamesBody
  <2>4. docs'[d] = docs[d] \/ Later(docs[d], docs'[d])
    BY <2>3, RowsMoveForward
  <2> QED BY <1>1, <2>1, <2>2, <2>3, <2>4 DEF Later, Row
<1>2. CASE copy'[c] # copy[c]
  <2>1. PICK d \in PublicIds : docs'[d].state # "absent" /\ copy'[c] = CopyOf(d, docs'[d])
    BY <1>2, CopiesAreStoredRows
  <2>2. docs'[d].version \in Nat
    BY DEF TypeOK, Row
  <2> QED BY <2>1, <2>2 DEF CopyOf
<1> QED BY <1>1, <1>2

\* A client that does not move: the table moves under its request, and what the
\* request relies on stays true, because rows only move forward.
LEMMA BystanderKeepsRequest ==
  ASSUME TypeOK, TextInv, [Next]_vars, NEW c \in Clients,
         pc'[c] = pc[c], req'[c] = req[c], copy'[c] = copy[c]
  PROVE  RequestInv(c)'
<1> USE DEF TextInv
<1>0. RequestInv(c) /\ TypeOK'
  BY StepIsTyped
<1>1. CASE pc[c] \in AddressSteps
  <2>1. req[c].id \in PublicIds /\ docs[req[c].id].state # "absent"
    BY <1>0, <1>1 DEF RequestInv, NamesDocument, Known
  <2> DEFINE old == docs[req[c].id]
             new == docs'[req[c].id]
  <2>2. new = old \/ Later(old, new)
    BY <2>1, RowsMoveForward
  <2>3. old \in Row /\ new \in Row /\ req[c].version \in Nat
    BY <1>0, <2>1 DEF TypeOK, Request
  <2>4. NamesDocument(c)'
    BY <2>1, <2>2 DEF NamesDocument, Known, Later
  <2>5. ToolsRewrite(c)' /\ PatchSendsItsCopy(c)'
    BY <1>0 DEF RequestInv, ToolsRewrite, PatchSendsItsCopy
  <2>6. RewriteIsCurrent(c)'
    <3> SUFFICES ASSUME pc[c] = "update", req[c].op \in AgentOps
                 PROVE  /\ req[c].version \in 1..new.version
                        /\ req[c].version = new.version =>
                             /\ req[c].body = Change(req[c], new.body)
                             /\ Changeable(req[c], new.body)
      BY DEF RewriteIsCurrent
    <3>1. /\ req[c].version \in 1..old.version
          /\ req[c].version = old.version =>
               /\ req[c].body = Change(req[c], old.body)
               /\ Changeable(req[c], old.body)
      BY <1>0 DEF RequestInv, RewriteIsCurrent
    <3>2. /\ new.version >= old.version
          /\ new.version = old.version => new.body = old.body
      BY <2>2, <2>3 DEF Later, Row
    <3>3. old.version \in Nat /\ new.version \in Nat
      BY <2>3 DEF Row
    <3> QED BY <2>3, <3>1, <3>2, <3>3
  <2>7. RefusedIsOutdated(c)'
    <3> SUFFICES ASSUME pc[c] \in {"recheck", "conflict"}, Mine(c)'
                 PROVE  req[c].version \in 1..(new.version - 1)
      BY DEF RefusedIsOutdated
    <3>1. Mine(c)
      BY <2>1, <2>2 DEF Mine, Live, Later
    <3>2. req[c].version \in 1..(old.version - 1)
      BY <1>0, <3>1 DEF RequestInv, RefusedIsOutdated
    <3>3. old.version \in Nat /\ new.version \in Nat /\ new.version >= old.version
      BY <2>2, <2>3 DEF Later, Row
    <3> QED BY <3>2, <3>3
  <2> QED BY <2>4, <2>5, <2>6, <2>7 DEF RequestInv
<1>2. CASE pc[c] \notin AddressSteps
  BY <1>0, <1>2 DEF RequestInv, NamesDocument, ToolsRewrite, PatchSendsItsCopy,
     RewriteIsCurrent, RefusedIsOutdated, AddressSteps
<1> QED BY <1>1, <1>2

\* An idle client asks for nothing.
LEMMA IdleIsSafe ==
  ASSUME TypeOK, NEW c \in Clients, NEW a, Answered(c, a)
  PROVE  RequestInv(c)'
<1>1. pc'[c] = "idle" /\ req'[c].op = "none"
  BY DEF Answered, TypeOK, NoRequest
<1> QED
  BY <1>1 DEF RequestInv, NamesDocument, ToolsRewrite, PatchSendsItsCopy,
     RewriteIsCurrent, RefusedIsOutdated, AddressSteps, AgentOps

\* A request begins outside the transaction of a create.
LEMMA BeginsAtAddressSteps ==
  ASSUME TypeOK, NEW c \in Clients, BeginRequest(c)
  PROVE  pc'[c] \in AddressSteps \cup {"account"}
<1>1. ASSUME NEW step \in AddressSteps \cup {"account"}, NEW r, Begin(c, step, r)
      PROVE  pc'[c] \in AddressSteps \cup {"account"}
  BY <1>1 DEF Begin, TypeOK
<1>2. CASE BeginCreate(c) \/ BeginGet(c) \/ BeginPatch(c)
  BY <1>1, <1>2 DEF BeginCreate, BeginGet, BeginPatch, AddressSteps
<1>3. CASE BeginStar(c)
  BY <1>1, <1>3 DEF BeginStar, AddressSteps
<1>4. CASE BeginEdit(c) \/ BeginAppend(c)
  BY <1>1, <1>4 DEF BeginEdit, BeginAppend, AddressSteps
<1>5. CASE BeginArchive(c) \/ BeginShare(c) \/ BeginUnshare(c)
  BY <1>1, <1>5 DEF BeginArchive, BeginShare, BeginUnshare, AddressSteps
<1> QED BY <1>2, <1>3, <1>4, <1>5 DEF BeginRequest

\* A request begins with a document its client may name and, if it is a PATCH
\* with a version, with the version of its client's copy.
LEMMA BeginKeepsRequest ==
  ASSUME TypeOK, NEW c \in Clients, BeginRequest(c)
  PROVE  RequestInv(c)'
<1> USE DEF RequestInv, NamesDocument, ToolsRewrite, PatchSendsItsCopy,
     RewriteIsCurrent, RefusedIsOutdated, AddressSteps, AgentOps
<1>1. CASE BeginCreate(c)
  <2>1. pc'[c] = "account" /\ req'[c].op = "create"
    BY <1>1 DEF BeginCreate, Begin, TypeOK, NoRequest
  <2> QED BY <2>1
<1>2. CASE BeginGet(c)
  <2>1. PICK d \in Known :
          Begin(c, "get", [NoRequest EXCEPT !.op = "get", !.id = d])
    BY <1>2 DEF BeginGet
  <2>2. pc'[c] = "get" /\ req'[c].op = "get" /\ req'[c].id \in Known'
    BY <2>1 DEF Begin, TypeOK, NoRequest, Known
  <2> QED BY <2>2
<1>3. CASE BeginPatch(c)
  <2>1. PICK d \in Known : \E b \in Bodies, v \in VersionsSent(c, d) :
          Begin(c, "update", [NoRequest EXCEPT !.op = "patch", !.id = d, !.version = v,
                                               !.setBody = TRUE, !.body = b])
    BY <1>3 DEF BeginPatch
  <2>2. PICK b \in Bodies, v \in VersionsSent(c, d) :
          Begin(c, "update", [NoRequest EXCEPT !.op = "patch", !.id = d, !.version = v,
                                               !.setBody = TRUE, !.body = b])
    BY <2>1
  <2>3. v = NoVersion \/ (copy[c].id = d /\ copy[c].version = v)
    BY DEF VersionsSent
  <2>4. /\ pc'[c] = "update" /\ req'[c].op = "patch" /\ req'[c].id = d
        /\ req'[c].version = v /\ d \in Known' /\ copy' = copy
    BY <2>2 DEF Begin, TypeOK, NoRequest, Known
  <2> QED BY <2>3, <2>4
<1>4. CASE BeginStar(c)
  <2>1. PICK d \in Known, s \in BOOLEAN, withBody \in BOOLEAN :
          \E b \in (IF withBody THEN Bodies ELSE {EmptyBody}), v \in VersionsSent(c, d) :
            Begin(c, "update", [NoRequest EXCEPT !.op = "star", !.id = d, !.version = v,
                                                 !.setStarred = TRUE, !.starred = s,
                                                 !.setBody = withBody, !.body = b])
    BY <1>4 DEF BeginStar
  <2>2. PICK b \in (IF withBody THEN Bodies ELSE {EmptyBody}), v \in VersionsSent(c, d) :
          Begin(c, "update", [NoRequest EXCEPT !.op = "star", !.id = d, !.version = v,
                                               !.setStarred = TRUE, !.starred = s,
                                               !.setBody = withBody, !.body = b])
    BY <2>1
  <2>3. v = NoVersion \/ (copy[c].id = d /\ copy[c].version = v)
    BY DEF VersionsSent
  <2>4. /\ pc'[c] = "update" /\ req'[c].op = "star" /\ req'[c].id = d
        /\ req'[c].version = v /\ d \in Known' /\ copy' = copy
    BY <2>2 DEF Begin, TypeOK, NoRequest, Known
  <2> QED BY <2>3, <2>4
<1>5. CASE BeginEdit(c)
  <2>1. PICK d \in Known, old \in Passages, new \in Passages \cup {None} :
          Begin(c, "read", [NoRequest EXCEPT !.op = "edit", !.id = d, !.setBody = TRUE,
                                             !.old = old, !.new = new])
    BY <1>5 DEF BeginEdit
  <2>2. /\ pc'[c] = "read" /\ req'[c].op = "edit" /\ req'[c].id \in Known'
        /\ req'[c].setBody /\ req'[c].old \in Passages
    BY <2>1 DEF Begin, TypeOK, NoRequest, Known
  <2> QED BY <2>2
<1>6. CASE BeginAppend(c)
  <2>1. PICK d \in Known, new \in Passages :
          Begin(c, "read", [NoRequest EXCEPT !.op = "append", !.id = d,
                                             !.setBody = TRUE, !.new = new])
    BY <1>6 DEF BeginAppend
  <2>2. /\ pc'[c] = "read" /\ req'[c].op = "append" /\ req'[c].id \in Known'
        /\ req'[c].setBody
    BY <2>1 DEF Begin, TypeOK, NoRequest, Known
  <2> QED BY <2>2
<1>7. CASE BeginArchive(c)
  <2>1. PICK d \in Known :
          Begin(c, "snapshot", [NoRequest EXCEPT !.op = "archive", !.id = d])
    BY <1>7 DEF BeginArchive
  <2>2. pc'[c] = "snapshot" /\ req'[c].op = "archive" /\ req'[c].id \in Known'
    BY <2>1 DEF Begin, TypeOK, NoRequest, Known
  <2> QED BY <2>2
<1>8. CASE BeginShare(c)
  <2>1. PICK d \in Known :
          Begin(c, "share", [NoRequest EXCEPT !.op = "share", !.id = d])
    BY <1>8 DEF BeginShare
  <2>2. pc'[c] = "share" /\ req'[c].op = "share" /\ req'[c].id \in Known'
    BY <2>1 DEF Begin, TypeOK, NoRequest, Known
  <2> QED BY <2>2
<1>9. CASE BeginUnshare(c)
  <2>1. PICK d \in Known :
          Begin(c, "unshare", [NoRequest EXCEPT !.op = "unshare", !.id = d])
    BY <1>9 DEF BeginUnshare
  <2>2. pc'[c] = "unshare" /\ req'[c].op = "unshare" /\ req'[c].id \in Known'
    BY <2>1 DEF Begin, TypeOK, NoRequest, Known
  <2> QED BY <2>2
<1> QED BY <1>1, <1>2, <1>3, <1>4, <1>5, <1>6, <1>7, <1>8, <1>9 DEF BeginRequest

\* A statement leaves its own request as sound as it found it.
LEMMA StatementKeepsRequest ==
  ASSUME TypeOK, TextInv, NEW c \in Clients, Statement(c) \/ LockUser(c)
  PROVE  RequestInv(c)'
<1>0. /\ NamesDocument(c) /\ ToolsRewrite(c) /\ PatchSendsItsCopy(c)
      /\ RewriteIsCurrent(c) /\ RefusedIsOutdated(c) /\ VersionNamesBody
  BY DEF TextInv, RequestInv
<1> DEFINE d == req[c].id
           row == docs[d]
<1>1. CASE ReadAccount(c) \/ LockUser(c) \/ CountSaved(c) \/ Insert(c) \/ InsertCollides(c)
  <2>1. \/ \E a : Answered(c, a)
        \/ /\ \E step \in {"lock", "count", "insert"} : Goto(c, step)
           /\ \/ req' = req
              \/ \E n : req' = [req EXCEPT ![c].limit = n]
              \/ \E n : req' = [req EXCEPT ![c].attempt = n]
    <3>1. CASE ReadAccount(c) \/ LockUser(c)
      BY <3>1 DEF ReadAccount, LockUser
    <3>2. CASE CountSaved(c) \/ Insert(c) 
      BY <3>2 DEF CountSaved, Insert
    <3>3. CASE InsertCollides(c)
      BY <3>3 DEF InsertCollides
    <3> QED BY <1>1, <3>1, <3>2, <3>3
  <2>2. ASSUME NEW step \in {"lock", "count", "insert"}, Goto(c, step),
               \/ req' = req
               \/ \E n : req' = [req EXCEPT ![c].limit = n]
               \/ \E n : req' = [req EXCEPT ![c].attempt = n]
        PROVE  /\ pc'[c] \in {"lock", "count", "insert"}
               /\ req'[c].op = req[c].op /\ req'[c].setBody = req[c].setBody
               /\ req'[c].old = req[c].old
    BY <2>2 DEF Goto, TypeOK, Request
  <2> QED
    BY <1>0, <2>1, <2>2, IdleIsSafe DEF RequestInv, NamesDocument, ToolsRewrite,
       PatchSendsItsCopy, RewriteIsCurrent, RefusedIsOutdated, AddressSteps
<1>2. CASE UpdateMatchesNoRow(c)
  <2>1. /\ pc[c] = "update" /\ ~Matches(c) /\ pc'[c] = "recheck"
        /\ req' = req /\ docs' = docs
    BY <1>2 DEF UpdateMatchesNoRow, Goto, TypeOK
  <2>2. ASSUME Mine(c)
        PROVE  req[c].version \in 1..(row.version - 1)
    <3>1. d \in PublicIds /\ req[c].version \notin {NoVersion, row.version}
      BY <2>1, <2>2 DEF Matches, Mine, Live
    <3>2. row.version \in Nat /\ req[c].version \in Nat
      BY <3>1 DEF TypeOK, Row, Request
    <3>3. req[c].version <= row.version
      <4>1. CASE req[c].op \in AgentOps
        BY <1>0, <2>1, <4>1, <3>2 DEF RewriteIsCurrent
      <4>2. CASE req[c].op \notin AgentOps
        <5>1. copy[c].id = d /\ copy[c].version = req[c].version
          BY <1>0, <2>1, <3>1, <4>2 DEF PatchSendsItsCopy
        <5> QED BY <1>0, <3>1, <5>1, NoneAssumption DEF VersionNamesBody
      <4> QED BY <4>1, <4>2
    <3> QED BY <3>1, <3>2, <3>3 DEF NoVersion
  <2> QED
    BY <1>0, <2>1, <2>2 DEF RequestInv, NamesDocument, ToolsRewrite, PatchSendsItsCopy,
       RewriteIsCurrent, RefusedIsOutdated, AddressSteps, Known, Mine, Live
<1>3. CASE Recheck(c) /\ pc'[c] # "idle"
  <2>1. /\ pc[c] = "recheck" /\ docs' = docs /\ d \in Known
        /\ req'[c].op = req[c].op /\ req'[c].setBody = req[c].setBody
        /\ req'[c].old = req[c].old /\ req'[c].version = req[c].version
        /\ req'[c].id = req[c].id
        /\ \/ pc'[c] = "conflict"
           \/ pc'[c] = "read" /\ req[c].op \in AgentOps
    <3>1. /\ pc[c] = "recheck" /\ docs' = docs
          /\ \/ pc'[c] = "conflict" /\ req' = req
             \/ /\ pc'[c] = "read" /\ req[c].op \in AgentOps
                /\ req' = [req EXCEPT ![c].attempt = @ + 1]
      BY <1>3 DEF Recheck, Goto, Answered, TypeOK
    <3>2. d \in Known
      BY <1>0, <3>1 DEF NamesDocument, AddressSteps
    <3> QED BY <3>1, <3>2 DEF TypeOK, Request
  <2> QED
    BY <1>0, <2>1 DEF RequestInv, NamesDocument, ToolsRewrite, PatchSendsItsCopy,
       RewriteIsCurrent, RefusedIsOutdated, AddressSteps, Known, Mine, Live
<1>4. CASE ReadForRewrite(c) /\ pc'[c] # "idle"
  <2>1. /\ pc[c] = "read" /\ Mine(c) /\ Changeable(req[c], row.body) /\ pc'[c] = "update"
        /\ docs' = docs
        /\ req' = [req EXCEPT ![c].body = Change(req[c], row.body), ![c].version = row.version]
    BY <1>4 DEF ReadForRewrite, Goto, Answered, TypeOK
  <2>2. d \in Known /\ row.version \in Nat /\ row.version >= 1
    BY <2>1 DEF TextInv, VersionsStartAtOne, Known, Mine, Live, TypeOK, Row
  <2>3. /\ req'[c].op = req[c].op /\ req'[c].setBody = req[c].setBody
        /\ req'[c].old = req[c].old /\ req'[c].new = req[c].new
        /\ req'[c].id = req[c].id /\ req'[c].version = row.version
        /\ req'[c].body = Change(req[c], row.body)
    BY <2>1 DEF TypeOK, Request
  <2>4. /\ Change(req'[c], row.body) = Change(req[c], row.body)
        /\ Changeable(req'[c], row.body)
    BY <2>1, <2>3 DEF Change, Changeable
  <2> QED
    BY <1>0, <2>1, <2>2, <2>3, <2>4 DEF RequestInv, NamesDocument, ToolsRewrite,
       PatchSendsItsCopy, RewriteIsCurrent, RefusedIsOutdated, AddressSteps, Known
<1>5. CASE ArchiveSnapshot(c) /\ pc'[c] # "idle"
  <2>1. pc[c] = "snapshot" /\ pc'[c] = "archive" /\ docs' = docs /\ req' = req
    BY <1>5 DEF ArchiveSnapshot, Goto, Answered, TypeOK
  <2> QED
    BY <1>0, <2>1 DEF RequestInv, NamesDocument, ToolsRewrite, PatchSendsItsCopy,
       RewriteIsCurrent, RefusedIsOutdated, AddressSteps, Known
<1>6. CASE Get(c) \/ Update(c) \/ WriteVersionConflict(c) \/ Archive(c) \/ Share(c) \/ Unshare(c)
  <2>1. \E a : Answered(c, a)
    BY <1>6 DEF Get, Update, WriteVersionConflict, Archive, Share, Unshare, SetShared
  <2> QED BY <2>1, IdleIsSafe
<1>7. CASE (Recheck(c) \/ ReadForRewrite(c) \/ ArchiveSnapshot(c)) /\ pc'[c] = "idle"
  <2>1. \E a : Answered(c, a)
    BY <1>7 DEF Recheck, ReadForRewrite, ArchiveSnapshot, Goto, TypeOK
  <2> QED BY <2>1, IdleIsSafe
<1> QED BY <1>1, <1>2, <1>3, <1>4, <1>5, <1>6, <1>7 DEF Statement

\* One client moves; the others keep their request and their copy.
LEMMA OneClientMoves ==
  ASSUME TypeOK, NEW c \in Clients,
         \/ BeginRequest(c) \/ RequirePro(c) \/ LockUser(c) \/ Statement(c) \/ Lose(c),
         NEW e \in Clients \ {c}
  PROVE  /\ pc'[e] = pc[e] /\ req'[e] = req[e] /\ copy'[e] = copy[e]
         /\ answer'.to \in {c, None}
<1>1. CASE BeginRequest(c)
  BY <1>1, BeginsChangeNoTable DEF NoAnswer
<1>2. CASE RequirePro(c) \/ Lose(c) \/ LockUser(c)
  BY <1>2 DEF RequirePro, Lose, LockUser, Goto, Answered, NoAnswer, TypeOK
<1>3. CASE ReadAccount(c) \/ CountSaved(c) \/ Insert(c) \/ InsertCollides(c)
  BY <1>3 DEF ReadAccount, CountSaved, Insert, InsertCollides, Goto, Answered, NoAnswer, TypeOK
<1>4. CASE Get(c) \/ Update(c) \/ UpdateMatchesNoRow(c) \/ WriteVersionConflict(c)
  BY <1>4 DEF Get, Update, UpdateMatchesNoRow, WriteVersionConflict, Goto, Answered,
     NoAnswer, TypeOK
<1>5. CASE Recheck(c) \/ ReadForRewrite(c)
  BY <1>5 DEF Recheck, ReadForRewrite, Goto, Answered, NoAnswer, TypeOK
<1>6. CASE ArchiveSnapshot(c) \/ Archive(c) \/ Share(c) \/ Unshare(c)
  BY <1>6 DEF ArchiveSnapshot, Archive, Share, Unshare, SetShared, Goto, Answered,
     NoAnswer, TypeOK
<1> QED BY <1>1, <1>2, <1>3, <1>4, <1>5, <1>6 DEF Statement

\* No step of any client breaks the text invariant.
LEMMA TextInvIsInductive ==
  ASSUME TypeOK, TextInv, [Next]_vars
  PROVE  TextInv'
<1> SUFFICES ASSUME NEW e \in Clients
             PROVE  RequestInv(e)'
  BY VersionsStay, VersionsKeepNaming DEF TextInv
<1>1. ASSUME NEW c \in Clients,
             BeginRequest(c) \/ RequirePro(c) \/ LockUser(c) \/ Statement(c) \/ Lose(c)
      PROVE  RequestInv(e)'
  <2>1. CASE e # c
    BY <1>1, <2>1, OneClientMoves, BystanderKeepsRequest
  <2>2. CASE e = c /\ BeginRequest(c)
    BY <2>2, BeginKeepsRequest
  <2>3. CASE e = c /\ RequirePro(c)
    BY <2>3, BystanderKeepsRequest DEF RequirePro
  <2>4. CASE e = c /\ Lose(c)
    BY <2>4, IdleIsSafe DEF Lose
  <2>5. CASE e = c /\ (Statement(c) \/ LockUser(c))
    BY <2>5, StatementKeepsRequest
  <2> QED BY <1>1, <2>1, <2>2, <2>3, <2>4, <2>5
<1>2. ASSUME NEW u \in Users, ChangeAccount(u)
      PROVE  RequestInv(e)'
  BY <1>2, BystanderKeepsRequest DEF ChangeAccount
<1>3. CASE UNCHANGED vars
  BY <1>3, BystanderKeepsRequest DEF vars
<1> QED BY <1>1, <1>2, <1>3 DEF Next

\* So it holds in every reachable state.
LEMMA TextInvHolds == Spec => [](TypeOK /\ TextInv)
<1>1. Init => TextInv
  BY DEF Init, TextInv, VersionsStartAtOne, VersionNamesBody, RequestInv, NamesDocument,
     ToolsRewrite, PatchSendsItsCopy, RewriteIsCurrent, RefusedIsOutdated, AddressSteps,
     AgentOps, Known, NoRow, NoCopy, NoRequest
<1>2. TypeOK /\ TextInv /\ [Next]_vars => TextInv'
  BY TextInvIsInductive
<1> QED BY <1>1, <1>2, TypeCorrect, PTL DEF Spec

\* The version a client holds tells it, exactly, whether its text is the stored
\* one: no write of any client puts two bodies under one content_version.
THEOREM VersionsNameBodies == Spec => []VersionNamesBody
<1>1. TextInv => VersionNamesBody
  BY DEF TextInv
<1> QED BY <1>1, TextInvHolds, PTL

-----------------------------------------------------------------------------
(* What the text invariant is for. *)

\* A client that waits for its write is answered "ok" by Update alone.
LEMMA WritesAreUpdates ==
  ASSUME TypeOK, Next, NEW c \in Clients, Writes(c)
  PROVE  Update(c)
<1>1. pc[c] = "update" /\ answer'.to = c /\ answer'.is = "ok"
  BY DEF Writes, Gets
<1>2. ~\E u \in Users : ChangeAccount(u)
  BY <1>1, NoneAssumption DEF ChangeAccount, NoAnswer
<1>3. PICK e \in Clients :
        BeginRequest(e) \/ RequirePro(e) \/ LockUser(e) \/ Statement(e) \/ Lose(e)
  BY <1>2 DEF Next
<1>4. e = c
  BY <1>1, <1>3, OneClientMoves, NoneAssumption
<1>5. Statement(c)
  BY <1>1, <1>3, <1>4, BeginsChangeNoTable DEF RequirePro, LockUser, Lose, Answered
<1> QED
  BY <1>1, <1>5 DEF Statement, ReadAccount, CountSaved, Insert, InsertCollides, Get,
     UpdateMatchesNoRow, Goto, NoAnswer, Recheck, WriteVersionConflict, ReadForRewrite,
     ArchiveSnapshot, Archive, Share, Unshare, SetShared

\* What an update writes, when its request sets a body.
LEMMA UpdateWritesTheBody ==
  ASSUME TypeOK, NEW c \in Clients, Update(c), req[c].setBody
  PROVE  /\ req[c].id \in PublicIds
         /\ docs'[req[c].id].body = req[c].body
         /\ req[c].version \in {NoVersion, docs[req[c].id].version}
<1>1. req[c].id \in PublicIds /\ docs' = [docs EXCEPT ![req[c].id] = Updated(c, @)]
      /\ req[c].version \in {NoVersion, docs[req[c].id].version}
  BY DEF Update, Matches, Mine, Live
<1>2. docs'[req[c].id] = Updated(c, docs[req[c].id])
  BY <1>1 DEF TypeOK
<1>3. Updated(c, docs[req[c].id]).body = req[c].body
  BY <1>1 DEF Updated, TypeOK, Row
<1> QED BY <1>1, <1>2, <1>3

\* A PATCH with a version overwrites only what its client has read, for every
\* interleaving of any number of browsers, scripts and agents.
THEOREM NoPatchOverwritesBlindly == Spec => NoBlindOverwrite
<1>1. ASSUME TypeOK, TextInv, Next, NEW c \in Clients, Writes(c),
             req[c].op \notin AgentOps, req[c].version # NoVersion
      PROVE  copy[c].id = req[c].id /\ copy[c].body = docs[req[c].id].body
  <2>1. req[c].setBody /\ pc[c] = "update" /\ Update(c)
    BY <1>1, WritesAreUpdates DEF Writes
  <2>2. req[c].id \in PublicIds /\ req[c].version = docs[req[c].id].version
    BY <1>1, <2>1, UpdateWritesTheBody
  <2>3. copy[c].id = req[c].id /\ copy[c].version = req[c].version
    BY <1>1, <2>1 DEF TextInv, RequestInv, PatchSendsItsCopy
  <2> QED BY <1>1, <2>2, <2>3, NoneAssumption DEF TextInv, VersionNamesBody
<1> DEFINE A == \A c \in Clients :
                  Writes(c) /\ req[c].op \notin AgentOps /\ req[c].version # NoVersion =>
                  /\ copy[c].id = req[c].id
                  /\ copy[c].body = docs[req[c].id].body
<1>2. TypeOK /\ TextInv /\ [Next]_vars => [A]_vars
  BY <1>1
<1> HIDE DEF A
<1>3. Spec => [][A]_vars
  BY <1>2, TextInvHolds, PTL DEF Spec
<1> QED BY <1>3 DEF A, NoBlindOverwrite

\* A tool call's write is its own change to the stored text, whoever else wrote
\* between its read and its write, and however often it had to retry.
THEOREM AgentsChangeStoredText == Spec => AgentChangesStoredText
<1>1. ASSUME TypeOK, TextInv, Next, NEW c \in Clients, Writes(c), req[c].op \in AgentOps
      PROVE  /\ docs'[req[c].id].body = Change(req[c], docs[req[c].id].body)
             /\ req[c].op = "edit" => docs[req[c].id].body[req[c].old] = 1
  <2>1. req[c].setBody /\ pc[c] = "update" /\ Update(c)
    BY <1>1, WritesAreUpdates DEF Writes
  <2>2. /\ docs'[req[c].id].body = req[c].body
        /\ req[c].version \in {NoVersion, docs[req[c].id].version}
    BY <1>1, <2>1, UpdateWritesTheBody
  <2>3. RewriteIsCurrent(c)
    BY <1>1 DEF TextInv, RequestInv
  <2>4. req[c].version \in 1..docs[req[c].id].version
    BY <1>1, <2>1, <2>3 DEF RewriteIsCurrent
  <2>5. req[c].version = docs[req[c].id].version
    BY <2>2, <2>4 DEF NoVersion
  <2> QED BY <1>1, <2>1, <2>2, <2>3, <2>5 DEF RewriteIsCurrent, Changeable
<1> DEFINE A == \A c \in Clients : Writes(c) /\ req[c].op \in AgentOps =>
                  LET d == req[c].id IN
                  /\ docs'[d].body = Change(req[c], docs[d].body)
                  /\ req[c].op = "edit" => docs[d].body[req[c].old] = 1
<1>2. TypeOK /\ TextInv /\ [Next]_vars => [A]_vars
  BY <1>1
<1> HIDE DEF A
<1>3. Spec => [][A]_vars
  BY <1>2, TextInvHolds, PTL DEF Spec
<1> QED BY <1>3 DEF A, AgentChangesStoredText

\* An answer to a client in flight comes from one of the client's own statements.
LEMMA AnswersComeFromStatements ==
  ASSUME TypeOK, Next, NEW c \in Clients, pc[c] # "idle", NEW a, a # "none", Gets(c, a)
  PROVE  Statement(c) /\ answer'.is = a
<1>1. answer'.to = c /\ answer'.is = a
  BY DEF Gets
<1>2. ~\E u \in Users : ChangeAccount(u)
  BY <1>1, NoneAssumption DEF ChangeAccount, NoAnswer
<1>3. PICK e \in Clients :
        BeginRequest(e) \/ RequirePro(e) \/ LockUser(e) \/ Statement(e) \/ Lose(e)
  BY <1>2 DEF Next
<1>4. e = c
  BY <1>1, <1>3, OneClientMoves, NoneAssumption
<1> QED
  BY <1>1, <1>3, <1>4, BeginsChangeNoTable
  DEF RequirePro, LockUser, Lose, Goto, NoAnswer, Answered

\* A 404 is the truth for every operation but archive: the document was gone, or
\* another account's, when the statement that answered ran.  In particular no
\* write that lost a race is reported as a missing document.
THEOREM NotFoundIsTrue == Spec => NotFoundMeansGone
<1>1. ASSUME TypeOK, TextInv, Next, NEW c \in Clients, NotFound(c), pc[c] # "archive"
      PROVE  ~Mine(c)
  <2>1. Statement(c) /\ answer'.is = "missing" /\ pc[c] # "idle"
    BY <1>1, AnswersComeFromStatements DEF NotFound
  <2>2. CASE pc[c] = "recheck"
    <3>1. ~Conflicts(c)
      BY <2>1, <2>2 DEF Statement, ReadAccount, CountSaved, Insert, InsertCollides, Get,
         Update, UpdateMatchesNoRow, Recheck, WriteVersionConflict, ReadForRewrite,
         ArchiveSnapshot, Archive, Share, Unshare, SetShared, Goto, NoAnswer, Answered
    <3>2. ASSUME Mine(c)
          PROVE  Conflicts(c)
      <4>1. req[c].id \in PublicIds /\ RefusedIsOutdated(c)
        BY <1>1, <3>2 DEF Mine, Live, TextInv, RequestInv
      <4>2. docs[req[c].id].version \in Nat /\ req[c].version \in 1..(docs[req[c].id].version - 1)
        BY <1>1, <2>2, <3>2, <4>1 DEF RefusedIsOutdated, TypeOK, Row
      <4> QED BY <3>2, <4>2 DEF Conflicts, NoVersion
    <3> QED BY <3>1, <3>2
  <2>3. CASE pc[c] # "recheck"
    <3>1. ~(ReadAccount(c) \/ CountSaved(c) \/ Insert(c) \/ InsertCollides(c) \/ Update(c)
            \/ UpdateMatchesNoRow(c) \/ Recheck(c) \/ Archive(c))
      BY <1>1, <2>1, <2>3 DEF ReadAccount, CountSaved, Insert, InsertCollides, Update,
         UpdateMatchesNoRow, Recheck, Archive, Goto, NoAnswer, Answered
    <3> QED
      BY <2>1, <3>1 DEF Statement, Get, WriteVersionConflict, ReadForRewrite,
         ArchiveSnapshot, Share, Unshare, SetShared, Goto, NoAnswer, Answered
  <2> QED BY <2>2, <2>3
<1> DEFINE A == \A c \in Clients : NotFound(c) /\ pc[c] # "archive" => ~Mine(c)
<1>2. TypeOK /\ TextInv /\ [Next]_vars => [A]_vars
  BY <1>1
<1> HIDE DEF A
<1>3. Spec => [][A]_vars
  BY <1>2, TextInvHolds, PTL DEF Spec
<1> QED BY <1>3 DEF A, NotFoundMeansGone

\* The document a 409 carries is newer than the version the writer sent.
THEOREM ConflictsShowNewerText == Spec => ConflictShowsNewerText
<1>1. ASSUME TypeOK, TextInv, Next, NEW c \in Clients,
             pc[c] = "conflict", Gets(c, "conflict")
      PROVE  copy'[c].id = req[c].id /\ copy'[c].version > req[c].version
  <2>1. Statement(c) /\ answer'.is = "conflict"
    BY <1>1, AnswersComeFromStatements
  <2>2. WriteVersionConflict(c)
    BY <1>1, <2>1 DEF Statement, ReadAccount, CountSaved, Insert, InsertCollides, Get,
       Update, UpdateMatchesNoRow, Recheck, ReadForRewrite, ArchiveSnapshot, Archive,
       Share, Unshare, SetShared
  <2>3. Mine(c) /\ copy'[c] = CopyOf(req[c].id, docs[req[c].id])
    BY <1>1, <2>1, <2>2 DEF WriteVersionConflict, Answered, TypeOK
  <2>4. RefusedIsOutdated(c) /\ req[c].id \in PublicIds
    BY <1>1, <2>3 DEF TextInv, RequestInv, Mine, Live
  <2>5. docs[req[c].id].version \in Nat /\ req[c].version \in 1..(docs[req[c].id].version - 1)
    BY <1>1, <2>3, <2>4 DEF RefusedIsOutdated, TypeOK, Row
  <2> QED BY <2>3, <2>5 DEF CopyOf
<1> DEFINE A == \A c \in Clients :
                  pc[c] = "conflict" /\ Gets(c, "conflict") =>
                    copy'[c].id = req[c].id /\ copy'[c].version > req[c].version
<1>2. TypeOK /\ TextInv /\ [Next]_vars => [A]_vars
  BY <1>1
<1> HIDE DEF A
<1>3. Spec => [][A]_vars
  BY <1>2, TextInvHolds, PTL DEF Spec
<1> QED BY <1>3 DEF A, ConflictShowsNewerText

-----------------------------------------------------------------------------
(* Sharing. *)

\* No document is archived while its public page is on, and none in the archive
\* gets a page again: the archive's row-level recheck decides, not its snapshot.
THEOREM ArchivedArePrivate == Spec => []ArchivedIsPrivate
<1>1. Init => ArchivedIsPrivate
  BY DEF Init, ArchivedIsPrivate, NoRow
<1>2. ASSUME TypeOK, ArchivedIsPrivate, [Next]_vars
      PROVE  ArchivedIsPrivate'
  <2> SUFFICES ASSUME NEW d \in PublicIds, docs'[d] # docs[d], docs'[d].state = "archived"
               PROVE  ~docs'[d].shared
    BY <1>2 DEF ArchivedIsPrivate
  <2>1. docs[d].state = "archived" \/ docs[d].state = "active"
    BY <1>2, RowsMoveForward DEF Later, TypeOK, Row
  <2>2. ASSUME NEW c \in Clients, Insert(c)
        PROVE  FALSE
    BY <1>2, <2>2 DEF Insert, NewRow, TypeOK
  <2>3. ASSUME NEW c \in Clients, Update(c)
        PROVE  FALSE
    <3>1. docs[d].state = "active" /\ docs'[d] = Updated(c, docs[d])
      BY <1>2, <2>3 DEF Update, Matches, Mine, Live, TypeOK
    <3> QED BY <1>2, <3>1 DEF Updated, TypeOK, Row
  <2>4. ASSUME NEW c \in Clients, Archive(c)
        PROVE  ~docs'[d].shared
    <3>1. ~docs[d].shared /\ docs'[d] = [docs[d] EXCEPT !.state = "archived"]
      BY <1>2, <2>4 DEF Archive, Archivable, Mine, Live, TypeOK
    <3> QED BY <1>2, <3>1 DEF TypeOK, Row
  <2>5. ASSUME NEW c \in Clients, NEW step, NEW shared \in BOOLEAN, SetShared(c, step, shared)
        PROVE  FALSE
    <3>1. docs[d].state = "active" /\ docs'[d] = [docs[d] EXCEPT !.shared = shared]
      BY <1>2, <2>5 DEF SetShared, Mine, Live, TypeOK
    <3> QED BY <1>2, <3>1 DEF TypeOK, Row
  <2>6. PICK c \in Clients : Insert(c) \/ Update(c) \/ Archive(c) \/ Share(c) \/ Unshare(c)
    BY <1>2, OnlyFiveStatementsWrite
  <2> QED BY <2>2, <2>3, <2>4, <2>5, <2>6 DEF Share, Unshare
<1> QED BY <1>1, <1>2, TypeCorrect, PTL DEF Spec

-----------------------------------------------------------------------------
(* The limit on saved documents. *)

\* Only a create adds to the documents of an account, and only one document.
LEMMA ActiveShrinks ==
  ASSUME TypeOK, [Next]_vars, NEW u \in Users,
         ~\E c \in Clients : Insert(c) /\ AccountOf[c] = u
  PROVE  Active(u)' \subseteq Active(u)
<1> SUFFICES ASSUME NEW d \in PublicIds, docs'[d].state = "active", docs'[d].owner = u
             PROVE  docs[d].state = "active" /\ docs[d].owner = u
  BY DEF Active, Live
<1>1. CASE docs'[d] = docs[d]
  BY <1>1
<1>2. CASE docs[d].state # "absent" /\ Later(docs[d], docs'[d])
  BY <1>2 DEF Later
<1>3. CASE docs'[d] # docs[d] /\ docs[d].state = "absent"
  <2>1. PICK c \in Clients : Insert(c) \/ Update(c) \/ Archive(c) \/ Share(c) \/ Unshare(c)
    BY <1>3, OnlyFiveStatementsWrite
  <2>2. Insert(c)
    BY <1>3, <2>1 DEF Update, Archive, Archivable, Share, Unshare, SetShared, Matches, Mine,
       Live, TypeOK
  <2>3. docs'[d] = NewRow(c)
    BY <1>3, <2>2 DEF Insert, TypeOK
  <2> QED BY <2>2, <2>3 DEF NewRow
<1> QED BY <1>1, <1>2, <1>3, RowsMoveForward

\* There are finitely many documents to count.
LEMMA ActiveIsFinite ==
  ASSUME NEW u
  PROVE  IsFiniteSet(Active(u)) /\ Cardinality(Active(u)) \in Nat
<1>1. Active(u) \subseteq PublicIds
  BY DEF Active
<1> QED BY <1>1, FiniteAssumption, FS_Subset, FS_CardinalityType

\* A lock is taken from nobody: it ends with the transaction that holds it.
LEMMA LocksStayHeld ==
  ASSUME TypeOK, QuotaInv, [Next]_vars, NEW c \in Clients
  PROVE  LockIsHeld(c)'
<1> USE DEF LockIsHeld
<1>0. LockIsHeld(c) /\ \A e \in Clients : LockIsHeld(e)
  BY DEF QuotaInv
<1>00. AccountOf[c] \in Users /\ c # None
  BY AccountsAssumption, NoneAssumption
<1>1. ASSUME NEW e \in Clients,
             BeginRequest(e) \/ RequirePro(e) \/ LockUser(e) \/ Statement(e) \/ Lose(e),
             e # c
      PROVE  LockIsHeld(c)'
  <2>1. pc'[c] = pc[c]
    BY <1>1, OneClientMoves
  <2>2. lockedBy[AccountOf[c]] = c => lockedBy'[AccountOf[c]] = c
    <3>1. ASSUME Unlock(e), pc[e] \in {"count", "insert"}, lockedBy[AccountOf[c]] = c
          PROVE  lockedBy'[AccountOf[c]] = c
      BY <1>0, <1>00, <1>1, <3>1 DEF Unlock, TypeOK
    <3>2. CASE CountSaved(e) \/ Insert(e) \/ InsertCollides(e)
      BY <3>1, <3>2 DEF CountSaved, Insert, InsertCollides
    <3>3. CASE LockUser(e)
      BY <1>00, <3>3 DEF LockUser, TypeOK
    <3>4. CASE Lose(e)
      BY <1>00, <1>1, <3>4 DEF Lose
    <3>5. CASE BeginRequest(e) \/ RequirePro(e) \/ ReadAccount(e) \/ Get(e) \/ Update(e)
               \/ UpdateMatchesNoRow(e) \/ Recheck(e) \/ WriteVersionConflict(e)
               \/ ReadForRewrite(e) \/ ArchiveSnapshot(e) \/ Archive(e)
               \/ Share(e) \/ Unshare(e)
      BY <3>5, BeginsChangeNoTable DEF RequirePro, ReadAccount, Get, Update,
         UpdateMatchesNoRow, Recheck, WriteVersionConflict, ReadForRewrite,
         ArchiveSnapshot, Archive, Share, Unshare, SetShared
    <3> QED BY <1>1, <3>2, <3>3, <3>4, <3>5 DEF Statement
  <2> QED BY <1>0, <2>1, <2>2
<1>2. CASE LockUser(c)
  BY <1>00, <1>2 DEF LockUser, TypeOK
<1>3. CASE CountSaved(c)
  BY <1>0, <1>3 DEF CountSaved, Goto, Answered, TypeOK
<1>4. ASSUME Lose(c) \/ \E a : Answered(c, a)
      PROVE  LockIsHeld(c)'
  BY <1>4 DEF Lose, Answered, TypeOK
<1>5. ASSUME NEW step \in Steps \ {"count", "insert"}, Goto(c, step)
      PROVE  LockIsHeld(c)'
  BY <1>5 DEF Goto, TypeOK
<1>6. CASE Statement(c) /\ ~CountSaved(c)
  BY <1>4, <1>5, <1>6 DEF Statement, ReadAccount, Insert, InsertCollides, Get, Update,
     UpdateMatchesNoRow, Recheck, WriteVersionConflict, ReadForRewrite, ArchiveSnapshot,
     Archive, Share, Unshare, SetShared, Steps
<1>7. ASSUME BeginRequest(c)
      PROVE  LockIsHeld(c)'
  <2>1. pc'[c] \in AddressSteps \cup {"account"}
    BY <1>7, BeginsAtAddressSteps
  <2> QED BY <2>1 DEF AddressSteps
<1>8. CASE RequirePro(c) \/ (\E u \in Users : ChangeAccount(u)) \/ UNCHANGED vars
  BY <1>0, <1>8 DEF RequirePro, ChangeAccount, vars
<1> QED BY <1>1, <1>2, <1>3, <1>4, <1>6, <1>7, <1>8 DEF Next

\* Nobody fills the room a create has found: whoever would has to hold the lock.
LEMMA RoomStays ==
  ASSUME TypeOK, QuotaInv, [Next]_vars, NEW c \in Clients
  PROVE  RoomIsKept(c)'
<1> SUFFICES ASSUME pc'[c] = "insert", req'[c].limit # NoLimit
             PROVE  Cardinality(Active(AccountOf[c])') < req'[c].limit
  BY DEF RoomIsKept
<1>0. AccountOf[c] \in Users /\ c # None /\ LockIsHeld(c) /\ RoomIsKept(c)
  BY AccountsAssumption, NoneAssumption DEF QuotaInv
<1>1. CASE pc[c] = "insert" /\ req'[c] = req[c]
  <2>1. ~\E e \in Clients : Insert(e) /\ AccountOf[e] = AccountOf[c]
    <3> SUFFICES ASSUME NEW e \in Clients, Insert(e), AccountOf[e] = AccountOf[c]
                 PROVE  FALSE
      OBVIOUS
    <3>1. e = c
      BY <1>0, <1>1 DEF QuotaInv, LockIsHeld, Insert
    <3> QED BY <3>1 DEF Insert, Answered, TypeOK
  <2>2. Active(AccountOf[c])' \subseteq Active(AccountOf[c])
    BY <1>0, <2>1, ActiveShrinks
  <2>3. Cardinality(Active(AccountOf[c])') <= Cardinality(Active(AccountOf[c]))
    BY <2>2, ActiveIsFinite, FS_Subset
  <2>4. /\ Cardinality(Active(AccountOf[c])') \in Nat
        /\ Cardinality(Active(AccountOf[c])) \in Nat
    BY <2>2, ActiveIsFinite, FS_Subset, FS_CardinalityType
  <2>5. req[c].limit \in Int
    BY DEF TypeOK, Request, NoLimit
  <2> QED BY <1>0, <1>1, <2>3, <2>4, <2>5 DEF RoomIsKept
<1>2. CASE CountSaved(c)
  <2>1. ~AtLimit(c) /\ docs' = docs /\ req' = req
    BY <1>2 DEF CountSaved, Answered, TypeOK
  <2>2. Active(AccountOf[c])' = Active(AccountOf[c])
    BY <2>1 DEF Active, Live
  <2>3. Cardinality(Active(AccountOf[c])) \in Nat /\ req[c].limit \in Int
    BY ActiveIsFinite DEF TypeOK, Request, NoLimit
  <2> QED BY <2>1, <2>2, <2>3 DEF AtLimit
<1>3. CASE LockUser(c)
  BY <1>3 DEF LockUser, Goto, TypeOK
<1>4. ASSUME NEW step \in Steps \ {"insert"}, Goto(c, step)
      PROVE  FALSE
  BY <1>4 DEF Goto, TypeOK
<1>5. ASSUME NEW a, Answered(c, a)
      PROVE  FALSE
  BY <1>5 DEF Answered, TypeOK
<1>6. ASSUME Statement(c), ~CountSaved(c)
      PROVE  FALSE
  BY <1>4, <1>5, <1>6 DEF Statement, ReadAccount, Insert, InsertCollides, Get, Update,
     UpdateMatchesNoRow, Recheck, WriteVersionConflict, ReadForRewrite, ArchiveSnapshot,
     Archive, Share, Unshare, SetShared, Steps
<1>7. ASSUME BeginRequest(c)
      PROVE  FALSE
  <2>1. pc'[c] \in AddressSteps \cup {"account"}
    BY <1>7, BeginsAtAddressSteps
  <2> QED BY <2>1 DEF AddressSteps
<1>8. ASSUME NEW e \in Clients \ {c},
             BeginRequest(e) \/ RequirePro(e) \/ LockUser(e) \/ Statement(e) \/ Lose(e)
      PROVE  pc[c] = "insert" /\ req'[c] = req[c]
  BY <1>8, OneClientMoves
<1>9. ASSUME RequirePro(c) \/ (\E u \in Users : ChangeAccount(u)) \/ UNCHANGED vars
      PROVE  pc[c] = "insert" /\ req'[c] = req[c]
  BY <1>9 DEF RequirePro, ChangeAccount, vars
<1>10. ~Lose(c)
  BY <1>5 DEF Lose
<1> QED BY <1>1, <1>2, <1>3, <1>6, <1>7, <1>8, <1>9, <1>10 DEF Next

\* The lock and the room a create has found last until it commits.
LEMMA QuotaInvHolds == Spec => [](TypeOK /\ QuotaInv)
<1>1. Init => QuotaInv
  BY DEF Init, QuotaInv, LockIsHeld, RoomIsKept
<1>2. TypeOK /\ QuotaInv /\ [Next]_vars => QuotaInv'
  BY LocksStayHeld, RoomStays DEF QuotaInv
<1> QED BY <1>1, <1>2, TypeCorrect, PTL DEF Spec

\* Creates that run at once, with retries of drawn ids and lost connections in
\* between, never take an account over the limit they were checked against.
THEOREM CreatesStayWithinLimit == Spec => CreateWithinLimit
<1>1. ASSUME TypeOK, QuotaInv, Next, NEW c \in Clients,
             pc[c] = "insert", Gets(c, "ok"), req[c].limit # NoLimit
      PROVE  Cardinality(Active(AccountOf[c])') <= req[c].limit
  <2>1. Statement(c)
    BY <1>1, AnswersComeFromStatements
  <2>2. Insert(c)
    BY <1>1, <2>1 DEF Gets, Statement, ReadAccount, CountSaved, InsertCollides, Get, Update,
       UpdateMatchesNoRow, Recheck, WriteVersionConflict, ReadForRewrite, ArchiveSnapshot,
       Archive, Share, Unshare, SetShared, Goto, Answered, NoAnswer
  <2>3. PICK d \in PublicIds : docs' = [docs EXCEPT ![d] = NewRow(c)]
    BY <2>2 DEF Insert
  <2>4. Active(AccountOf[c])' \subseteq Active(AccountOf[c]) \cup {d}
    BY <1>1, <2>3 DEF Active, Live, TypeOK
  <2>5. /\ IsFiniteSet(Active(AccountOf[c]) \cup {d})
        /\ Cardinality(Active(AccountOf[c]) \cup {d}) <= Cardinality(Active(AccountOf[c])) + 1
    BY ActiveIsFinite, FS_AddElement
  <2>6. /\ Cardinality(Active(AccountOf[c])') <= Cardinality(Active(AccountOf[c]) \cup {d})
        /\ IsFiniteSet(Active(AccountOf[c])')
    BY <2>4, <2>5, FS_Subset
  <2>7. /\ Cardinality(Active(AccountOf[c])') \in Nat
        /\ Cardinality(Active(AccountOf[c]) \cup {d}) \in Nat
        /\ Cardinality(Active(AccountOf[c])) \in Nat
        /\ req[c].limit \in Int
    BY <1>1, <2>5, <2>6, ActiveIsFinite, FS_CardinalityType DEF TypeOK, Request, NoLimit
  <2>8. Cardinality(Active(AccountOf[c])) < req[c].limit
    BY <1>1 DEF QuotaInv, RoomIsKept
  <2> QED BY <2>5, <2>6, <2>7, <2>8
<1> DEFINE A == \A c \in Clients :
                  pc[c] = "insert" /\ Gets(c, "ok") /\ req[c].limit # NoLimit =>
                    Cardinality(Active(AccountOf[c])') <= req[c].limit
<1>2. TypeOK /\ QuotaInv /\ [Next]_vars => [A]_vars
  BY <1>1
<1> HIDE DEF A
<1>3. Spec => [][A]_vars
  BY <1>2, QuotaInvHolds, PTL DEF Spec
<1> QED BY <1>3 DEF A, CreateWithinLimit

-----------------------------------------------------------------------------
(* Authorship, and the abstract specification. *)

\* A document nobody created has no contributors.
NoneWroteTheAbsent == \A d \in PublicIds : docs[d].state = "absent" => contributors[d] = {}

\* The limit a create carries was the limit of some account state.
LimitWasRead(c) == pc[c] \in {"lock", "count", "insert"} => req[c].limit \in Limits

LimitsWereRead == \A c \in Clients : LimitWasRead(c)

AuthorInv == NoneWroteTheAbsent /\ WritersAreContributors

\* No step names a writer the contributor table does not list.
LEMMA AuthorInvIsInductive ==
  ASSUME TypeOK, AuthorInv, [Next]_vars
  PROVE  AuthorInv'
<1> USE DEF AuthorInv, NoneWroteTheAbsent, WritersAreContributors
<1>1. CASE docs' = docs /\ contributors' = contributors
  BY <1>1
<1>2. ASSUME NEW c \in Clients, Insert(c)
      PROVE  AuthorInv'
  <2>1. PICK d \in PublicIds :
          /\ docs[d].state = "absent" /\ docs' = [docs EXCEPT ![d] = NewRow(c)]
          /\ contributors' = [contributors EXCEPT ![d] = @ \cup {ActorKey(c)}]
    BY <1>2 DEF Insert
  <2>2. contributors'[d] = {ActorKey(c)} /\ docs'[d] = NewRow(c)
    BY <2>1 DEF TypeOK
  <2>3. \A a \in {ActorKey(c)} \cap Tokens : AccountOf[a] = AccountOf[c]
    BY ActorsAssumption DEF ActorKey
  <2> QED BY <2>1, <2>2, <2>3 DEF NewRow, TypeOK
<1>3. ASSUME NEW c \in Clients, Update(c)
      PROVE  AuthorInv'
  <2> DEFINE d == req[c].id
  <2>1. /\ d \in PublicIds /\ docs[d].state = "active" /\ docs[d].owner = AccountOf[c]
        /\ docs' = [docs EXCEPT ![d] = Updated(c, @)]
        /\ contributors' = [contributors EXCEPT ![d] = Contributed(c, @)]
    BY <1>3 DEF Update, Matches, Mine, Live
  <2>2. /\ docs'[d] = Updated(c, docs[d])
        /\ contributors'[d] = Contributed(c, contributors[d])
    BY <2>1 DEF TypeOK
  <2>3. /\ docs'[d].state = "active" /\ docs'[d].owner = AccountOf[c]
        /\ docs'[d].editor = IF req[c].setBody THEN ActorKey(c) ELSE docs[d].editor
    BY <2>1, <2>2 DEF Updated, TypeOK, Row
  <2>4. docs'[d].editor \in contributors'[d]
    BY <2>1, <2>2, <2>3 DEF Contributed
  <2>5. \A a \in contributors'[d] \cap Tokens : AccountOf[a] = docs'[d].owner
    BY <2>1, <2>2, <2>3, ActorsAssumption DEF Contributed, ActorKey
  <2> QED BY <2>1, <2>3, <2>4, <2>5 DEF TypeOK
<1>4. ASSUME NEW c \in Clients, Archive(c) \/ Share(c) \/ Unshare(c)
      PROVE  AuthorInv'
  <2>1. contributors' = contributors
    BY <1>4 DEF Archive, Share, Unshare, SetShared
  <2>2. \A d \in PublicIds :
          /\ docs'[d].owner = docs[d].owner /\ docs'[d].editor = docs[d].editor
          /\ docs'[d].state = "absent" <=> docs[d].state = "absent"
    BY <1>4 DEF Archive, Archivable, Share, Unshare, SetShared, Mine, Live, TypeOK, Row
  <2> QED BY <2>1, <2>2
<1> QED BY <1>1, <1>2, <1>3, <1>4, OnlyFiveStatementsWrite

\* So the row and the table always agree.
LEMMA AuthorInvHolds == Spec => [](TypeOK /\ AuthorInv)
<1>1. Init => AuthorInv
  BY DEF Init, AuthorInv, NoneWroteTheAbsent, WritersAreContributors, NoRow
<1>2. TypeOK /\ AuthorInv /\ [Next]_vars => AuthorInv'
  BY AuthorInvIsInductive
<1> QED BY <1>1, <1>2, TypeCorrect, PTL DEF Spec

\* The editor a row names has a row in document_contributors, and no token of
\* another account ever gets one, whatever ids it learns.
THEOREM WritersContribute == Spec => []WritersAreContributors
<1>1. AuthorInv => WritersAreContributors
  BY DEF AuthorInv
<1> QED BY <1>1, AuthorInvHolds, PTL

\* A create keeps the limit it read until it is answered.
LEMMA LimitsWereReadIsInductive ==
  ASSUME TypeOK, LimitsWereRead, [Next]_vars
  PROVE  LimitsWereRead'
<1> SUFFICES ASSUME NEW c \in Clients
             PROVE  LimitWasRead(c)'
  BY DEF LimitsWereRead
<1> USE DEF LimitWasRead
<1>0. LimitWasRead(c)
  BY DEF LimitsWereRead
<1>1. ASSUME NEW e \in Clients \ {c},
             BeginRequest(e) \/ RequirePro(e) \/ LockUser(e) \/ Statement(e) \/ Lose(e)
      PROVE  LimitWasRead(c)'
  BY <1>0, <1>1, OneClientMoves
<1>2. CASE ReadAccount(c)
  <2>1. account[AccountOf[c]].limit \in Limits
    BY AccountsAssumption DEF TypeOK, Limits
  <2>2. req'[c].limit = account[AccountOf[c]].limit
    BY <1>2 DEF ReadAccount, TypeOK, Request
  <2> QED BY <2>1, <2>2
<1>3. CASE LockUser(c) \/ CountSaved(c)
  BY <1>0, <1>3 DEF LockUser, CountSaved, Goto, Answered, TypeOK
<1>4. CASE InsertCollides(c)
  BY <1>0, <1>4 DEF InsertCollides, Goto, Answered, TypeOK, Request
<1>5. ASSUME NEW step \in Steps \ {"lock", "count", "insert"}, Goto(c, step)
      PROVE  LimitWasRead(c)'
  BY <1>5 DEF Goto, TypeOK
<1>6. ASSUME NEW a, Answered(c, a)
      PROVE  LimitWasRead(c)'
  BY <1>6 DEF Answered, TypeOK
<1>7. CASE Statement(c) /\ ~ReadAccount(c) /\ ~CountSaved(c) /\ ~InsertCollides(c)
  BY <1>5, <1>6, <1>7 DEF Statement, Insert, Get, Update,
     UpdateMatchesNoRow, Recheck, WriteVersionConflict, ReadForRewrite, ArchiveSnapshot,
     Archive, Share, Unshare, SetShared, Steps
<1>8. ASSUME BeginRequest(c)
      PROVE  LimitWasRead(c)'
  <2>1. pc'[c] \in AddressSteps \cup {"account"}
    BY <1>8, BeginsAtAddressSteps
  <2> QED BY <2>1 DEF AddressSteps
<1>9. CASE Lose(c)
  BY <1>6, <1>9 DEF Lose
<1>10. CASE RequirePro(c) \/ (\E u \in Users : ChangeAccount(u)) \/ UNCHANGED vars
  BY <1>0, <1>10 DEF RequirePro, ChangeAccount, vars
<1> QED BY <1>1, <1>2, <1>3, <1>4, <1>7, <1>8, <1>9, <1>10 DEF Next

\* So every limit in flight is one billing gave out.
LEMMA LimitsWereReadHolds == Spec => []LimitsWereRead
<1>1. Init => LimitsWereRead
  BY DEF Init, LimitsWereRead, LimitWasRead
<1>2. TypeOK /\ LimitsWereRead /\ [Next]_vars => LimitsWereRead'
  BY LimitsWereReadIsInductive
<1> QED BY <1>1, <1>2, TypeCorrect, PTL DEF Spec

\* A client's contributor key is one of those its account may write as.
LEMMA ActorKeyMayWrite ==
  ASSUME NEW c \in Clients
  PROVE  ActorKey(c) \in ActorsOf[AccountOf[c]]
BY AccountsAssumption DEF ActorKey, ActorsOf

\* The INSERT and commit of a create are the Library's Created.
LEMMA InsertCreates ==
  ASSUME TypeOK, QuotaInv, AuthorInv, LimitsWereRead, NEW c \in Clients, Insert(c)
  PROVE  L!Next
<1>1. PICK d \in PublicIds :
        /\ docs[d].state = "absent" /\ docs' = [docs EXCEPT ![d] = NewRow(c)]
        /\ contributors' = [contributors EXCEPT ![d] = @ \cup {ActorKey(c)}]
  BY DEF Insert
<1>2. contributors' = [contributors EXCEPT ![d] = {ActorKey(c)}]
  BY <1>1 DEF AuthorInv, NoneWroteTheAbsent, TypeOK
<1>3. L!Room(AccountOf[c])
  <2>1. req[c].limit \in Limits
    BY DEF LimitsWereRead, LimitWasRead, Insert
  <2>2. req[c].limit = NoLimit \/ Cardinality(Active(AccountOf[c])) < req[c].limit
    BY DEF QuotaInv, RoomIsKept, Insert
  <2>3. L!Active(AccountOf[c]) = Active(AccountOf[c])
    BY DEF L!Active, Active, Live
  <2>4. \A S : L!Cardinality(S) = Cardinality(S)
    BY DEF L!Cardinality, Cardinality
  <2> QED BY <2>1, <2>2, <2>3, <2>4 DEF L!Room
<1>4. AccountOf[c] \in Users /\ req[c].body \in Bodies
  BY AccountsAssumption DEF TypeOK, Request
<1>5. L!Created(d)
  BY <1>1, <1>2, <1>3, <1>4, ActorKeyMayWrite DEF L!Created, NewRow
<1> QED BY <1>5 DEF L!Next

\* The UPDATE statement is the Library's Written or, without a body, Flagged.
LEMMA UpdateWritesOrFlags ==
  ASSUME TypeOK, NEW c \in Clients, Update(c)
  PROVE  L!Next \/ UNCHANGED <<docs, contributors>>
<1> DEFINE d == req[c].id
           starred == IF req[c].setStarred THEN req[c].starred ELSE docs[d].starred
<1>1. /\ d \in PublicIds /\ docs[d].state = "active" /\ docs[d].owner = AccountOf[c]
      /\ docs' = [docs EXCEPT ![d] = Updated(c, @)]
      /\ contributors' = [contributors EXCEPT ![d] = Contributed(c, @)]
  BY DEF Update, Matches, Mine, Live
<1>2. /\ req[c].setBody \in BOOLEAN /\ starred \in BOOLEAN /\ req[c].body \in Bodies
      /\ docs[d] \in Row /\ docs = [e \in PublicIds |-> docs[e]]
      /\ contributors = [e \in PublicIds |-> contributors[e]]
  BY <1>1 DEF TypeOK, Request, Row
<1>3. CASE req[c].setBody
  <2>1. Updated(c, docs[d]) = [docs[d] EXCEPT !.body = req[c].body, !.version = @ + 1,
                                              !.editor = ActorKey(c), !.starred = starred]
    BY <1>3, <1>2 DEF Updated, Row
  <2>2. docs' = [docs EXCEPT ![d].body = req[c].body, ![d].version = @ + 1,
                             ![d].editor = ActorKey(c), ![d].starred = starred]
    BY <1>1, <1>2, <2>1 DEF Row
  <2>3. contributors' = [contributors EXCEPT ![d] = @ \cup {ActorKey(c)}]
    BY <1>1, <1>3 DEF Contributed
  <2>4. ActorKey(c) \in ActorsOf[docs[d].owner]
    BY <1>1, ActorKeyMayWrite
  <2>5. docs[d].state = "active" /\ req[c].body \in Bodies /\ starred \in BOOLEAN
    BY <1>1, <1>2
  <2> HIDE DEF d, starred
  <2>6. L!Written(d)
    BY <2>2, <2>3, <2>4, <2>5, Zenon DEF L!Written
  <2> QED BY <1>1, <2>6 DEF L!Next
<1>4. CASE ~req[c].setBody
  <2>1. Updated(c, docs[d]) = [docs[d] EXCEPT !.starred = starred]
    BY <1>4, <1>2 DEF Updated, Row
  <2>2. docs' = [docs EXCEPT ![d].starred = starred]
    BY <1>1, <1>2, <2>1 DEF Row
  <2>3. contributors' = contributors
    BY <1>1, <1>2, <1>4 DEF Contributed
  <2> HIDE DEF d, starred
  <2>4. L!Flagged(d)
    BY <1>1, <1>2, <2>2, <2>3 DEF L!Flagged
  <2> QED BY <1>1, <2>4 DEF L!Next
<1> QED BY <1>2, <1>3, <1>4

\* The requests implement the Library: an operation made of several statements,
\* retried or refused or cut off, shows in the tables as one step or none.
THEOREM RequestsImplementLibrary == Spec => ImplementsLibrary
<1>1. Init => L!Init
  BY DEF Init, L!Init
<1>2. ASSUME TypeOK, QuotaInv, AuthorInv, LimitsWereRead, [Next]_vars
      PROVE  [L!Next]_<<docs, contributors>>
  <2>1. ASSUME NEW c \in Clients, Archive(c)
        PROVE  L!Next \/ UNCHANGED <<docs, contributors>>
    BY <2>1 DEF Archive, Archivable, Mine, Live, L!Next, L!Archived
  <2>2. ASSUME NEW c \in Clients, Share(c) \/ Unshare(c)
        PROVE  L!Next \/ UNCHANGED <<docs, contributors>>
    BY <2>2 DEF Share, Unshare, SetShared, Mine, Live, L!Next, L!Flagged
  <2> QED BY <1>2, <2>1, <2>2, InsertCreates, UpdateWritesOrFlags, OnlyFiveStatementsWrite
<1>3. Spec => [][L!Next]_<<docs, contributors>>
  BY <1>2, TypeCorrect, QuotaInvHolds, AuthorInvHolds, LimitsWereReadHolds, PTL DEF Spec
<1> QED BY <1>1, <1>3, PTL DEF Spec, ImplementsLibrary, L!Spec

-----------------------------------------------------------------------------
(* What lets every request end.                                            *)

CreateSteps == {"account", "lock", "count", "insert"}

\* A create stays one, and no request passes its last attempt.
AttemptsInv ==
  \A c \in Clients :
    /\ pc[c] \in CreateSteps => req[c].op = "create"
    /\ req[c].attempt < AttemptsOf(c)

LEMMA BeginsWithEveryAttempt ==
  ASSUME TypeOK, NEW c \in Clients, BeginRequest(c)
  PROVE  /\ pc[c] = "idle" /\ req'[c].attempt = 0
         /\ pc'[c] \in CreateSteps => req'[c].op = "create"
<1>1. ASSUME NEW step \in AddressSteps, NEW r, r.attempt = 0, Begin(c, step, r)
      PROVE  pc[c] = "idle" /\ req'[c].attempt = 0 /\ pc'[c] \notin CreateSteps
  BY <1>1 DEF Begin, TypeOK, AddressSteps, CreateSteps
<1>2. CASE BeginCreate(c)
  BY <1>2 DEF BeginCreate, Begin, TypeOK, NoRequest
<1>3. CASE BeginGet(c) \/ BeginArchive(c) \/ BeginShare(c) \/ BeginUnshare(c)
  <2>1. \A d : /\ [NoRequest EXCEPT !.op = "get", !.id = d].attempt = 0
               /\ [NoRequest EXCEPT !.op = "archive", !.id = d].attempt = 0
               /\ [NoRequest EXCEPT !.op = "share", !.id = d].attempt = 0
               /\ [NoRequest EXCEPT !.op = "unshare", !.id = d].attempt = 0
    BY DEF NoRequest
  <2> QED BY <1>1, <1>3, <2>1 DEF BeginGet, BeginArchive, BeginShare, BeginUnshare, AddressSteps
<1>4. CASE BeginPatch(c)
  <2>1. \A d, b, v : [NoRequest EXCEPT !.op = "patch", !.id = d, !.version = v,
                                       !.setBody = TRUE, !.body = b].attempt = 0
    BY DEF NoRequest
  <2> QED BY <1>1, <1>4, <2>1 DEF BeginPatch, AddressSteps
<1>5. CASE BeginStar(c)
  <2>1. PICK d, s, w, b, v :
          Begin(c, "update", [NoRequest EXCEPT !.op = "star", !.id = d, !.version = v,
                                               !.setStarred = TRUE, !.starred = s,
                                               !.setBody = w, !.body = b])
    BY <1>5 DEF BeginStar
  <2>2. [NoRequest EXCEPT !.op = "star", !.id = d, !.version = v, !.setStarred = TRUE,
                          !.starred = s, !.setBody = w, !.body = b].attempt = 0
    BY DEF NoRequest
  <2> QED BY <1>1, <2>1, <2>2 DEF AddressSteps
<1>6. CASE BeginEdit(c)
  <2>1. \A d, o, n : [NoRequest EXCEPT !.op = "edit", !.id = d, !.setBody = TRUE,
                                       !.old = o, !.new = n].attempt = 0
    BY DEF NoRequest
  <2> QED BY <1>1, <1>6, <2>1 DEF BeginEdit, AddressSteps
<1>7. CASE BeginAppend(c)
  <2>1. \A d, n : [NoRequest EXCEPT !.op = "append", !.id = d, !.setBody = TRUE,
                                    !.new = n].attempt = 0
    BY DEF NoRequest
  <2> QED BY <1>1, <1>7, <2>1 DEF BeginAppend, AddressSteps
<1> QED BY <1>2, <1>3, <1>4, <1>5, <1>6, <1>7 DEF BeginRequest

\* A statement that does not answer moves the request on within its attempt, or
\* takes the next attempt if there is one.
MovesOn(c) ==
  \/ /\ req'[c].op = req[c].op /\ req'[c].attempt = req[c].attempt
     /\ <<pc[c], pc'[c]>> \in {<<"account", "lock">>, <<"lock", "count">>, <<"lock", "insert">>,
                               <<"count", "insert">>, <<"update", "recheck">>,
                               <<"recheck", "conflict">>, <<"read", "update">>,
                               <<"snapshot", "archive">>}
  \/ /\ req'[c].op = req[c].op /\ req'[c].attempt = req[c].attempt + 1
     /\ req'[c].attempt < (IF pc[c] = "insert" THEN CreateAttempts ELSE WriteAttempts)
     /\ <<pc[c], pc'[c]>> \in {<<"insert", "lock">>, <<"recheck", "read">>}
     /\ pc[c] = "recheck" => req[c].op \in AgentOps

LEMMA StatementMovesOn ==
  ASSUME TypeOK, NEW c \in Clients, Statement(c) \/ LockUser(c)
  PROVE  MovesOn(c) \/ \E a : Answered(c, a)
<1>0. pc \in [Clients -> Steps] /\ req \in [Clients -> Request] /\ req[c] \in Request
  BY DEF TypeOK
<1>1. CASE ReadAccount(c)
  <2>1. pc[c] = "account" /\ pc'[c] = "lock"
    BY <1>0, <1>1 DEF ReadAccount, Goto
  <2>2. req'[c].op = req[c].op /\ req'[c].attempt = req[c].attempt
    BY <1>0, <1>1 DEF ReadAccount, Request
  <2> QED BY <2>1, <2>2 DEF MovesOn
<1>2. CASE LockUser(c)
  BY <1>0, <1>2 DEF LockUser, Goto, MovesOn
<1>3. CASE CountSaved(c) \/ UpdateMatchesNoRow(c) \/ ArchiveSnapshot(c)
  BY <1>0, <1>3 DEF CountSaved, UpdateMatchesNoRow, ArchiveSnapshot, Goto, MovesOn
<1>4. CASE InsertCollides(c)
  <2>1. CASE \E a : Answered(c, a)
    BY <2>1
  <2>2. CASE /\ req[c].attempt + 1 < CreateAttempts
             /\ Goto(c, "lock")
             /\ req' = [req EXCEPT ![c].attempt = @ + 1]
    <3>1. pc[c] = "insert" /\ pc'[c] = "lock"
      BY <1>0, <1>4, <2>2 DEF InsertCollides, Goto
    <3>2. req'[c].op = req[c].op /\ req'[c].attempt = req[c].attempt + 1
      BY <1>0, <2>2 DEF Request
    <3> QED BY <2>2, <3>1, <3>2 DEF MovesOn
  <2> QED BY <1>4, <2>1, <2>2 DEF InsertCollides
<1>5. CASE Recheck(c)
  <2>1. CASE \E a : Answered(c, a)
    BY <2>1
  <2>2. CASE Goto(c, "conflict") /\ UNCHANGED req
    BY <1>0, <1>5, <2>2 DEF Recheck, Goto, MovesOn
  <2>3. CASE /\ req[c].op \in AgentOps
             /\ req[c].attempt + 1 < WriteAttempts
             /\ Goto(c, "read")
             /\ req' = [req EXCEPT ![c].attempt = @ + 1]
    <3>1. pc[c] = "recheck" /\ pc'[c] = "read"
      BY <1>0, <1>5, <2>3 DEF Recheck, Goto
    <3>2. req'[c].op = req[c].op /\ req'[c].attempt = req[c].attempt + 1
      BY <1>0, <2>3 DEF Request
    <3> QED BY <2>3, <3>1, <3>2 DEF MovesOn
  <2> QED BY <1>5, <2>1, <2>2, <2>3 DEF Recheck
<1>6. CASE ReadForRewrite(c)
  <2>1. CASE \E a : Answered(c, a)
    BY <2>1
  <2>2. CASE /\ req' = [req EXCEPT ![c].body = Change(req[c], docs[req[c].id].body),
                                   ![c].version = docs[req[c].id].version]
             /\ Goto(c, "update")
    <3>1. pc[c] = "read" /\ pc'[c] = "update"
      BY <1>0, <1>6, <2>2 DEF ReadForRewrite, Goto
    <3>2. req'[c].op = req[c].op /\ req'[c].attempt = req[c].attempt
      BY <1>0, <2>2 DEF Request
    <3> QED BY <3>1, <3>2 DEF MovesOn
  <2> QED BY <1>6, <2>1, <2>2 DEF ReadForRewrite
<1>7. CASE Insert(c) \/ Get(c) \/ Update(c) \/ WriteVersionConflict(c) \/ Archive(c)
           \/ Share(c) \/ Unshare(c)
  BY <1>7 DEF Insert, Get, Update, WriteVersionConflict, Archive, Share, Unshare, SetShared
<1> QED BY <1>1, <1>2, <1>3, <1>4, <1>5, <1>6, <1>7 DEF Statement

LEMMA AnsweredIsIdle ==
  ASSUME TypeOK, NEW c \in Clients, NEW a, Answered(c, a)
  PROVE  pc'[c] = "idle" /\ req'[c].op = "none" /\ req'[c].attempt = 0
BY DEF Answered, TypeOK, NoRequest

LEMMA AttemptsAreKept ==
  ASSUME TypeOK, AttemptsInv, [Next]_vars
  PROVE  AttemptsInv'
<1> SUFFICES ASSUME NEW c \in Clients
             PROVE  /\ pc'[c] \in CreateSteps => req'[c].op = "create"
                    /\ req'[c].attempt < IF req'[c].op = "create" THEN CreateAttempts
                                                                  ELSE WriteAttempts
  BY DEF AttemptsInv, AttemptsOf
<1>0. /\ pc[c] \in CreateSteps => req[c].op = "create"
      /\ req[c].attempt < IF req[c].op = "create" THEN CreateAttempts ELSE WriteAttempts
  BY DEF AttemptsInv, AttemptsOf
<1>1. 0 < CreateAttempts /\ 0 < WriteAttempts
  BY BoundsAssumption DEF BoundsAssumption
<1>2. CASE pc'[c] = pc[c] /\ req'[c] = req[c]
  BY <1>0, <1>2
<1>3. ASSUME NEW e \in Clients \ {c},
             BeginRequest(e) \/ RequirePro(e) \/ LockUser(e) \/ Statement(e) \/ Lose(e)
      PROVE  pc'[c] = pc[c] /\ req'[c] = req[c]
  BY <1>3, OneClientMoves
<1>4. CASE BeginRequest(c)
  BY <1>1, <1>4, BeginsWithEveryAttempt
<1>5. ASSUME NEW a, Answered(c, a)
      PROVE  pc'[c] = "idle" /\ req'[c].op = "none" /\ req'[c].attempt = 0
  BY <1>5, AnsweredIsIdle
<1>6. CASE \E a : Answered(c, a)
  BY <1>1, <1>5, <1>6 DEF CreateSteps
<1>7. CASE MovesOn(c)
  BY <1>0, <1>7 DEF MovesOn, CreateSteps, AgentOps
<1>8. CASE Statement(c) \/ LockUser(c)
  BY <1>6, <1>7, <1>8, StatementMovesOn
<1>9. CASE Lose(c)
  BY <1>6, <1>9 DEF Lose
<1>10. CASE RequirePro(c) \/ (\E u \in Users : ChangeAccount(u)) \/ UNCHANGED vars
  BY <1>2, <1>10 DEF RequirePro, ChangeAccount, vars
<1> QED BY <1>2, <1>3, <1>4, <1>8, <1>9, <1>10 DEF Next

\* Every row that is locked is locked by a create of its account past its lock.
HeldByCreates ==
  \A u \in Users : lockedBy[u] # None =>
    AccountOf[lockedBy[u]] = u /\ pc[lockedBy[u]] \in {"count", "insert"}

LEMMA LocksAreHeldByCreates ==
  ASSUME TypeOK, HeldByCreates, [Next]_vars
  PROVE  HeldByCreates'
<1> SUFFICES ASSUME NEW u \in Users, lockedBy'[u] # None
             PROVE  AccountOf[lockedBy'[u]] = u /\ pc'[lockedBy'[u]] \in {"count", "insert"}
  BY DEF HeldByCreates
<1> DEFINE c == lockedBy'[u]
<1>0. /\ lockedBy \in [Users -> Clients \cup {None}] /\ AccountOf \in [Clients -> Users]
      /\ pc \in [Clients -> Steps] /\ c \in Clients
  <2>1. TypeOK'
    BY StepIsTyped
  <2> QED BY <2>1, AccountsAssumption DEF TypeOK
<1>1. ASSUME lockedBy[u] = c PROVE AccountOf[c] = u /\ pc[c] \in {"count", "insert"}
  BY <1>1 DEF HeldByCreates
<1>2. CASE lockedBy[u] = c /\ pc'[c] = pc[c]
  BY <1>1, <1>2
<1>3. ASSUME NEW e \in Clients, LockUser(e)
      PROVE  AccountOf[c] = u /\ pc'[c] \in {"count", "insert"}
  <2>1. lockedBy' = [lockedBy EXCEPT ![AccountOf[e]] = e] /\ pc'[e] \in {"count", "insert"}
    BY <1>0, <1>3 DEF LockUser, Goto
  <2>2. CASE AccountOf[e] = u
    BY <1>0, <2>1, <2>2
  <2>3. CASE AccountOf[e] # u
    <3>1. lockedBy[u] = c
      BY <1>0, <2>1, <2>3
    <3>2. c # e
      BY <1>1, <2>3, <3>1
    <3>3. pc'[c] = pc[c]
      BY <1>0, <1>3, <3>2, OneClientMoves
    <3> QED BY <1>1, <3>1, <3>3
  <2> QED BY <2>2, <2>3
<1>4. ASSUME NEW e \in Clients, CountSaved(e)
      PROVE  AccountOf[c] = u /\ pc'[c] \in {"count", "insert"}
  <2>1. CASE pc'[e] = "insert" /\ lockedBy' = lockedBy
    <3>1. lockedBy[u] = c
      BY <2>1
    <3>2. CASE c = e
      BY <1>1, <2>1, <3>1, <3>2
    <3>3. CASE c # e
      BY <1>0, <1>2, <1>4, <3>1, <3>3, OneClientMoves DEF Statement
    <3> QED BY <3>2, <3>3
  <2>2. CASE Unlock(e)
    <3>1. lockedBy[u] = c /\ AccountOf[e] # u
      BY <1>0, <2>2 DEF Unlock
    <3>2. c # e
      BY <1>1, <3>1
    <3> QED BY <1>0, <1>2, <1>4, <3>1, <3>2, OneClientMoves DEF Statement
  <2> QED BY <1>0, <1>4, <2>1, <2>2 DEF CountSaved, Goto
<1>5. ASSUME NEW e \in Clients, Insert(e) \/ InsertCollides(e)
      PROVE  AccountOf[c] = u /\ pc'[c] \in {"count", "insert"}
  <2>1. Unlock(e)
    BY <1>5 DEF Insert, InsertCollides
  <2>2. lockedBy[u] = c /\ AccountOf[e] # u
    BY <1>0, <2>1 DEF Unlock
  <2>3. c # e
    BY <1>1, <2>2
  <2> QED BY <1>0, <1>2, <1>5, <2>2, <2>3, OneClientMoves DEF Statement
<1>6. ASSUME NEW e \in Clients, Lose(e)
      PROVE  AccountOf[c] = u /\ pc'[c] \in {"count", "insert"}
  <2>1. lockedBy[u] = c /\ c # e
    BY <1>0, <1>6, NoneAssumption DEF Lose, NoneAssumption
  <2> QED BY <1>0, <1>2, <1>6, <2>1, OneClientMoves
\* The rest neither locks nor frees, and is not about a request that holds a row.
<1>7. ASSUME NEW e \in Clients, pc[e] \notin {"count", "insert"}, lockedBy' = lockedBy,
             BeginRequest(e) \/ RequirePro(e) \/ Statement(e)
      PROVE  AccountOf[c] = u /\ pc'[c] \in {"count", "insert"}
  <2>1. c # e
    BY <1>1, <1>7
  <2> QED BY <1>0, <1>2, <1>7, <2>1, OneClientMoves
<1>8. ASSUME NEW e \in Clients, BeginRequest(e) \/ RequirePro(e)
      PROVE  AccountOf[c] = u /\ pc'[c] \in {"count", "insert"}
  <2>1. pc[e] = "idle" /\ lockedBy' = lockedBy
    BY <1>8, BeginsWithEveryAttempt, BeginsChangeNoTable DEF RequirePro
  <2> QED BY <1>7, <1>8, <2>1
<1>9. ASSUME NEW e \in Clients, Statement(e),
             ~(CountSaved(e) \/ Insert(e) \/ InsertCollides(e))
      PROVE  AccountOf[c] = u /\ pc'[c] \in {"count", "insert"}
  <2>1. pc[e] \notin {"count", "insert"} /\ lockedBy' = lockedBy
    BY <1>9 DEF Statement, ReadAccount, Get, Update, UpdateMatchesNoRow, Recheck,
       WriteVersionConflict, ReadForRewrite, ArchiveSnapshot, Archive, Share, Unshare, SetShared
  <2> QED BY <1>7, <1>9, <2>1
<1>10. CASE (\E v \in Users : ChangeAccount(v)) \/ UNCHANGED vars
  BY <1>2, <1>10 DEF ChangeAccount, vars
<1> QED BY <1>3, <1>4, <1>5, <1>6, <1>8, <1>9, <1>10 DEF Next

LEMMA AttemptsHold == Spec => [](TypeOK /\ AttemptsInv /\ HeldByCreates)
<1>1. Init => AttemptsInv /\ HeldByCreates
  <2>1. 0 < WriteAttempts
    BY BoundsAssumption DEF BoundsAssumption
  <2> QED BY <2>1 DEF Init, AttemptsInv, AttemptsOf, HeldByCreates, NoRequest, CreateSteps
<1>2. TypeOK /\ (AttemptsInv /\ HeldByCreates) /\ [Next]_vars => (AttemptsInv /\ HeldByCreates)'
  BY AttemptsAreKept, LocksAreHeldByCreates
<1> QED BY <1>1, <1>2, TypeCorrect, PTL DEF Spec

\* A create that waits for its users row waits for one that is past its own lock and
\* waits for nothing; and a retry is one of those the code grants.
THEOREM LocksAreReleased == Spec => []LocksAreShort
<1>1. AttemptsInv /\ HeldByCreates => LocksAreShort
  BY DEF AttemptsInv, HeldByCreates, LocksAreShort
<1> QED BY <1>1, AttemptsHold, PTL

\* The retry loops of createWithPublicID and rewriteDocument end: each statement
\* brings the request's answer closer, whatever other requests do in between.
THEOREM RequestsComeToAnEnd == Spec => AnswersComeCloser
<1>1. ASSUME TypeOK, AttemptsInv, [Next]_vars, NEW c \in Clients,
             pc[c] # "idle", pc'[c] # "idle"
      PROVE  Ahead(c)' < Ahead(c) \/ (pc'[c] = pc[c] /\ req'[c] = req[c])
  <2>1. ASSUME NEW e \in Clients \ {c},
               BeginRequest(e) \/ RequirePro(e) \/ LockUser(e) \/ Statement(e) \/ Lose(e)
        PROVE  pc'[c] = pc[c] /\ req'[c] = req[c]
    BY <1>1, <2>1, OneClientMoves
  <2>2. CASE RequirePro(c) \/ (\E u \in Users : ChangeAccount(u)) \/ UNCHANGED vars
    BY <2>2 DEF RequirePro, ChangeAccount, vars
  <2>3. ~BeginRequest(c) /\ ~\E a : Answered(c, a)
    BY <1>1, BeginsWithEveryAttempt, AnsweredIsIdle
  <2>4. ~Lose(c)
    BY <2>3 DEF Lose
  <2>5. CASE Statement(c) \/ LockUser(c)
    <3>1. MovesOn(c)
      BY <1>1, <2>3, <2>5, StatementMovesOn
    <3>2. req[c].attempt \in Nat /\ CreateAttempts \in Nat /\ WriteAttempts \in Nat
      BY <1>1, BoundsAssumption DEF TypeOK, Request, BoundsAssumption
    <3>3. AttemptsOf(c)' = AttemptsOf(c) /\ AttemptsOf(c) \in Nat
      BY <3>1, <3>2 DEF MovesOn, AttemptsOf
    <3>4. Ahead(c)' = StepsAhead[pc'[c]] + 4 * (AttemptsOf(c) - 1 - req'[c].attempt)
      BY <3>3 DEF Ahead
    <3>5. CASE /\ req'[c].attempt = req[c].attempt
               /\ <<pc[c], pc'[c]>> \in
                    {<<"account", "lock">>, <<"lock", "count">>, <<"lock", "insert">>,
                     <<"count", "insert">>, <<"update", "recheck">>,
                     <<"recheck", "conflict">>, <<"read", "update">>,
                     <<"snapshot", "archive">>}
      <4>1. /\ StepsAhead[pc[c]] \in Nat /\ StepsAhead[pc'[c]] \in Nat
            /\ StepsAhead[pc'[c]] < StepsAhead[pc[c]]
        BY <3>5 DEF StepsAhead
      <4> QED BY <3>2, <3>3, <3>4, <3>5, <4>1 DEF Ahead
    <3>6. CASE /\ req'[c].attempt = req[c].attempt + 1
               /\ <<pc[c], pc'[c]>> \in {<<"insert", "lock">>, <<"recheck", "read">>}
      <4>1. /\ StepsAhead[pc[c]] \in Nat /\ StepsAhead[pc'[c]] \in Nat
            /\ StepsAhead[pc'[c]] < StepsAhead[pc[c]] + 4
        BY <3>6 DEF StepsAhead
      <4> QED BY <3>2, <3>3, <3>4, <3>6, <4>1 DEF Ahead
    <3> QED BY <3>1, <3>5, <3>6 DEF MovesOn
  <2> QED BY <1>1, <2>1, <2>2, <2>3, <2>4, <2>5 DEF Next
<1>2. TypeOK /\ AttemptsInv /\ [Next]_vars =>
        [\A c \in Clients : pc[c] # "idle" /\ pc'[c] # "idle" =>
           Ahead(c)' < Ahead(c) \/ (pc'[c] = pc[c] /\ req'[c] = req[c])]_vars
  BY <1>1
<1> QED BY <1>2, AttemptsHold, PTL DEF Spec, AnswersComeCloser

=============================================================================
