--------------------------- MODULE DocumentIndex ---------------------------
(***************************************************************************)
(* The list of documents in one browser tab: the pages that the server     *)
(* answers, the walk over them that fills the list, and what is added and  *)
(* removed while the walk is under way.                                    *)
(*                                                                         *)
(* A page holds the documents below a cursor, newest first, with the id as *)
(* the tie-breaker.  Documents are written between two pages: a write puts *)
(* a document where its new updated_at does, anywhere in the order, for    *)
(* now() is the start of a transaction and not the order of the commits.   *)
(* The tab lists what pages bring in any order, and the reader may sign in *)
(* with another account while requests of the first are on their way.      *)
(*                                                                         *)
(* How the list is sorted and what a row shows are left out; what an       *)
(* answer does to an open document is the subject of Editor.               *)
(*                                                                         *)
(* A definition named Mutant... is no part of the model: it is the one     *)
(* after it with a slip of the kind a change to the code could make.       *)
(***************************************************************************)
EXTENDS Integers, FiniteSets, Functions

CONSTANTS
  Docs,      \* documents; an id is a number, for the order of uuids
  Users,     \* accounts
  Owner,     \* the account that each document is created in
  Limit,     \* documents of a page: 50
  MaxSaved,  \* saved documents the tab lets its account have
  Wanted,    \* the document of the URL the tab was opened with, or None
  MaxStamp,  \* bound: updated_at
  MaxMoves,  \* bound: refreshes, creations and deletions of the tab, writes of others
  MaxTurns,  \* bound: changes of the signed-in account
  MaxCalls,  \* bound: requests in flight
  None

Stamps == 0..MaxStamp

ASSUME DocsAssumption == Docs \subseteq Nat /\ IsFiniteSet(Docs) /\ None \notin Docs
ASSUME OwnerAssumption == Owner \in [Docs -> Users]
ASSUME LimitAssumption == Limit \in Nat \ {0} /\ Wanted \in Docs \cup {None}
ASSUME BoundsAssumption == {MaxStamp, MaxMoves, MaxTurns} \subseteq Nat

VARIABLES
  row,      \* the documents table
  user,     \* whose session the tab's cookie is
  turn,     \* accountGeneration
  list,     \* docs: how often each document is listed
  cursor,   \* nextCursor
  loading,  \* loadingMore
  complete, \* documentIndexComplete
  failed,   \* documentIndexError
  calls,    \* requests in flight
  moves,
  first,    \* history: the first page of this turn has not been received
  touched   \* history: written since the first page of the walk was served, or
            \* created before it by a request whose answer is still on its way

vars == <<row, user, turn, list, cursor, loading, complete, failed, calls, moves,
          first, touched>>
server == <<row, user>>
index == <<cursor, loading, complete, failed>>

Cursor == [stamp: Stamps, doc: Docs]
Row == [state: {"absent", "live", "archived"}, stamp: Stamps]

ASSUME NoneAssumption == None \notin Cursor

\* found: the pages read before the URL's document turned up.
Call == [kind: {"walk", "next", "more", "refresh", "create", "delete"}, turn: 0..MaxTurns,
         after: Cursor \cup {None}, found: [Docs -> Nat], doc: Docs \cup {None},
         reply: [docs: SUBSET Docs, next: Cursor \cup {None}] \cup {None}]

Nothing == [d \in Docs |-> 0]

NewCall(kind, after) ==
  [kind |-> kind, turn |-> turn, after |-> after, found |-> Nothing, doc |-> None,
   reply |-> None]

\* The account load has just sent its first request.
Init ==
  /\ row \in [Docs -> {[state |-> s, stamp |-> 0] : s \in {"absent", "live"}}]
  /\ user \in Users
  /\ turn = 0
  /\ list = Nothing
  /\ cursor = None
  /\ loading = FALSE /\ complete = FALSE /\ failed = FALSE
  /\ calls = {NewCall("walk", None)}
  /\ moves = 0
  /\ first = TRUE
  /\ touched = {}

(***************************************************************************)
(* GET /api/v1/docs?limit=&cursor=                                         *)
(***************************************************************************)

Place(d) == [stamp |-> row[d].stamp, doc |-> d]

\* (updated_at, id) < (cursor.updated_at, cursor.id)
Below(p, c) == p.stamp < c.stamp \/ (p.stamp = c.stamp /\ p.doc < c.doc)

\* Documents with the timestamp of the cursor are taken for read.
MutantRemaining(after) ==
  {d \in Docs : /\ row[d].state = "live" /\ Owner[d] = user
                /\ after = None \/ row[d].stamp < after.stamp}

Remaining(after) ==
  {d \in Docs : /\ row[d].state = "live" /\ Owner[d] = user
                /\ after = None \/ Below(Place(d), after)}

\* ListPage: the topmost Limit, of Limit + 1 asked for, and a cursor at the last
\* of them where there is one more.
Page(after) ==
  LET rest == Remaining(after)
      above(d) == {e \in rest : Below(Place(d), Place(e))}
      page == {d \in rest : Cardinality(above(d)) < Limit}
      last == CHOOSE d \in page : page \subseteq above(d) \cup {d}
  IN [docs |-> page, next |-> IF page = rest THEN None ELSE Place(last)]

Replied(call, reply) == (calls \ {call}) \cup {[call EXCEPT !.reply = reply]}

IsPage(call) == call.kind \in {"walk", "next", "more", "refresh"}

ServePage(call) ==
  /\ call \in calls
  /\ IsPage(call) /\ call.reply = None
  /\ calls' = Replied(call, Page(call.after))
  /\ touched' = IF call.kind = "walk" /\ call.after = None /\ call.turn = turn
                THEN {c.doc : c \in {k \in calls : k.kind = "create" /\ k.reply # None}}
                ELSE touched
  /\ UNCHANGED <<server, moves, turn, list, index, first>>

(***************************************************************************)
(* The account load.                                                       *)
(***************************************************************************)

Answered(call, kind) == call \in calls /\ call.kind = kind /\ call.reply # None

\* The continuation of a request of an earlier account returns.
Current(call) == call.turn = turn

Drop(call) == calls' = calls \ {call}

Ignore(call) ==
  /\ call \in calls
  /\ call.reply # None
  /\ call.kind \notin {"create", "delete"}
  /\ ~Current(call)
  /\ Drop(call)
  /\ UNCHANGED <<server, moves, turn, list, index, first, touched>>

Plus(counts, docs) == [d \in Docs |-> IF d \in docs THEN counts[d] + 1 ELSE counts[d]]

Listed == {d \in Docs : list[d] > 0}

\* [...prev, ...page.filter((doc) => !known.has(doc.id))]
Extended(docs) == Plus(list, docs \ Listed)

\* The pages up to the one with the URL's document become the list; a page that
\* repeats a document repeats it in the list.
ReceiveWalk(call) ==
  LET next == call.reply.next
      found == Plus(call.found, call.reply.docs)
      on == next # None /\ Wanted # None /\ found[Wanted] = 0
  IN
  /\ Answered(call, "walk")
  /\ Current(call)
  /\ IF on
     THEN /\ calls' = (calls \ {call}) \cup
                        {[NewCall("walk", next) EXCEPT !.found = found]}
          /\ UNCHANGED <<list, index, first>>
     ELSE /\ list' = found
          /\ first' = FALSE
          /\ cursor' = next
          /\ loading' = (next # None)
          /\ complete' = (next = None)
          /\ calls' = (calls \ {call}) \cup
                        (IF next = None THEN {} ELSE {NewCall("next", next)})
          /\ UNCHANGED failed
  /\ UNCHANGED <<server, moves, turn, touched>>

MutantReceiveNext(call) ==
  LET next == call.reply.next IN
  /\ Answered(call, "next")
  /\ Current(call)
  /\ list' = Plus(list, call.reply.docs)
  /\ cursor' = next
  /\ loading' = (next # None)
  /\ complete' = (next = None)
  /\ calls' = (calls \ {call}) \cup (IF next = None THEN {} ELSE {NewCall("next", next)})
  /\ UNCHANGED <<server, moves, turn, failed, first, touched>>

\* The rest of the pages, one after the other.
ReceiveNext(call) ==
  LET next == call.reply.next IN
  /\ Answered(call, "next")
  /\ Current(call)
  /\ list' = Extended(call.reply.docs)
  /\ cursor' = next
  /\ loading' = (next # None)
  /\ complete' = (next = None)
  /\ calls' = (calls \ {call}) \cup (IF next = None THEN {} ELSE {NewCall("next", next)})
  /\ UNCHANGED <<server, moves, turn, failed, first, touched>>

\* The last page of the index is asked for once more.
MutantReceiveMore(call) ==
  /\ Answered(call, "more")
  /\ Current(call)
  /\ list' = Extended(call.reply.docs)
  /\ complete' = (call.reply.next = None)
  /\ loading' = FALSE
  /\ Drop(call)
  /\ UNCHANGED <<server, moves, turn, cursor, failed, first, touched>>

\* loadMoreDocs
LoadMore ==
  /\ cursor # None /\ ~loading
  /\ loading' = TRUE
  /\ failed' = FALSE
  /\ calls' = calls \cup {NewCall("more", cursor)}
  /\ UNCHANGED <<server, moves, turn, list, cursor, complete, first, touched>>

ReceiveMore(call) ==
  /\ Answered(call, "more")
  /\ Current(call)
  /\ list' = Extended(call.reply.docs)
  /\ cursor' = call.reply.next
  /\ complete' = (call.reply.next = None)
  /\ loading' = FALSE
  /\ Drop(call)
  /\ UNCHANGED <<server, moves, turn, failed, first, touched>>

\* Loading ends, and nobody is told that a page is missing.
MutantFailWalk(call) ==
  /\ call \in calls
  /\ call.kind \in {"walk", "next", "more"}
  /\ IF Current(call) THEN loading' = FALSE /\ UNCHANGED failed
                      ELSE UNCHANGED <<failed, loading>>
  /\ Drop(call)
  /\ UNCHANGED <<server, moves, turn, list, cursor, complete, first, touched>>

\* A page that fails is reported; "load the next page" tries it again.
FailWalk(call) ==
  /\ call \in calls
  /\ call.kind \in {"walk", "next", "more"}
  /\ IF Current(call) THEN failed' = TRUE /\ loading' = FALSE
                      ELSE UNCHANGED <<failed, loading>>
  /\ Drop(call)
  /\ UNCHANGED <<server, moves, turn, list, cursor, complete, first, touched>>

(***************************************************************************)
(* Coming back to the tab, creating and deleting.                          *)
(***************************************************************************)

Send(call) ==
  /\ moves < MaxMoves /\ moves' = moves + 1
  /\ Cardinality(calls) < MaxCalls
  /\ calls' = calls \cup {call}

Refresh ==
  /\ ~ \E c \in calls : c.kind = "refresh" /\ Current(c)
  /\ Send(NewCall("refresh", None))
  /\ UNCHANGED <<server, turn, list, index, first, touched>>

\* The answer to a refresh is taken for whoever is signed in by now.
MutantReceiveRefresh(call) ==
  /\ Answered(call, "refresh")
  /\ list' = Extended(call.reply.docs)
  /\ Drop(call)
  /\ UNCHANGED <<server, moves, turn, index, first, touched>>

\* [...fresh.filter((doc) => !known.has(doc.id)), ...updated]
ReceiveRefresh(call) ==
  /\ Answered(call, "refresh")
  /\ Current(call)
  /\ list' = Extended(call.reply.docs)
  /\ Drop(call)
  /\ UNCHANGED <<server, moves, turn, index, first, touched>>

\* docs.length, repeated rows included
Rows == FoldFunction(+, 0, list)

\* createDoc: the limit is compared with the list.
CreateDoc ==
  /\ ~ \E c \in calls : c.kind = "create"
  /\ Send(NewCall("create", None))
  /\ Rows < MaxSaved
  /\ UNCHANGED <<server, turn, list, index, first, touched>>

ServeCreate(call, d, t) ==
  /\ call \in calls
  /\ call.kind = "create" /\ call.reply = None
  /\ row[d].state = "absent" /\ Owner[d] = user
  /\ row' = [row EXCEPT ![d] = [state |-> "live", stamp |-> t]]
  /\ calls' = (calls \ {call}) \cup
       {[call EXCEPT !.doc = d, !.reply = [docs |-> {d}, next |-> None]]}
  /\ touched' = touched \cup {d}
  /\ UNCHANGED <<user, moves, turn, list, index, first>>

\* [doc, ...prev], whatever the list holds and whoever is signed in by now.
ReceiveCreate(call) ==
  /\ Answered(call, "create")
  /\ list' = Plus(list, call.reply.docs)
  /\ Drop(call)
  /\ UNCHANGED <<server, moves, turn, index, first, touched>>

\* deleteDoc
DeleteDoc(d) ==
  /\ d \in Listed
  /\ ~ \E c \in calls : c.kind = "delete"
  /\ Send([NewCall("delete", None) EXCEPT !.doc = d])
  /\ UNCHANGED <<server, turn, list, index, first, touched>>

ServeDelete(call) ==
  /\ call \in calls
  /\ call.kind = "delete" /\ call.reply = None
  /\ row[call.doc].state = "live" /\ Owner[call.doc] = user
  /\ row' = [row EXCEPT ![call.doc].state = "archived"]
  /\ calls' = Replied(call, [docs |-> {call.doc}, next |-> None])
  /\ touched' = touched \cup {call.doc}
  /\ UNCHANGED <<user, moves, turn, list, index, first>>

ReceiveDelete(call) ==
  /\ Answered(call, "delete")
  /\ list' = [list EXCEPT ![call.doc] = 0]
  /\ Drop(call)
  /\ UNCHANGED <<server, moves, turn, index, first, touched>>

\* The request or its answer is lost or refused; the list stays as it is.
FailCall(call) ==
  /\ call \in calls
  /\ call.kind \in {"refresh", "create", "delete"}
  /\ Drop(call)
  /\ UNCHANGED <<server, moves, turn, list, index, first, touched>>

\* Another account signs in: the load starts again, the list stays until its
\* first page is there.
SignIn(u) ==
  /\ u # user
  /\ turn < MaxTurns
  /\ turn' = turn + 1
  /\ user' = u
  /\ cursor' = None
  /\ loading' = FALSE /\ complete' = FALSE /\ failed' = FALSE
  /\ first' = TRUE
  /\ calls' = calls \cup {[NewCall("walk", None) EXCEPT !.turn = turn + 1]}
  /\ UNCHANGED <<row, moves, list, touched>>

(***************************************************************************)
(* Other clients.                                                          *)
(***************************************************************************)

Write(d, r) ==
  /\ moves < MaxMoves
  /\ moves' = moves + 1
  /\ row' = [row EXCEPT ![d] = r]
  /\ touched' = touched \cup {d}
  /\ UNCHANGED <<user, turn, list, index, calls, first>>

\* Creating is a write to an absent row; an archived document stays archived.
OtherWrites(d, t) ==
  row[d].state # "archived" /\ Write(d, [state |-> "live", stamp |-> t])

OtherArchives(d) ==
  row[d].state = "live" /\ Write(d, [row[d] EXCEPT !.state = "archived"])

-----------------------------------------------------------------------------

Serve(call) == \/ ServePage(call)
               \/ \E d \in Docs, t \in Stamps : ServeCreate(call, d, t)
               \/ ServeDelete(call)

Receive(call) == \/ ReceiveWalk(call)
                 \/ ReceiveNext(call)
                 \/ ReceiveMore(call)
                 \/ ReceiveRefresh(call)
                 \/ ReceiveCreate(call)
                 \/ ReceiveDelete(call)
                 \/ Ignore(call)

Fail(call) == FailWalk(call) \/ FailCall(call)

Reader == \/ LoadMore
          \/ Refresh
          \/ CreateDoc
          \/ \E d \in Docs : DeleteDoc(d)
          \/ \E u \in Users : SignIn(u)

Others == \E d \in Docs : OtherArchives(d) \/ \E t \in Stamps : OtherWrites(d, t)

Next == \/ \E call \in calls : Serve(call) \/ Receive(call) \/ Fail(call)
        \/ Reader
        \/ Others

Spec == Init /\ [][Next]_vars

\* A request of the walk is answered or fails.
WalkProgress ==
  \E call \in calls : /\ call.kind \in {"walk", "next", "more"} /\ Current(call)
                      /\ Serve(call) \/ Receive(call) \/ Fail(call)

FairSpec == Spec /\ WF_vars(WalkProgress)

(***************************************************************************)
(* Correctness.                                                            *)
(***************************************************************************)

TypeOK ==
  /\ row \in [Docs -> Row]
  /\ user \in Users /\ turn \in 0..MaxTurns
  /\ list \in [Docs -> Nat]
  /\ cursor \in Cursor \cup {None}
  /\ {loading, complete, failed, first} \subseteq BOOLEAN
  /\ calls \subseteq Call
  /\ moves \in 0..MaxMoves
  /\ touched \subseteq Docs
  /\ complete => cursor = None /\ ~loading

\* A complete index has every document of the account that nobody wrote since
\* the walk began, whatever was inserted, moved and archived between two pages
\* and whichever of them had to be asked for again.
CompleteIndexMissesNothing ==
  complete =>
    \A d \in Docs : row[d].state = "live" /\ Owner[d] = user /\ d \notin touched
                      => d \in Listed

\* A document nobody touched is listed once, although pages overlap with
\* refreshes.
ListedOnce == ~first => \A d \in Docs \ touched : list[d] <= 1

\* What an answer for an earlier account brings never enters the list of the
\* one that is signed in.  (A document created meanwhile does: see ReceiveCreate.)
NoForeignDocuments ==
  ~first => \A d \in Listed \ touched : Owner[d] = user

\* What keeps the walk from stopping: whenever the index is not complete, no page is
\* reported as missing and there is no next page to ask for, a request of this
\* account's walk is under way, and never two.  While the list shows that it is
\* loading, the answer or the failure of that request ends it.
WalkIsUnderWay ==
  LET walk == {c \in calls : c.kind \in {"walk", "next", "more"} /\ Current(c)} IN
  /\ complete \/ failed \/ (cursor # None /\ ~loading) \/ walk # {}
  /\ \A c, e \in walk : c = e
  /\ loading => \E c \in walk : c.kind # "walk"

\* What lets it end: the cursor only goes down, page by page, until another account
\* signs in, however the documents move.
CursorOnlyDescends ==
  [][cursor' # cursor => \/ cursor = None \/ cursor' = None
                         \/ Below(cursor', cursor)]_vars

\* The walk comes to an end although documents keep moving, pages fail and
\* accounts change: the index is complete, or a page is reported as missing, or
\* there is a next page to ask for.  It is never loading for good.
WalkSettles == []<>(complete \/ failed \/ (cursor # None /\ ~loading))

=============================================================================
