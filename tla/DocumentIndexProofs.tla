-------------------------- MODULE DocumentIndexProofs --------------------------
(***************************************************************************)
(* What holds of the document list for any documents, accounts and page    *)
(* sizes.                                                                  *)
(***************************************************************************)
EXTENDS DocumentIndex, FiniteSetTheorems, WellFoundedInduction, TLAPS

(***************************************************************************)
(* Pages.                                                                  *)
(***************************************************************************)

Above(S, d) == {e \in S : Below(Place(d), Place(e))}
Top(S) == {d \in S : Cardinality(Above(S, d)) < Limit}

\* The order of the list is total.
LEMMA PlaceOrder ==
  ASSUME row \in [Docs -> Row], NEW d \in Docs, NEW e \in Docs
  PROVE /\ Place(d) \in Cursor
        /\ ~Below(Place(d), Place(d))
        /\ d = e \/ Below(Place(d), Place(e)) \/ Below(Place(e), Place(d))
        /\ Below(Place(d), Place(e)) => ~Below(Place(e), Place(d))
        /\ \A f \in Docs : Below(Place(d), Place(e)) /\ Below(Place(e), Place(f))
                             => Below(Place(d), Place(f))
<1>1. \A f \in Docs : row[f].stamp \in Stamps /\ row[f].stamp \in Nat /\ f \in Nat
  BY DocsAssumption, BoundsAssumption DEF DocsAssumption, BoundsAssumption, Row, Stamps
<1> QED BY <1>1 DEF Place, Below, Cursor

LEMMA AboveCounts ==
  ASSUME row \in [Docs -> Row], NEW S \in SUBSET Docs, NEW d \in S, NEW e \in S
  PROVE /\ Cardinality(Above(S, d)) \in Nat
        /\ Below(Place(d), Place(e)) => Cardinality(Above(S, e)) < Cardinality(Above(S, d))
<1>1. IsFiniteSet(Above(S, d)) /\ IsFiniteSet(Above(S, e))
  <2>1. IsFiniteSet(S)
    BY DocsAssumption, FS_Subset DEF DocsAssumption
  <2> QED BY <2>1, FS_Subset DEF Above
<1>2. Cardinality(Above(S, d)) \in Nat
  BY <1>1, FS_CardinalityType
<1>3. ASSUME Below(Place(d), Place(e))
      PROVE Cardinality(Above(S, e)) < Cardinality(Above(S, d))
  <2>1. Above(S, e) \subseteq Above(S, d)
    BY <1>3, PlaceOrder DEF Above
  <2>2. e \in Above(S, d) /\ e \notin Above(S, e)
    BY <1>3, PlaceOrder DEF Above
  <2> QED BY <1>1, <2>1, <2>2, FS_Subset, FS_CardinalityType
<1> QED BY <1>2, <1>3

\* A set of documents has one below which there is none of the others.
LEMMA Lowest ==
  ASSUME row \in [Docs -> Row], NEW S \in SUBSET Docs, S # {}
  PROVE \E d \in S : S \subseteq Above(S, d) \cup {d}
<1> DEFINE low(d) == {e \in S : Below(Place(e), Place(d))}
           lows == {low(d) : d \in S}
<1>1. IsFiniteSet(S)
  BY DocsAssumption, FS_Subset DEF DocsAssumption
<1>2. lows \subseteq FiniteSubsetsOf(S) /\ lows # {}
  <2>1. \A d \in S : low(d) \in FiniteSubsetsOf(S)
    BY <1>1, FS_Subset DEF FiniteSubsetsOf
  <2> QED BY <2>1
<1>3. PICK T \in lows : \A U \in lows : <<U, T>> \notin StrictSubsetOrdering(S)
  BY <1>2, FS_StrictSubsetOrderingWellFounded, WFMin
<1>4. PICK d \in S : T = low(d)
  BY <1>3
<1>5. \A e \in S : ~Below(Place(e), Place(d))
  <2> SUFFICES ASSUME NEW e \in S, Below(Place(e), Place(d)) PROVE FALSE
    OBVIOUS
  <2>1. low(e) \subseteq low(d)
    BY PlaceOrder
  <2>2. e \in low(d) /\ e \notin low(e)
    BY PlaceOrder
  <2>3. <<low(e), low(d)>> \in StrictSubsetOrdering(S)
    BY <2>1, <2>2 DEF StrictSubsetOrdering
  <2> QED BY <1>3, <1>4, <2>3
<1>6. \A e \in S : e = d \/ Below(Place(d), Place(e))
  BY <1>5, PlaceOrder
<1> QED BY <1>6 DEF Above

\* ... and one above which there is none.
LEMMA Topmost ==
  ASSUME row \in [Docs -> Row], NEW S \in SUBSET Docs, S # {}
  PROVE \E d \in S : Above(S, d) = {}
<1> DEFINE aboves == {Above(S, d) : d \in S}
<1>1. IsFiniteSet(S)
  BY DocsAssumption, FS_Subset DEF DocsAssumption
<1>2. aboves \subseteq FiniteSubsetsOf(S) /\ aboves # {}
  <2>1. \A d \in S : Above(S, d) \in SUBSET S
    BY DEF Above
  <2>2. \A d \in S : Above(S, d) \in FiniteSubsetsOf(S)
    BY <1>1, <2>1, FS_Subset DEF FiniteSubsetsOf
  <2> QED BY <2>2
<1>3. PICK T \in aboves : \A U \in aboves : <<U, T>> \notin StrictSubsetOrdering(S)
  BY <1>2, FS_StrictSubsetOrderingWellFounded, WFMin
<1>4. PICK d \in S : T = Above(S, d)
  BY <1>3
<1>5. \A e \in S : ~Below(Place(d), Place(e))
  <2> SUFFICES ASSUME NEW e \in S, Below(Place(d), Place(e)) PROVE FALSE
    OBVIOUS
  <2>1. Above(S, e) \subseteq Above(S, d)
    BY PlaceOrder DEF Above
  <2>2. e \in Above(S, d) /\ e \notin Above(S, e)
    BY PlaceOrder DEF Above
  <2>3. <<Above(S, e), Above(S, d)>> \in StrictSubsetOrdering(S)
    BY <2>1, <2>2 DEF StrictSubsetOrdering, Above
  <2> QED BY <1>3, <1>4, <2>3
<1> QED BY <1>5 DEF Above

\* Still to come after a cursor; come by the next one.
Ahead(d, after) == after = None \/ Below(Place(d), after)
Behind(d, next) == next = None \/ ~Below(Place(d), next)

LEMMA RemainingIsAhead ==
  ASSUME NEW after
  PROVE Remaining(after) =
          {d \in Docs : row[d].state = "live" /\ Owner[d] = user /\ Ahead(d, after)}
BY DEF Remaining, Ahead, Below, Place

\* A page is what is ahead of its cursor and not ahead of the next one, which is
\* below it.
LEMMA PageIsASegment ==
  ASSUME row \in [Docs -> Row], NEW after \in Cursor \cup {None}
  PROVE LET page == Page(after) IN
        /\ page.docs \in SUBSET Docs /\ page.next \in Cursor \cup {None}
        /\ page.docs = {d \in Remaining(after) : Behind(d, page.next)}
        /\ after # None /\ page.next # None => Below(page.next, after)
<1> DEFINE rest == Remaining(after)
           top == Top(rest)
           last == CHOOSE d \in top : top \subseteq Above(rest, d) \cup {d}
<1>1. rest \in SUBSET Docs /\ top \in SUBSET rest
  BY DEF Remaining, Top
<1>2. Page(after) = [docs |-> top, next |-> IF top = rest THEN None ELSE Place(last)]
  BY DEF Page, Top, Above
<1> HIDE DEF rest, top, last
<1>3. CASE top = rest
  <2>1. Page(after).docs = rest /\ Page(after).next = None
    BY <1>2, <1>3
  <2> QED BY <1>1, <2>1 DEF Behind, rest
<1>4. CASE top # rest
  <2>1. top # {}
    <3>1. PICK d \in rest : Above(rest, d) = {}
      BY <1>1, <1>4, Topmost
    <3>2. Cardinality(Above(rest, d)) < Limit
      BY <3>1, FS_EmptySet, LimitAssumption DEF LimitAssumption
    <3> QED BY <3>1, <3>2 DEF top, Top
  <2>2. \E d \in top : top \subseteq Above(top, d) \cup {d}
    BY <1>1, <2>1, Lowest
  <2>3. \E d \in top : top \subseteq Above(rest, d) \cup {d}
    BY <1>1, <2>2 DEF Above
  <2>4. last \in top /\ top \subseteq Above(rest, last) \cup {last}
    BY <2>3 DEF last
  <2>5. Page(after).docs = top /\ Page(after).next = Place(last)
    BY <1>2, <1>4
  <2>6. last \in Docs /\ Place(last) \in Cursor
    BY <1>1, <2>4, PlaceOrder
  <2>7. Place(last) # None
    BY <2>6, NoneAssumption DEF NoneAssumption
  <2>8. \A d \in top : ~Below(Place(d), Place(last))
    <3> SUFFICES ASSUME NEW d \in top PROVE ~Below(Place(d), Place(last))
      OBVIOUS
    <3>1. d = last \/ Below(Place(last), Place(d))
      BY <2>4 DEF Above
    <3> QED BY <1>1, <2>6, <3>1, PlaceOrder
  <2>9. \A d \in rest \ top : Below(Place(d), Place(last))
    <3> SUFFICES ASSUME NEW d \in rest \ top, ~Below(Place(d), Place(last)) PROVE FALSE
      OBVIOUS
    <3>1. last \in rest /\ d # last /\ d \in Docs
      BY <1>1, <2>4
    <3>2. Below(Place(last), Place(d))
      BY <2>6, <3>1, PlaceOrder
    <3>3. Cardinality(Above(rest, d)) < Cardinality(Above(rest, last))
      BY <1>1, <3>1, <3>2, AboveCounts
    <3>4. Cardinality(Above(rest, last)) < Limit /\ ~(Cardinality(Above(rest, d)) < Limit)
      BY <2>4, <3>1 DEF top, Top
    <3>5. Cardinality(Above(rest, last)) \in Nat /\ Cardinality(Above(rest, d)) \in Nat
      BY <1>1, <3>1, AboveCounts
    <3> QED BY <3>3, <3>4, <3>5, LimitAssumption DEF LimitAssumption
  <2>10. Page(after).docs = {d \in rest : Behind(d, Page(after).next)}
    BY <1>1, <2>5, <2>7, <2>8, <2>9 DEF Behind
  <2>11. after # None => Below(Place(last), after)
    BY <1>1, <2>4 DEF rest, Remaining
  <2> QED BY <1>1, <2>5, <2>6, <2>10, <2>11 DEF rest
<1> QED BY <1>3, <1>4

(***************************************************************************)
(* Types.                                                                  *)
(***************************************************************************)

Reply == [docs: SUBSET Docs, next: Cursor \cup {None}]
Kinds == {"walk", "next", "more", "refresh", "create", "delete"}

\* Requests of an earlier account stay so.  What the answers to a creation and to
\* a deletion name was written, and a page has documents of the account that
\* asked for it.
Plain(c) ==
  /\ c.turn <= turn
  /\ c.kind = "delete" => c.doc \in Docs
  /\ c.reply # None /\ c.kind = "create" =>
       c.doc \in touched /\ c.reply.docs = {c.doc}
  /\ c.reply # None /\ c.kind = "delete" => row[c.doc].state = "archived"
  /\ c.reply # None /\ IsPage(c) /\ Current(c) => \A d \in c.reply.docs : Owner[d] = user

TypesInv == TypeOK /\ \A c \in calls : Plain(c)

USE DEF vars, server, index

\* What builds a call gives a call.
LEMMA CallTyped ==
  ASSUME turn \in 0..MaxTurns, NEW kind \in Kinds, NEW after \in Cursor \cup {None}
  PROVE /\ NewCall(kind, after) \in Call
        /\ \A f \in [Docs -> Nat] : [NewCall(kind, after) EXCEPT !.found = f] \in Call
        /\ \A d \in Docs : [NewCall(kind, after) EXCEPT !.doc = d] \in Call
        /\ \A t \in 0..MaxTurns : [NewCall(kind, after) EXCEPT !.turn = t] \in Call
BY DEF NewCall, Call, Nothing, Kinds

LEMMA RepliedTyped ==
  ASSUME NEW call \in Call, NEW r \in Reply
  PROVE /\ [call EXCEPT !.reply = r] \in Call
        /\ \A d \in Docs : [call EXCEPT !.doc = d, !.reply = r] \in Call
BY DEF Call, Reply

LEMMA CallFields ==
  ASSUME NEW c \in Call
  PROVE /\ c.kind \in Kinds /\ c.turn \in 0..MaxTurns /\ c.after \in Cursor \cup {None}
        /\ c.found \in [Docs -> Nat] /\ c.doc \in Docs \cup {None}
        /\ c.reply # None => c.reply \in Reply
        /\ c.reply # None => c.reply.docs \in SUBSET Docs /\ c.reply.next \in Cursor \cup {None}
BY DEF Call, Reply, Kinds

LEMMA PlusTyped ==
  ASSUME NEW counts \in [Docs -> Nat], NEW docs
  PROVE Plus(counts, docs) \in [Docs -> Nat]
BY DEF Plus

LEMMA InitTypes == Init => TypesInv
<1> SUFFICES ASSUME Init PROVE TypesInv
  OBVIOUS
<1>1. row \in [Docs -> Row] /\ turn \in 0..MaxTurns /\ moves \in 0..MaxMoves
  BY BoundsAssumption DEF BoundsAssumption, Init, Row, Stamps
<1>2. calls \subseteq Call /\ list \in [Docs -> Nat]
  BY <1>1, CallTyped DEF Init, Kinds, Nothing
<1>3. \A c \in calls : Plain(c)
  BY <1>1, CallTyped DEF Init, Plain, NewCall, Current
<1> QED BY <1>1, <1>2, <1>3 DEF Init, TypesInv, TypeOK

\* What a step may do to the calls.
LEMMA RepliedCalls ==
  ASSUME calls \subseteq Call, NEW call \in calls, NEW r \in Reply
  PROVE Replied(call, r) \subseteq Call
BY RepliedTyped DEF Replied

LEMMA ServePageTypes ==
  ASSUME TypeOK, NEW call \in calls, ServePage(call), \A c \in calls : Plain(c)
  PROVE TypeOK'
<1>1. Page(call.after) \in Reply
  <2>1. call.after \in Cursor \cup {None}
    BY CallFields DEF TypeOK
  <2>2. Page(call.after).docs \in SUBSET Docs /\ Page(call.after).next \in Cursor \cup {None}
    BY <2>1, PageIsASegment DEF TypeOK
  <2> QED BY <2>2 DEF Page, Reply
<1>2. calls' \subseteq Call
  BY <1>1, RepliedCalls DEF TypeOK, ServePage
<1>3. touched' \subseteq Docs
  BY BoundsAssumption DEF TypeOK, ServePage, Plain
<1> QED BY <1>2, <1>3 DEF TypeOK, ServePage

LEMMA WalkTypes ==
  ASSUME TypeOK, NEW call \in calls,
         ReceiveWalk(call) \/ ReceiveNext(call) \/ ReceiveMore(call)
  PROVE TypeOK'
<1> DEFINE next == call.reply.next
<1>1. next \in Cursor \cup {None} /\ call.found \in [Docs -> Nat]
  BY CallFields DEF TypeOK, ReceiveWalk, ReceiveNext, ReceiveMore, Answered
<1>2. NewCall("walk", next) \in Call /\ NewCall("next", next) \in Call
      /\ \A f \in [Docs -> Nat] : [NewCall("walk", next) EXCEPT !.found = f] \in Call
  BY <1>1, CallTyped DEF TypeOK, Kinds
<1>3. calls' \subseteq Call /\ list' \in [Docs -> Nat]
  BY <1>1, <1>2, PlusTyped DEF TypeOK, ReceiveWalk, ReceiveNext, ReceiveMore, Extended, Drop
<1>4. cursor' \in Cursor \cup {None} /\ loading' \in BOOLEAN /\ complete' \in BOOLEAN
      /\ first' \in BOOLEAN
  BY <1>1 DEF TypeOK, ReceiveWalk, ReceiveNext, ReceiveMore
<1>5. complete' => cursor' = None /\ ~loading'
  BY DEF TypeOK, ReceiveWalk, ReceiveNext, ReceiveMore
<1> QED BY <1>3, <1>4, <1>5 DEF TypeOK, ReceiveWalk, ReceiveNext, ReceiveMore

\* A request that waits for the answer.
LEMMA SentTypes ==
  ASSUME TypeOK, NEW call \in Call, Send(call),
         UNCHANGED <<server, turn, list, index, first, touched>>
  PROVE TypeOK'
<1>1. moves' \in 0..MaxMoves
  BY BoundsAssumption DEF TypeOK, Send, BoundsAssumption
<1>2. calls' \subseteq Call
  BY DEF TypeOK, Send
<1> QED BY <1>1, <1>2 DEF TypeOK

LEMMA ReaderTypes == ASSUME TypeOK, Reader PROVE TypeOK'
<1>1. CASE LoadMore
  BY <1>1, CallTyped DEF TypeOK, LoadMore, Kinds
<1>2. CASE Refresh
  BY <1>2, CallTyped, SentTypes DEF TypeOK, Refresh, Kinds
<1>3. CASE CreateDoc
  BY <1>3, CallTyped, SentTypes DEF TypeOK, CreateDoc, Kinds
<1>4. CASE \E d \in Docs : DeleteDoc(d)
  <2>1. PICK d \in Docs : DeleteDoc(d)
    BY <1>4
  <2>2. [NewCall("delete", None) EXCEPT !.doc = d] \in Call
    BY CallTyped DEF TypeOK, Kinds
  <2> QED BY <2>1, <2>2, SentTypes DEF DeleteDoc
<1>5. CASE \E u \in Users : SignIn(u)
  <2>1. turn + 1 \in 0..MaxTurns
    BY <1>5, BoundsAssumption DEF TypeOK, SignIn, BoundsAssumption
  <2>2. [NewCall("walk", None) EXCEPT !.turn = turn + 1] \in Call
    BY <2>1, CallTyped DEF TypeOK, Kinds
  <2>3. calls' \subseteq Call
    BY <1>5, <2>2 DEF TypeOK, SignIn
  <2>4. {loading', complete', failed', first'} \subseteq BOOLEAN
    BY <1>5 DEF SignIn
  <2> QED BY <1>5, <2>1, <2>3, <2>4 DEF TypeOK, SignIn
<1> QED BY <1>1, <1>2, <1>3, <1>4, <1>5 DEF Reader

LEMMA WrittenTyped ==
  ASSUME row \in [Docs -> Row], NEW d \in Docs
  PROVE /\ \A t \in Stamps, s \in {"live", "archived"} :
             [row EXCEPT ![d] = [state |-> s, stamp |-> t]] \in [Docs -> Row]
        /\ [row EXCEPT ![d].state = "archived"] \in [Docs -> Row]
        /\ [row EXCEPT ![d] = [row[d] EXCEPT !.state = "archived"]] \in [Docs -> Row]
BY DEF Row

LEMMA OthersTypes == ASSUME TypeOK, Others PROVE TypeOK'
<1> USE BoundsAssumption, WrittenTyped DEF BoundsAssumption
<1>1. CASE \E d \in Docs : OtherArchives(d)
  BY <1>1 DEF TypeOK, OtherArchives, Write
<1>2. CASE \E d \in Docs, t \in Stamps : OtherWrites(d, t)
  <2>1. PICK d \in Docs, t \in Stamps : OtherWrites(d, t)
    BY <1>2
  <2>2. row' \in [Docs -> Row]
    BY <2>1 DEF TypeOK, OtherWrites, Write
  <2> QED BY <2>1, <2>2 DEF TypeOK, OtherWrites, Write
<1> QED BY <1>1, <1>2 DEF Others

LEMMA CallTypes ==
  ASSUME TypeOK, NEW call \in calls, Plain(call),
         \/ Receive(call)
         \/ Fail(call)
         \/ \E d \in Docs, t \in Stamps : ServeCreate(call, d, t)
         \/ ServeDelete(call)
  PROVE TypeOK'
<1>1. CASE ReceiveWalk(call) \/ ReceiveNext(call) \/ ReceiveMore(call)
  BY <1>1, WalkTypes
<1>2. CASE ReceiveRefresh(call) \/ ReceiveCreate(call)
  BY <1>2, PlusTyped DEF TypeOK, ReceiveRefresh, ReceiveCreate, Extended, Drop
<1>3. CASE ReceiveDelete(call)
  BY <1>3 DEF TypeOK, ReceiveDelete, Drop
<1>4. CASE Ignore(call) \/ FailCall(call)
  BY <1>4 DEF TypeOK, Ignore, FailCall, Drop
<1>7. CASE FailWalk(call)
  BY <1>7 DEF TypeOK, FailWalk, Drop
<1>5. CASE \E d \in Docs, t \in Stamps : ServeCreate(call, d, t)
  <2>1. PICK d \in Docs, t \in Stamps : ServeCreate(call, d, t)
    BY <1>5
  <2>2. [docs |-> {d}, next |-> None] \in Reply
    BY DEF Reply
  <2>3. calls' \subseteq Call
    <3>1. [call EXCEPT !.doc = d, !.reply = [docs |-> {d}, next |-> None]] \in Call
      BY <2>2, RepliedTyped DEF TypeOK
    <3> QED BY <2>1, <3>1 DEF TypeOK, ServeCreate
  <2> QED BY <2>1, <2>3, WrittenTyped DEF TypeOK, ServeCreate
<1>6. CASE ServeDelete(call)
  <2>1. call.doc \in Docs
    BY <1>6 DEF ServeDelete, Plain
  <2>2. [docs |-> {call.doc}, next |-> None] \in Reply
    BY <2>1 DEF Reply
  <2>3. calls' \subseteq Call
    BY <1>6, <2>2, RepliedCalls DEF TypeOK, ServeDelete
  <2> QED BY <1>6, <2>1, <2>3, WrittenTyped DEF TypeOK, ServeDelete
<1> QED BY <1>1, <1>2, <1>3, <1>4, <1>5, <1>6, <1>7 DEF Receive, Fail

(***************************************************************************)
(* The walk.                                                               *)
(***************************************************************************)

Walking(c) == c.kind \in {"walk", "next", "more"} /\ Current(c)

Mine(d) == row[d].state = "live" /\ Owner[d] = user

\* The first pages are asked for until there is a list, the others from its cursor.
Shape(c) ==
  /\ c.kind = "walk" => first
  /\ c.kind # "walk" => ~first /\ loading /\ c.after = cursor /\ cursor # None

\* The pages put aside are what has been passed, once each.
Found(c) ==
  /\ c.after = None => \A d \in Docs : c.found[d] = 0
  /\ \A d \in Docs \ touched :
       /\ c.found[d] <= 1
       /\ c.found[d] > 0 => Owner[d] = user /\ ~Ahead(d, c.after)
       /\ Mine(d) /\ ~Ahead(d, c.after) => c.found[d] > 0

\* A page on its way is what lies between its cursors.
Brought(c) ==
  /\ c.after # None /\ c.reply.next # None => Below(c.reply.next, c.after)
  /\ \A d \in Docs \ touched :
       /\ d \in c.reply.docs => Owner[d] = user /\ Ahead(d, c.after) /\ Behind(d, c.reply.next)
       /\ Mine(d) /\ Ahead(d, c.after) /\ Behind(d, c.reply.next) => d \in c.reply.docs

Content(c) == (c.kind = "walk" => Found(c)) /\ (c.reply # None => Brought(c))

WalkInv ==
  /\ \A c \in calls : Walking(c) => Shape(c) /\ Content(c)
  /\ \A c, e \in calls : Walking(c) /\ Walking(e) => c = e

\* The list has what has been passed.
ListInv ==
  /\ first => cursor = None /\ ~complete /\ ~loading
  /\ ~first =>
       \A d \in Docs \ touched :
         /\ list[d] <= 1
         /\ list[d] > 0 => Owner[d] = user
         /\ Mine(d) /\ (complete \/ (cursor # None /\ ~Ahead(d, cursor))) => list[d] > 0

IInv == TypesInv /\ WalkInv /\ ListInv

\* A step of the same account that writes no document behind the walk's back.
Calm ==
  /\ user' = user /\ turn' = turn
  /\ touched \subseteq touched'
  /\ \A d \in Docs \ touched' : row'[d] = row[d]
  /\ \A d \in Docs : row[d].state = "archived" => row'[d].state = "archived"

LEMMA CalmPlain ==
  ASSUME NEW c \in Call, Calm, Plain(c)
  PROVE Plain(c)'
<1>1. c.kind = "delete" => c.doc \in Docs
  BY DEF Plain
<1> QED BY <1>1 DEF Calm, Plain, IsPage, Current

LEMMA CalmOrder ==
  ASSUME Calm, NEW d \in Docs \ touched', NEW p
  PROVE Ahead(d, p)' = Ahead(d, p) /\ Behind(d, p)' = Behind(d, p) /\ Mine(d)' = Mine(d)
<1>1. Place(d)' = Place(d) /\ row'[d] = row[d]
  BY DEF Calm, Place
<1> QED BY <1>1 DEF Ahead, Behind, Mine, Below, Calm

LEMMA CalmContent ==
  ASSUME NEW c \in Call, Calm, Content(c)
  PROVE Content(c)'
<1>1. ASSUME Found(c) PROVE Found(c)'
  <2> SUFFICES ASSUME NEW d \in Docs \ touched'
               PROVE /\ c.found[d] <= 1
                     /\ c.found[d] > 0 => Owner[d] = user /\ ~Ahead(d, c.after)'
                     /\ Mine(d)' /\ ~Ahead(d, c.after)' => c.found[d] > 0
    BY <1>1 DEF Found, Calm
  <2> QED BY <1>1, CalmOrder DEF Found, Calm
<1>2. ASSUME Brought(c) PROVE Brought(c)'
  <2> SUFFICES ASSUME NEW d \in Docs \ touched'
               PROVE /\ d \in c.reply.docs => Owner[d] = user /\ Ahead(d, c.after)'
                                                /\ Behind(d, c.reply.next)'
                     /\ Mine(d)' /\ Ahead(d, c.after)' /\ Behind(d, c.reply.next)'
                          => d \in c.reply.docs
    BY <1>2 DEF Brought, Calm, Below
  <2> QED BY <1>2, CalmOrder DEF Brought, Calm
<1> QED BY <1>1, <1>2 DEF Content

LEMMA CalmList ==
  ASSUME Calm, ListInv, UNCHANGED <<list, index, first>>
  PROVE ListInv'
<1>1. ASSUME ~first, NEW d \in Docs \ touched'
      PROVE /\ list[d] <= 1
            /\ list[d] > 0 => Owner[d] = user
            /\ Mine(d)' /\ (complete \/ (cursor # None /\ ~Ahead(d, cursor)')) => list[d] > 0
  BY <1>1, CalmOrder DEF ListInv, Calm
<1>2. first => cursor = None /\ ~complete /\ ~loading
  BY DEF ListInv
<1> QED BY <1>1, <1>2 DEF ListInv, Calm, Ahead, Mine, Below, Place

\* The calls that are left, and new ones that are not of the walk.
LEMMA QuietCalls ==
  ASSUME IInv, Calm, UNCHANGED <<index, first>>, calls' \subseteq Call,
         \A c \in calls' : c \in calls \/ (Plain(c)' /\ ~Walking(c))
  PROVE (\A c \in calls : Plain(c))' /\ WalkInv'
<1>1. \A c \in calls' : Plain(c)'
  <2> TAKE c \in calls'
  <2>1. CASE c \in calls
    BY <2>1, CalmPlain DEF IInv, TypesInv, TypeOK
  <2> QED BY <2>1
<1>2. \A c \in Call : Walking(c)' <=> Walking(c)
  BY DEF Walking, Current, Calm
<1>3. \A c \in calls' : Walking(c)' => c \in calls /\ Walking(c)
  BY <1>2
<1>4. \A c \in calls' : Walking(c)' => Shape(c)' /\ Content(c)'
  <2> SUFFICES ASSUME NEW c \in calls', Walking(c)' PROVE Shape(c)' /\ Content(c)'
    OBVIOUS
  <2>1. c \in calls /\ Walking(c)
    BY <1>3
  <2>2. Shape(c) /\ Content(c)
    BY <2>1 DEF IInv, WalkInv
  <2> QED BY <2>2, CalmContent DEF Shape
<1>5. \A c, e \in calls' : Walking(c)' /\ Walking(e)' => c = e
  BY <1>3 DEF IInv, WalkInv
<1> QED BY <1>1, <1>4, <1>5 DEF WalkInv

LEMMA Typed == ASSUME IInv, NEW call \in calls PROVE TypeOK /\ Plain(call) /\ call \in Call
BY DEF IInv, TypesInv, TypeOK

\* Writes of others, here or in requests of the tab.
LEMMA WritesKeep ==
  ASSUME IInv,
         Others \/ \E call \in calls :
           (\E d \in Docs, t \in Stamps : ServeCreate(call, d, t)) \/ ServeDelete(call)
  PROVE IInv'
<1>1. TypeOK'
  <2>1. CASE Others
    BY <2>1, OthersTypes DEF IInv, TypesInv
  <2> QED BY <2>1, Typed, CallTypes
<1>2. UNCHANGED <<list, index, first>>
  BY DEF Others, OtherArchives, OtherWrites, Write, ServeCreate, ServeDelete
<1>3. CASE Others
  <2>1. Calm /\ calls' = calls
    BY <1>3 DEF Others, OtherArchives, OtherWrites, Write, Calm, IInv, TypesInv, TypeOK
  <2>2. (\A c \in calls : Plain(c))' /\ WalkInv'
    BY <1>1, <1>2, <2>1, QuietCalls DEF TypeOK
  <2> QED BY <1>1, <1>2, <2>1, <2>2, CalmList DEF IInv, TypesInv
<1>4. ASSUME NEW call \in calls, NEW d \in Docs, NEW t \in Stamps, ServeCreate(call, d, t)
      PROVE IInv'
  <2> DEFINE new == [call EXCEPT !.doc = d, !.reply = [docs |-> {d}, next |-> None]]
  <2>1. Calm
    BY <1>4 DEF ServeCreate, Calm, IInv, TypesInv, TypeOK
  <2>2. new.kind = "create" /\ new.turn = call.turn /\ new.doc = d /\ new.reply.docs = {d}
    BY <1>4, Typed DEF ServeCreate, Call
  <2> HIDE DEF new
  <2>3. new.turn <= turn /\ turn' = turn /\ d \in touched'
    BY <1>4, <2>2, Typed DEF ServeCreate, Plain
  <2>4. Plain(new)' /\ ~Walking(new)
    BY <2>2, <2>3 DEF Plain, Walking, IsPage
  <2>5. \A c \in calls' : c \in calls \/ c = new
    BY <1>4 DEF ServeCreate, new
  <2>6. (\A c \in calls : Plain(c))' /\ WalkInv'
    BY <1>1, <1>2, <2>1, <2>4, <2>5, QuietCalls DEF TypeOK
  <2> QED BY <1>1, <1>2, <2>1, <2>6, CalmList DEF IInv, TypesInv
<1>5. ASSUME NEW call \in calls, ServeDelete(call)
      PROVE IInv'
  <2> DEFINE new == [call EXCEPT !.reply = [docs |-> {call.doc}, next |-> None]]
  <2>1. call.doc \in Docs
    BY <1>5, Typed DEF ServeDelete, Plain
  <2>2. Calm /\ row'[call.doc].state = "archived"
    BY <1>5, <2>1 DEF ServeDelete, Calm, IInv, TypesInv, TypeOK, Row
  <2>3. new.kind = "delete" /\ new.turn = call.turn /\ new.doc = call.doc
    BY <1>5, Typed DEF ServeDelete, Call
  <2> HIDE DEF new
  <2>4. new.turn <= turn /\ turn' = turn
    BY <1>5, <2>3, Typed DEF ServeDelete, Plain
  <2>5. Plain(new)' /\ ~Walking(new)
    BY <2>1, <2>2, <2>3, <2>4 DEF Plain, Walking, IsPage
  <2>6. \A c \in calls' : c \in calls \/ c = new
    BY <1>5 DEF ServeDelete, Replied, new
  <2>7. (\A c \in calls : Plain(c))' /\ WalkInv'
    BY <1>1, <1>2, <2>2, <2>5, <2>6, QuietCalls DEF TypeOK
  <2> QED BY <1>1, <1>2, <2>2, <2>7, CalmList DEF IInv, TypesInv
<1> QED BY <1>3, <1>4, <1>5

\* Requests that are not of the walk, and their failures.
LEMMA SendingKeeps ==
  ASSUME IInv,
         \/ Refresh \/ CreateDoc \/ \E d \in Docs : DeleteDoc(d)
         \/ \E call \in calls : Ignore(call) \/ FailCall(call)
  PROVE IInv'
<1>1. TypeOK'
  <2>1. CASE Refresh \/ CreateDoc \/ \E d \in Docs : DeleteDoc(d)
    BY <2>1, ReaderTypes DEF IInv, TypesInv, Reader
  <2> QED BY <2>1, Typed, CallTypes DEF Receive, Fail
<1>2. UNCHANGED <<list, index, first>>
  BY DEF Refresh, CreateDoc, DeleteDoc, Ignore, FailCall
<1>3. Calm
  BY DEF Refresh, CreateDoc, DeleteDoc, Ignore, FailCall, Calm
<1>4. \A c \in calls' : c \in calls \/ (Plain(c)' /\ ~Walking(c))
  <2>1. CASE \E call \in calls : Ignore(call) \/ FailCall(call)
    BY <2>1 DEF Ignore, FailCall, Drop
  <2>2. CASE Refresh \/ CreateDoc \/ \E d \in Docs : DeleteDoc(d)
    <3>1. PICK new : /\ calls' = calls \cup {new}
                     /\ new.kind \in {"refresh", "create", "delete"}
                     /\ new.turn = turn /\ new.reply = None
                     /\ new.kind = "delete" => new.doc \in Docs
      <4>1. CASE Refresh
        <5>1. NewCall("refresh", None).kind = "refresh"
              /\ NewCall("refresh", None).turn = turn /\ NewCall("refresh", None).reply = None
          BY DEF NewCall
        <5>2. calls' = calls \cup {NewCall("refresh", None)}
          BY <4>1 DEF Refresh, Send
        <5> QED BY <5>1, <5>2
      <4>2. CASE CreateDoc
        <5>1. NewCall("create", None).kind = "create"
              /\ NewCall("create", None).turn = turn /\ NewCall("create", None).reply = None
          BY DEF NewCall
        <5>2. calls' = calls \cup {NewCall("create", None)}
          BY <4>2 DEF CreateDoc, Send
        <5> QED BY <5>1, <5>2
      <4>3. CASE \E d \in Docs : DeleteDoc(d)
        <5>1. PICK d \in Docs : DeleteDoc(d)
          BY <4>3
        <5> DEFINE c == [NewCall("delete", None) EXCEPT !.doc = d]
        <5>2. c.kind = "delete" /\ c.turn = turn /\ c.reply = None /\ c.doc = d
          BY DEF NewCall
        <5>3. calls' = calls \cup {c}
          BY <5>1 DEF DeleteDoc, Send
        <5> QED BY <5>2, <5>3
      <4> QED BY <2>2, <4>1, <4>2, <4>3
    <3>2. turn \in Int /\ turn' = turn
      BY <1>3, BoundsAssumption DEF Calm, IInv, TypesInv, TypeOK, BoundsAssumption
    <3>3. Plain(new)' /\ ~Walking(new)
      BY <3>1, <3>2 DEF Plain, Walking
    <3> QED BY <3>1, <3>3
  <2> QED BY <2>1, <2>2
<1>5. (\A c \in calls : Plain(c))' /\ WalkInv'
  BY <1>1, <1>2, <1>3, <1>4, QuietCalls DEF TypeOK
<1> QED BY <1>1, <1>2, <1>3, <1>5, CalmList DEF IInv, TypesInv

LEMMA PlusCounts ==
  ASSUME NEW counts \in [Docs -> Nat], NEW docs, NEW d \in Docs
  PROVE Plus(counts, docs)[d] = IF d \in docs THEN counts[d] + 1 ELSE counts[d]
BY DEF Plus

\* A page adds the documents that are not listed yet.
LEMMA ExtendedCounts ==
  ASSUME list \in [Docs -> Nat], NEW docs, NEW d \in Docs
  PROVE Extended(docs)[d] = IF d \in docs /\ list[d] = 0 THEN 1 ELSE list[d]
BY PlusCounts DEF Extended, Listed

\* Answers that are not of the walk.
LEMMA AnswersKeep ==
  ASSUME IInv, NEW call \in calls,
         ReceiveRefresh(call) \/ ReceiveCreate(call) \/ ReceiveDelete(call)
  PROVE IInv'
<1>1. TypeOK'
  BY Typed, CallTypes DEF Receive
<1>2. UNCHANGED <<server, moves, turn, index, first, touched>> /\ calls' = calls \ {call}
  BY DEF ReceiveRefresh, ReceiveCreate, ReceiveDelete, Drop
<1>3. Calm
  BY <1>2 DEF Calm
<1>4. (\A c \in calls : Plain(c))' /\ WalkInv'
  BY <1>1, <1>2, <1>3, QuietCalls DEF TypeOK
<1>5. ASSUME ~first, NEW d \in Docs \ touched
      PROVE /\ list'[d] <= 1
            /\ list'[d] > 0 => Owner[d] = user
            /\ Mine(d) /\ list[d] > 0 => list'[d] > 0
  <2>1. list \in [Docs -> Nat] /\ list[d] <= 1 /\ (list[d] > 0 => Owner[d] = user)
    BY <1>5 DEF IInv, ListInv, TypesInv, TypeOK
  <2>2. CASE ReceiveRefresh(call)
    <3>1. d \in call.reply.docs => Owner[d] = user
      BY <2>2, Typed DEF ReceiveRefresh, Answered, Plain, IsPage
    <3>2. list'[d] = IF d \in call.reply.docs /\ list[d] = 0 THEN 1 ELSE list[d]
      BY <2>1, <2>2, ExtendedCounts DEF ReceiveRefresh
    <3> QED BY <2>1, <3>1, <3>2
  <2>3. CASE ReceiveCreate(call)
    <3>1. d \notin call.reply.docs
      BY <2>3, Typed DEF ReceiveCreate, Answered, Plain
    <3>2. list'[d] = list[d]
      BY <2>1, <2>3, <3>1, PlusCounts DEF ReceiveCreate
    <3> QED BY <2>1, <3>2
  <2>4. CASE ReceiveDelete(call)
    <3>1. row[call.doc].state = "archived"
      BY <2>4, Typed DEF ReceiveDelete, Answered, Plain
    <3>2. list'[d] = IF d = call.doc THEN 0 ELSE list[d]
      BY <2>1, <2>4 DEF ReceiveDelete
    <3> QED BY <2>1, <3>1, <3>2 DEF Mine
  <2> QED BY <2>2, <2>3, <2>4
<1>6. ListInv'
  <2>1. \A d \in Docs : (Mine(d)' <=> Mine(d)) /\ (Ahead(d, cursor)' <=> Ahead(d, cursor))
    BY <1>2 DEF Mine, Ahead, Below, Place
  <2> QED BY <1>2, <1>5, <2>1 DEF IInv, ListInv
<1> QED BY <1>1, <1>4, <1>6 DEF IInv, TypesInv

\* A page is served.
LEMMA PageKeeps ==
  ASSUME IInv, NEW call \in calls, ServePage(call)
  PROVE IInv'
<1>0. PICK page, new : page = Page(call.after) /\ new = [call EXCEPT !.reply = page]
  OBVIOUS
<1>1. TypeOK'
  BY ServePageTypes DEF IInv, TypesInv
<1>2. /\ new.kind = call.kind /\ new.turn = call.turn /\ new.after = call.after
      /\ new.found = call.found /\ new.reply = page /\ new.doc = call.doc
  BY <1>0, Typed DEF Call
<1>3. calls' = (calls \ {call}) \cup {new}
  BY <1>0 DEF ServePage, Replied
<1>4. /\ page.docs \in SUBSET Docs /\ page.next \in Cursor \cup {None}
      /\ page.docs = {d \in Remaining(call.after) : Behind(d, page.next)}
      /\ call.after # None /\ page.next # None => Below(page.next, call.after)
  <2>1. call.after \in Cursor \cup {None}
    BY Typed, CallFields
  <2> QED BY <1>0, <2>1, PageIsASegment DEF IInv, TypesInv, TypeOK
<1>5. \A d \in Docs : d \in page.docs <=> Mine(d) /\ Ahead(d, call.after) /\ Behind(d, page.next)
  BY <1>4, RemainingIsAhead DEF Mine
<1>6. UNCHANGED <<server, moves, turn, list, index, first>>
  BY DEF ServePage
<1>7. Brought(new)
  BY <1>2, <1>4, <1>5 DEF Brought, Mine
<1>8. \A d \in page.docs : d \in Docs /\ Owner[d] = user
  BY <1>4, <1>5 DEF Mine
<1>9. Plain(new)
  BY <1>2, <1>8, Typed DEF Plain, ServePage, IsPage
<1>10. Walking(new) => Walking(call) /\ Shape(new)
  BY <1>2 DEF Walking, Current, Shape, IInv, WalkInv
<1>11. CASE call.kind = "walk" /\ call.after = None /\ call.turn = turn
  <2>1. touched' = {c.doc : c \in {k \in calls : k.kind = "create" /\ k.reply # None}}
    BY <1>11 DEF ServePage
  <2>2. Walking(call) /\ first
    BY <1>11 DEF Walking, Current, IInv, WalkInv, Shape
  <2>3. \A c \in calls : Walking(c) => c = call
    BY <2>2 DEF IInv, WalkInv
  <2>4. \A c \in calls : Plain(c)'
    <3> SUFFICES ASSUME NEW c \in calls PROVE Plain(c)'
      OBVIOUS
    <3>1. c.reply # None /\ c.kind = "create" => c.doc \in touched'
      BY <2>1
    <3> QED BY <1>6, <3>1, Typed DEF Plain, IsPage, Current
  <2>5. Plain(new)'
    BY <1>2, <1>6, <1>9, <1>11 DEF Plain, IsPage, Current
  <2>6. Content(new)'
    <3>1. \A d \in Docs : new.found[d] = 0
      BY <1>2, <1>11, <2>2 DEF IInv, WalkInv, Content, Found
    <3>2. \A d \in Docs : \A p : (Ahead(d, p)' <=> Ahead(d, p)) /\ (Behind(d, p)' <=> Behind(d, p))
                             /\ (Mine(d)' <=> Mine(d))
      BY <1>6 DEF Ahead, Behind, Below, Mine, Place
    <3>3. \A d \in Docs : Ahead(d, new.after)
      BY <1>2, <1>11 DEF Ahead
    <3>4. Found(new)'
      BY <1>6, <3>1, <3>2, <3>3 DEF Found
    <3>5. Brought(new)'
      <4>1. \A d \in Docs : d \in page.docs => Owner[d] = user
        BY <1>8
      <4>2. new.after = None
        BY <1>2, <1>11
      <4>3. \A d \in Docs : d \in page.docs =>
              Owner[d] = user' /\ Ahead(d, new.after)' /\ Behind(d, new.reply.next)'
        BY <1>2, <1>5, <1>6, <3>2, <4>1
      <4>4. \A d \in Docs :
              Mine(d)' /\ Ahead(d, new.after)' /\ Behind(d, new.reply.next)' => d \in page.docs
        BY <1>2, <1>5, <3>2
      <4> QED BY <1>2, <4>2, <4>3, <4>4 DEF Brought
    <3> QED BY <3>4, <3>5 DEF Content
  <2>7. WalkInv'
    <3>1. \A c \in calls' : Walking(c)' => c = new
      BY <1>3, <1>6, <2>3 DEF Walking, Current
    <3>2. Walking(new)' => Shape(new)'
      BY <1>6, <1>10 DEF Walking, Current, Shape
    <3> QED BY <2>6, <3>1, <3>2 DEF WalkInv
  <2>8. ListInv'
    BY <1>6, <2>2 DEF IInv, ListInv
  <2> QED BY <1>1, <1>3, <2>4, <2>5, <2>7, <2>8 DEF IInv, TypesInv
<1>12. CASE ~(call.kind = "walk" /\ call.after = None /\ call.turn = turn)
  <2>1. touched' = touched
    BY <1>12 DEF ServePage
  <2>2. Calm
    BY <1>6, <2>1 DEF Calm
  <2>3. new \in Call
    BY <1>1, <1>3 DEF TypeOK
  <2>4. \A c \in calls' : Plain(c)'
    BY <1>3, <1>9, <2>2, <2>3, CalmPlain, Typed
  <2>5. Walking(new) => Content(new)
    BY <1>2, <1>7, <1>10 DEF Content, Found, IInv, WalkInv
  <2>6. \A c \in Call : Walking(c)' <=> Walking(c)
    BY <1>6 DEF Walking, Current
  <2>7. \A c \in calls' : Walking(c) => Shape(c) /\ Content(c)
    BY <1>3, <1>10, <2>5 DEF IInv, WalkInv
  <2>8. \A c \in calls' : Walking(c)' => Shape(c)' /\ Content(c)'
    <3> SUFFICES ASSUME NEW c \in calls', Walking(c)' PROVE Shape(c)' /\ Content(c)'
      OBVIOUS
    <3>1. c \in Call
      BY <1>1 DEF TypeOK
    <3>2. Shape(c) /\ Content(c)
      BY <2>6, <2>7, <3>1
    <3> QED BY <1>6, <2>2, <3>1, <3>2, CalmContent DEF Shape
  <2>9. \A c, e \in calls' : Walking(c)' /\ Walking(e)' => c = e
    <3>1. \A c, e \in calls' : Walking(c) /\ Walking(e) => c = e
      BY <1>3, <1>10 DEF IInv, WalkInv
    <3> QED BY <1>1, <2>6, <3>1 DEF TypeOK
  <2> QED BY <1>1, <1>6, <2>2, <2>4, <2>8, <2>9, CalmList DEF IInv, TypesInv, WalkInv
<1> QED BY <1>11, <1>12

\* After a page, what has been passed is what had been and what it brought.
LEMMA Passing ==
  ASSUME IInv, NEW call \in calls, Walking(call), call.reply # None,
         NEW d \in Docs \ touched
  PROVE LET next == call.reply.next
            done == call.after # None /\ ~Below(Place(d), call.after)
            in == d \in call.reply.docs
        IN /\ in => Owner[d] = user /\ ~done /\ Behind(d, next)
           /\ done => Behind(d, next)
           /\ Mine(d) /\ Behind(d, next) => done \/ in
<1> DEFINE next == call.reply.next
<1>1. Brought(call)
  BY DEF IInv, WalkInv, Content
<1>2. call.after # None /\ next # None => Below(next, call.after)
  BY <1>1 DEF Brought
<1>3. call.after \in Cursor \cup {None} /\ next \in Cursor \cup {None}
  BY Typed, CallFields
<1>4. row[d].stamp \in Nat /\ d \in Nat
  BY Typed, DocsAssumption, BoundsAssumption
  DEF TypeOK, Row, Stamps, DocsAssumption, BoundsAssumption
<1>5. \A a, b \in Cursor : Below(b, a) /\ Below(Place(d), b) => Below(Place(d), a)
  <2>1. \A a \in Cursor : a.stamp \in Nat /\ a.doc \in Nat
    <3>1. Stamps \subseteq Nat
      BY BoundsAssumption DEF Stamps, BoundsAssumption
    <3>2. Docs \subseteq Nat
      BY DocsAssumption DEF DocsAssumption
    <3>3. \A a \in Cursor : a.stamp \in Stamps /\ a.doc \in Docs
      BY DEF Cursor
    <3> QED BY <3>1, <3>2, <3>3
  <2> QED BY <1>4, <2>1 DEF Below, Place
<1>6. call.after # None /\ ~Below(Place(d), call.after) => Behind(d, next)
  BY <1>2, <1>3, <1>5 DEF Behind
<1> QED BY <1>1, <1>6 DEF Brought, Ahead

\* A page of the walk that is used.
LEMMA WalkedKeeps ==
  ASSUME IInv, NEW call \in calls,
         ReceiveWalk(call) \/ ReceiveNext(call) \/ ReceiveMore(call)
  PROVE IInv'
<1>0. PICK next : next = call.reply.next
  OBVIOUS
<1> DEFINE found == Plus(call.found, call.reply.docs)
           on == ReceiveWalk(call) /\ first'
<1>1. TypeOK'
  BY Typed, WalkTypes
<1>2. UNCHANGED <<server, moves, turn, touched, failed>>
  BY DEF ReceiveWalk, ReceiveNext, ReceiveMore
<1>3. Calm
  BY <1>2 DEF Calm
<1>4. call.reply # None /\ Walking(call) /\ Shape(call) /\ Content(call)
  BY DEF ReceiveWalk, ReceiveNext, ReceiveMore, Answered, Walking, IInv, WalkInv
<1>5. next \in Cursor \cup {None} /\ call.found \in [Docs -> Nat] /\ list \in [Docs -> Nat]
      /\ turn \in Int
  BY <1>0, <1>4, Typed, CallFields, BoundsAssumption
  DEF IInv, TypesInv, TypeOK, BoundsAssumption
<1>6. \A d \in Docs : \A p : (Ahead(d, p)' <=> Ahead(d, p)) /\ (Behind(d, p)' <=> Behind(d, p))
                         /\ (Mine(d)' <=> Mine(d))
  BY <1>2 DEF Ahead, Behind, Below, Mine, Place
\* The other calls, and one for the next page.
<1>7. ASSUME NEW new, calls' = (calls \ {call}) \cup {new} \/ calls' = calls \ {call},
             new.turn = turn, new.reply = None, new.kind \in {"walk", "next"},
             calls' # calls \ {call} => Shape(new)' /\ Content(new)'
      PROVE (\A c \in calls : Plain(c))' /\ WalkInv'
  <2>1. \A c \in calls' : c = new \/ (c \in calls /\ ~Walking(c))
    BY <1>4, <1>7 DEF IInv, WalkInv
  <2>2. \A c \in calls : Plain(c)'
    BY <1>3, CalmPlain, Typed
  <2>3. Plain(new)'
    BY <1>2, <1>5, <1>7 DEF Plain
  <2>4. \A c \in calls' : Walking(c)' => c = new
    BY <1>2, <2>1 DEF Walking, Current
  <2>5. calls' = calls \ {call} => \A c \in calls' : ~Walking(c)'
    BY <1>2, <1>4 DEF IInv, WalkInv, Walking, Current
  <2> QED BY <1>7, <2>1, <2>2, <2>3, <2>4, <2>5 DEF WalkInv
<1>8. CASE on
  <2>1. ReceiveWalk(call) /\ first
    BY <1>4, <1>8 DEF ReceiveWalk, Answered, Shape
  <2>2. next # None /\ UNCHANGED <<list, index, first>>
    BY <1>0, <1>8, <2>1 DEF ReceiveWalk
  <2>3. PICK new : new = [NewCall("walk", next) EXCEPT !.found = found]
    OBVIOUS
  <2>4. /\ new.turn = turn /\ new.reply = None /\ new.kind = "walk" /\ new.after = next
        /\ new.found = found
    BY <2>3 DEF NewCall
  <2>5. calls' = (calls \ {call}) \cup {new}
    BY <1>0, <1>8, <2>1, <2>3 DEF ReceiveWalk
  <2>6. Found(call) /\ call.kind = "walk"
    BY <1>4, <2>1 DEF Content, ReceiveWalk, Answered
  <2>7. ASSUME NEW d \in Docs \ touched
        PROVE /\ new.found[d] <= 1
              /\ new.found[d] > 0 => Owner[d] = user /\ Behind(d, next)
              /\ Mine(d) /\ Behind(d, next) => new.found[d] > 0
    <3>1. new.found[d] = IF d \in call.reply.docs THEN call.found[d] + 1 ELSE call.found[d]
      BY <1>5, <2>4, PlusCounts
    <3>2. /\ call.found[d] <= 1 /\ call.found[d] \in Nat
          /\ call.found[d] > 0 => Owner[d] = user /\ ~Ahead(d, call.after)
          /\ Mine(d) /\ ~Ahead(d, call.after) => call.found[d] > 0
      BY <1>5, <2>6 DEF Found
    <3> QED BY <1>0, <1>4, <3>1, <3>2, Passing DEF Ahead
  <2>8. Found(new)'
    BY <1>2, <1>6, <2>2, <2>4, <2>7 DEF Found, Ahead, Behind
  <2>9. Shape(new)' /\ Content(new)'
    BY <2>1, <2>2, <2>4, <2>8 DEF Shape, Content
  <2>10. (\A c \in calls : Plain(c))' /\ WalkInv'
    BY <1>7, <2>4, <2>5, <2>9
  <2> QED BY <1>1, <1>3, <2>2, <2>10, CalmList DEF IInv, TypesInv
<1>9. CASE ~on
  <2>0. ReceiveWalk(call) =>
          /\ list' = found /\ first' = FALSE /\ cursor' = next
          /\ loading' = (next # None) /\ complete' = (next = None)
          /\ calls' = (calls \ {call}) \cup
                        (IF next = None THEN {} ELSE {NewCall("next", next)})
    <3> SUFFICES ASSUME ReceiveWalk(call)
                 PROVE ~(next # None /\ Wanted # None /\ found[Wanted] = 0)
      BY <1>0 DEF ReceiveWalk
    <3>1. first /\ ~first'
      BY <1>4, <1>9 DEF ReceiveWalk, Answered, Shape
    <3> QED BY <1>0, <3>1 DEF ReceiveWalk
  <2>1. cursor' = next /\ (complete' <=> next = None) /\ ~first'
    <3>1. CASE ReceiveWalk(call)
      BY <2>0, <3>1
    <3>2. CASE ReceiveNext(call) \/ ReceiveMore(call)
      <4>1. ~first /\ first' = first
        BY <1>4, <3>2 DEF ReceiveNext, ReceiveMore, Answered, Shape
      <4> QED BY <1>0, <3>2, <4>1 DEF ReceiveNext, ReceiveMore
    <3> QED BY <3>1, <3>2
  <2>2. \/ calls' = calls \ {call}
        \/ calls' = (calls \ {call}) \cup {NewCall("next", next)} /\ next # None /\ loading'
    <3>1. CASE ReceiveWalk(call) \/ ReceiveNext(call)
      <4>1. /\ loading' = (next # None)
            /\ calls' = (calls \ {call}) \cup
                          (IF next = None THEN {} ELSE {NewCall("next", next)})
        BY <1>0, <2>0, <3>1 DEF ReceiveNext
      <4>2. CASE next = None
        BY <4>1, <4>2
      <4>3. CASE next # None
        BY <4>1, <4>3
      <4> QED BY <4>2, <4>3
    <3>2. CASE ReceiveMore(call)
      BY <3>2 DEF ReceiveMore, Drop
    <3> QED BY <3>1, <3>2
  <2>3. PICK new : new = NewCall("next", next)
    OBVIOUS
  <2>4. new.turn = turn /\ new.reply = None /\ new.kind = "next" /\ new.after = next
    BY <2>3 DEF NewCall
  <2>5. calls' # calls \ {call} => Shape(new)' /\ Content(new)'
    BY <2>1, <2>2, <2>4 DEF Shape, Content
  <2>6. (\A c \in calls : Plain(c))' /\ WalkInv'
    BY <1>7, <2>2, <2>3, <2>4, <2>5
  <2>7. ASSUME NEW d \in Docs \ touched
        PROVE /\ list'[d] <= 1
              /\ list'[d] > 0 => Owner[d] = user
              /\ Mine(d) /\ Behind(d, next) => list'[d] > 0
    <3>1. CASE ReceiveWalk(call)
      <4>1. list' = found
        BY <2>0, <3>1
      <4>2. list'[d] = IF d \in call.reply.docs THEN call.found[d] + 1 ELSE call.found[d]
        BY <1>5, <4>1, PlusCounts
      <4>3. Found(call)
        BY <1>4, <3>1 DEF Content, ReceiveWalk, Answered
      <4>4. /\ call.found[d] <= 1 /\ call.found[d] \in Nat
            /\ call.found[d] > 0 => Owner[d] = user /\ ~Ahead(d, call.after)
            /\ Mine(d) /\ ~Ahead(d, call.after) => call.found[d] > 0
        BY <1>5, <4>3 DEF Found
      <4> QED BY <1>0, <1>4, <4>2, <4>4, Passing DEF Ahead
    <3>2. CASE ReceiveNext(call) \/ ReceiveMore(call)
      <4>1. list' = Extended(call.reply.docs)
        BY <3>2 DEF ReceiveNext, ReceiveMore
      <4>2. list'[d] = IF d \in call.reply.docs /\ list[d] = 0 THEN 1 ELSE list[d]
        BY <1>5, <4>1, ExtendedCounts
      <4>3. ~first /\ call.after = cursor /\ cursor # None
        BY <1>4, <3>2 DEF Shape, ReceiveNext, ReceiveMore, Answered
      <4>4. /\ list[d] <= 1 /\ list[d] \in Nat
            /\ list[d] > 0 => Owner[d] = user
            /\ Mine(d) /\ ~Ahead(d, cursor) => list[d] > 0
        BY <1>5, <4>3 DEF IInv, ListInv
      <4> QED BY <1>0, <1>4, <4>2, <4>3, <4>4, Passing DEF Ahead
    <3> QED BY <3>1, <3>2
  <2>8. ListInv'
    BY <1>2, <1>6, <2>1, <2>7 DEF ListInv, Behind, Ahead
  <2> QED BY <1>1, <2>6, <2>8 DEF IInv, TypesInv
<1> QED BY <1>8, <1>9

\* The next page is asked for by hand, or a page does not come.
LEMMA AskingKeeps ==
  ASSUME IInv, LoadMore \/ \E call \in calls : FailWalk(call)
  PROVE IInv'
<1>1. TypeOK'
  <2>1. CASE LoadMore
    BY <2>1, ReaderTypes DEF Reader, IInv, TypesInv
  <2> QED BY <2>1, Typed, CallTypes DEF Fail
<1>2. UNCHANGED <<server, moves, turn, list, cursor, complete, first, touched>>
  BY DEF LoadMore, FailWalk
<1>3. Calm
  BY <1>2 DEF Calm
<1>4. \A c \in Call : Walking(c)' <=> Walking(c)
  BY <1>2 DEF Walking, Current
<1>5. CASE LoadMore
  <2>1. PICK new : new = NewCall("more", cursor)
    OBVIOUS
  <2>2. new.turn = turn /\ new.reply = None /\ new.kind = "more" /\ new.after = cursor
    BY <2>1 DEF NewCall
  <2>3. cursor # None /\ ~loading /\ loading' /\ calls' = calls \cup {new}
    BY <1>5, <2>1 DEF LoadMore
  <2>4. ~first
    BY <2>3 DEF IInv, ListInv
  <2>5. \A c \in calls : ~Walking(c)
    BY <2>3, <2>4 DEF IInv, WalkInv, Shape
  <2>6. turn \in Int
    BY BoundsAssumption DEF IInv, TypesInv, TypeOK, BoundsAssumption
  <2>7. \A c \in calls' : Plain(c)'
    <3>1. Plain(new)'
      BY <1>2, <2>2, <2>6 DEF Plain
    <3> QED BY <1>3, <2>3, <3>1, CalmPlain, Typed
  <2>8. \A c \in calls' : Walking(c)' => c = new
    BY <1>2, <2>3, <2>5 DEF Walking, Current
  <2>9. Shape(new)' /\ Content(new)'
    BY <1>2, <2>2, <2>3, <2>4 DEF Shape, Content
  <2>10. WalkInv'
    BY <2>8, <2>9 DEF WalkInv
  <2>11. ListInv'
    BY <1>2, <2>4 DEF IInv, ListInv, Mine, Ahead, Below, Place
  <2> QED BY <1>1, <2>7, <2>10, <2>11 DEF IInv, TypesInv
<1>6. ASSUME NEW call \in calls, FailWalk(call) PROVE IInv'
  <2>1. calls' = calls \ {call}
    BY <1>6 DEF FailWalk, Drop
  <2>2. \A c \in calls' : Plain(c)'
    BY <1>3, <2>1, CalmPlain, Typed
  <2>3. CASE Current(call)
    <3>1. Walking(call) /\ ~loading'
      BY <1>6, <2>3 DEF FailWalk, Walking
    <3>2. \A c \in calls' : ~Walking(c)'
      BY <1>2, <2>1, <3>1 DEF IInv, WalkInv, Walking, Current
    <3>3. WalkInv'
      BY <3>2 DEF WalkInv
    <3>4. ListInv'
      BY <1>2, <3>1 DEF IInv, ListInv, Mine, Ahead, Below, Place
    <3> QED BY <1>1, <2>2, <3>3, <3>4 DEF IInv, TypesInv
  <2>4. CASE ~Current(call)
    <3>1. UNCHANGED <<index, first, list>>
      BY <1>2, <1>6, <2>4 DEF FailWalk
    <3>2. WalkInv'
      BY <1>1, <1>3, <2>1, <2>2, <3>1, QuietCalls DEF TypeOK
    <3> QED BY <1>1, <1>3, <2>2, <3>1, <3>2, CalmList DEF IInv, TypesInv
  <2> QED BY <2>3, <2>4
<1> QED BY <1>5, <1>6

\* Another account.
LEMMA SignInKeeps ==
  ASSUME IInv, NEW u \in Users, SignIn(u)
  PROVE IInv'
<1>1. TypeOK'
  BY ReaderTypes DEF Reader, IInv, TypesInv
<1>2. turn \in Int /\ turn' = turn + 1
  BY BoundsAssumption DEF SignIn, IInv, TypesInv, TypeOK, BoundsAssumption
<1>3. PICK new : new = [NewCall("walk", None) EXCEPT !.turn = turn + 1]
  OBVIOUS
<1>4. /\ new.turn = turn + 1 /\ new.reply = None /\ new.kind = "walk" /\ new.after = None
      /\ new.found = Nothing
  BY <1>3 DEF NewCall
<1>5. calls' = calls \cup {new}
  BY <1>3 DEF SignIn
<1>6. first' /\ cursor' = None /\ ~complete' /\ ~loading'
      /\ UNCHANGED <<row, moves, list, touched>>
  BY DEF SignIn
<1>7. \A c \in calls : Plain(c)' /\ ~Walking(c)'
  <2> SUFFICES ASSUME NEW c \in calls PROVE Plain(c)' /\ ~Walking(c)'
    OBVIOUS
  <2>1. c.turn <= turn /\ c.turn \in Int
    BY Typed, CallFields, BoundsAssumption DEF Plain, BoundsAssumption
  <2>2. ~Current(c)' /\ c.turn <= turn'
    BY <1>2, <2>1 DEF Current
  <2> QED BY <1>6, <2>2, Typed DEF Plain, Walking, IsPage
<1>8. Plain(new)'
  BY <1>2, <1>4 DEF Plain
<1>9. Shape(new)' /\ Content(new)'
  <2>1. \A d \in Docs : new.found[d] = 0 /\ Ahead(d, new.after)'
    BY <1>4 DEF Nothing, Ahead
  <2> QED BY <1>4, <1>6, <2>1 DEF Shape, Content, Found
<1>10. WalkInv'
  BY <1>5, <1>7, <1>9 DEF WalkInv
<1>11. ListInv'
  BY <1>6 DEF ListInv
<1> QED BY <1>1, <1>5, <1>7, <1>8, <1>10, <1>11 DEF IInv, TypesInv

LEMMA InitInv == Init => IInv
<1> SUFFICES ASSUME Init PROVE IInv
  OBVIOUS
<1>1. PICK new : new = NewCall("walk", None)
  OBVIOUS
<1>2. /\ new.turn = turn /\ new.reply = None /\ new.kind = "walk" /\ new.after = None
      /\ new.found = Nothing
  BY <1>1 DEF NewCall
<1>3. calls = {new} /\ first /\ cursor = None /\ ~complete /\ ~loading
  BY <1>1 DEF Init
<1>4. \A d \in Docs : new.found[d] = 0 /\ Ahead(d, new.after)
  BY <1>2 DEF Nothing, Ahead
<1>5. Shape(new) /\ Content(new)
  BY <1>2, <1>3, <1>4 DEF Shape, Content, Found
<1> QED BY <1>3, <1>5, InitTypes DEF IInv, WalkInv, ListInv

LEMMA NextInv == IInv /\ [Next]_vars => IInv'
<1> SUFFICES ASSUME IInv, [Next]_vars PROVE IInv'
  OBVIOUS
<1>1. ASSUME NEW call \in calls, Serve(call) PROVE IInv'
  BY <1>1, PageKeeps, WritesKeep DEF Serve
<1>2. ASSUME NEW call \in calls, Receive(call) PROVE IInv'
  BY <1>2, WalkedKeeps, AnswersKeep, SendingKeeps DEF Receive
<1>3. ASSUME NEW call \in calls, Fail(call) PROVE IInv'
  BY <1>3, AskingKeeps, SendingKeeps DEF Fail
<1>4. CASE Reader
  BY <1>4, AskingKeeps, SendingKeeps, SignInKeeps DEF Reader
<1>5. CASE Others
  BY <1>5, WritesKeep
<1>6. CASE UNCHANGED vars
  <2>1. Calm /\ UNCHANGED <<list, index, first>> /\ calls' = calls
    BY <1>6 DEF Calm
  <2>2. TypeOK'
    BY <1>6 DEF IInv, TypesInv, TypeOK
  <2>3. (\A c \in calls : Plain(c))' /\ WalkInv'
    BY <2>1, <2>2, QuietCalls DEF TypeOK
  <2> QED BY <2>1, <2>2, <2>3, CalmList DEF IInv, TypesInv
<1> QED BY <1>1, <1>2, <1>3, <1>4, <1>5, <1>6 DEF Next

THEOREM Invariance == Spec => []IInv
BY InitInv, NextInv, PTL DEF Spec

\* The state has its types, and a complete index has no next page.
THEOREM IndexTypes == Spec => []TypeOK
<1>1. IInv => TypeOK
  BY DEF IInv, TypesInv
<1> QED BY <1>1, Invariance, PTL

\* A complete index lists every document of the account that was written by
\* nobody during the walk: for any page size, any order of pages, writes, retries
\* and accounts.
THEOREM NothingIsMissed == Spec => []CompleteIndexMissesNothing
<1>1. IInv => CompleteIndexMissesNothing
  <2> SUFFICES ASSUME IInv, complete, NEW d \in Docs,
                      row[d].state = "live", Owner[d] = user, d \notin touched
               PROVE d \in Listed
    BY DEF CompleteIndexMissesNothing
  <2>1. ~first
    BY DEF IInv, ListInv
  <2> QED BY <2>1 DEF IInv, ListInv, Mine, Listed
<1> QED BY <1>1, Invariance, PTL

\* What nobody wrote during the walk is listed at most once.
THEOREM NothingIsRepeated == Spec => []ListedOnce
<1>1. IInv => ListedOnce
  BY DEF IInv, ListInv, ListedOnce
<1> QED BY <1>1, Invariance, PTL

\* Once the first page of an account is there, the list has documents of that
\* account and what was written meanwhile, and no others.
THEOREM NothingIsForeign == Spec => []NoForeignDocuments
<1>1. IInv => NoForeignDocuments
  BY DEF IInv, ListInv, NoForeignDocuments, Listed
<1> QED BY <1>1, Invariance, PTL

(***************************************************************************)
(* Why the walk settles.                                                   *)
(***************************************************************************)

\* A step that lets the walk be: no flag changes and its request is still there.
LetsBe ==
  /\ turn' = turn /\ UNCHANGED index
  /\ \A c \in calls : Walking(c) =>
       \E e \in calls' : e.kind = c.kind /\ e.turn = c.turn

LEMMA LettingBeKeeps ==
  ASSUME WalkIsUnderWay, LetsBe,
         \A c, e \in calls' : Walking(c)' /\ Walking(e)' => c = e
  PROVE  WalkIsUnderWay'
<1>1. ASSUME NEW c \in calls, Walking(c)
      PROVE  \E e \in calls' : e.kind = c.kind /\ Walking(e)'
  BY <1>1 DEF LetsBe, Walking, Current
<1> QED
  BY <1>1 DEF WalkIsUnderWay, LetsBe, Walking, Current

\* A page that arrives is the last, or is followed by the request for the next.
LEMMA ReceivingGoesOn ==
  ASSUME IInv, NEW call \in calls, ReceiveWalk(call) \/ ReceiveNext(call),
         \A c, e \in calls' : Walking(c)' /\ Walking(e)' => c = e
  PROVE  WalkIsUnderWay'
<1>1. turn' = turn /\ Current(call)
  BY DEF ReceiveWalk, ReceiveNext
<1>2. PICK new : new = NewCall("next", call.reply.next)
  OBVIOUS
<1>3. new.kind = "next" /\ new.turn = turn
  BY <1>2 DEF NewCall
<1>4. PICK again : again = [NewCall("walk", call.reply.next) EXCEPT
                              !.found = Plus(call.found, call.reply.docs)]
  OBVIOUS
<1>5. again.kind = "walk" /\ again.turn = turn
  BY <1>4 DEF NewCall
<1>6. CASE call.kind = "walk" /\ again \in calls' /\ UNCHANGED index
  <2>1. ~loading
    BY <1>1, <1>6 DEF IInv, WalkInv, Walking, Shape, ListInv
  <2>2. Walking(again)'
    BY <1>1, <1>5 DEF Walking, Current
  <2> QED
    BY <1>6, <2>1, <2>2 DEF WalkIsUnderWay, Walking
<1>7. CASE call.reply.next = None /\ complete' /\ ~loading'
  BY <1>7 DEF WalkIsUnderWay, Current, Walking
<1>8. CASE new \in calls' /\ loading'
  BY <1>1, <1>3, <1>8 DEF WalkIsUnderWay, Current, Walking
<1> QED
  BY <1>2, <1>4, <1>6, <1>7, <1>8 DEF ReceiveWalk, ReceiveNext, Answered

\* A page that was asked for again ends the loading; so does a page that fails.
LEMMA EndingGoesOn ==
  ASSUME WalkIsUnderWay, NEW call \in calls, ReceiveMore(call) \/ FailWalk(call),
         \A c, e \in calls' : Walking(c)' /\ Walking(e)' => c = e
  PROVE  WalkIsUnderWay'
<1>1. CASE ReceiveMore(call)
  BY <1>1 DEF ReceiveMore, WalkIsUnderWay, Current, Walking
<1>2. CASE FailWalk(call) /\ Current(call)
  BY <1>2 DEF FailWalk, WalkIsUnderWay, Current, Walking
<1>3. CASE FailWalk(call) /\ ~Current(call)
  <2>1. LetsBe
    BY <1>3 DEF LetsBe, FailWalk, Drop, Walking, Current
  <2> QED
    BY <2>1, LettingBeKeeps
<1> QED
  BY <1>1, <1>2, <1>3

\* The other requests let the walk be.
LEMMA CallsLetBe ==
  ASSUME IInv, NEW call \in calls,
         \/ Serve(call) \/ ReceiveRefresh(call) \/ ReceiveCreate(call)
         \/ ReceiveDelete(call) \/ Ignore(call) \/ FailCall(call)
  PROVE  LetsBe
<1>1. call \in Call
  BY Typed
<1>2. CASE ServePage(call)
  <2>1. PICK e : e = [call EXCEPT !.reply = Page(call.after)]
    OBVIOUS
  <2>2. e.kind = call.kind /\ e.turn = call.turn
    BY <1>1, <2>1 DEF Call
  <2> QED
    BY <1>2, <2>1, <2>2 DEF ServePage, Replied, LetsBe
<1>3. CASE \/ \E d \in Docs, t \in Stamps : ServeCreate(call, d, t)
           \/ ServeDelete(call) \/ ReceiveRefresh(call) \/ ReceiveCreate(call)
           \/ ReceiveDelete(call) \/ Ignore(call) \/ FailCall(call)
  <2>1. ~Walking(call)
    BY <1>3 DEF Walking, ServeCreate, ServeDelete, ReceiveRefresh, ReceiveCreate,
                ReceiveDelete, Answered, Ignore, FailCall
  <2> QED
    BY <1>3, <2>1 DEF LetsBe, ServeCreate, ServeDelete, Replied, ReceiveRefresh,
                      ReceiveCreate, ReceiveDelete, Ignore, FailCall, Drop
<1> QED
  BY <1>2, <1>3 DEF Serve

\* So do the reader and the other clients, unless a page is asked for or another
\* account signs in.
LEMMA OthersLetBe ==
  ASSUME \/ Refresh \/ CreateDoc \/ (\E d \in Docs : DeleteDoc(d)) \/ Others
         \/ UNCHANGED vars
  PROVE  LetsBe
BY DEF LetsBe, Refresh, CreateDoc, DeleteDoc, Send, Others, OtherWrites, OtherArchives, Write

LEMMA UnderWayNext ==
  ASSUME IInv, IInv', WalkIsUnderWay, [Next]_vars
  PROVE  WalkIsUnderWay'
<1>1. \A c, e \in calls' : Walking(c)' /\ Walking(e)' => c = e
  BY DEF IInv, WalkInv
<1>2. ASSUME NEW u \in Users, SignIn(u) PROVE WalkIsUnderWay'
  <2>1. PICK new : new = [NewCall("walk", None) EXCEPT !.turn = turn + 1]
    OBVIOUS
  <2>2. new.kind = "walk" /\ new.turn = turn + 1
    BY <2>1 DEF NewCall
  <2>3. new \in calls' /\ turn' = turn + 1 /\ ~loading'
    BY <1>2, <2>1 DEF SignIn
  <2> QED
    BY <1>1, <2>2, <2>3 DEF WalkIsUnderWay, Current, Walking
<1>3. CASE LoadMore
  <2>1. PICK new : new = NewCall("more", cursor)
    OBVIOUS
  <2>2. new.kind = "more" /\ new.turn = turn
    BY <2>1 DEF NewCall
  <2>3. new \in calls' /\ turn' = turn
    BY <1>3, <2>1 DEF LoadMore
  <2> QED
    BY <1>1, <2>2, <2>3 DEF WalkIsUnderWay, Current, Walking
<1>4. ASSUME NEW call \in calls, Serve(call) \/ Receive(call) \/ Fail(call)
      PROVE  WalkIsUnderWay'
  BY <1>1, <1>4, LettingBeKeeps, ReceivingGoesOn, EndingGoesOn, CallsLetBe
     DEF Receive, Fail
<1>5. CASE Reader \/ Others \/ UNCHANGED vars
  BY <1>1, <1>2, <1>3, <1>5, LettingBeKeeps, OthersLetBe DEF Reader
<1> QED
  BY <1>4, <1>5 DEF Next

\* The walk never comes to a silent stop, and is never walked twice at once.
THEOREM WalkGoesOn == Spec => []WalkIsUnderWay
<1>1. Init => WalkIsUnderWay
  <2> SUFFICES ASSUME Init PROVE WalkIsUnderWay
    OBVIOUS
  <2>1. PICK new : new = NewCall("walk", None)
    OBVIOUS
  <2>2. new.kind = "walk" /\ new.turn = turn /\ calls = {new} /\ ~loading
    BY <2>1 DEF NewCall, Init
  <2> QED
    BY <2>2 DEF WalkIsUnderWay, Current
<1>2. IInv /\ IInv' /\ WalkIsUnderWay /\ [Next]_vars => WalkIsUnderWay'
  BY UnderWayNext
<1> QED
  BY <1>1, <1>2, Invariance, PTL DEF Spec

\* The cursor a page brings is below the one it was asked for with: the walk
\* passes every place once.
THEOREM WalkDescends == Spec => CursorOnlyDescends
<1>1. IInv /\ [Next]_vars =>
        (cursor' # cursor => \/ cursor = None \/ cursor' = None
                             \/ Below(cursor', cursor))
  <2> SUFFICES ASSUME IInv, [Next]_vars, cursor' # cursor, cursor # None, cursor' # None
               PROVE  Below(cursor', cursor)
    OBVIOUS
  <2>1. PICK call \in calls : ReceiveWalk(call) \/ ReceiveNext(call) \/ ReceiveMore(call)
    BY DEF Next, Serve, ServePage, ServeCreate, ServeDelete, Receive, ReceiveRefresh,
           ReceiveCreate, ReceiveDelete, Ignore, Fail, FailWalk, FailCall, Reader,
           LoadMore, Refresh, CreateDoc, DeleteDoc, SignIn, Others, OtherWrites,
           OtherArchives, Write
  <2>2. Walking(call) /\ call.reply # None
    BY <2>1 DEF Walking, ReceiveWalk, ReceiveNext, ReceiveMore, Answered
  <2>3. Shape(call) /\ Brought(call)
    BY <2>2 DEF IInv, WalkInv, Content
  <2>4. call.kind # "walk"
    BY <2>3 DEF Shape, IInv, ListInv
  <2>5. call.after = cursor /\ cursor' = call.reply.next
    BY <2>1, <2>3, <2>4 DEF Shape, ReceiveWalk, ReceiveNext, ReceiveMore, Answered
  <2> QED
    BY <2>3, <2>5 DEF Brought
<1> QED
  BY <1>1, Invariance, PTL DEF Spec, CursorOnlyDescends
=============================================================================
