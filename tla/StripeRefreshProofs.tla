------------------------ MODULE StripeRefreshProofs ------------------------
(***************************************************************************)
(* Proofs about StripeRefresh, for every number of subscriptions,          *)
(* customers and handlers, and every bound on their changes.               *)
(***************************************************************************)
EXTENDS StripeRefresh, TLAPS

-----------------------------------------------------------------------------
(* The inductive invariant.  A generation is reserved before Stripe is     *)
(* asked, so the order of the generations of one subscription is also an   *)
(* order of what their refreshes must at least have seen: their floors.    *)

Reserved(w) == request[w].at \in {"load", "apply"}

\* A handler works for an event Stripe did announce.
HandlesAnEvent(w) ==
  request[w].at # "idle" =>
    /\ request[w].event \in Events
    /\ request[w].event[2] <= stripe[Subscription(w)].version

\* A refresh has a generation, and will hear of the event it was made for.
KnowsItsEvent(w) ==
  Reserved(w) =>
    /\ request[w].generation \in 1..generation
    /\ request[w].event[2] <= request[w].floor
    /\ request[w].floor <= stripe[Subscription(w)].version

LoadedAfterReserving(w) ==
  request[w].at = "apply" => /\ request[w].floor <= request[w].snapshot.version
                             /\ Names[Subscription(w)] # "other"

\* What a refresh of the subscription on record would bring is newer than the
\* record exactly if its generation is.
ComparesWithRow(w) ==
  Reserved(w) /\ row.sub = Subscription(w) =>
    /\ request[w].generation > applied => row.floor <= request[w].floor
    /\ request[w].generation <= applied => request[w].floor <= row.floor

RequestInv(w) ==
  /\ HandlesAnEvent(w)
  /\ KnowsItsEvent(w)
  /\ LoadedAfterReserving(w)
  /\ ComparesWithRow(w)

FloorsFollowGenerations ==
  \A v, w \in Handlers :
    Reserved(v) /\ Reserved(w) /\ v # w =>
      /\ request[v].generation # request[w].generation
      /\ request[v].generation < request[w].generation
           /\ Subscription(v) = Subscription(w)
         => request[v].floor <= request[w].floor

RowInv ==
  /\ row.sub = None => applied = 0 /\ row.floor = 0
  /\ row.sub # None => /\ row.customer = CustomerOf[row.sub]
                       /\ row.floor \in 1..stripe[row.sub].version
  /\ row.floor <= row.snapshot.version

\* The customer of s can have no other subscription on record.
Only(s) ==
  /\ Names[s] = "account"
  /\ row.customer \in {None, CustomerOf[s]}
  /\ \A t \in Subscriptions \ {s} : Exists(t) => CustomerOf[t] # CustomerOf[s]

AnsweredInv ==
  \A s \in Subscriptions : Only(s) =>
    \A v \in 1..stripe[s].version :
      <<s, v>> \notin due => row.sub = s /\ v <= row.floor

RefreshInv ==
  /\ TypeOK
  /\ \A w \in Handlers : RequestInv(w)
  /\ FloorsFollowGenerations
  /\ RowInv
  /\ AnsweredInv

-----------------------------------------------------------------------------
(* What holds of the operators.                                            *)

\* An event is a subscription and a change of it.
LEMMA EventsAreChanges ==
  ASSUME NEW e \in Events
  PROVE  /\ e[1] \in Subscriptions
         /\ e[2] \in 1..MaxVersion
         /\ e = <<e[1], e[2]>>
BY BoundsAssumption DEF Events

\* A snapshot has a version, and so has a subscription not created yet.
LEMMA SnapshotsHaveVersions ==
  ASSUME NEW x \in SnapshotsOrNone
  PROVE  x.version \in Nat
BY BoundsAssumption DEF SnapshotsOrNone, Snapshots, NoSnapshot

\* A handler that is not idle works for a subscription.
LEMMA HandledSubscription ==
  ASSUME RefreshInv, NEW w \in Handlers, request[w].at # "idle"
  PROVE  /\ Subscription(w) \in Subscriptions
         /\ request[w].event = <<Subscription(w), request[w].event[2]>>
         /\ request[w].event[2] \in 1..stripe[Subscription(w)].version
<1>1. /\ request[w].event \in Events
      /\ request[w].event[2] <= stripe[Subscription(w)].version
  BY DEF RefreshInv, RequestInv, HandlesAnEvent
<1>2. /\ Subscription(w) \in Subscriptions
      /\ request[w].event[2] \in 1..MaxVersion
      /\ request[w].event = <<Subscription(w), request[w].event[2]>>
  BY <1>1, EventsAreChanges DEF Subscription
<1>3. stripe[Subscription(w)].version \in Nat
  BY <1>2, SnapshotsHaveVersions DEF RefreshInv, TypeOK
<1> QED
  BY <1>1, <1>2, <1>3, BoundsAssumption

-----------------------------------------------------------------------------
(* The initial state.                                                      *)

LEMMA RefreshInvInit == Init => RefreshInv
<1> SUFFICES ASSUME Init PROVE RefreshInv
  OBVIOUS
<1>1. TypeOK
  BY BoundsAssumption DEF Init, TypeOK, SnapshotsOrNone, Idle, Steps, NoSnapshot
<1>2. \A w \in Handlers : request[w].at = "idle"
  BY DEF Init, Idle
<1>3. (\A w \in Handlers : RequestInv(w)) /\ FloorsFollowGenerations
  BY <1>2 DEF RequestInv, HandlesAnEvent, KnowsItsEvent, LoadedAfterReserving,
              ComparesWithRow, Reserved, FloorsFollowGenerations
<1>4. RowInv
  BY DEF Init, RowInv, NoSnapshot
<1>5. AnsweredInv
  BY DEF Init, AnsweredInv, NoSnapshot
<1> QED
  BY <1>1, <1>3, <1>4, <1>5 DEF RefreshInv

-----------------------------------------------------------------------------
(* Stripe and checkout.                                                    *)

LEMMA AnnounceKeepsInv ==
  ASSUME RefreshInv, NEW s \in Subscriptions, NEW status \in Statuses,
         Announce(s, status)
  PROVE  RefreshInv'
<1> DEFINE version == stripe[s].version + 1
<1>1. /\ stripe \in [Subscriptions -> SnapshotsOrNone]
      /\ version \in 1..MaxVersion
  <2>1. stripe \in [Subscriptions -> SnapshotsOrNone]
    BY DEF RefreshInv, TypeOK
  <2>2. stripe[s].version \in Nat
    BY <2>1, SnapshotsHaveVersions
  <2> QED
    BY <2>1, <2>2, BoundsAssumption DEF Announce
<1>2. /\ stripe' = [stripe EXCEPT ![s] = [status |-> status, version |-> version]]
      /\ due' = due \cup {<<s, version>>}
      /\ row' = row /\ generation' = generation /\ applied' = applied
      /\ request' = request
  BY DEF Announce
<1>3. \A t \in Subscriptions : /\ stripe[t].version \in Nat
                               /\ stripe'[t].version \in Nat
                               /\ stripe[t].version <= stripe'[t].version
                               /\ t # s => stripe'[t] = stripe[t]
                               /\ t = s => stripe'[t].version = version
  BY <1>1, <1>2, SnapshotsHaveVersions, BoundsAssumption
<1>4. TypeOK'
  <2>1. stripe' \in [Subscriptions -> SnapshotsOrNone]
    BY <1>1, <1>2 DEF SnapshotsOrNone, Snapshots
  <2>2. due' \subseteq Events
    BY <1>1, <1>2 DEF RefreshInv, TypeOK, Events
  <2> QED
    BY <1>2, <2>1, <2>2 DEF RefreshInv, TypeOK
<1>5. ASSUME NEW w \in Handlers PROVE RequestInv(w)'
  <2>1. RequestInv(w)
    BY DEF RefreshInv
  <2>2. request[w].at # "idle" => Subscription(w) \in Subscriptions
    BY HandledSubscription
  <2>3. request[w].at # "idle" => request[w].event[2] \in Nat
    BY <2>1, EventsAreChanges, BoundsAssumption DEF RequestInv, HandlesAnEvent
  <2>4. request[w].floor \in Nat
    BY DEF RefreshInv, TypeOK
  <2>5. HandlesAnEvent(w)'
    BY <1>2, <1>3, <2>1, <2>2, <2>3 DEF RequestInv, HandlesAnEvent, Subscription
  <2>6. KnowsItsEvent(w)'
    BY <1>2, <1>3, <2>1, <2>2, <2>4 DEF RequestInv, KnowsItsEvent, Reserved, Subscription
  <2> QED
    BY <1>2, <2>1, <2>5, <2>6 DEF RequestInv, LoadedAfterReserving, ComparesWithRow,
                                  Reserved, Subscription
<1>6. FloorsFollowGenerations'
  BY <1>2 DEF RefreshInv, FloorsFollowGenerations, Reserved, Subscription
<1>7. RowInv'
  <2>1. row.sub \in Subscriptions \cup {None} /\ row.floor \in Nat /\ RowInv
    BY DEF RefreshInv, TypeOK
  <2> QED
    BY <1>2, <1>3, <2>1 DEF RowInv
<1>8. AnsweredInv'
  <2> SUFFICES ASSUME NEW t \in Subscriptions, Only(t)',
                      NEW v \in 1..stripe'[t].version, <<t, v>> \notin due'
               PROVE  row'.sub = t /\ v <= row'.floor
    BY DEF AnsweredInv
  <2>1. v \in 1..stripe[t].version
    BY <1>2, <1>3
  <2>2. \A u \in Subscriptions : Exists(u) => Exists(u)'
    BY <1>3 DEF Exists
  <2>3. Only(t)
    BY <1>2, <2>2 DEF Only
  <2> QED
    BY <1>2, <2>1, <2>3 DEF RefreshInv, AnsweredInv
<1> QED
  BY <1>4, <1>5, <1>6, <1>7, <1>8 DEF RefreshInv

LEMMA SetStripeCustomerKeepsInv ==
  ASSUME RefreshInv, NEW c \in Customers, SetStripeCustomer(c)
  PROVE  RefreshInv'
<1>1. /\ row.customer = None
      /\ row' = [row EXCEPT !.customer = c]
      /\ stripe' = stripe /\ due' = due /\ request' = request
      /\ generation' = generation /\ applied' = applied
  BY DEF SetStripeCustomer
<1>2. row \in [customer: Customers \cup {None}, sub: Subscriptions \cup {None},
               snapshot: SnapshotsOrNone, floor: Nat]
  BY DEF RefreshInv, TypeOK
<1>3. /\ row'.customer = c /\ row'.sub = row.sub
      /\ row'.snapshot = row.snapshot /\ row'.floor = row.floor
      /\ row' \in [customer: Customers \cup {None}, sub: Subscriptions \cup {None},
                   snapshot: SnapshotsOrNone, floor: Nat]
  BY <1>1, <1>2
<1>4. row.sub = None
  BY <1>1, <1>2, SubscriptionsAssumption, NoneAssumption DEF RefreshInv, RowInv
<1>5. TypeOK'
  BY <1>1, <1>3 DEF RefreshInv, TypeOK
<1>6. ASSUME NEW w \in Handlers PROVE RequestInv(w)'
  <2>1. RequestInv(w)
    BY DEF RefreshInv
  <2> QED
    BY <1>1, <1>3, <2>1 DEF RequestInv, HandlesAnEvent, KnowsItsEvent,
         LoadedAfterReserving, ComparesWithRow, Reserved, Subscription
<1>7. FloorsFollowGenerations'
  BY <1>1 DEF RefreshInv, FloorsFollowGenerations, Reserved, Subscription
<1>8. RowInv'
  BY <1>1, <1>3, <1>4 DEF RefreshInv, RowInv
<1>9. AnsweredInv'
  <2> SUFFICES ASSUME NEW t \in Subscriptions, Only(t)',
                      NEW v \in 1..stripe'[t].version, <<t, v>> \notin due'
               PROVE  row'.sub = t /\ v <= row'.floor
    BY DEF AnsweredInv
  <2>1. Only(t)
    BY <1>1 DEF Only, Exists
  <2> QED
    BY <1>1, <1>3, <2>1 DEF RefreshInv, AnsweredInv
<1> QED
  BY <1>5, <1>6, <1>7, <1>8, <1>9 DEF RefreshInv

-----------------------------------------------------------------------------
(* A handler that holds no generation after its step.                      *)

RequestRecords ==
  [at: Steps, event: Events \cup {<<None, 0>>}, generation: Nat,
   snapshot: SnapshotsOrNone, floor: Nat]

LEMMA UnreservedKeepsInv ==
  ASSUME RefreshInv, NEW w \in Handlers, NEW r \in RequestRecords,
         r.at \notin {"load", "apply"},
         r.at # "idle" => /\ r.event \in Events
                          /\ r.event[2] <= stripe[r.event[1]].version,
         request' = [request EXCEPT ![w] = r],
         due' \subseteq due, AnsweredInv',
         UNCHANGED <<stripe, row, generation, applied>>
  PROVE  RefreshInv'
<1>1. request \in [Handlers -> RequestRecords]
  BY DEF RefreshInv, TypeOK, RequestRecords
<1>2. request' \in [Handlers -> RequestRecords]
  BY <1>1
<1>3. TypeOK'
  BY <1>2 DEF RefreshInv, TypeOK, RequestRecords
<1>4. ~Reserved(w)'
  BY <1>1 DEF Reserved
<1>5. \A v \in Handlers \ {w} : request'[v] = request[v]
  BY <1>1
<1>6. ASSUME NEW v \in Handlers PROVE RequestInv(v)'
  <2>1. CASE v = w
    <3>1. HandlesAnEvent(w)'
      BY <1>1 DEF HandlesAnEvent, Subscription
    <3> QED
      BY <1>4, <2>1, <3>1 DEF RequestInv, KnowsItsEvent, LoadedAfterReserving,
                              ComparesWithRow, Reserved
  <2>2. CASE v # w
    <3>1. RequestInv(v) /\ request'[v] = request[v]
      BY <1>5, <2>2 DEF RefreshInv
    <3> QED
      BY <3>1 DEF RequestInv, HandlesAnEvent, KnowsItsEvent, LoadedAfterReserving,
                  ComparesWithRow, Reserved, Subscription
  <2> QED
    BY <2>1, <2>2
<1>7. FloorsFollowGenerations'
  <2> SUFFICES ASSUME NEW u \in Handlers, NEW v \in Handlers,
                      Reserved(u)', Reserved(v)', u # v
               PROVE  /\ request'[u].generation # request'[v].generation
                      /\ request'[u].generation < request'[v].generation
                           /\ Subscription(u)' = Subscription(v)'
                         => request'[u].floor <= request'[v].floor
    BY DEF FloorsFollowGenerations
  <2>1. u # w /\ v # w
    BY <1>4
  <2>2. request'[u] = request[u] /\ request'[v] = request[v]
    BY <1>5, <2>1
  <2> QED
    BY <2>2 DEF RefreshInv, FloorsFollowGenerations, Reserved, Subscription
<1>8. RowInv'
  BY DEF RefreshInv, RowInv
<1> QED
  BY <1>3, <1>6, <1>7, <1>8 DEF RefreshInv

\* What is due decides alone whether AnsweredInv survives while the row stays.
LEMMA AnsweredStays ==
  ASSUME AnsweredInv, due' = due, UNCHANGED <<stripe, row>>
  PROVE  AnsweredInv'
BY DEF AnsweredInv, Only, Exists

\* An answer to an event that is not of an only subscription, or that the row
\* has, keeps AnsweredInv.
LEMMA AnsweredMoreStays ==
  ASSUME AnsweredInv, NEW w \in Handlers, NEW s \in Subscriptions, NEW n \in Nat,
         request[w].event = <<s, n>>,
         due' = due \ {request[w].event}, UNCHANGED <<stripe, row>>,
         Only(s) => row.sub = s /\ n <= row.floor
  PROVE  AnsweredInv'
<1> SUFFICES ASSUME NEW t \in Subscriptions, Only(t)',
                    NEW v \in 1..stripe'[t].version, <<t, v>> \notin due'
             PROVE  row'.sub = t /\ v <= row'.floor
  BY DEF AnsweredInv
<1>1. Only(t) /\ v \in 1..stripe[t].version /\ row' = row
  BY DEF Only, Exists
<1>2. CASE <<t, v>> = <<s, n>>
  BY <1>1, <1>2
<1>3. CASE <<t, v>> # <<s, n>>
  BY <1>1, <1>3 DEF AnsweredInv
<1> QED
  BY <1>2, <1>3

LEMMA IdleIsARecord == Idle \in RequestRecords /\ Idle.at = "idle"
BY DEF Idle, RequestRecords, Steps, SnapshotsOrNone

LEMMA DeliverKeepsInv ==
  ASSUME RefreshInv, NEW w \in Handlers, NEW e \in Events, Deliver(w, e)
  PROVE  RefreshInv'
<1> DEFINE step == IF row.customer = CustomerOf[e[1]] THEN "reserve" ELSE "resolve"
           r == [request[w] EXCEPT !.at = step, !.event = e]
<1>1. request \in [Handlers -> RequestRecords]
  BY DEF RefreshInv, TypeOK, RequestRecords
<1>2. /\ e[2] \in 1..stripe[e[1]].version
      /\ request' = [request EXCEPT ![w] = r]
      /\ due' = due /\ UNCHANGED <<stripe, row, generation, applied>>
  BY DEF Deliver
<1>3. /\ r \in RequestRecords /\ r.at \notin {"load", "apply"} /\ r.event = e
  BY <1>1 DEF RequestRecords, Steps
<1>4. e[2] <= stripe[e[1]].version
  <2>1. stripe[e[1]].version \in Nat
    BY EventsAreChanges, SnapshotsHaveVersions DEF RefreshInv, TypeOK
  <2> QED
    BY <1>2, <2>1
<1>5. AnsweredInv'
  BY <1>2, AnsweredStays DEF RefreshInv
<1> HIDE DEF r
<1> QED
  BY <1>2, <1>3, <1>4, <1>5, UnreservedKeepsInv

LEMMA FailKeepsInv ==
  ASSUME RefreshInv, NEW w \in Handlers, Fail(w)
  PROVE  RefreshInv'
<1>1. /\ request' = [request EXCEPT ![w] = Idle]
      /\ due' = due /\ UNCHANGED <<stripe, row, generation, applied>>
  BY DEF Fail
<1>2. AnsweredInv'
  BY <1>1, AnsweredStays DEF RefreshInv
<1> QED
  BY <1>1, <1>2, IdleIsARecord, UnreservedKeepsInv

\* The account of an only subscription is the one its metadata names.
LEMMA ResolveStripeUserKeepsInv ==
  ASSUME RefreshInv, NEW w \in Handlers, ResolveStripeUser(w)
  PROVE  RefreshInv'
<1> DEFINE s == Subscription(w)
           mine == IF row.customer = CustomerOf[s] THEN Names[s] # "other"
                                                  ELSE Names[s] = "account"
<1>1. request[w].at = "resolve"
  BY DEF ResolveStripeUser
<1>2. /\ s \in Subscriptions
      /\ request[w].event = <<s, request[w].event[2]>>
      /\ request[w].event[2] \in 1..stripe[s].version
      /\ request[w].event \in Events
  BY <1>1, HandledSubscription DEF RefreshInv, RequestInv, HandlesAnEvent
<1>3. stripe[s].version \in Nat
  BY <1>2, SnapshotsHaveVersions DEF RefreshInv, TypeOK
<1>4. CASE mine /\ Continue(w, "reserve")
  <2> DEFINE r == [request[w] EXCEPT !.at = "reserve"]
  <2>1. request \in [Handlers -> RequestRecords]
    BY DEF RefreshInv, TypeOK, RequestRecords
  <2>2. r \in RequestRecords /\ r.at = "reserve" /\ r.event = request[w].event
    BY <2>1 DEF RequestRecords, Steps
  <2>3. /\ request' = [request EXCEPT ![w] = r]
        /\ due' = due /\ UNCHANGED <<stripe, row, generation, applied>>
    BY <1>4 DEF Continue
  <2>4. AnsweredInv'
    BY <2>3, AnsweredStays DEF RefreshInv
  <2>5. r.event \in Events /\ r.event[2] <= stripe[r.event[1]].version
    BY <1>2, <1>3, <2>2 DEF Subscription
  <2> HIDE DEF r
  <2> QED
    BY <2>2, <2>3, <2>4, <2>5, UnreservedKeepsInv
<1>5. CASE ~mine /\ Answer(w) /\ UNCHANGED <<stripe, row, generation, applied>>
  <2>1. ~Only(s)
    BY <1>5 DEF Only
  <2>2. /\ request' = [request EXCEPT ![w] = Idle]
        /\ due' = due \ {request[w].event}
    BY <1>5 DEF Answer
  <2>3. request[w].event[2] \in Nat
    BY <1>2, <1>3
  <2>4. AnsweredInv'
    BY <1>2, <1>5, <2>1, <2>2, <2>3, AnsweredMoreStays DEF RefreshInv
  <2> QED
    BY <1>5, <2>2, <2>4, IdleIsARecord, UnreservedKeepsInv
<1> QED
  BY <1>4, <1>5 DEF ResolveStripeUser

-----------------------------------------------------------------------------
(* A refresh.                                                              *)

\* The newest generation sees at least what every earlier one had to see.
LEMMA ReserveGenerationKeepsInv ==
  ASSUME RefreshInv, NEW w \in Handlers, ReserveGeneration(w)
  PROVE  RefreshInv'
<1> DEFINE s == Subscription(w)
           q == request[w]
           g == generation + 1
           f == stripe[s].version
           r == [q EXCEPT !.at = "load", !.generation = g, !.floor = f]
<1>1. /\ request \in [Handlers -> RequestRecords]
      /\ generation \in Nat /\ applied \in Nat /\ applied <= generation
      /\ row.floor \in Nat
  BY DEF RefreshInv, TypeOK, RequestRecords
<1>2. /\ request[w].at = "reserve"
      /\ generation' = generation + 1
      /\ request' = [request EXCEPT ![w] = r]
      /\ UNCHANGED <<stripe, due, row, applied>>
  BY DEF ReserveGeneration, Subscription
<1>3. /\ s \in Subscriptions
      /\ request[w].event \in Events
      /\ request[w].event[2] \in 1..stripe[s].version
  BY <1>2, HandledSubscription DEF RefreshInv, RequestInv, HandlesAnEvent
<1>4. stripe[s].version \in Nat
  BY <1>3, SnapshotsHaveVersions DEF RefreshInv, TypeOK
<1>5. /\ r \in RequestRecords /\ r.at = "load" /\ r.event = request[w].event
      /\ r.generation = generation + 1 /\ r.floor = stripe[s].version
  <2>1. q \in RequestRecords /\ g \in Nat /\ f \in Nat
    BY <1>1, <1>4
  <2>2. /\ r \in RequestRecords /\ r.at = "load" /\ r.event = q.event
        /\ r.generation = g /\ r.floor = f
    <3> HIDE DEF q, g, f
    <3> QED
      BY <2>1 DEF RequestRecords, Steps
  <2> QED
    BY <2>2
<1> HIDE DEF r
<1>6. request'[w] = r /\ \A v \in Handlers \ {w} : request'[v] = request[v]
  BY <1>1, <1>2
<1>7. TypeOK'
  <2>1. request' \in [Handlers -> RequestRecords]
    BY <1>1, <1>2, <1>5
  <2> QED
    BY <1>1, <1>2, <2>1 DEF RefreshInv, TypeOK, RequestRecords
<1>8. Subscription(w)' = s
  BY <1>5, <1>6 DEF Subscription
<1>9. row.sub = s => row.floor <= stripe[s].version
  BY <1>3, <1>4, NoneAssumption DEF RefreshInv, RowInv
<1>10. ASSUME NEW v \in Handlers PROVE RequestInv(v)'
  <2>1. CASE v = w
    <3>1. HandlesAnEvent(w)' /\ KnowsItsEvent(w)' /\ LoadedAfterReserving(w)'
      BY <1>1, <1>2, <1>3, <1>4, <1>5, <1>6, <1>8
         DEF HandlesAnEvent, KnowsItsEvent, LoadedAfterReserving
    <3>2. ComparesWithRow(w)'
      BY <1>1, <1>2, <1>5, <1>6, <1>8, <1>9 DEF ComparesWithRow
    <3> QED
      BY <2>1, <3>1, <3>2 DEF RequestInv
  <2>2. CASE v # w
    <3>1. RequestInv(v) /\ request'[v] = request[v] /\ request[v] \in RequestRecords
      BY <1>1, <1>6, <2>2 DEF RefreshInv
    <3>2. KnowsItsEvent(v)'
      BY <1>1, <1>2, <3>1 DEF RequestInv, KnowsItsEvent, Reserved, Subscription, RequestRecords
    <3> QED
      BY <1>2, <3>1, <3>2 DEF RequestInv, HandlesAnEvent, LoadedAfterReserving,
                              ComparesWithRow, Reserved, Subscription
  <2> QED
    BY <2>1, <2>2
<1>11. FloorsFollowGenerations'
  <2>1. ASSUME NEW v \in Handlers, v # w, Reserved(v)'
        PROVE  /\ request'[v].generation < request'[w].generation
               /\ Subscription(v)' = s => request'[v].floor <= request'[w].floor
    <3>1. request'[v] = request[v] /\ Reserved(v) /\ RequestInv(v)
      BY <1>6, <2>1 DEF Reserved, RefreshInv
    <3>2. request[v].generation \in 1..generation
          /\ (Subscription(v) = s => request[v].floor <= stripe[s].version)
      BY <3>1 DEF RequestInv, KnowsItsEvent
    <3> QED
      BY <1>1, <1>5, <1>6, <3>1, <3>2 DEF Subscription
  <2> SUFFICES ASSUME NEW u \in Handlers, NEW v \in Handlers,
                      Reserved(u)', Reserved(v)', u # v
               PROVE  /\ request'[u].generation # request'[v].generation
                      /\ request'[u].generation < request'[v].generation
                           /\ Subscription(u)' = Subscription(v)'
                         => request'[u].floor <= request'[v].floor
    BY DEF FloorsFollowGenerations
  <2>2. request'[u].generation \in Nat /\ request'[v].generation \in Nat
    BY <1>7 DEF TypeOK
  <2>3. CASE v = w
    BY <1>8, <2>1, <2>2, <2>3
  <2>4. CASE u = w
    <3>1. request'[v].generation < request'[u].generation
      BY <2>1, <2>4
    <3> QED
      BY <2>2, <3>1
  <2>5. CASE u # w /\ v # w
    <3>1. request'[u] = request[u] /\ request'[v] = request[v]
      BY <1>6, <2>5
    <3> QED
      BY <3>1 DEF RefreshInv, FloorsFollowGenerations, Reserved, Subscription
  <2> QED
    BY <2>3, <2>4, <2>5
<1>12. RowInv'
  BY <1>2 DEF RefreshInv, RowInv
<1>13. AnsweredInv'
  BY <1>2, AnsweredStays DEF RefreshInv
<1> QED
  BY <1>7, <1>10, <1>11, <1>12, <1>13 DEF RefreshInv

\* Stripe is asked after the generation was reserved.
LEMMA RetrieveSubscriptionKeepsInv ==
  ASSUME RefreshInv, NEW w \in Handlers, RetrieveSubscription(w)
  PROVE  RefreshInv'
<1> DEFINE s == Subscription(w)
<1>1. /\ request[w].at = "load"
      /\ UNCHANGED <<stripe, row, generation, applied>>
  BY DEF RetrieveSubscription
<1>2. /\ s \in Subscriptions
      /\ request[w].event = <<s, request[w].event[2]>>
      /\ request[w].event[2] \in 1..stripe[s].version
      /\ RequestInv(w)
  BY <1>1, HandledSubscription DEF RefreshInv
<1>3. stripe[s].version \in Nat /\ stripe[s] \in SnapshotsOrNone
  BY <1>2, SnapshotsHaveVersions DEF RefreshInv, TypeOK
<1>4. CASE Names[s] = "other" /\ Answer(w)
  <2>1. /\ request' = [request EXCEPT ![w] = Idle]
        /\ due' = due \ {request[w].event}
    BY <1>4 DEF Answer
  <2>2. request[w].event[2] \in Nat /\ ~Only(s)
    BY <1>2, <1>3, <1>4 DEF Only
  <2>3. AnsweredInv'
    BY <1>1, <1>2, <2>1, <2>2, AnsweredMoreStays DEF RefreshInv
  <2> QED
    BY <1>1, <2>1, <2>3, IdleIsARecord, UnreservedKeepsInv
<1>5. CASE /\ Names[s] # "other" /\ due' = due
           /\ request' = [request EXCEPT ![w].at = "apply", ![w].snapshot = stripe[s]]
  <2> DEFINE r == [request[w] EXCEPT !.at = "apply", !.snapshot = stripe[s]]
  <2>1. request \in [Handlers -> RequestRecords]
    BY DEF RefreshInv, TypeOK, RequestRecords
  <2>2. request' = [request EXCEPT ![w] = r]
    BY <1>5
  <2>3. /\ r \in RequestRecords /\ r.at = "apply" /\ r.event = request[w].event
        /\ r.generation = request[w].generation /\ r.floor = request[w].floor
        /\ r.snapshot = stripe[s]
    BY <1>3, <2>1 DEF RequestRecords, Steps
  <2> HIDE DEF r
  <2>4. request'[w] = r /\ \A v \in Handlers \ {w} : request'[v] = request[v]
    BY <2>1, <2>2
  <2>5. TypeOK'
    <3>1. request' \in [Handlers -> RequestRecords]
      BY <2>1, <2>2, <2>3
    <3> QED
      BY <1>1, <1>5, <3>1 DEF RefreshInv, TypeOK, RequestRecords
  <2>6. \A v \in Handlers : /\ Subscription(v)' = Subscription(v)
                            /\ request'[v].event = request[v].event
                            /\ request'[v].generation = request[v].generation
                            /\ request'[v].floor = request[v].floor
                            /\ Reserved(v)' = Reserved(v)
                            /\ (request'[v].at = "idle") = (request[v].at = "idle")
    BY <1>1, <2>3, <2>4 DEF Subscription, Reserved
  <2>7. ASSUME NEW v \in Handlers PROVE RequestInv(v)'
    <3>1. RequestInv(v)
      BY DEF RefreshInv
    <3>2. LoadedAfterReserving(v)'
      <4>1. CASE v = w
        BY <1>1, <1>2, <1>5, <2>3, <2>4, <2>6, <4>1
           DEF RequestInv, KnowsItsEvent, LoadedAfterReserving, Reserved
      <4>2. CASE v # w
        BY <2>4, <2>6, <3>1, <4>2 DEF RequestInv, LoadedAfterReserving
      <4> QED
        BY <4>1, <4>2
    <3> QED
      BY <1>1, <2>6, <3>1, <3>2 DEF RequestInv, HandlesAnEvent, KnowsItsEvent, ComparesWithRow
  <2>8. FloorsFollowGenerations'
    BY <2>6 DEF RefreshInv, FloorsFollowGenerations
  <2>9. RowInv'
    BY <1>1 DEF RefreshInv, RowInv
  <2>10. AnsweredInv'
    BY <1>1, <1>5, AnsweredStays DEF RefreshInv
  <2> QED
    BY <2>5, <2>7, <2>8, <2>9, <2>10 DEF RefreshInv
<1> QED
  BY <1>4, <1>5 DEF RetrieveSubscription

\* What ApplyRefresh does to the row when it does anything.
Replaces(w) ==
  /\ row' = [customer |-> CustomerOf[Subscription(w)], sub |-> Subscription(w),
             snapshot |-> request[w].snapshot, floor |-> request[w].floor]
  /\ applied' = request[w].generation

\* What a handler knows of the refresh it is about to apply.
LEMMA RefreshInHand ==
  ASSUME RefreshInv, NEW w \in Handlers, request[w].at = "apply"
  PROVE  LET s == Subscription(w)
             r == request[w] IN
         /\ s \in Subscriptions /\ Names[s] # "other"
         /\ r.event = <<s, r.event[2]>> /\ r.event[2] \in 1..stripe[s].version
         /\ r.generation \in 1..generation
         /\ r.floor \in 1..stripe[s].version /\ r.event[2] <= r.floor
         /\ r.snapshot \in SnapshotsOrNone /\ r.floor <= r.snapshot.version
<1>1. /\ Subscription(w) \in Subscriptions
      /\ request[w].event = <<Subscription(w), request[w].event[2]>>
      /\ request[w].event[2] \in 1..stripe[Subscription(w)].version
      /\ RequestInv(w)
  BY HandledSubscription DEF RefreshInv
<1>2. stripe[Subscription(w)].version \in Nat
  BY <1>1, SnapshotsHaveVersions DEF RefreshInv, TypeOK
<1>3. request[w].floor \in Nat /\ request[w].snapshot \in SnapshotsOrNone
  BY DEF RefreshInv, TypeOK
<1>4. KnowsItsEvent(w) /\ LoadedAfterReserving(w) /\ Reserved(w)
  BY <1>1 DEF RequestInv, Reserved
<1> QED
  BY <1>1, <1>2, <1>3, <1>4 DEF KnowsItsEvent, LoadedAfterReserving

\* A newer refresh that the row accepts: the floor on record does not fall, and
\* every other refresh of the subscription compares with the new one as its
\* generation does.
LEMMA ReplacingKeepsInv ==
  ASSUME RefreshInv, NEW w \in Handlers, request[w].at = "apply",
         Newest(w), Accepts(Subscription(w), request[w].snapshot),
         Replaces(w), Answer(w), UNCHANGED <<stripe, generation>>
  PROVE  RefreshInv'
<1> DEFINE s == Subscription(w)
<1>1. /\ request \in [Handlers -> RequestRecords]
      /\ generation \in Nat /\ applied \in Nat /\ row.floor \in Nat
  BY DEF RefreshInv, TypeOK, RequestRecords
<1>2. /\ s \in Subscriptions /\ Names[s] # "other"
      /\ request[w].event = <<s, request[w].event[2]>>
      /\ request[w].event[2] \in 1..stripe[s].version
      /\ request[w].generation \in 1..generation
      /\ request[w].floor \in 1..stripe[s].version
      /\ request[w].event[2] <= request[w].floor
      /\ request[w].snapshot \in SnapshotsOrNone
      /\ request[w].floor <= request[w].snapshot.version
  BY RefreshInHand
<1>3. stripe[s].version \in Nat
  BY <1>2, SnapshotsHaveVersions DEF RefreshInv, TypeOK
<1>4. /\ row'.customer = CustomerOf[s] /\ row'.sub = s
      /\ row'.snapshot = request[w].snapshot /\ row'.floor = request[w].floor
      /\ applied' = request[w].generation /\ request[w].generation > applied
      /\ request' = [request EXCEPT ![w] = Idle]
      /\ due' = due \ {request[w].event}
  BY DEF Replaces, Answer, Newest
<1>5. /\ request'[w] = Idle
      /\ \A v \in Handlers \ {w} : request'[v] = request[v]
      /\ request' \in [Handlers -> RequestRecords]
  BY <1>1, <1>4, IdleIsARecord
<1>6. ~Reserved(w)'
  BY <1>5, IdleIsARecord DEF Reserved
<1>7. TypeOK'
  <2>1. row' \in [customer: Customers \cup {None}, sub: Subscriptions \cup {None},
                  snapshot: SnapshotsOrNone, floor: Nat]
    BY <1>2, <1>3, SubscriptionsAssumption DEF Replaces
  <2>2. applied' \in Nat /\ applied' <= generation'
    BY <1>1, <1>2, <1>4
  <2> QED
    BY <1>1, <1>4, <1>5, <2>1, <2>2 DEF RefreshInv, TypeOK, RequestRecords
<1>8. ASSUME NEW v \in Handlers PROVE RequestInv(v)'
  <2>1. CASE v = w
    BY <1>5, <1>6, <2>1, IdleIsARecord
       DEF RequestInv, HandlesAnEvent, KnowsItsEvent, LoadedAfterReserving,
           ComparesWithRow, Reserved
  <2>2. CASE v # w
    <3>1. /\ RequestInv(v) /\ request'[v] = request[v]
          /\ request[v] \in RequestRecords /\ request[w] \in RequestRecords
      BY <1>1, <1>5, <2>2 DEF RefreshInv
    <3>2. ComparesWithRow(v)'
      <4> SUFFICES ASSUME Reserved(v), Subscription(v) = s
                   PROVE  /\ request[v].generation > request[w].generation
                               => request[w].floor <= request[v].floor
                          /\ request[v].generation <= request[w].generation
                               => request[v].floor <= request[w].floor
        BY <1>4, <3>1 DEF ComparesWithRow, Reserved, Subscription
      <4>1. Reserved(w)
        BY DEF Reserved
      <4>2. /\ request[v].generation # request[w].generation
            /\ request[v].generation < request[w].generation
                 => request[v].floor <= request[w].floor
            /\ request[w].generation < request[v].generation
                 => request[w].floor <= request[v].floor
        BY <2>2, <4>1 DEF RefreshInv, FloorsFollowGenerations
      <4>3. request[v].generation \in Nat /\ request[w].generation \in Nat
        BY <3>1 DEF RequestRecords
      <4> QED
        BY <4>2, <4>3
    <3> QED
      BY <3>1, <3>2 DEF RequestInv, HandlesAnEvent, KnowsItsEvent,
                        LoadedAfterReserving, Reserved, Subscription
  <2> QED
    BY <2>1, <2>2
<1>9. FloorsFollowGenerations'
  <2> SUFFICES ASSUME NEW u \in Handlers, NEW v \in Handlers,
                      Reserved(u)', Reserved(v)', u # v
               PROVE  /\ request'[u].generation # request'[v].generation
                      /\ request'[u].generation < request'[v].generation
                           /\ Subscription(u)' = Subscription(v)'
                         => request'[u].floor <= request'[v].floor
    BY DEF FloorsFollowGenerations
  <2>1. request'[u] = request[u] /\ request'[v] = request[v]
    BY <1>5, <1>6
  <2> QED
    BY <2>1 DEF RefreshInv, FloorsFollowGenerations, Reserved, Subscription
<1>10. RowInv'
  BY <1>2, <1>3, <1>4, NoneAssumption DEF RowInv
<1>11. AnsweredInv'
  <2> SUFFICES ASSUME NEW t \in Subscriptions, Only(t)',
                      NEW v \in 1..stripe'[t].version, <<t, v>> \notin due'
               PROVE  row'.sub = t /\ v <= row'.floor
    BY DEF AnsweredInv
  <2>1. Exists(s)
    BY <1>2, <1>3 DEF Exists
  <2>2. CustomerOf[s] = CustomerOf[t]
    <3>1. CustomerOf[s] \in Customers
      BY <1>2, SubscriptionsAssumption
    <3> QED
      BY <1>4, <3>1, NoneAssumption DEF Only
  <2>3. t = s
    BY <1>2, <2>1, <2>2 DEF Only, Exists
  <2>4. Only(t)
    BY <1>4, <2>3 DEF Only, Exists, Accepts
  <2>5. row.sub = s => row.floor <= request[w].floor
    BY <1>4 DEF RefreshInv, RequestInv, ComparesWithRow, Reserved
  <2>6. CASE <<t, v>> = request[w].event
    BY <1>2, <1>4, <2>3, <2>6
  <2>7. CASE <<t, v>> # request[w].event
    <3>1. row.sub = t /\ v <= row.floor
      BY <1>4, <2>4, <2>7 DEF RefreshInv, AnsweredInv
    <3>2. v \in Nat /\ request[w].floor \in Nat
      BY <1>2, <1>3, <2>3
    <3> QED
      BY <1>1, <1>4, <2>3, <2>5, <3>1, <3>2
  <2> QED
    BY <2>6, <2>7
<1> QED
  BY <1>7, <1>8, <1>9, <1>10, <1>11 DEF RefreshInv

\* A refresh that is dropped is no loss to an only subscription: the row always
\* accepts that one, so a newer refresh of it was applied.
LEMMA DroppingKeepsInv ==
  ASSUME RefreshInv, NEW w \in Handlers, request[w].at = "apply",
         ~(Newest(w) /\ Accepts(Subscription(w), request[w].snapshot)),
         Answer(w), UNCHANGED <<stripe, row, generation, applied>>
  PROVE  RefreshInv'
<1> DEFINE s == Subscription(w)
           n == request[w].event[2]
<1>1. /\ s \in Subscriptions
      /\ request[w].event = <<s, n>>
      /\ n \in 1..stripe[s].version
      /\ request[w].generation \in 1..generation
      /\ request[w].floor \in 1..stripe[s].version
      /\ n <= request[w].floor
  BY RefreshInHand
<1>2. /\ stripe[s].version \in Nat
      /\ row.sub \in Subscriptions \cup {None} /\ row.floor \in Nat
      /\ generation \in Nat /\ applied \in Nat
  BY <1>1, SnapshotsHaveVersions DEF RefreshInv, TypeOK
<1>3. ASSUME Only(s) PROVE row.sub = s /\ n <= row.floor
  <2>1. row.sub \in {None, s}
    <3> SUFFICES ASSUME row.sub # None, row.sub # s PROVE FALSE
      OBVIOUS
    <3>1. /\ row.sub \in Subscriptions \ {s}
          /\ row.customer = CustomerOf[row.sub]
          /\ row.floor \in 1..stripe[row.sub].version
      BY <1>2 DEF RefreshInv, RowInv
    <3>2. stripe[row.sub].version \in Nat
      BY <3>1, SnapshotsHaveVersions DEF RefreshInv, TypeOK
    <3>3. Exists(row.sub)
      BY <3>1, <3>2 DEF Exists
    <3>4. row.customer # None
      BY <3>1, SubscriptionsAssumption, NoneAssumption
    <3> QED
      BY <1>3, <3>1, <3>3, <3>4 DEF Only
  <2>2. Accepts(s, request[w].snapshot)
    BY <1>3, <2>1 DEF Accepts, Only
  <2>3. request[w].generation <= applied
    BY <1>1, <1>2, <2>2 DEF Newest
  <2>4. row.sub = s
    BY <1>1, <1>2, <2>1, <2>3 DEF RefreshInv, RowInv
  <2>5. request[w].floor <= row.floor
    BY <2>3, <2>4 DEF RefreshInv, RequestInv, ComparesWithRow, Reserved
  <2> QED
    BY <1>1, <1>2, <2>4, <2>5
<1>4. /\ request' = [request EXCEPT ![w] = Idle]
      /\ due' = due \ {request[w].event}
  BY DEF Answer
<1>5. AnsweredInv'
  <2>1. n \in Nat
    BY <1>1, <1>2
  <2> HIDE DEF n
  <2> QED
    BY <1>1, <1>3, <1>4, <2>1, AnsweredMoreStays DEF RefreshInv
<1> QED
  BY <1>4, <1>5, IdleIsARecord, UnreservedKeepsInv

LEMMA ApplyRefreshKeepsInv ==
  ASSUME RefreshInv, NEW w \in Handlers, ApplyRefresh(w)
  PROVE  RefreshInv'
<1>1. /\ request[w].at = "apply" /\ Answer(w) /\ UNCHANGED <<stripe, generation>>
  BY DEF ApplyRefresh
<1>2. CASE Newest(w) /\ Accepts(Subscription(w), request[w].snapshot)
  <2>1. Replaces(w)
    BY <1>2 DEF ApplyRefresh, Replaces
  <2> QED
    BY <1>1, <1>2, <2>1, ReplacingKeepsInv
<1>3. CASE ~(Newest(w) /\ Accepts(Subscription(w), request[w].snapshot))
  <2>1. UNCHANGED <<row, applied>>
    BY <1>3 DEF ApplyRefresh
  <2> QED
    BY <1>1, <1>3, <2>1, DroppingKeepsInv
<1> QED
  BY <1>2, <1>3

-----------------------------------------------------------------------------
(* The theorems.                                                           *)

\* Every step keeps the invariant.
LEMMA RefreshInvNext == RefreshInv /\ [Next]_vars => RefreshInv'
<1> SUFFICES ASSUME RefreshInv, [Next]_vars PROVE RefreshInv'
  OBVIOUS
<1>1. ASSUME NEW s \in Subscriptions, Subscribe(s) PROVE RefreshInv'
  BY <1>1, AnnounceKeepsInv DEF Subscribe, Statuses
<1>2. ASSUME NEW s \in Subscriptions, NEW status \in Statuses, Change(s, status)
      PROVE  RefreshInv'
  BY <1>2, AnnounceKeepsInv DEF Change
<1>3. ASSUME NEW c \in Customers, SetStripeCustomer(c) PROVE RefreshInv'
  BY <1>3, SetStripeCustomerKeepsInv
<1>4. ASSUME NEW w \in Handlers, Handle(w) PROVE RefreshInv'
  BY <1>4, DeliverKeepsInv, ResolveStripeUserKeepsInv, ReserveGenerationKeepsInv,
     RetrieveSubscriptionKeepsInv, ApplyRefreshKeepsInv, FailKeepsInv DEF Handle
<1>5. CASE UNCHANGED vars
  <2>1. TypeOK' /\ FloorsFollowGenerations' /\ RowInv' /\ AnsweredInv'
    BY <1>5 DEF vars, RefreshInv, TypeOK, FloorsFollowGenerations, Reserved,
                Subscription, RowInv, AnsweredInv, Only, Exists
  <2>2. ASSUME NEW w \in Handlers PROVE RequestInv(w)'
    <3>1. RequestInv(w)
      BY DEF RefreshInv
    <3> QED
      BY <1>5, <3>1 DEF vars, RequestInv, HandlesAnEvent, KnowsItsEvent,
           LoadedAfterReserving, ComparesWithRow, Reserved, Subscription
  <2> QED
    BY <2>1, <2>2 DEF RefreshInv
<1> QED
  BY <1>1, <1>2, <1>3, <1>4, <1>5 DEF Next, StripeStep

\* The invariant holds in every reachable state.
THEOREM RefreshInvHolds == Spec => []RefreshInv
BY RefreshInvInit, RefreshInvNext, PTL DEF Spec

\* Types, and an applied generation that was reserved: the CHECK of the table
\* never fails a refresh.
THEOREM RefreshTypes == Spec => []TypeOK
<1>1. RefreshInv => TypeOK
  BY DEF RefreshInv
<1> QED
  BY <1>1, RefreshInvHolds, PTL

\* However deliveries cross, what Stripe was told is done is in the row, as
\* long as the customer has one subscription.
THEOREM AnsweredIsStored == Spec => []AnsweredMeansStored
<1>1. RefreshInv => AnsweredMeansStored
  <2> SUFFICES ASSUME RefreshInv, NEW s \in Subscriptions, Only(s),
                      NEW v \in 1..stripe[s].version, <<s, v>> \notin due
               PROVE  row.sub = s /\ row.snapshot.version >= v
    BY DEF AnsweredMeansStored, Only
  <2>1. row.sub = s /\ v <= row.floor
    BY DEF RefreshInv, AnsweredInv
  <2>2. row.floor <= row.snapshot.version
    BY DEF RefreshInv, RowInv
  <2>3. row.floor \in Nat /\ row.snapshot.version \in Nat /\ v \in Nat
    BY SnapshotsHaveVersions DEF RefreshInv, TypeOK
  <2> QED
    BY <2>1, <2>2, <2>3
<1> QED
  BY <1>1, RefreshInvHolds, PTL

\* A step that changes the row links the first customer or applies a refresh
\* the row accepts.
LEMMA RowSteps ==
  ASSUME RefreshInv, [Next]_vars, row' # row
  PROVE  \/ \E c \in Customers : SetStripeCustomer(c)
         \/ \E w \in Handlers : /\ request[w].at = "apply"
                                /\ Newest(w)
                                /\ Accepts(Subscription(w), request[w].snapshot)
                                /\ Replaces(w)
BY DEF Next, StripeStep, Subscribe, Change, Announce, Handle, Deliver,
       ResolveStripeUser, Continue, ReserveGeneration, RetrieveSubscription,
       ApplyRefresh, Replaces, Fail, vars

\* A late refresh brings nothing back, with any number of subscriptions.
THEOREM NothingStaleReturns == Spec => NoStaleSnapshot
<1>1. RefreshInv /\ [Next]_vars =>
        (row'.sub = row.sub => row'.snapshot.version >= row.floor)
  <2> SUFFICES ASSUME RefreshInv, [Next]_vars, row'.sub = row.sub
               PROVE  row'.snapshot.version >= row.floor
    OBVIOUS
  <2>1. /\ row.floor <= row.snapshot.version
        /\ row.floor \in Nat /\ row.snapshot.version \in Nat
        /\ row \in [customer: Customers \cup {None}, sub: Subscriptions \cup {None},
                    snapshot: SnapshotsOrNone, floor: Nat]
    BY SnapshotsHaveVersions DEF RefreshInv, TypeOK, RowInv
  <2>2. CASE row' = row
    BY <2>1, <2>2
  <2>3. ASSUME NEW c \in Customers, SetStripeCustomer(c)
        PROVE  row'.snapshot = row.snapshot
    BY <2>1, <2>3 DEF SetStripeCustomer
  <2>4. ASSUME NEW w \in Handlers, request[w].at = "apply", Newest(w), Replaces(w)
        PROVE  row'.snapshot.version >= row.floor
    <3>1. /\ row.sub = Subscription(w)
          /\ row'.snapshot = request[w].snapshot
      BY <2>4 DEF Replaces
    <3>2. row.floor <= request[w].floor
      BY <2>4, <3>1 DEF RefreshInv, RequestInv, ComparesWithRow, Reserved, Newest
    <3>3. /\ request[w].floor <= request[w].snapshot.version
          /\ request[w].floor \in Nat /\ request[w].snapshot.version \in Nat
      BY <2>4, SnapshotsHaveVersions DEF RefreshInv, RequestInv, LoadedAfterReserving, TypeOK
    <3> QED
      BY <2>1, <3>1, <3>2, <3>3
  <2> QED
    BY <2>1, <2>2, <2>3, <2>4, RowSteps
<1> QED
  BY <1>1, RefreshInvHolds, PTL DEF Spec, NoStaleSnapshot

\* Checkout and webhooks agree on one customer, and the row shows only its
\* subscriptions.
THEOREM AccountKeepsItsCustomer == Spec => OneCustomer
<1>1. RefreshInv /\ [Next]_vars =>
        /\ row.customer # None => row'.customer = row.customer
        /\ row'.sub # None => CustomerOf[row'.sub] = row'.customer
  <2> SUFFICES ASSUME RefreshInv, [Next]_vars
               PROVE  /\ row.customer # None => row'.customer = row.customer
                      /\ row'.sub # None => CustomerOf[row'.sub] = row'.customer
    OBVIOUS
  <2>1. row'.sub # None => CustomerOf[row'.sub] = row'.customer
    BY RefreshInvNext DEF RefreshInv, RowInv
  <2>2. ASSUME NEW c \in Customers, SetStripeCustomer(c) PROVE row.customer = None
    BY <2>2 DEF SetStripeCustomer
  <2>3. ASSUME NEW w \in Handlers, Accepts(Subscription(w), request[w].snapshot), Replaces(w)
        PROVE  row.customer \in {None, row'.customer}
    BY <2>3 DEF Accepts, Replaces
  <2> QED
    BY <2>1, <2>2, <2>3, RowSteps
<1> QED
  BY <1>1, RefreshInvHolds, PTL DEF Spec, OneCustomer

-----------------------------------------------------------------------------
(* What is written down is what Stripe said.                               *)

\* Stripe, where the subscription is now as it is, may have given out the
\* snapshot: it is older, or the same.
Genuine(snapshot, now) ==
  /\ snapshot.version <= now.version
  /\ snapshot.version = now.version => snapshot = now

GenuineInv ==
  /\ \A w \in Handlers :
       request[w].at = "apply" =>
         Genuine(request[w].snapshot, stripe[request[w].event[1]])
  /\ row.sub # None => Genuine(row.snapshot, stripe[row.sub])

\* A change at Stripe makes every snapshot older, and none false.
LEMMA GenuineStays ==
  ASSUME RefreshInv, StripeStep, NEW s \in Subscriptions,
         NEW snapshot \in SnapshotsOrNone, Genuine(snapshot, stripe[s])
  PROVE  Genuine(snapshot, stripe'[s])
<1>1. PICK t \in Subscriptions, status \in Statuses : Announce(t, status)
  BY DEF StripeStep, Subscribe, Change, Statuses
<1>2. /\ stripe[s].version \in Nat /\ snapshot.version \in Nat
      /\ stripe \in [Subscriptions -> SnapshotsOrNone]
  BY SnapshotsHaveVersions DEF RefreshInv, TypeOK
<1>3. CASE s = t
  <2>1. stripe'[s].version = stripe[s].version + 1
    BY <1>1, <1>2, <1>3 DEF Announce
  <2> QED
    BY <1>2, <2>1 DEF Genuine
<1>4. CASE s # t
  <2>1. stripe'[s] = stripe[s]
    BY <1>1, <1>2, <1>4 DEF Announce
  <2> QED
    BY <2>1
<1> QED
  BY <1>3, <1>4

\* Nobody but Stripe changes a subscription; a handler takes over a snapshot
\* by asking Stripe for it.
LEMMA HandlerSteps ==
  ASSUME RefreshInv, NEW w \in Handlers, Handle(w), NEW v \in Handlers,
         request'[v].at = "apply"
  PROVE  \/ request'[v] = request[v]
         \/ /\ request[v].at # "idle" /\ request'[v].event = request[v].event
            /\ request'[v].snapshot = stripe[request[v].event[1]]
<1>1. request \in [Handlers -> RequestRecords]
  BY DEF RefreshInv, TypeOK, RequestRecords
<1>2. ASSUME NEW e \in Events, Deliver(w, e) PROVE request'[v] = request[v]
  BY <1>1, <1>2 DEF Deliver
<1>3. CASE ResolveStripeUser(w)
  <2>1. CASE Continue(w, "reserve")
    BY <1>1, <2>1 DEF Continue, RequestRecords
  <2>2. CASE Answer(w)
    BY <1>1, <2>2 DEF Answer, Idle
  <2> QED
    BY <1>3, <2>1, <2>2 DEF ResolveStripeUser
<1>4. CASE ReserveGeneration(w)
  BY <1>1, <1>4 DEF ReserveGeneration
<1>5. CASE RetrieveSubscription(w)
  <2>1. request'[v].event = request[v].event
    BY <1>1, <1>5 DEF RetrieveSubscription, Answer, Idle, RequestRecords
  <2>2. /\ v # w => request'[v] = request[v]
        /\ request[w].at # "idle"
    BY <1>1, <1>5 DEF RetrieveSubscription, Answer
  <2>3. v = w => request'[v].snapshot = stripe[request[v].event[1]]
    BY <1>1, <1>5 DEF RetrieveSubscription, Answer, Idle, RequestRecords, Subscription
  <2> QED
    BY <2>1, <2>2, <2>3
<1>6. CASE ApplyRefresh(w)
  BY <1>1, <1>6 DEF ApplyRefresh, Answer, Idle
<1>7. CASE Fail(w)
  BY <1>1, <1>7 DEF Fail, Idle
<1> QED
  BY <1>2, <1>3, <1>4, <1>5, <1>6, <1>7 DEF Handle

LEMMA HandlersLeaveStripe ==
  ASSUME NEW w \in Handlers, Handle(w)
  PROVE  stripe' = stripe
BY DEF Handle, Deliver, ResolveStripeUser, Continue, ReserveGeneration,
       RetrieveSubscription, ApplyRefresh, Fail

LEMMA GenuineInvNext ==
  ASSUME RefreshInv, GenuineInv, [Next]_vars
  PROVE  GenuineInv'
<1>1. /\ row.sub \in Subscriptions \cup {None}
      /\ row.snapshot \in SnapshotsOrNone
      /\ \A w \in Handlers : request[w].snapshot \in SnapshotsOrNone
  BY DEF RefreshInv, TypeOK
<1>2. \A s \in Subscriptions : Genuine(stripe[s], stripe[s])
  BY SnapshotsHaveVersions DEF Genuine, RefreshInv, TypeOK
<1>3. CASE StripeStep
  <2>1. UNCHANGED <<row, request>>
    BY <1>3 DEF StripeStep, Subscribe, Change, Announce
  <2>2. ASSUME NEW w \in Handlers, request[w].at = "apply"
        PROVE  Genuine(request[w].snapshot, stripe'[request[w].event[1]])
    <3>1. request[w].event[1] \in Subscriptions
      BY <2>2, HandledSubscription DEF Subscription
    <3> QED
      BY <1>1, <1>3, <2>2, <3>1, GenuineStays DEF GenuineInv
  <2>3. row.sub # None => Genuine(row.snapshot, stripe'[row.sub])
    BY <1>1, <1>3, GenuineStays DEF GenuineInv
  <2> QED
    BY <2>1, <2>2, <2>3 DEF GenuineInv
<1>4. ASSUME NEW c \in Customers, SetStripeCustomer(c) PROVE GenuineInv'
  <2>1. /\ row'.sub = row.sub /\ row'.snapshot = row.snapshot
        /\ UNCHANGED <<stripe, request>>
    BY <1>4 DEF SetStripeCustomer, RefreshInv, TypeOK
  <2> QED
    BY <2>1 DEF GenuineInv
<1>5. ASSUME NEW w \in Handlers, Handle(w) PROVE GenuineInv'
  <2>1. stripe' = stripe
    BY <1>5, HandlersLeaveStripe
  <2>2. ASSUME NEW v \in Handlers, request'[v].at = "apply"
        PROVE  Genuine(request'[v].snapshot, stripe'[request'[v].event[1]])
    <3>1. CASE request'[v] = request[v]
      BY <2>1, <2>2, <3>1 DEF GenuineInv
    <3>2. CASE /\ request[v].at # "idle" /\ request'[v].event = request[v].event
               /\ request'[v].snapshot = stripe[request[v].event[1]]
      <4>1. request[v].event[1] \in Subscriptions
        BY <3>2, HandledSubscription DEF Subscription
      <4> QED
        BY <1>2, <2>1, <3>2, <4>1
    <3> QED
      BY <1>5, <2>2, <3>1, <3>2, HandlerSteps
  <2>3. row'.sub # None => Genuine(row'.snapshot, stripe'[row'.sub])
    <3>1. CASE row' = row
      BY <2>1, <3>1 DEF GenuineInv
    <3>2. CASE row' # row
      <4>1. PICK v \in Handlers : request[v].at = "apply" /\ Replaces(v)
        BY <1>5, <3>2 DEF Handle, Deliver, ResolveStripeUser, Continue, ReserveGeneration,
             RetrieveSubscription, ApplyRefresh, Replaces, Fail
      <4> QED
        BY <2>1, <4>1 DEF GenuineInv, Replaces, Subscription
    <3> QED
      BY <3>1, <3>2
  <2> QED
    BY <2>2, <2>3 DEF GenuineInv
<1>6. CASE UNCHANGED vars
  BY <1>6 DEF vars, GenuineInv
<1> QED
  BY <1>3, <1>4, <1>5, <1>6 DEF Next

\* The newest change that was answered is the row, and stays it until the next.
THEOREM AnsweredIsCurrent == Spec => []RowIsCurrent
<1>1. Init => GenuineInv
  BY DEF Init, GenuineInv, Idle
<1>2. RefreshInv /\ GenuineInv /\ [Next]_vars => GenuineInv'
  BY GenuineInvNext
<1>3. RefreshInv /\ GenuineInv => RowIsCurrent
  <2> SUFFICES ASSUME RefreshInv, GenuineInv, NEW s \in Subscriptions, Exists(s),
                      Only(s), <<s, stripe[s].version>> \notin due
               PROVE  row.sub = s /\ row.snapshot = stripe[s]
    BY DEF RowIsCurrent, Only
  <2>1. /\ stripe[s].version \in Nat /\ row.snapshot.version \in Nat
        /\ row.floor \in Nat
    BY SnapshotsHaveVersions DEF RefreshInv, TypeOK
  <2>2. stripe[s].version \in 1..stripe[s].version
    BY <2>1 DEF Exists
  <2>3. row.sub = s /\ stripe[s].version <= row.floor
    BY <2>2 DEF RefreshInv, AnsweredInv
  <2>4. Genuine(row.snapshot, stripe[s]) /\ row.floor <= row.snapshot.version
    BY <2>3, NoneAssumption DEF RefreshInv, RowInv, GenuineInv
  <2> QED
    BY <2>1, <2>3, <2>4 DEF Genuine
<1> QED
  BY <1>1, <1>2, <1>3, RefreshInvHolds, PTL DEF Spec

\* What TestStripeWebhookOrderGrantsPro is named for does hold of customers with
\* one subscription each: the finding of billing_order takes a second one.
THEOREM OnePaidSubscriptionIsPro == Spec => [](OneSubscriptionEach => PaidMeansPro)
<1>1. RefreshInv /\ RowIsCurrent => (OneSubscriptionEach => PaidMeansPro)
  <2> SUFFICES ASSUME RefreshInv, RowIsCurrent, OneSubscriptionEach, Settled,
                      NEW s \in Subscriptions, Exists(s), Paid(stripe[s]),
                      Names[s] = "account", row.customer = CustomerOf[s]
               PROVE  Paid(row.snapshot)
    BY DEF PaidMeansPro
  <2>1. \A t \in Subscriptions \ {s} : Exists(t) => CustomerOf[t] # CustomerOf[s]
    BY DEF OneSubscriptionEach
  <2>2. row.snapshot = stripe[s]
    BY <2>1 DEF RowIsCurrent, Settled
  <2> QED
    BY <2>2
<1> QED
  BY <1>1, RefreshInvHolds, AnsweredIsCurrent, PTL

=============================================================================
