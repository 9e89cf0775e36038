--------------------------- MODULE StripeRefresh ---------------------------
(***************************************************************************)
(* How the row of one account in billing_accounts follows Stripe.          *)
(*                                                                         *)
(* Stripe announces every change of a subscription to the webhook, at      *)
(* least once and in any order, until a delivery is answered with 200.  A  *)
(* delivery says only which subscription to look at: its handler reserves  *)
(* a generation, asks Stripe for the subscription without holding a        *)
(* connection, and then applies what it heard in one transaction.  Several *)
(* handlers, in several processes, work at once; a step of a handler is    *)
(* one SQL statement, one Stripe call or one transaction on the row.       *)
(*                                                                         *)
(* Other accounts have other rows and, stripe_customer_id being unique,    *)
(* other customers: they appear here only as the ones that metadata names. *)
(*                                                                         *)
(* A definition named Mutant... is no part of the model: it is the one     *)
(* after it with a slip of the kind a change to the code could make.       *)
(***************************************************************************)
EXTENDS Naturals

CONSTANTS
  Subscriptions,  \* subscriptions at Stripe
  Customers,      \* customers at Stripe
  CustomerOf,     \* the customer of each subscription, fixed at Stripe
  Names,          \* whom passage_user_id in its metadata names
  Created,        \* its creation time at Stripe, in seconds
  Handlers,       \* webhook requests being handled at once
  MaxVersion,     \* bound: changes of one subscription
  MaxGeneration,  \* bound: refreshes reserved
  None            \* no customer, no subscription

Statuses == {"active", "past_due", "canceled"}
Steps == {"idle", "resolve", "reserve", "load", "apply"}

ASSUME SubscriptionsAssumption ==
  /\ CustomerOf \in [Subscriptions -> Customers]
  /\ Names \in [Subscriptions -> {"account", "other", "nobody"}]
  /\ Created \in [Subscriptions -> Nat]
ASSUME NoneAssumption == None \notin Subscriptions \cup Customers
ASSUME BoundsAssumption == MaxVersion \in Nat /\ MaxGeneration \in Nat

VARIABLES
  stripe,      \* each subscription at Stripe; its version counts its changes
  due,         \* the events Stripe has had no 200 for: one per change
  row,         \* the Stripe columns of the account
  generation,  \* stripe_refresh_generation
  applied,     \* stripe_refresh_applied_generation
  request      \* what each handler is doing

vars == <<stripe, due, row, generation, applied, request>>

\* A subscription that has not been created is at version 0.
Exists(s) == stripe[s].version > 0
Events == Subscriptions \X (1..MaxVersion)

Snapshots == [status: Statuses, version: 1..MaxVersion]

NoSnapshot == [status |-> "canceled", version |-> 0]

\* floor is no column and no local variable: it remembers which version
\* Stripe was at when the generation was reserved.
Idle == [at |-> "idle", event |-> <<None, 0>>, generation |-> 0,
         snapshot |-> NoSnapshot, floor |-> 0]

Subscription(w) == request[w].event[1]

Init ==
  /\ stripe = [s \in Subscriptions |-> NoSnapshot]
  /\ due = {}
  /\ row = [customer |-> None, sub |-> None, snapshot |-> NoSnapshot, floor |-> 0]
  /\ generation = 0
  /\ applied = 0
  /\ request = [w \in Handlers |-> Idle]

(***************************************************************************)
(* Stripe, and the checkout that names the customer.                       *)
(***************************************************************************)

Announce(s, status) ==
  LET version == stripe[s].version + 1 IN
  /\ version <= MaxVersion
  /\ stripe' = [stripe EXCEPT ![s] = [status |-> status, version |-> version]]
  /\ due' = due \cup {<<s, version>>}
  /\ UNCHANGED <<row, generation, applied, request>>

\* A Checkout session is paid.  Nothing keeps a customer from a second one.
Subscribe(s) ==
  /\ ~Exists(s)
  /\ \A t \in Subscriptions : Exists(t) => Created[t] <= Created[s]
  /\ Announce(s, "active")

\* A payment fails or succeeds, or the subscription ends, which is final.
Change(s, status) ==
  /\ Exists(s)
  /\ stripe[s].status \notin {"canceled", status}
  /\ Announce(s, status)

\* createCheckoutSession stores the customer it made, unless one is stored.
SetStripeCustomer(c) ==
  /\ row.customer = None
  /\ row' = [row EXCEPT !.customer = c]
  /\ UNCHANGED <<stripe, due, generation, applied, request>>

(***************************************************************************)
(* The webhook.                                                            *)
(***************************************************************************)

Continue(w, step) ==
  /\ request' = [request EXCEPT ![w].at = step]
  /\ UNCHANGED <<stripe, due, row, generation, applied>>

\* 200: Stripe stops delivering the event.
Answer(w) ==
  /\ due' = due \ {request[w].event}
  /\ request' = [request EXCEPT ![w] = Idle]

\* Stripe delivers an event, again perhaps: that it has had its answer, or
\* that another handler has the event in hand, does not prevent it.  The
\* handler begins by looking for the account of the customer.
Deliver(w, e) ==
  LET s == e[1] IN
  /\ request[w].at = "idle"
  /\ e[2] \in 1..stripe[s].version
  /\ request' = [request EXCEPT
       ![w].at = IF row.customer = CustomerOf[s] THEN "reserve" ELSE "resolve",
       ![w].event = e]
  /\ UNCHANGED <<stripe, due, row, generation, applied>>

\* No account had the customer: look once more, then trust the metadata.  An
\* event of nobody, or of another account, ends here for this one.
ResolveStripeUser(w) ==
  LET s == Subscription(w)
      mine == IF row.customer = CustomerOf[s] THEN Names[s] # "other"
                                              ELSE Names[s] = "account" IN
  /\ request[w].at = "resolve"
  /\ \/ mine /\ Continue(w, "reserve")
     \/ ~mine /\ Answer(w) /\ UNCHANGED <<stripe, row, generation, applied>>

MutantReserveGeneration(w) ==
  /\ request[w].at = "reserve"
  /\ generation < MaxGeneration
  /\ request' = [request EXCEPT ![w].at = "load",
                                ![w].generation = generation + 1,
                                ![w].floor = stripe[Subscription(w)].version]
  /\ UNCHANGED <<stripe, due, row, generation, applied>>

ReserveGeneration(w) ==
  /\ request[w].at = "reserve"
  /\ generation < MaxGeneration
  /\ generation' = generation + 1
  /\ request' = [request EXCEPT ![w].at = "load",
                                ![w].generation = generation + 1,
                                ![w].floor = stripe[Subscription(w)].version]
  /\ UNCHANGED <<stripe, due, row, applied>>

\* The answer of Stripe; metadata that names another account ends the refresh.
RetrieveSubscription(w) ==
  LET s == Subscription(w) IN
  /\ request[w].at = "load"
  /\ \/ /\ Names[s] = "other"
        /\ Answer(w)
     \/ /\ Names[s] # "other"
        /\ request' = [request EXCEPT ![w].at = "apply", ![w].snapshot = stripe[s]]
        /\ UNCHANGED due
  /\ UNCHANGED <<stripe, row, generation, applied>>

\* "active" stands for the two statuses that count as paid.
Paid(snapshot) == snapshot.status = "active"

MutantAccepts(s, snapshot) ==
  \/ row.sub \in {None, s}
  \/ Paid(snapshot) /\ ~Paid(row.snapshot)
  \/ Paid(snapshot) = Paid(row.snapshot) /\ Created[s] > Created[row.sub]

\* The WHERE of the upsert.  Its first condition, on stripe_event_created,
\* compares readings of the database clock taken under the row lock, and holds
\* as long as that clock does not go back.  Stripe always sends a creation time.
Accepts(s, snapshot) ==
  /\ row.customer \in {None, CustomerOf[s]}
  /\ \/ row.sub \in {None, s}
     \/ Paid(snapshot) /\ ~Paid(row.snapshot)
     \/ Paid(snapshot) = Paid(row.snapshot) /\ Created[s] > Created[row.sub]

MutantNewest(w) == TRUE

Newest(w) == request[w].generation > applied

MutantApplyRefresh(w) ==
  LET s == Subscription(w)
      r == request[w] IN
  /\ r.at = "apply"
  /\ IF Newest(w) /\ Accepts(s, r.snapshot)
     THEN row' = [customer |-> CustomerOf[s], sub |-> s,
                  snapshot |-> r.snapshot, floor |-> r.floor]
     ELSE UNCHANGED row
  /\ Answer(w)
  /\ UNCHANGED <<stripe, generation, applied>>

\* The transaction of RefreshSubscription: it holds the row from its first
\* statement to its commit.  A refresh that comes too late, or that the row
\* does not accept, changes nothing and is answered all the same.
ApplyRefresh(w) ==
  LET s == Subscription(w)
      r == request[w] IN
  /\ r.at = "apply"
  /\ IF Newest(w) /\ Accepts(s, r.snapshot)
     THEN /\ row' = [customer |-> CustomerOf[s], sub |-> s,
                     snapshot |-> r.snapshot, floor |-> r.floor]
          /\ applied' = r.generation
     ELSE UNCHANGED <<row, applied>>
  /\ Answer(w)
  /\ UNCHANGED <<stripe, generation>>

\* A statement, the call to Stripe or the process fails: 500 or no answer.
\* Stripe keeps the event.
Fail(w) ==
  /\ request[w].at # "idle"
  /\ request' = [request EXCEPT ![w] = Idle]
  /\ UNCHANGED <<stripe, due, row, generation, applied>>

StripeStep == \/ \E s \in Subscriptions : Subscribe(s)
              \/ \E s \in Subscriptions, status \in Statuses : Change(s, status)

Handle(w) == \/ \E e \in Events : Deliver(w, e)
             \/ ResolveStripeUser(w)
             \/ ReserveGeneration(w)
             \/ RetrieveSubscription(w)
             \/ ApplyRefresh(w)
             \/ Fail(w)

Next == \/ StripeStep
        \/ \E c \in Customers : SetStripeCustomer(c)
        \/ \E w \in Handlers : Handle(w)

Spec == Init /\ [][Next]_vars

(***************************************************************************)
(* Correctness.                                                            *)
(***************************************************************************)

SnapshotsOrNone == Snapshots \cup {NoSnapshot}

\* Types; the CHECK of migration 015 is the last conjunct.
TypeOK ==
  /\ stripe \in [Subscriptions -> SnapshotsOrNone]
  /\ due \subseteq Events
  /\ row \in [customer: Customers \cup {None}, sub: Subscriptions \cup {None},
              snapshot: SnapshotsOrNone, floor: Nat]
  /\ generation \in Nat
  /\ applied \in Nat
  /\ request \in [Handlers ->
       [at: Steps, event: Events \cup {<<None, 0>>}, generation: Nat,
        snapshot: SnapshotsOrNone, floor: Nat]]
  /\ applied <= generation

\* The account keeps its first customer, whoever learns of it first, checkout
\* or a webhook, and only shows subscriptions of that customer.
OneCustomer ==
  [][/\ row.customer # None => row'.customer = row.customer
     /\ row'.sub # None => CustomerOf[row'.sub] = row'.customer]_vars

\* A refresh never brings back what Stripe had already left behind when the
\* refresh on record was reserved, however late it is applied.
NoStaleSnapshot ==
  [][row'.sub = row.sub => row'.snapshot.version >= row.floor]_vars

\* An event that Stripe has its 200 for is in the row, if the customer has
\* this one subscription: in whatever order deliveries, retries and answers
\* of Stripe cross, no change is acknowledged and forgotten.
AnsweredMeansStored ==
  \A s \in Subscriptions :
    /\ Names[s] = "account"
    /\ row.customer \in {None, CustomerOf[s]}
    /\ \A t \in Subscriptions \ {s} : Exists(t) => CustomerOf[t] # CustomerOf[s]
    => \A v \in 1..stripe[s].version :
         <<s, v>> \notin due => row.sub = s /\ row.snapshot.version >= v

\* And it stays in the row, if it is the newest change: with the event answered,
\* the row shows the subscription as Stripe has it, whatever is still on its way
\* from handlers, retries and repeated deliveries.
RowIsCurrent ==
  \A s \in Subscriptions :
    /\ Exists(s)
    /\ Names[s] = "account"
    /\ row.customer \in {None, CustomerOf[s]}
    /\ \A t \in Subscriptions \ {s} : Exists(t) => CustomerOf[t] # CustomerOf[s]
    /\ <<s, stripe[s].version>> \notin due
    => row.sub = s /\ row.snapshot = stripe[s]

\* No customer of Stripe has two subscriptions, ended ones included.
OneSubscriptionEach ==
  \A s, t \in Subscriptions :
    Exists(s) /\ Exists(t) /\ CustomerOf[s] = CustomerOf[t] => s = t

Settled == due = {} /\ \A w \in Handlers : request[w].at = "idle"

\* What TestStripeWebhookOrderGrantsPro is named for: with every event handled,
\* in whatever order, who pays is Pro.  Two subscriptions of one customer can
\* break it, because one sequence of generations orders both: a late refresh of
\* the old one turns away what was heard of the new one.
PaidMeansPro ==
  Settled => \A s \in Subscriptions :
    Exists(s) /\ Paid(stripe[s]) /\ Names[s] = "account" /\ row.customer = CustomerOf[s]
      => Paid(row.snapshot)

=============================================================================
