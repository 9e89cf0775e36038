-------------------------- MODULE AccountDeletion --------------------------
(***************************************************************************)
(* Opening Stripe Checkout, and deleting an account with its Stripe        *)
(* customer, for the accounts that one email address has one after the     *)
(* other.                                                                  *)
(*                                                                         *)
(* Nothing is atomic across Stripe and the database.  A checkout creates a *)
(* customer at Stripe, then stores its id, then opens a session; a         *)
(* deletion commits locally, leaves a cleanup job in the same transaction, *)
(* and then neutralizes the customer: it expires the open sessions until   *)
(* a listing shows none and deletes the customer.  A checkout whose        *)
(* candidate was not stored neutralizes it the same way.  Every request    *)
(* can fail, with its effect or without, and a process can stop anywhere.  *)
(*                                                                         *)
(* Stripe is modelled from how stripe.go uses it: the idempotency key of a *)
(* user repeats the customer it made, even a deleted one, until the key    *)
(* expires; only an open session can be expired; deleting a customer ends  *)
(* its sessions and subscriptions.                                         *)
(*                                                                         *)
(* A definition named Mutant... is no part of the model: it is the one     *)
(* after it with a slip of the kind a change to the code could make.       *)
(***************************************************************************)
EXTENDS Naturals, FiniteSets

CONSTANTS
  Tabs,          \* requests to POST /api/billing/checkout in flight
  Operators,     \* people at the command line
  Deleters,      \* those of them who run "account delete"
  MaxUsers,      \* bound: accounts of the address
  MaxCustomers,  \* bound: customers created at Stripe
  MaxSessions,   \* bound: Checkout sessions created
  MaxRounds,     \* listings before neutralizing is given up: 10
  MaxSlips       \* bound: requests and statements that fail

ASSUME ActorsAssumption == Tabs \cap Operators = {} /\ Deleters \subseteq Operators
ASSUME BoundsAssumption ==
  {MaxUsers, MaxCustomers, MaxSessions, MaxRounds, MaxSlips} \subseteq Nat

Users == 1..MaxUsers
Customers == 1..MaxCustomers
Sessions == 1..MaxSessions
Nobody == 0
NoCustomer == 0

VARIABLES
  user,      \* the users row of the address
  born,      \* how many accounts the address has had
  stored,    \* billing_accounts.stripe_customer_id of that user
  status,    \* billing_accounts.stripe_subscription_status of that user
  job,       \* the customer of the cleanup job of the address
  customer,  \* the customers at Stripe
  session,   \* the Checkout sessions at Stripe
  key,       \* the customer the idempotency key of a user repeats
  proc,      \* what each request and each command is doing
  slips

stripeVars == <<customer, session, key>>
rowVars == <<user, born, stored, status, job>>
vars == <<rowVars, stripeVars, proc, slips>>

Actors == Tabs \cup Operators

\* target: the customer being neutralized; next: the customer that checkout
\* goes on with; seen: the listed sessions still to be expired.
Idle == [at |-> "idle", user |-> Nobody, target |-> NoCustomer, next |-> NoCustomer,
         seen |-> {}, rounds |-> 0]

\* A command that has reported success.
Done == [Idle EXCEPT !.at = "done"]

Init ==
  /\ user = Nobody
  /\ born = 0
  /\ stored = NoCustomer
  /\ status = "none"
  /\ job = NoCustomer
  /\ customer = [c \in Customers |-> [of |-> Nobody, state |-> "absent", plan |-> "none"]]
  /\ session = [s \in Sessions |-> [of |-> NoCustomer, state |-> "absent"]]
  /\ key = [u \in Users |-> NoCustomer]
  /\ proc = [a \in Actors |-> Idle]
  /\ slips = 0

At(a, step) == proc[a].at = step
Goto(a, step) == proc' = [proc EXCEPT ![a].at = step]
End(a) == proc' = [proc EXCEPT ![a] = Idle]
Slip == slips < MaxSlips /\ slips' = slips + 1

MutantLocked == FALSE

\* A deletion holds the users row and the billing row, for every write to them.
Locked == \E o \in Operators : At(o, "delete")

OpenSessions(c) == {s \in Sessions : session[s] = [of |-> c, state |-> "open"]}

\* Whom Stripe could charge, now or when an open session is paid.
Chargeable(c) == customer[c].plan = "live" \/ OpenSessions(c) # {}

(***************************************************************************)
(* Neutralizing a customer, by a request or a command.                     *)
(***************************************************************************)

Neutralizing == {"list", "expire", "drop"}

Neutralize(a, c, next) ==
  proc' = [proc EXCEPT ![a] = [@ EXCEPT !.at = "list", !.target = c, !.next = next,
                                        !.rounds = MaxRounds]]

\* Neutralizing has failed: the command records it, the request answers 500.
NeutralizeFailed(a) ==
  IF a \in Operators THEN Goto(a, "record") ELSE End(a)

\* Neutralizing has succeeded: the command removes the job, the request goes
\* on with the stored customer if it has one.
Neutralized(a) ==
  IF a \in Operators THEN Goto(a, "finish")
  ELSE IF proc[a].next # NoCustomer THEN Goto(a, "configure") ELSE End(a)

\* listOpenCheckoutSessions: a missing customer has none.
ListOpenCheckoutSessions(a) ==
  LET open == OpenSessions(proc[a].target) IN
  /\ At(a, "list")
  /\ IF proc[a].rounds = 0 THEN NeutralizeFailed(a)
     ELSE IF open = {} THEN Goto(a, "drop")
     ELSE proc' = [proc EXCEPT ![a].at = "expire", ![a].seen = open,
                               ![a].rounds = @ - 1]
  /\ UNCHANGED <<rowVars, stripeVars, slips>>

\* POST /v1/checkout/sessions/{id}/expire: refused once it is paid or expired.
ExpireSession(a, s) ==
  LET rest == proc[a].seen \ {s} IN
  /\ At(a, "expire")
  /\ s \in proc[a].seen
  /\ IF session[s].state = "open"
     THEN /\ session' = [session EXCEPT ![s].state = "expired"]
          /\ proc' = [proc EXCEPT ![a].seen = rest,
                                  ![a].at = IF rest = {} THEN "list" ELSE @]
     ELSE NeutralizeFailed(a) /\ UNCHANGED session
  /\ UNCHANGED <<rowVars, customer, key, slips>>

\* What deleting customer c does at Stripe.
DeletedAtStripe(c) ==
  /\ customer' = [customer EXCEPT ![c].state = "deleted",
                                  ![c].plan = IF @ = "live" THEN "ended" ELSE @]
  /\ session' = [s \in Sessions |-> IF s \in OpenSessions(c)
                   THEN [session[s] EXCEPT !.state = "expired"] ELSE session[s]]
  /\ UNCHANGED key

\* DELETE /v1/customers/{id}, whether or not it is still there; the answer may
\* be lost.
DropCustomer(a) ==
  /\ At(a, "drop")
  /\ DeletedAtStripe(proc[a].target)
  /\ \/ Neutralized(a) /\ UNCHANGED slips
     \/ NeutralizeFailed(a) /\ Slip
  /\ UNCHANGED rowVars

NeutralizeFails(a) ==
  /\ proc[a].at \in Neutralizing
  /\ Slip
  /\ NeutralizeFailed(a)
  /\ UNCHANGED <<rowVars, stripeVars>>

(***************************************************************************)
(* POST /api/billing/checkout                                              *)
(***************************************************************************)

\* The session's user, and the customer of its account.
CreateCheckoutSession(t) ==
  /\ At(t, "idle")
  /\ user # Nobody
  /\ proc' = [proc EXCEPT ![t].user = user, ![t].next = stored,
                          ![t].at = IF stored = NoCustomer THEN "create" ELSE "configure"]
  /\ UNCHANGED <<rowVars, stripeVars, slips>>

NewCustomer(u, c) ==
  /\ customer[c].state = "absent"
  /\ \A d \in 1..(c - 1) : customer[d].state # "absent"
  /\ customer' = [customer EXCEPT ![c] = [of |-> u, state |-> "live", plan |-> "none"]]
  /\ key' = [key EXCEPT ![u] = c]

\* POST /v1/customers under the key of the user, which may have expired.
CreateCustomer(t, c) ==
  LET u == proc[t].user IN
  /\ At(t, "create")
  /\ \/ c = key[u] /\ UNCHANGED <<customer, key>>
     \/ NewCustomer(u, c)
  /\ \/ /\ proc' = [proc EXCEPT ![t].at = "store", ![t].target = c]
        /\ UNCHANGED slips
     \/ End(t) /\ Slip
  /\ UNCHANGED <<rowVars, session>>

\* The candidate is compared with what the row now holds.
Linked(t, c) ==
  IF c = proc[t].target
  THEN proc' = [proc EXCEPT ![t].at = "configure", ![t].next = c,
                            ![t].target = NoCustomer]
  ELSE Neutralize(t, proc[t].target, c)

\* The foreign key: the account of the request is still there.
MutantHasAccount(t) == TRUE
HasAccount(t) == proc[t].user = user

\* INSERT INTO billing_accounts ... COALESCE(stored, candidate): the first
\* customer of an account stays.  The foreign key refuses an account that is
\* gone; on an error the write may have happened or not.
SetStripeCustomer(t) ==
  LET kept == IF stored = NoCustomer THEN proc[t].target ELSE stored IN
  /\ At(t, "store")
  /\ ~Locked
  /\ \/ HasAccount(t) /\ stored' = kept /\ Linked(t, kept) /\ UNCHANGED slips
     \/ HasAccount(t) /\ stored' \in {stored, kept} /\ Goto(t, "owner") /\ Slip
     \/ ~HasAccount(t) /\ Goto(t, "owner") /\ UNCHANGED <<stored, slips>>
  /\ UNCHANGED <<user, born, status, job, stripeVars>>

\* reconcileStripeCustomerWrite: does the user still exist?
UserByID(t) ==
  /\ At(t, "owner")
  /\ IF proc[t].user = user THEN Goto(t, "compare")
                            ELSE Neutralize(t, proc[t].target, NoCustomer)
  /\ UNCHANGED <<rowVars, stripeVars, slips>>

\* Any candidate that is not the stored one is dropped.
MutantCompareStored(t) ==
  /\ At(t, "compare")
  /\ IF proc[t].user = user /\ stored = proc[t].target
     THEN End(t)
     ELSE Neutralize(t, proc[t].target, NoCustomer)
  /\ UNCHANGED <<rowVars, stripeVars, slips>>

\* reconcileStripeCustomerWrite: the candidate is kept where it is stored, and
\* where nothing is, for the retry that the key will give it to.
CompareStored(t) ==
  /\ At(t, "compare")
  /\ IF proc[t].user # user \/ stored \in {NoCustomer, proc[t].target}
     THEN End(t)
     ELSE Neutralize(t, proc[t].target, NoCustomer)
  /\ UNCHANGED <<rowVars, stripeVars, slips>>

\* ConfigureCustomer
ConfigureCustomer(t) ==
  /\ At(t, "configure")
  /\ IF customer[proc[t].next].state = "live" THEN Goto(t, "session") ELSE End(t)
  /\ UNCHANGED <<rowVars, stripeVars, slips>>

\* POST /v1/checkout/sessions; whether the answer arrives makes no difference.
OpenCheckoutSession(t, s) ==
  LET c == proc[t].next IN
  /\ At(t, "session")
  /\ session[s].state = "absent"
  /\ \A r \in 1..(s - 1) : session[r].state # "absent"
  /\ session' = IF customer[c].state = "live"
                THEN [session EXCEPT ![s] = [of |-> c, state |-> "open"]]
                ELSE session
  /\ End(t)
  /\ UNCHANGED <<rowVars, customer, key, slips>>

\* A request fails without effect, or the instance stops.
CheckoutStops(t) ==
  /\ ~At(t, "idle")
  /\ Slip
  /\ End(t)
  /\ UNCHANGED <<rowVars, stripeVars>>

(***************************************************************************)
(* passage account delete                                                  *)
(***************************************************************************)

MutantBeginDelete(o) ==
  /\ proc[o].at \in {"idle", "done"}
  /\ o \in Deleters
  /\ user # Nobody
  /\ proc' = [proc EXCEPT ![o] = [Idle EXCEPT !.at = "begin"]]
  /\ UNCHANGED <<rowVars, stripeVars, slips>>

\* The check for a pending cleanup is a statement of its own.
BeginDelete(o) ==
  /\ proc[o].at \in {"idle", "done"}
  /\ o \in Deleters
  /\ user # Nobody
  /\ job = NoCustomer
  /\ proc' = [proc EXCEPT ![o] = [Idle EXCEPT !.at = "begin"]]
  /\ UNCHANGED <<rowVars, stripeVars, slips>>

\* Deletable: no customer and no status, a terminal status, or the operator
\* has verified that a customer without a subscription has no live one.
Deletable(verified) ==
  \/ stored = NoCustomer /\ status = "none"
  \/ status = "ended"
  \/ verified /\ stored # NoCustomer /\ status = "none"

\* loadAccount and lockBillingState, both FOR UPDATE, and the checks.
LockAccount(o, verified) ==
  /\ At(o, "begin")
  /\ ~Locked
  /\ IF user # Nobody /\ Deletable(verified)
     THEN proc' = [proc EXCEPT ![o].at = "delete", ![o].target = stored]
     ELSE End(o)
  /\ UNCHANGED <<rowVars, stripeVars, slips>>

\* The job, the deletes, the commit: one transaction.
DeleteAccount(o) ==
  LET c == proc[o].target IN
  /\ At(o, "delete")
  /\ user' = Nobody
  /\ stored' = NoCustomer
  /\ status' = "none"
  /\ job' = IF c = NoCustomer THEN job ELSE c
  /\ IF c = NoCustomer THEN proc' = [proc EXCEPT ![o] = Done]
                       ELSE Goto(o, "exists")
  /\ UNCHANGED <<born, stripeVars, slips>>

(***************************************************************************)
(* passage account cleanup-stripe, which a deletion runs as well           *)
(***************************************************************************)

\* With any id of a customer; the command line asks for the exact one.
BeginCleanup(o, c) ==
  /\ proc[o].at \in {"idle", "done"}
  /\ customer[c].state # "absent"
  /\ proc' = [proc EXCEPT ![o] = [Idle EXCEPT !.at = "exists", !.target = c]]
  /\ UNCHANGED <<rowVars, stripeVars, slips>>

\* No job for this customer: ErrStripeCleanupNotPending.
JobExists(o) ==
  /\ At(o, "exists")
  /\ IF job = proc[o].target THEN Neutralize(o, job, NoCustomer) ELSE End(o)
  /\ UNCHANGED <<rowVars, stripeVars, slips>>

\* UPDATE ... attempts + 1: no row means that another command has finished.
RecordFailure(o) ==
  /\ At(o, "record")
  /\ IF job = proc[o].target THEN End(o) ELSE Goto(o, "recheck")
  /\ UNCHANGED <<rowVars, stripeVars, slips>>

MutantRecheck(o) ==
  /\ At(o, "recheck")
  /\ proc' = [proc EXCEPT ![o] = Done]
  /\ UNCHANGED <<rowVars, stripeVars, slips>>

\* The job is looked up again: gone, and the command reports success.
Recheck(o) ==
  /\ At(o, "recheck")
  /\ proc' = [proc EXCEPT ![o] = IF job = proc[o].target THEN Idle
                                 ELSE Done]
  /\ UNCHANGED <<rowVars, stripeVars, slips>>

\* The job goes when the customer has; the answer may be lost.
DeleteJob(o) ==
  LET c == proc[o].target IN
  /\ At(o, "finish")
  /\ job' = IF job = c THEN NoCustomer ELSE job
  /\ \/ /\ proc' = [proc EXCEPT ![o] = Done]
        /\ UNCHANGED slips
     \/ Goto(o, "recheck") /\ Slip
  /\ UNCHANGED <<user, born, stored, status, stripeVars>>

\* A statement fails or the process stops: what was not committed is undone.
CommandStops(o) ==
  /\ proc[o].at \notin {"idle", "done"}
  /\ Slip
  /\ \/ End(o)
     \/ At(o, "finish") /\ Goto(o, "recheck")
  /\ UNCHANGED <<rowVars, stripeVars>>

(***************************************************************************)
(* The owner of the account, and Stripe.                                   *)
(***************************************************************************)

SignUp ==
  /\ user = Nobody
  /\ born < MaxUsers
  /\ born' = born + 1
  /\ user' = born + 1
  /\ UNCHANGED <<stored, status, job, stripeVars, proc, slips>>

PaySession(s) ==
  /\ session[s].state = "open"
  /\ session' = [session EXCEPT ![s].state = "paid"]
  /\ customer' = [customer EXCEPT ![session[s].of].plan = "live"]
  /\ UNCHANGED <<rowVars, key, proc, slips>>

SubscriptionEnds(c) ==
  /\ customer[c].plan = "live"
  /\ customer' = [customer EXCEPT ![c].plan = "ended"]
  /\ UNCHANGED <<rowVars, session, key, proc, slips>>

\* A webhook brings the row up to date.
RefreshSubscription ==
  /\ stored # NoCustomer
  /\ ~Locked
  /\ status' = customer[stored].plan
  /\ UNCHANGED <<user, born, stored, job, stripeVars, proc, slips>>

-----------------------------------------------------------------------------

NeutralizeStep(a) == \/ ListOpenCheckoutSessions(a)
                     \/ \E s \in Sessions : ExpireSession(a, s)
                     \/ DropCustomer(a)

Checkout(t) == \/ CreateCheckoutSession(t)
               \/ \E c \in Customers : CreateCustomer(t, c)
               \/ SetStripeCustomer(t)
               \/ UserByID(t)
               \/ CompareStored(t)
               \/ ConfigureCustomer(t)
               \/ \E s \in Sessions : OpenCheckoutSession(t, s)
               \/ NeutralizeStep(t)
               \/ NeutralizeFails(t)
               \/ CheckoutStops(t)

CleanupStep(o) == \/ JobExists(o)
                  \/ NeutralizeStep(o)
                  \/ RecordFailure(o)
                  \/ Recheck(o)
                  \/ DeleteJob(o)

DeletionStep(o) == \/ \E verified \in BOOLEAN : LockAccount(o, verified)
                   \/ DeleteAccount(o)

Command(o) == \/ BeginDelete(o)
              \/ DeletionStep(o)
              \/ \E c \in Customers : BeginCleanup(o, c)
              \/ CleanupStep(o)
              \/ NeutralizeFails(o)
              \/ CommandStops(o)

World == \/ SignUp
         \/ \E s \in Sessions : PaySession(s)
         \/ \E c \in Customers : SubscriptionEnds(c)
         \/ RefreshSubscription

Next == \/ \E t \in Tabs : Checkout(t)
        \/ \E o \in Operators : Command(o)
        \/ World

Spec == Init /\ [][Next]_vars

(***************************************************************************)
(* Correctness.                                                            *)
(***************************************************************************)

TypeOK ==
  /\ user \in Users \cup {Nobody} /\ born \in 0..MaxUsers
  /\ {stored, job} \subseteq Customers \cup {NoCustomer}
  /\ status \in {"none", "live", "ended"}
  /\ customer \in [Customers -> [of: Users \cup {Nobody},
                                 state: {"absent", "live", "deleted"},
                                 plan: {"none", "live", "ended"}]]
  /\ session \in [Sessions -> [of: Customers \cup {NoCustomer},
                               state: {"absent", "open", "paid", "expired"}]]
  /\ key \in [Users -> Customers \cup {NoCustomer}]
  /\ proc \in [Actors ->
       [at: {"idle", "create", "store", "owner", "compare", "configure", "session",
             "begin", "delete", "exists", "record", "recheck", "finish", "done"}
            \cup Neutralizing,
        user: Users \cup {Nobody}, target: Customers \cup {NoCustomer},
        next: Customers \cup {NoCustomer}, seen: SUBSET Sessions, rounds: 0..MaxRounds]]
  /\ slips \in Nat
  /\ user = Nobody => stored = NoCustomer /\ status = "none"
  /\ stored # NoCustomer => customer[stored].of = user

\* "The command records durable Stripe cleanup work in the same transaction":
\* whatever request was in flight when its account went, nobody is charged for
\* an account that is gone unless a job remembers the customer.
OrphansHaveJobs ==
  \A c \in Customers : Chargeable(c) /\ customer[c].of # user => job = c

\* The customer of an account that exists is never deleted at Stripe, neither
\* as another request's candidate nor by a cleanup.
StoredCustomerLives ==
  stored # NoCustomer => customer[stored].state = "live"

\* "It is removed when Stripe cleanup succeeds": a job gives way to nothing
\* and to no other job while its customer is still there.
JobsLastUntilCleanup ==
  [][job # NoCustomer /\ job' # job => customer[job].state = "deleted"]_vars

\* A command that reports success has left neither the customer nor its job,
\* even when it found that another one had done the work.
SuccessMeansGone ==
  [][\A o \in Operators : ~At(o, "done") /\ proc'[o].at = "done" =>
       \A c \in Customers : c = proc[o].target =>
         customer'[c].state = "deleted" /\ job' # c]_vars

=============================================================================
