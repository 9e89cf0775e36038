------------------------- MODULE AccountDeletionProofs -------------------------
(***************************************************************************)
(* Proofs about AccountDeletion, for any number of tabs, operators, users, *)
(* customers, sessions, rounds and failures.                               *)
(*                                                                         *)
(* That the stored customer lives needs to know who may be deleting a      *)
(* customer at Stripe: Spared says that it is of another account, or that  *)
(* the account has stored another one, and neither ever changes back.      *)
(* That orphans have jobs needs to know what a checkout may still open a   *)
(* session for: a customer that is stored, has a job or is deleted (Held). *)
(* The second half only holds with one deleter (OneDeleter): the check for *)
(* a pending job is outside the transaction that overwrites it.            *)
(***************************************************************************)
EXTENDS AccountDeletion, TLAPS

OneDeleter == \A o, p \in Deleters : o = p

CustomerType == [of: Users \cup {Nobody}, state: {"absent", "live", "deleted"},
                 plan: {"none", "live", "ended"}]
SessionType == [of: Customers \cup {NoCustomer}, state: {"absent", "open", "paid", "expired"}]
Steps == {"idle", "create", "store", "owner", "compare", "configure", "session",
          "begin", "delete", "exists", "record", "recheck", "finish", "done"}
         \cup Neutralizing
ProcType == [at: Steps, user: Users \cup {Nobody}, target: Customers \cup {NoCustomer},
             next: Customers \cup {NoCustomer}, seen: SUBSET Sessions, rounds: 0..MaxRounds]

RowTypes ==
  /\ user \in Users \cup {Nobody} /\ born \in 0..MaxUsers
  /\ stored \in Customers \cup {NoCustomer} /\ job \in Customers \cup {NoCustomer}
  /\ status \in {"none", "live", "ended"}

StripeTypes ==
  /\ customer \in [Customers -> CustomerType]
  /\ session \in [Sessions -> SessionType]
  /\ key \in [Users -> Customers \cup {NoCustomer}]

Types == RowTypes /\ StripeTypes /\ proc \in [Actors -> ProcType] /\ slips \in Nat

Known(c) == c \in Customers /\ customer[c].state # "absent"
Deleted(c) == customer[c].state = "deleted"

\* The account of c is not the one on record, or has another customer.
Spared(c) == customer[c].of # user \/ (stored # NoCustomer /\ stored # c)

\* The rows and Stripe.
Ids ==
  /\ user <= born
  /\ \A c \in Customers : Known(c) => customer[c].of \in 1..born
  /\ \A u \in Users : key[u] # NoCustomer => Known(key[u]) /\ customer[key[u]].of = u
  /\ user = Nobody => stored = NoCustomer /\ status = "none"
  /\ stored # NoCustomer => customer[stored].state = "live" /\ customer[stored].of = user
  /\ job # NoCustomer => Known(job) /\ customer[job].of # user
  /\ \A c \in Customers : Deleted(c) => Spared(c)

\* A checkout: its candidate, and whom it may delete.
TabInv(t) ==
  /\ At(t, "create") => proc[t].user \in 1..born
  /\ proc[t].at \in {"store", "owner", "compare"} =>
       Known(proc[t].target) /\ customer[proc[t].target].of = proc[t].user
  /\ proc[t].at \in Neutralizing => Known(proc[t].target) /\ Spared(proc[t].target)
  /\ proc[t].at \in {"configure", "session"} => proc[t].next \in Customers

CleaningUp == Neutralizing \cup {"record", "recheck", "finish"}

\* A command: the row it has locked, and whom it may delete.
CommandInv(o) ==
  /\ At(o, "delete") => proc[o].target = stored /\ user # Nobody
  /\ At(o, "exists") => Known(proc[o].target)
  /\ proc[o].at \in CleaningUp =>
       Known(proc[o].target) /\ customer[proc[o].target].of # user

OneLock == \A o, p \in Operators : At(o, "delete") /\ At(p, "delete") => o = p

LiveInv ==
  /\ Types
  /\ Ids
  /\ \A t \in Tabs : TabInv(t)
  /\ \A o \in Operators : CommandInv(o)
  /\ OneLock

\* Where money may still come from.
Held(c) == c = stored \/ c = job \/ Deleted(c)

Charges == \A c \in Customers : Chargeable(c) => c \in {stored, job} /\ ~Deleted(c)

TabJobs(t) == proc[t].next # NoCustomer => Held(proc[t].next)

CommandJobs(o) ==
  /\ proc[o].at \in {"begin", "delete"} => o \in Deleters /\ job = NoCustomer
  /\ proc[o].at \in CleaningUp => job = proc[o].target \/ Deleted(proc[o].target)
  /\ At(o, "finish") => Deleted(proc[o].target)

JobsInv ==
  /\ Charges
  /\ \A t \in Tabs : TabJobs(t)
  /\ \A o \in Operators : CommandJobs(o)

DeletionInv == LiveInv /\ (OneDeleter => JobsInv)

-----------------------------------------------------------------------------
(* Values.                                                                 *)

LEMMA BoundsAreNat ==
  /\ MaxUsers \in Nat /\ MaxCustomers \in Nat /\ MaxSessions \in Nat /\ MaxRounds \in Nat
  /\ MaxSlips \in Nat
  BY BoundsAssumption DEF BoundsAssumption

LEMMA NobodyIsNobody ==
  /\ NoCustomer \notin Customers /\ Nobody \notin Users
  /\ Users \subseteq Nat /\ Customers \subseteq Nat
  BY BoundsAreNat DEF NoCustomer, Customers, Nobody, Users

LEMMA InvTypeOK == DeletionInv => TypeOK
  <1>1. ASSUME DeletionInv PROVE Types /\ Ids
    BY <1>1 DEF DeletionInv, LiveInv
  <1>2. ASSUME Types, Ids PROVE TypeOK
    BY <1>2, Zenon DEF Types, RowTypes, StripeTypes, Ids, TypeOK, CustomerType, SessionType,
                       ProcType, Steps
  <1> QED BY <1>1, <1>2

LEMMA IdleIsTyped == Idle \in ProcType /\ Done \in ProcType
  BY BoundsAreNat DEF Idle, Done, ProcType, Steps

LEMMA InitInv == Init => DeletionInv
  <1>1. SUFFICES ASSUME Init PROVE DeletionInv
    OBVIOUS
  <1>2. RowTypes
    BY <1>1, BoundsAreNat DEF Init, RowTypes
  <1>3. StripeTypes
    <2>1. [of |-> Nobody, state |-> "absent", plan |-> "none"] \in CustomerType
      BY DEF CustomerType
    <2>2. [of |-> NoCustomer, state |-> "absent"] \in SessionType
      BY DEF SessionType
    <2> QED BY <1>1, <2>1, <2>2 DEF Init, StripeTypes
  <1>4. Types
    BY <1>1, <1>2, <1>3, IdleIsTyped DEF Init, Types
  <1>5. \A a \in Actors : proc[a] = Idle
    BY <1>1 DEF Init
  <1>6. \A a \in Actors : proc[a].at = "idle" /\ proc[a].next = NoCustomer
    BY <1>5 DEF Idle
  <1>7. \A c \in Customers : customer[c].state = "absent" /\ customer[c].plan = "none"
    BY <1>1 DEF Init
  <1>8. Ids
    BY <1>1, <1>7 DEF Init, Ids, Known, Deleted, Nobody
  <1>9. /\ \A t \in Tabs : TabInv(t) /\ TabJobs(t)
        /\ \A o \in Operators : CommandInv(o) /\ CommandJobs(o)
        /\ OneLock
    BY <1>6 DEF Actors, TabInv, TabJobs, CommandInv, CommandJobs, OneLock, At, Neutralizing,
                CleaningUp
  <1>10. Charges
    <2>1. \A c \in Customers : OpenSessions(c) = {}
      BY <1>1 DEF Init, OpenSessions
    <2> QED BY <1>7, <2>1 DEF Charges, Chargeable
  <1> QED BY <1>4, <1>8, <1>9, <1>10 DEF DeletionInv, LiveInv, JobsInv

-----------------------------------------------------------------------------
(* What a step must leave alone.                                           *)

Own(d) == (d \in Tabs => TabInv(d)) /\ (d \in Operators => CommandInv(d))
OwnJobs(d) == (d \in Tabs => TabJobs(d)) /\ (d \in Operators => CommandJobs(d))

\* What is known of a customer stays true.
Context ==
  /\ born' \in Nat /\ born <= born'
  /\ \A c \in Customers : Known(c) =>
       /\ Known(c)' /\ customer'[c].of = customer[c].of
       /\ customer[c].of # user => customer[c].of # user'
       /\ Spared(c) => Spared(c)'
       /\ Deleted(c) => Deleted(c)'

JobsContext ==
  \A c \in Customers : Known(c) => /\ job = c => job' = c \/ Deleted(c)'
                                   /\ Held(c) => Held(c)'

\* An actor the step is not about.
Same(d) ==
  /\ proc'[d] = proc[d]
  /\ d \in Operators /\ At(d, "delete") => stored' = stored /\ user' = user

SameJobs(d) ==
  /\ proc'[d] = proc[d]
  /\ d \in Operators /\ proc[d].at \in {"begin", "delete"} => job' = job

LEMMA SameKeepsOwn ==
  ASSUME DeletionInv, Context, NEW d \in Actors, Same(d)
  PROVE  Own(d)'
  <1>1. Own(d) /\ born \in Nat /\ born' \in Nat /\ born <= born'
    BY BoundsAreNat DEF DeletionInv, LiveInv, Own, Types, RowTypes, Context
  <1>2. ASSUME d \in Tabs PROVE TabInv(d)'
    <2>1. TabInv(d)
      BY <1>1, <1>2 DEF Own
    <2>2. proc'[d] = proc[d]
      BY DEF Same
    <2>3. At(d, "create")' => proc'[d].user \in 1..born'
      <3>1. At(d, "create") => proc[d].user \in 1..born
        BY <2>1 DEF TabInv
      <3> QED BY <1>1, <2>2, <3>1 DEF At
    <2>4. proc'[d].at \in {"store", "owner", "compare"} =>
            Known(proc[d].target)' /\ customer'[proc'[d].target].of = proc'[d].user
      BY <2>1, <2>2 DEF TabInv, Context, Known
    <2>5. proc'[d].at \in Neutralizing =>
            Known(proc[d].target)' /\ Spared(proc[d].target)'
      BY <2>1, <2>2 DEF TabInv, Context, Known, Spared
    <2>6. proc'[d].at \in {"configure", "session"} => proc'[d].next \in Customers
      BY <2>1, <2>2 DEF TabInv
    <2> QED BY <2>3, <2>4, <2>5, <2>6 DEF TabInv
  <1>3. ASSUME d \in Operators PROVE CommandInv(d)'
    <2>1. CommandInv(d)
      BY <1>1, <1>3 DEF Own
    <2>2. /\ proc'[d] = proc[d]
          /\ At(d, "delete") => stored' = stored /\ user' = user
      BY <1>3 DEF Same
    <2>3. At(d, "delete")' => proc'[d].target = stored' /\ user' # Nobody
      BY <2>1, <2>2 DEF CommandInv, At
    <2>4. At(d, "exists")' => Known(proc[d].target)'
      BY <2>1, <2>2 DEF CommandInv, At, Context, Known
    <2>5. proc'[d].at \in CleaningUp =>
            Known(proc[d].target)' /\ customer'[proc'[d].target].of # user'
      BY <2>1, <2>2 DEF CommandInv, Context, Known
    <2> QED BY <2>3, <2>4, <2>5 DEF CommandInv
  <1> QED
    <2>1. d \in Tabs => TabInv(d)'
      BY <1>2 DEF Own
    <2>2. d \in Operators => CommandInv(d)'
      BY <1>3 DEF Own
    <2> QED BY <2>1, <2>2 DEF Own

\* Whom an actor names is known.
LEMMA NamesKnown ==
  ASSUME DeletionInv, NEW c \in Customers, OneDeleter
  PROVE  Held(c) => Known(c)
  <1>1. c = stored \/ c = job => Known(c)
    BY NobodyIsNobody DEF DeletionInv, LiveInv, Ids, Known
  <1>2. Deleted(c) => Known(c)
    BY DEF Deleted, Known
  <1> QED BY <1>1, <1>2 DEF Held

LEMMA SameKeepsJobs ==
  ASSUME DeletionInv, Context, JobsContext, OneDeleter, NEW d \in Actors, SameJobs(d)
  PROVE  OwnJobs(d)'
  <1>1. OwnJobs(d) /\ Own(d) /\ proc[d] \in ProcType
    BY DEF DeletionInv, LiveInv, JobsInv, OwnJobs, Own, Types
  <1>2. proc'[d] = proc[d]
    BY DEF SameJobs
  <1>3. ASSUME d \in Tabs PROVE TabJobs(d)'
    <2>1. ASSUME proc[d].next # NoCustomer PROVE Held(proc[d].next)'
      <3>1. proc[d].next \in Customers /\ Held(proc[d].next)
        BY <1>1, <1>3, <2>1 DEF OwnJobs, TabJobs, ProcType
      <3> QED BY <1>2, <3>1, NamesKnown DEF JobsContext, Held, Deleted
    <2> QED BY <1>2, <2>1 DEF TabJobs
  <1>4. ASSUME d \in Operators PROVE CommandJobs(d)'
    <2>1. CommandJobs(d) /\ CommandInv(d)
      BY <1>1, <1>4 DEF OwnJobs, Own
    <2>2. proc'[d].at \in {"begin", "delete"} => d \in Deleters /\ job' = NoCustomer
      BY <1>2, <1>4, <2>1 DEF SameJobs, CommandJobs
    <2>3. ASSUME proc[d].at \in CleaningUp
          PROVE  job' = proc'[d].target \/ Deleted(proc[d].target)'
      <3>1. Known(proc[d].target) /\ (job = proc[d].target \/ Deleted(proc[d].target))
        BY <2>1, <2>3 DEF CommandInv, CommandJobs
      <3> QED BY <1>2, <3>1 DEF Known, JobsContext, Context, Deleted
    <2>4. ASSUME At(d, "finish") PROVE Deleted(proc[d].target)'
      <3>1. Known(proc[d].target) /\ Deleted(proc[d].target)
        BY <2>1, <2>4 DEF CommandInv, CommandJobs, At, CleaningUp
      <3> QED BY <1>2, <3>1 DEF Known, Context, Deleted
    <2> QED BY <1>2, <2>2, <2>3, <2>4 DEF CommandJobs, At
  <1> QED BY <1>3, <1>4 DEF OwnJobs

LEMMA Closing ==
  ASSUME DeletionInv, Types', Ids', OneLock', Context,
         \A d \in Actors : Same(d) \/ Own(d)',
         OneDeleter => /\ Charges' /\ JobsContext
                       /\ \A d \in Actors : SameJobs(d) \/ OwnJobs(d)'
  PROVE  DeletionInv'
  <1>1. \A d \in Actors : Own(d)'
    BY SameKeepsOwn
  <1>2. OneDeleter => \A d \in Actors : OwnJobs(d)'
    BY SameKeepsJobs
  <1>3. LiveInv'
    BY <1>1 DEF LiveInv, Own, Actors
  <1>4. OneDeleter => JobsInv'
    BY <1>2 DEF JobsInv, OwnJobs, Actors
  <1> QED BY <1>3, <1>4 DEF DeletionInv

LEMMA ProcStep ==
  ASSUME DeletionInv, NEW a \in Actors, NEW p \in ProcType, proc' = [proc EXCEPT ![a] = p]
  PROVE  /\ proc' \in [Actors -> ProcType]
         /\ proc'[a] = p
         /\ \A d \in Actors \ {a} : proc'[d] = proc[d]
  BY DEF DeletionInv, LiveInv, Types

\* Only a command that finds the row unlocked locks it.
LEMMA LockStep ==
  ASSUME DeletionInv, NEW a \in Actors, \A d \in Actors \ {a} : proc'[d] = proc[d],
         proc'[a].at = "delete" => ~Locked
  PROVE  OneLock'
  BY DEF DeletionInv, LiveInv, OneLock, Locked, At, Actors

\* A step of one actor that changes neither a row nor Stripe.
LEMMA ActorKeepsInv ==
  ASSUME DeletionInv, UNCHANGED <<rowVars, stripeVars>>, slips' \in Nat, NEW a \in Actors,
         proc' \in [Actors -> ProcType], \A d \in Actors \ {a} : proc'[d] = proc[d],
         proc'[a].at = "delete" => ~Locked, Own(a)', OneDeleter => OwnJobs(a)'
  PROVE  DeletionInv'
  <1>1. /\ user' = user /\ born' = born /\ stored' = stored /\ status' = status /\ job' = job
        /\ customer' = customer /\ session' = session /\ key' = key
    BY DEF rowVars, stripeVars
  <1>2. Types'
    BY <1>1 DEF DeletionInv, LiveInv, Types, RowTypes, StripeTypes, CustomerType, SessionType
  <1>3. Ids'
    BY <1>1 DEF DeletionInv, LiveInv, Ids, Known, Deleted, Spared
  <1>4. Context
    BY <1>1, BoundsAreNat DEF DeletionInv, LiveInv, Types, RowTypes, Context, Known, Deleted,
                              Spared
  <1>5. JobsContext
    BY <1>1 DEF JobsContext, Held, Deleted
  <1>6. ASSUME OneDeleter PROVE Charges'
    BY <1>1, <1>6 DEF DeletionInv, JobsInv, Charges, Chargeable, OpenSessions, Deleted
  <1>7. \A d \in Actors \ {a} : Same(d) /\ SameJobs(d)
    BY <1>1 DEF Same, SameJobs
  <1> QED BY <1>2, <1>3, <1>4, <1>5, <1>6, <1>7, LockStep, Closing

-----------------------------------------------------------------------------
(* How an actor moves.                                                     *)

LEMMA StayingPut ==
  ASSUME DeletionInv, UNCHANGED <<rowVars, stripeVars>>
  PROVE  /\ Context /\ JobsContext
         /\ user' = user /\ born' = born /\ stored' = stored /\ job' = job
         /\ customer' = customer /\ session' = session
  <1>1. /\ user' = user /\ born' = born /\ stored' = stored /\ job' = job
        /\ customer' = customer /\ session' = session
    BY DEF rowVars, stripeVars
  <1>2. Context
    BY <1>1, BoundsAreNat DEF DeletionInv, LiveInv, Types, RowTypes, Context, Known, Deleted,
                              Spared
  <1> QED BY <1>1, <1>2 DEF JobsContext, Held, Deleted

\* An actor that is idle or done.
LEMMA Resting ==
  ASSUME NEW a \in Actors, proc'[a] = Idle \/ proc'[a] = Done
  PROVE  Own(a)' /\ OwnJobs(a)' /\ proc'[a].at # "delete"
  <1>1. proc'[a].at \in {"idle", "done"} /\ proc'[a].next = NoCustomer
    BY DEF Idle, Done
  <1> QED BY <1>1 DEF Own, OwnJobs, TabInv, TabJobs, CommandInv, CommandJobs, At, Neutralizing,
                      CleaningUp

LEMMA EndStep ==
  ASSUME DeletionInv, NEW a \in Actors, End(a) \/ proc' = [proc EXCEPT ![a] = Done]
  PROVE  /\ proc' \in [Actors -> ProcType]
         /\ \A d \in Actors \ {a} : proc'[d] = proc[d]
         /\ Own(a)' /\ OwnJobs(a)' /\ proc'[a].at # "delete"
  <1>1. /\ proc' \in [Actors -> ProcType]
        /\ proc'[a] = Idle \/ proc'[a] = Done
        /\ \A d \in Actors \ {a} : proc'[d] = proc[d]
    BY ProcStep, IdleIsTyped DEF End
  <1> QED BY <1>1, Resting

LEMMA GotoStep ==
  ASSUME DeletionInv, NEW a \in Actors, NEW step \in Steps, Goto(a, step)
  PROVE  /\ proc' \in [Actors -> ProcType]
         /\ \A d \in Actors \ {a} : proc'[d] = proc[d]
         /\ proc'[a].at = step
         /\ proc'[a].target = proc[a].target /\ proc'[a].next = proc[a].next
         /\ proc'[a].user = proc[a].user
  <1> DEFINE p == [proc[a] EXCEPT !.at = step]
  <1>1. proc[a] \in ProcType
    BY DEF DeletionInv, LiveInv, Types
  <1>2. /\ p \in ProcType
        /\ p.at = step /\ p.target = proc[a].target /\ p.next = proc[a].next
        /\ p.user = proc[a].user
    BY <1>1 DEF ProcType
  <1>3. proc' = [proc EXCEPT ![a] = p]
    BY DEF Goto
  <1> HIDE DEF p
  <1> QED BY <1>2, <1>3, ProcStep

\* An actor that is neutralizing a customer and goes on with the same one.
LEMMA StillNeutralizing ==
  ASSUME DeletionInv, Context, NEW a \in Actors, proc[a].at \in Neutralizing,
         proc'[a].at \in Neutralizing \cup {"record"},
         proc'[a].target = proc[a].target, proc'[a].next = proc[a].next
  PROVE  /\ Own(a)' /\ proc'[a].at # "delete"
         /\ OneDeleter /\ JobsContext => OwnJobs(a)'
  <1> DEFINE c == proc[a].target
  <1>1. Own(a) /\ proc[a] \in ProcType
    BY DEF DeletionInv, LiveInv, Own, Types
  <1>2. proc'[a].at \notin {"create", "store", "owner", "compare", "configure", "session",
                            "delete", "begin", "exists", "finish"}
    BY DEF Neutralizing
  <1>3. ASSUME a \in Tabs PROVE TabInv(a)'
    <2>1. Known(c) /\ Spared(c)
      BY <1>1, <1>3 DEF Own, TabInv
    <2>2. Known(c)' /\ Spared(c)'
      BY <2>1 DEF Context, Known, Spared
    <2> QED BY <1>2, <2>2 DEF TabInv, At, Known, Spared
  <1>4. ASSUME a \in Operators PROVE CommandInv(a)'
    <2>1. Known(c) /\ customer[c].of # user
      BY <1>1, <1>4 DEF Own, CommandInv, CleaningUp
    <2>2. Known(c)' /\ customer'[c].of # user'
      BY <2>1 DEF Context, Known
    <2> QED BY <1>2, <2>2 DEF CommandInv, At, Known
  <1>5. ASSUME OneDeleter, JobsContext PROVE OwnJobs(a)'
    <2>1. OwnJobs(a)
      BY <1>5 DEF DeletionInv, JobsInv, OwnJobs
    <2>2. ASSUME a \in Tabs, proc[a].next # NoCustomer PROVE Held(proc[a].next)'
      <3>1. proc[a].next \in Customers /\ Held(proc[a].next)
        BY <1>1, <2>1, <2>2 DEF OwnJobs, TabJobs, ProcType
      <3> QED BY <1>5, <3>1, NamesKnown DEF JobsContext, Held, Deleted
    <2>3. ASSUME a \in Operators PROVE job' = c \/ Deleted(c)'
      <3>1. Known(c) /\ (job = c \/ Deleted(c))
        BY <1>1, <2>1, <2>3 DEF Own, CommandInv, OwnJobs, CommandJobs, CleaningUp
      <3> QED BY <1>5, <3>1 DEF Known, JobsContext, Context, Deleted
    <2> QED BY <1>2, <2>2, <2>3 DEF OwnJobs, TabJobs, CommandJobs, At, Held, Deleted
  <1> QED BY <1>2, <1>3, <1>4, <1>5 DEF Own

\* Giving up.
LEMMA GivingUp ==
  ASSUME DeletionInv, Context, NEW a \in Actors, proc[a].at \in Neutralizing,
         NeutralizeFailed(a)
  PROVE  /\ proc' \in [Actors -> ProcType]
         /\ \A d \in Actors \ {a} : proc'[d] = proc[d]
         /\ Own(a)' /\ proc'[a].at # "delete"
         /\ OneDeleter /\ JobsContext => OwnJobs(a)'
  <1>1. CASE End(a)
    BY <1>1, EndStep
  <1>2. CASE Goto(a, "record")
    <2>1. "record" \in Steps
      BY DEF Steps
    <2> QED BY <1>2, <2>1, GotoStep, StillNeutralizing
  <1> QED BY <1>1, <1>2 DEF NeutralizeFailed


\* Going on, once the customer is deleted.
LEMMA GoingOn ==
  ASSUME DeletionInv, Context, NEW a \in Actors, proc[a].at \in Neutralizing,
         Neutralized(a), customer'[proc[a].target].state = "deleted"
  PROVE  /\ proc' \in [Actors -> ProcType]
         /\ \A d \in Actors \ {a} : proc'[d] = proc[d]
         /\ Own(a)' /\ proc'[a].at # "delete"
         /\ OneDeleter /\ JobsContext => OwnJobs(a)'
  <1> DEFINE c == proc[a].target
  <1>1. Own(a) /\ proc[a] \in ProcType
    BY DEF DeletionInv, LiveInv, Own, Types
  <1>2. CASE End(a)
    BY <1>2, EndStep
  <1>3. CASE a \in Operators /\ Goto(a, "finish")
    <2>1. a \notin Tabs
      BY <1>3, ActorsAssumption DEF ActorsAssumption
    <2>2. "finish" \in Steps
      BY DEF Steps
    <2>3. /\ proc' \in [Actors -> ProcType]
          /\ \A d \in Actors \ {a} : proc'[d] = proc[d]
          /\ proc'[a].at = "finish" /\ proc'[a].target = c
      BY <1>3, <2>2, GotoStep
    <2>4. Known(c) /\ customer[c].of # user
      BY <1>1, <1>3 DEF Own, CommandInv, CleaningUp
    <2>5. Known(c)' /\ customer'[c].of # user'
      BY <2>3, <2>4 DEF Context, Known
    <2>6. CommandInv(a)'
      BY <2>3, <2>5 DEF CommandInv, At, Known
    <2>7. CommandJobs(a)'
      BY <2>3 DEF CommandJobs, At, Deleted
    <2> QED BY <2>1, <2>3, <2>6, <2>7 DEF Own, OwnJobs
  <1>4. CASE a \notin Operators /\ proc[a].next # NoCustomer /\ Goto(a, "configure")
    <2>1. "configure" \in Steps
      BY DEF Steps
    <2>2. /\ proc' \in [Actors -> ProcType]
          /\ \A d \in Actors \ {a} : proc'[d] = proc[d]
          /\ proc'[a].at = "configure" /\ proc'[a].next = proc[a].next
      BY <1>4, <2>1, GotoStep
    <2>3. proc[a].next \in Customers
      BY <1>1, <1>4 DEF ProcType
    <2>4. TabInv(a)'
      BY <2>2, <2>3 DEF TabInv, At, Neutralizing
    <2>5. ASSUME OneDeleter, JobsContext PROVE TabJobs(a)'
      <3>1. a \in Tabs /\ OwnJobs(a)
        BY <1>4, <2>5 DEF DeletionInv, JobsInv, OwnJobs, Actors
      <3>2. Held(proc[a].next)
        BY <1>4, <3>1 DEF OwnJobs, TabJobs
      <3>3. Held(proc[a].next)'
        BY <2>2, <2>3, <2>5, <3>2, NamesKnown DEF JobsContext, Held, Deleted
      <3> QED BY <2>2, <3>3 DEF TabJobs, Held, Deleted
    <2> QED BY <1>4, <2>2, <2>4, <2>5 DEF Own, OwnJobs
  <1> QED BY <1>2, <1>3, <1>4 DEF Neutralized

-----------------------------------------------------------------------------
(* Neutralizing.                                                           *)

LEMMA SlipsAreNat ==
  ASSUME DeletionInv, Slip \/ slips' = slips
  PROVE  slips' \in Nat
  BY DEF DeletionInv, LiveInv, Types, Slip

LEMMA ListKeepsInv ==
  ASSUME DeletionInv, NEW a \in Actors, ListOpenCheckoutSessions(a)
  PROVE  DeletionInv'
  <1> DEFINE open == OpenSessions(proc[a].target)
             p == [proc[a] EXCEPT !.at = "expire", !.seen = open, !.rounds = @ - 1]
  <1>1. /\ proc[a].at \in Neutralizing
        /\ UNCHANGED <<rowVars, stripeVars>> /\ slips' \in Nat
    BY SlipsAreNat DEF ListOpenCheckoutSessions, At, Neutralizing
  <1>2. Context /\ JobsContext
    BY <1>1, StayingPut
  <1>3. CASE NeutralizeFailed(a)
    BY <1>1, <1>2, <1>3, GivingUp, ActorKeepsInv
  <1>4. CASE Goto(a, "drop")
    <2>1. "drop" \in Steps /\ "drop" \in Neutralizing
      BY DEF Steps, Neutralizing
    <2> QED BY <1>1, <1>2, <1>4, <2>1, GotoStep, StillNeutralizing, ActorKeepsInv
  <1>5. CASE proc[a].rounds # 0 /\ proc' = [proc EXCEPT ![a] = p]
    <2>1. proc[a] \in ProcType /\ open \subseteq Sessions
      BY DEF DeletionInv, LiveInv, Types, OpenSessions
    <2>2. proc[a].rounds - 1 \in 0..MaxRounds
      BY <1>5, <2>1, BoundsAreNat DEF ProcType
    <2> HIDE DEF open
    <2>3. /\ p \in ProcType /\ p.at = "expire"
          /\ p.target = proc[a].target /\ p.next = proc[a].next
      BY <2>1, <2>2 DEF ProcType, Steps, Neutralizing
    <2> HIDE DEF p
    <2>4. /\ proc' \in [Actors -> ProcType]
          /\ \A d \in Actors \ {a} : proc'[d] = proc[d]
          /\ proc'[a] = p
      BY <1>5, <2>3, ProcStep
    <2>5. proc'[a].at \in Neutralizing
      BY <2>3, <2>4 DEF Neutralizing
    <2> QED BY <1>1, <1>2, <2>3, <2>4, <2>5, StillNeutralizing, ActorKeepsInv
  <1> QED BY <1>3, <1>4, <1>5 DEF ListOpenCheckoutSessions

LEMMA NeutralizeFailsKeepsInv ==
  ASSUME DeletionInv, NEW a \in Actors, NeutralizeFails(a)
  PROVE  DeletionInv'
  <1>1. /\ proc[a].at \in Neutralizing /\ NeutralizeFailed(a)
        /\ UNCHANGED <<rowVars, stripeVars>> /\ slips' \in Nat
    BY SlipsAreNat DEF NeutralizeFails
  <1> QED BY <1>1, StayingPut, GivingUp, ActorKeepsInv

\* What happens at Stripe while the rows stay: customers are deleted that may be,
\* subscriptions end, sessions close or are paid.
LEMMA StripeKeeps ==
  ASSUME DeletionInv, UNCHANGED rowVars, key' = key,
         customer' \in [Customers -> CustomerType], session' \in [Sessions -> SessionType],
         \A c \in Customers : /\ customer'[c].of = customer[c].of
                              /\ Known(c)' = Known(c)
                              /\ Deleted(c) => Deleted(c)'
                              /\ Deleted(c)' /\ ~Deleted(c) => Spared(c)
  PROVE  /\ RowTypes' /\ StripeTypes' /\ Ids' /\ Context /\ JobsContext
         /\ \A d \in Actors : proc'[d] = proc[d] => Same(d) /\ SameJobs(d)
  <1>1. user' = user /\ born' = born /\ stored' = stored /\ status' = status /\ job' = job
    BY DEF rowVars
  <1>2. RowTypes' /\ StripeTypes'
    BY <1>1 DEF DeletionInv, LiveInv, Types, RowTypes, StripeTypes
  <1>3. Ids'
    <2>1. Ids /\ stored \in Customers \cup {NoCustomer} /\ job \in Customers \cup {NoCustomer}
          /\ key \in [Users -> Customers \cup {NoCustomer}]
      BY DEF DeletionInv, LiveInv, Types, RowTypes, StripeTypes
    <2>2. user' <= born' /\ (user' = Nobody => stored' = NoCustomer /\ status' = "none")
      BY <1>1, <2>1 DEF Ids
    <2>3. \A c \in Customers : Known(c)' => customer'[c].of \in 1..born'
      BY <1>1, <2>1 DEF Ids
    <2>4. \A u \in Users : key'[u] # NoCustomer => Known(key[u])' /\ customer'[key'[u]].of = u
      BY <1>1, <2>1 DEF Ids
    <2>5. stored # NoCustomer => customer'[stored].state = "live" /\ customer'[stored].of = user
      BY <2>1 DEF Ids, Known, Deleted, Spared, CustomerType
    <2>6. job # NoCustomer => Known(job)' /\ customer'[job].of # user
      BY <1>1, <2>1 DEF Ids, Known
    <2>7. \A c \in Customers : Deleted(c)' => Spared(c)'
      BY <1>1, <2>1 DEF Ids, Spared
    <2> QED BY <1>1, <2>2, <2>3, <2>4, <2>5, <2>6, <2>7 DEF Ids, Known
  <1>4. Context
    BY <1>1, BoundsAreNat DEF DeletionInv, LiveInv, Types, RowTypes, Context, Spared
  <1>5. JobsContext
    BY <1>1 DEF JobsContext, Held
  <1> QED BY <1>1, <1>2, <1>3, <1>4, <1>5 DEF Same, SameJobs

\* A session closes.
LEMMA ExpireKeepsInv ==
  ASSUME DeletionInv, NEW a \in Actors, NEW s \in Sessions, ExpireSession(a, s)
  PROVE  DeletionInv'
  <1> DEFINE rest == proc[a].seen \ {s}
             p == [proc[a] EXCEPT !.seen = rest, !.at = IF rest = {} THEN "list" ELSE @]
  <1>1. /\ proc[a].at = "expire" /\ proc[a].at \in Neutralizing
        /\ UNCHANGED <<rowVars, customer, key, slips>>
    BY DEF ExpireSession, At, Neutralizing
  <1>2. CASE NeutralizeFailed(a) /\ UNCHANGED session
    <2>1. UNCHANGED <<rowVars, stripeVars>> /\ slips' \in Nat
      BY <1>1, <1>2, SlipsAreNat DEF stripeVars
    <2> QED BY <1>1, <1>2, <2>1, StayingPut, GivingUp, ActorKeepsInv
  <1>3. CASE /\ session[s].state = "open"
             /\ session' = [session EXCEPT ![s].state = "expired"]
             /\ proc' = [proc EXCEPT ![a] = p]
    <2>1. proc[a] \in ProcType /\ session \in [Sessions -> SessionType]
          /\ customer \in [Customers -> CustomerType]
      BY DEF DeletionInv, LiveInv, Types, StripeTypes
    <2>2. rest \subseteq Sessions
      BY <2>1 DEF ProcType
    <2> HIDE DEF rest
    <2>3. /\ p \in ProcType /\ p.at \in Neutralizing
          /\ p.target = proc[a].target /\ p.next = proc[a].next
      BY <1>1, <2>1, <2>2 DEF ProcType, Steps, Neutralizing
    <2> HIDE DEF p
    <2>4. /\ proc' \in [Actors -> ProcType]
          /\ \A d \in Actors \ {a} : proc'[d] = proc[d]
          /\ proc'[a] = p
      BY <1>3, <2>3, ProcStep
    <2>5. session' \in [Sessions -> SessionType]
      BY <1>3, <2>1 DEF SessionType
    <2>6. /\ RowTypes' /\ StripeTypes' /\ Ids' /\ Context /\ JobsContext
          /\ \A d \in Actors : proc'[d] = proc[d] => Same(d) /\ SameJobs(d)
      BY <1>1, <2>1, <2>5, StripeKeeps DEF Known, Deleted
    <2>7. Types'
      BY <1>1, <2>4, <2>6 DEF DeletionInv, LiveInv, Types
    <2>8. ASSUME OneDeleter PROVE Charges'
      <3>1. \A c \in Customers : OpenSessions(c)' \subseteq OpenSessions(c)
        BY <1>3, <2>1 DEF OpenSessions, SessionType
      <3> QED BY <1>1, <2>8, <3>1 DEF DeletionInv, JobsInv, Charges, Chargeable, Deleted, rowVars
    <2>9. /\ Own(a)' /\ proc'[a].at # "delete"
          /\ OneDeleter /\ JobsContext => OwnJobs(a)'
      BY <1>1, <2>3, <2>4, <2>6, StillNeutralizing
    <2> QED BY <2>4, <2>6, <2>7, <2>8, <2>9, LockStep, Closing
  <1> QED BY <1>2, <1>3 DEF ExpireSession

\* Whom an actor is neutralizing may be deleted.
LEMMA TargetIsSpared ==
  ASSUME DeletionInv, NEW a \in Actors, proc[a].at \in Neutralizing
  PROVE  Known(proc[a].target) /\ Spared(proc[a].target)
  BY DEF DeletionInv, LiveInv, TabInv, CommandInv, CleaningUp, Spared, Actors

LEMMA DropKeepsInv ==
  ASSUME DeletionInv, NEW a \in Actors, DropCustomer(a)
  PROVE  DeletionInv'
  <1> DEFINE c == proc[a].target
             dead == [customer[c] EXCEPT !.state = "deleted",
                                         !.plan = IF @ = "live" THEN "ended" ELSE @]
  <1>1. /\ proc[a].at \in Neutralizing /\ UNCHANGED rowVars /\ DeletedAtStripe(c)
        /\ Neutralized(a) \/ NeutralizeFailed(a)
        /\ slips' \in Nat
    BY SlipsAreNat DEF DropCustomer, At, Neutralizing
  <1>2. Known(c) /\ Spared(c) /\ c \in Customers
    BY <1>1, TargetIsSpared DEF Known
  <1>3. /\ customer \in [Customers -> CustomerType] /\ session \in [Sessions -> SessionType]
    BY DEF DeletionInv, LiveInv, Types, StripeTypes
  <1>4. /\ customer' = [customer EXCEPT ![c] = dead]
        /\ session' = [s \in Sessions |-> IF s \in OpenSessions(c)
                        THEN [session[s] EXCEPT !.state = "expired"] ELSE session[s]]
        /\ key' = key
    BY <1>1 DEF DeletedAtStripe
  <1>5. /\ dead \in CustomerType /\ dead.state = "deleted" /\ dead.plan # "live"
        /\ dead.of = customer[c].of
    BY <1>2, <1>3 DEF CustomerType
  <1> HIDE DEF dead
  <1>6. /\ customer' \in [Customers -> CustomerType]
        /\ customer'[c].state = "deleted" /\ customer'[c].plan # "live"
        /\ customer'[c].of = customer[c].of
        /\ \A d \in Customers \ {c} : customer'[d] = customer[d]
    BY <1>2, <1>3, <1>4, <1>5
  <1>7. session' \in [Sessions -> SessionType]
    BY <1>3, <1>4 DEF SessionType
  <1> HIDE DEF c
  <1>8. /\ RowTypes' /\ StripeTypes' /\ Ids' /\ Context /\ JobsContext
        /\ \A d \in Actors : proc'[d] = proc[d] => Same(d) /\ SameJobs(d)
    <2>1. \A d \in Customers : /\ customer'[d].of = customer[d].of
                               /\ Known(d)' = Known(d)
                               /\ Deleted(d) => Deleted(d)'
                               /\ Deleted(d)' /\ ~Deleted(d) => Spared(d)
      <3>1. TAKE d \in Customers
      <3>2. CASE d = c
        BY <1>2, <1>6, <3>2 DEF Known, Deleted
      <3>3. CASE d # c
        BY <1>6, <3>3 DEF Known, Deleted
      <3> QED BY <3>2, <3>3
    <2> QED BY <1>1, <1>4, <1>6, <1>7, <2>1, StripeKeeps
  <1>9. /\ proc' \in [Actors -> ProcType]
        /\ \A d \in Actors \ {a} : proc'[d] = proc[d]
        /\ Own(a)' /\ proc'[a].at # "delete"
        /\ OneDeleter /\ JobsContext => OwnJobs(a)'
    BY <1>1, <1>6, <1>8, GoingOn, GivingUp DEF c
  <1>10. Types'
    BY <1>1, <1>8, <1>9 DEF Types
  <1>11. ASSUME OneDeleter PROVE Charges'
    <2>1. \A d \in Customers : /\ OpenSessions(d)' \subseteq OpenSessions(d)
                               /\ d = c => OpenSessions(d)' = {}
      BY <1>3, <1>4 DEF OpenSessions, SessionType
    <2>2. \A d \in Customers : Chargeable(d)' => d # c /\ Chargeable(d)
      BY <1>6, <2>1 DEF Chargeable
    <2> QED BY <1>1, <1>6, <1>11, <2>2 DEF DeletionInv, JobsInv, Charges, Deleted, rowVars
  <1> QED BY <1>8, <1>9, <1>10, <1>11, LockStep, Closing

-----------------------------------------------------------------------------
(* Checkout.                                                               *)

LEMMA BeginCheckoutKeepsInv ==
  ASSUME DeletionInv, NEW t \in Tabs, CreateCheckoutSession(t)
  PROVE  DeletionInv'
  <1> DEFINE p == [proc[t] EXCEPT !.user = user, !.next = stored,
                     !.at = IF stored = NoCustomer THEN "create" ELSE "configure"]
  <1>1. /\ At(t, "idle") /\ user # Nobody /\ proc' = [proc EXCEPT ![t] = p]
        /\ UNCHANGED <<rowVars, stripeVars, slips>> /\ t \in Actors
    BY DEF CreateCheckoutSession, Actors
  <1>2. /\ proc[t] \in ProcType /\ user \in Users \cup {Nobody} /\ born \in Nat /\ user <= born
        /\ stored \in Customers \cup {NoCustomer} /\ slips' \in Nat
    BY <1>1, SlipsAreNat, BoundsAreNat DEF DeletionInv, LiveInv, Types, RowTypes, Ids
  <1>3. /\ p \in ProcType /\ p.user = user /\ p.next = stored
        /\ p.at = IF stored = NoCustomer THEN "create" ELSE "configure"
    BY <1>2 DEF ProcType, Steps
  <1> HIDE DEF p
  <1>4. /\ proc' \in [Actors -> ProcType]
        /\ \A d \in Actors \ {t} : proc'[d] = proc[d]
        /\ proc'[t] = p
    BY <1>1, <1>3, ProcStep
  <1>5. /\ user' = user /\ born' = born /\ stored' = stored /\ t \notin Operators
        /\ user \in 1..born
    BY <1>1, <1>2, StayingPut, ActorsAssumption, NobodyIsNobody
       DEF ActorsAssumption, Nobody
  <1>6. TabInv(t)'
    BY <1>2, <1>3, <1>4, <1>5 DEF TabInv, At, Neutralizing
  <1>7. TabJobs(t)' /\ proc'[t].at # "delete"
    BY <1>3, <1>4, <1>5 DEF TabJobs, Held
  <1> QED BY <1>1, <1>2, <1>4, <1>5, <1>6, <1>7, ActorKeepsInv DEF Own, OwnJobs

LEMMA CreateKeepsInv ==
  ASSUME DeletionInv, NEW t \in Tabs, NEW c \in Customers, CreateCustomer(t, c)
  PROVE  DeletionInv'
  <1> DEFINE u == proc[t].user
             p == [proc[t] EXCEPT !.at = "store", !.target = c]
             new == [of |-> u, state |-> "live", plan |-> "none"]
  <1>1. /\ At(t, "create") /\ UNCHANGED <<rowVars, session>> /\ t \in Actors
        /\ t \notin Operators
    BY ActorsAssumption DEF CreateCustomer, Actors, ActorsAssumption
  <1>2. /\ proc[t] \in ProcType /\ born \in 0..MaxUsers /\ customer \in [Customers -> CustomerType]
        /\ key \in [Users -> Customers \cup {NoCustomer}] /\ TabInv(t) /\ Ids
        /\ session \in [Sessions -> SessionType]
    <2>1. Types /\ TabInv(t) /\ Ids
      BY DEF DeletionInv, LiveInv
    <2> QED BY <1>1, <2>1 DEF Types, RowTypes, StripeTypes
  <1>3. u \in 1..born /\ u \in Users
    BY <1>1, <1>2, BoundsAreNat DEF TabInv, Users
  <1>4. user' = user /\ born' = born /\ stored' = stored /\ status' = status /\ job' = job
        /\ session' = session
    BY <1>1 DEF rowVars
  <1>5. \/ c = key[u] /\ UNCHANGED <<customer, key>>
        \/ /\ ~Known(c) /\ customer' = [customer EXCEPT ![c] = new]
           /\ key' = [key EXCEPT ![u] = c]
    BY DEF CreateCustomer, NewCustomer, Known
  <1>6. /\ \/ proc' = [proc EXCEPT ![t] = p]
           \/ End(t)
        /\ slips' \in Nat
    BY SlipsAreNat DEF CreateCustomer
  <1>7. new \in CustomerType /\ new.state = "live" /\ new.of = u /\ new.plan = "none"
    BY <1>3 DEF CustomerType
  <1> HIDE DEF new
  <1>8. /\ StripeTypes' /\ customer'[c].of = u /\ customer'[c].state # "absent"
        /\ \A d \in Customers : /\ Known(d) => customer'[d] = customer[d]
                                /\ ~Known(d) /\ Known(d)' => d = c /\ customer'[d] = new
        /\ \A v \in Users : key'[v] = key[v] \/ (v = u /\ key'[v] = c)
    <2>1. CASE c = key[u] /\ UNCHANGED <<customer, key>>
      BY <1>2, <1>3, <1>4, <2>1, NobodyIsNobody DEF StripeTypes, Ids, Known
    <2>2. CASE /\ ~Known(c) /\ customer' = [customer EXCEPT ![c] = new]
               /\ key' = [key EXCEPT ![u] = c]
      <3>1. /\ customer' \in [Customers -> CustomerType] /\ customer'[c] = new
            /\ \A d \in Customers \ {c} : customer'[d] = customer[d]
        BY <1>2, <1>7, <2>2
      <3>2. /\ key' \in [Users -> Customers \cup {NoCustomer}]
            /\ \A v \in Users : key'[v] = key[v] \/ (v = u /\ key'[v] = c)
        BY <1>2, <1>3, <2>2
      <3>3. \A d \in Customers : /\ Known(d) => customer'[d] = customer[d]
                                 /\ ~Known(d) /\ Known(d)' => d = c /\ customer'[d] = new
        BY <2>2, <3>1 DEF Known
      <3>4. StripeTypes'
        BY <1>2, <1>4, <3>1, <3>2 DEF StripeTypes
      <3> QED BY <1>7, <3>1, <3>2, <3>3, <3>4
    <2> QED BY <1>5, <2>1, <2>2
  <1>9. Context
    BY <1>2, <1>4, <1>8, BoundsAreNat DEF Context, Known, Spared, Deleted
  <1>10. Ids'
    <2>1. \A d \in Customers : Known(d)' => customer'[d].of \in 1..born'
      BY <1>2, <1>3, <1>4, <1>7, <1>8 DEF Ids
    <2>2. \A v \in Users : key'[v] # NoCustomer =>
            key'[v] \in Customers /\ customer'[key'[v]].state # "absent"
            /\ customer'[key'[v]].of = v
      BY <1>2, <1>8 DEF Ids, Known
    <2>3. /\ stored # NoCustomer => customer'[stored].state = "live" /\ customer'[stored].of = user
          /\ job # NoCustomer => job \in Customers /\ customer'[job].state # "absent"
                                 /\ customer'[job].of # user
      <3>1. stored # NoCustomer => Known(stored)
        BY <1>2 DEF Ids, Known, DeletionInv, LiveInv, Types, RowTypes
      <3>2. job # NoCustomer => Known(job)
        BY <1>2 DEF Ids
      <3> QED BY <1>2, <1>8, <3>1, <3>2 DEF Ids, Known
    <2>4. \A d \in Customers : Deleted(d)' => Spared(d)'
      BY <1>2, <1>4, <1>7, <1>8 DEF Ids, Known, Deleted, Spared
    <2> QED BY <1>2, <1>4, <2>1, <2>2, <2>3, <2>4 DEF Ids, Known
  <1>11. /\ proc' \in [Actors -> ProcType]
         /\ \A d \in Actors \ {t} : proc'[d] = proc[d]
         /\ Own(t)' /\ proc'[t].at # "delete"
         /\ OneDeleter => OwnJobs(t)'
    <2>1. CASE End(t)
      BY <1>1, <2>1, EndStep
    <2>2. CASE proc' = [proc EXCEPT ![t] = p]
      <3>1. p \in ProcType /\ p.at = "store" /\ p.target = c /\ p.user = u
            /\ p.next = proc[t].next
        BY <1>2 DEF ProcType, Steps
      <3> HIDE DEF p
      <3>2. /\ proc' \in [Actors -> ProcType]
            /\ \A d \in Actors \ {t} : proc'[d] = proc[d]
            /\ proc'[t] = p
        BY <1>1, <2>2, <3>1, ProcStep
      <3>3. TabInv(t)'
        BY <1>8, <3>1, <3>2 DEF TabInv, At, Known, Neutralizing
      <3>4. ASSUME OneDeleter, proc[t].next # NoCustomer PROVE Held(proc[t].next)'
        <4>1. TabJobs(t) /\ proc[t].next \in Customers
          BY <1>2, <3>4 DEF DeletionInv, JobsInv, ProcType
        <4>2. Held(proc[t].next) /\ Known(proc[t].next)
          BY <3>4, <4>1, NamesKnown DEF TabJobs
        <4> QED BY <1>4, <1>8, <3>1, <3>2, <4>1, <4>2 DEF Held, Deleted
      <3>5. OneDeleter => TabJobs(t)'
        BY <3>1, <3>2, <3>4 DEF TabJobs, Held, Deleted
      <3> QED BY <1>1, <3>1, <3>2, <3>3, <3>5 DEF Own, OwnJobs
    <2> QED BY <1>6, <2>1, <2>2
  <1>12. JobsContext
    BY <1>4, <1>8 DEF JobsContext, Held, Deleted
  <1>13. ASSUME OneDeleter PROVE Charges'
    <2>1. \A d \in Customers : OpenSessions(d)' = OpenSessions(d)
      BY <1>4 DEF OpenSessions
    <2>2. \A d \in Customers : Chargeable(d)' => Chargeable(d)
      <3>1. TAKE d \in Customers
      <3>2. CASE Known(d)
        BY <1>8, <2>1, <3>2 DEF Chargeable
      <3>3. CASE ~Known(d)
        <4>1. customer'[d].plan = "live" => customer[d].plan = "live"
          BY <1>5, <1>7, <1>2, <3>3
        <4> QED BY <2>1, <4>1 DEF Chargeable
      <3> QED BY <3>2, <3>3
    <2>3. \A d \in Customers : Deleted(d)' => Deleted(d)
      BY <1>7, <1>8 DEF Deleted, Known
    <2> QED BY <1>4, <1>13, <2>2, <2>3 DEF DeletionInv, JobsInv, Charges
  <1>14. Types'
    BY <1>4, <1>6, <1>8, <1>11 DEF DeletionInv, LiveInv, Types, RowTypes
  <1>15. \A d \in Actors \ {t} : Same(d) /\ SameJobs(d)
    BY <1>4, <1>11 DEF Same, SameJobs
  <1> QED BY <1>1, <1>9, <1>10, <1>11, <1>12, <1>13, <1>14, <1>15, LockStep, Closing

\* The first customer of an account stays, and it is the account's.
LEMMA StoreKeepsInv ==
  ASSUME DeletionInv, NEW t \in Tabs, SetStripeCustomer(t)
  PROVE  DeletionInv'
  <1> DEFINE c == proc[t].target
             kept == IF stored = NoCustomer THEN c ELSE stored
  <1>1. /\ At(t, "store") /\ ~Locked /\ t \in Actors /\ t \notin Operators
        /\ UNCHANGED <<user, born, status, job, stripeVars>>
        /\ slips' \in Nat
    BY SlipsAreNat, ActorsAssumption DEF SetStripeCustomer, Actors, ActorsAssumption
  <1>2. /\ customer' = customer /\ session' = session /\ key' = key
    BY <1>1 DEF stripeVars
  <1>3. Types /\ TabInv(t) /\ Ids
    BY DEF DeletionInv, LiveInv
  <1>4. Known(c) /\ customer[c].of = proc[t].user
    BY <1>1, <1>3 DEF TabInv, At
  <1>5. /\ stored' = stored \/ (stored = NoCustomer /\ stored' = c /\ customer[c].of = user)
        /\ \/ stored' = kept /\ Linked(t, kept) /\ customer[c].of = user
           \/ Goto(t, "owner")
    BY <1>4 DEF SetStripeCustomer, HasAccount
  <1>6. RowTypes'
    BY <1>1, <1>3, <1>4, <1>5 DEF Types, RowTypes, Known
  <1>7. StripeTypes'
    BY <1>2, <1>3 DEF Types, StripeTypes, CustomerType, SessionType
  <1>8. ~Spared(c) \/ stored' = stored
    BY <1>5 DEF Spared
  <1>9. Ids'
    <2>1. stored' # NoCustomer => customer[stored'].state = "live" /\ customer[stored'].of = user
      <3>1. CASE stored' = stored
        BY <1>3, <3>1 DEF Ids
      <3>2. CASE stored' = c /\ stored' # stored
        <4>1. ~Deleted(c) /\ customer[c].of = user
          BY <1>3, <1>4, <1>5, <1>8, <3>2 DEF Ids, Known
        <4>2. customer[c].state \in {"absent", "live", "deleted"}
          BY <1>3, <1>4 DEF Types, StripeTypes, CustomerType, Known
        <4> QED BY <1>4, <3>2, <4>1, <4>2 DEF Known, Deleted
      <3> QED BY <1>5, <3>1, <3>2
    <2>2. \A d \in Customers : Deleted(d) =>
            customer[d].of # user \/ (stored' # NoCustomer /\ stored' # d)
      BY <1>3, <1>5 DEF Ids, Spared
    <2>3. user = Nobody => stored' = NoCustomer
      <3>1. customer[c].of # Nobody
        BY <1>3, <1>4 DEF Ids, Types, RowTypes, Nobody, Known
      <3> QED BY <1>3, <1>5, <3>1 DEF Ids
    <2> QED BY <1>1, <1>2, <1>3, <2>1, <2>2, <2>3 DEF Ids, Known, Deleted, Spared
  <1>10. Context
    <2>1. \A d \in Customers : Spared(d) => Spared(d)'
      BY <1>1, <1>2, <1>5 DEF Spared
    <2> QED BY <1>1, <1>2, <1>3, <2>1, BoundsAreNat
            DEF Types, RowTypes, Context, Known, Deleted
  <1>11. JobsContext
    BY <1>1, <1>2, <1>5, NobodyIsNobody DEF JobsContext, Held, Deleted, Known
  <1>12. ASSUME OneDeleter PROVE Charges'
    BY <1>1, <1>2, <1>5, <1>12, NobodyIsNobody
       DEF DeletionInv, JobsInv, Charges, Chargeable, OpenSessions, Deleted
  <1>13. \A d \in Actors : proc'[d] = proc[d] => Same(d) /\ SameJobs(d)
    BY <1>1 DEF Same, SameJobs, Locked
  <1>14. /\ proc[t] \in ProcType /\ kept \in Customers
    BY <1>3, <1>4, <1>1 DEF Types, RowTypes, Known
  <1>15. /\ proc' \in [Actors -> ProcType]
         /\ \A d \in Actors \ {t} : proc'[d] = proc[d]
         /\ TabInv(t)' /\ proc'[t].at # "delete"
         /\ OneDeleter => TabJobs(t)'
    <2>1. CASE Goto(t, "owner")
      <3>1. "owner" \in Steps
        BY DEF Steps
      <3>2. /\ proc' \in [Actors -> ProcType]
            /\ \A d \in Actors \ {t} : proc'[d] = proc[d]
            /\ proc'[t].at = "owner" /\ proc'[t].target = c /\ proc'[t].next = proc[t].next
            /\ proc'[t].user = proc[t].user
        BY <1>1, <2>1, <3>1, GotoStep
      <3>3. TabInv(t)'
        BY <1>2, <1>4, <3>2 DEF TabInv, At, Known, Neutralizing
      <3>4. ASSUME OneDeleter, proc[t].next # NoCustomer PROVE Held(proc[t].next)'
        <4>1. TabJobs(t) /\ proc[t].next \in Customers
          BY <1>14, <3>4 DEF DeletionInv, JobsInv, ProcType
        <4>2. Held(proc[t].next) /\ Known(proc[t].next)
          BY <3>4, <4>1, NamesKnown DEF TabJobs
        <4> QED BY <1>11, <3>2, <4>1, <4>2 DEF JobsContext, Held, Deleted
      <3>5. OneDeleter => TabJobs(t)'
        BY <3>2, <3>4 DEF TabJobs, Held, Deleted
      <3> QED BY <3>2, <3>3, <3>5
    <2>2. CASE stored' = kept /\ Linked(t, kept) /\ customer[c].of = user
      <3> DEFINE p == [proc[t] EXCEPT !.at = "configure", !.next = kept, !.target = NoCustomer]
                 q == [proc[t] EXCEPT !.at = "list", !.target = c, !.next = kept,
                                      !.rounds = MaxRounds]
      <3>1. CASE kept = c /\ proc' = [proc EXCEPT ![t] = p]
        <4>1. p \in ProcType /\ p.at = "configure" /\ p.next = kept
          BY <1>14 DEF ProcType, Steps
        <4> HIDE DEF p, kept
        <4>2. /\ proc' \in [Actors -> ProcType]
              /\ \A d \in Actors \ {t} : proc'[d] = proc[d]
              /\ proc'[t] = p
          BY <1>1, <3>1, <4>1, ProcStep
        <4>3. TabInv(t)' /\ TabJobs(t)'
          BY <1>14, <2>2, <4>1, <4>2 DEF TabInv, TabJobs, Held, At, Neutralizing
        <4> QED BY <4>1, <4>2, <4>3
      <3>2. CASE kept # c /\ proc' = [proc EXCEPT ![t] = q]
        <4>1. q \in ProcType /\ q.at = "list" /\ q.next = kept /\ q.target = c
          <5>1. "list" \in Steps /\ c \in Customers /\ MaxRounds \in 0..MaxRounds
            BY <1>4, BoundsAreNat DEF Steps, Neutralizing, Known
          <5> HIDE DEF kept, c
          <5> QED BY <1>14, <5>1 DEF ProcType
        <4>2. stored' # NoCustomer /\ stored' # c
          BY <1>14, <2>2, <3>2, NobodyIsNobody
        <4> HIDE DEF q, kept
        <4>3. /\ proc' \in [Actors -> ProcType]
              /\ \A d \in Actors \ {t} : proc'[d] = proc[d]
              /\ proc'[t] = q
          BY <1>1, <3>2, <4>1, ProcStep
        <4>4. TabInv(t)' /\ TabJobs(t)'
          BY <1>2, <1>4, <2>2, <4>1, <4>2, <4>3
             DEF TabInv, TabJobs, Held, At, Neutralizing, Known, Spared
        <4> QED BY <4>1, <4>3, <4>4
      <3> QED BY <2>2, <3>1, <3>2 DEF Linked, Neutralize
    <2> QED BY <1>5, <2>1, <2>2
  <1>16. Types'
    BY <1>1, <1>6, <1>7, <1>15 DEF Types
  <1> QED BY <1>1, <1>9, <1>10, <1>11, <1>12, <1>13, <1>15, <1>16, LockStep, Closing
             DEF Own, OwnJobs

\* Steps of a checkout that read, and go on, neutralize the candidate, or end.
LEMMA TabFacts ==
  ASSUME DeletionInv, NEW t \in Tabs
  PROVE  /\ t \in Actors /\ t \notin Operators /\ proc[t] \in ProcType
         /\ Types /\ Ids /\ TabInv(t)
         /\ OneDeleter => TabJobs(t)
  BY ActorsAssumption DEF ActorsAssumption, Actors, DeletionInv, LiveInv, JobsInv, Types

LEMMA TabGoes ==
  ASSUME DeletionInv, UNCHANGED <<rowVars, stripeVars>>, slips' \in Nat, NEW t \in Tabs,
         NEW step \in Steps \ {"delete"}, Goto(t, step),
         step \notin Neutralizing \cup {"create", "store", "owner"},
         step = "compare" => At(t, "owner"),
         step \in {"configure", "session"} => proc[t].next \in Customers
  PROVE  DeletionInv'
  <1>1. /\ proc' \in [Actors -> ProcType]
        /\ \A d \in Actors \ {t} : proc'[d] = proc[d]
        /\ proc'[t].at = step /\ proc'[t].target = proc[t].target
        /\ proc'[t].next = proc[t].next /\ proc'[t].user = proc[t].user
    BY TabFacts, GotoStep
  <1>2. customer' = customer /\ stored' = stored /\ job' = job
    BY StayingPut
  <1>3. TabInv(t)'
    BY <1>1, <1>2, TabFacts DEF TabInv, At, Known
  <1>4. OneDeleter => TabJobs(t)'
    BY <1>1, <1>2, TabFacts DEF TabJobs, Held, Deleted
  <1> QED BY <1>1, <1>3, <1>4, TabFacts, ActorKeepsInv DEF Own, OwnJobs

LEMMA TabEnds ==
  ASSUME DeletionInv, UNCHANGED <<rowVars, stripeVars>>, slips' \in Nat, NEW t \in Tabs, End(t)
  PROVE  DeletionInv'
  BY TabFacts, EndStep, ActorKeepsInv

\* The candidate of a tab is neutralized when it is spared.
LEMMA TabNeutralizes ==
  ASSUME DeletionInv, UNCHANGED <<rowVars, stripeVars>>, slips' \in Nat, NEW t \in Tabs,
         proc[t].at \in {"store", "owner", "compare"}, Spared(proc[t].target),
         Neutralize(t, proc[t].target, NoCustomer)
  PROVE  DeletionInv'
  <1> DEFINE c == proc[t].target
             q == [proc[t] EXCEPT !.at = "list", !.target = c, !.next = NoCustomer,
                                  !.rounds = MaxRounds]
  <1>1. Known(c) /\ Spared(c) /\ proc' = [proc EXCEPT ![t] = q]
    BY TabFacts DEF TabInv, Neutralize
  <1>2. q \in ProcType /\ q.at = "list" /\ q.next = NoCustomer /\ q.target = c
    <2>1. "list" \in Steps /\ c \in Customers /\ MaxRounds \in 0..MaxRounds
      BY <1>1, BoundsAreNat DEF Steps, Neutralizing, Known
    <2> HIDE DEF c
    <2> QED BY <2>1, TabFacts DEF ProcType
  <1> HIDE DEF q
  <1>3. /\ proc' \in [Actors -> ProcType]
        /\ \A d \in Actors \ {t} : proc'[d] = proc[d]
        /\ proc'[t] = q
    BY <1>1, <1>2, TabFacts, ProcStep
  <1>4. customer' = customer /\ stored' = stored /\ user' = user
    BY StayingPut
  <1>5. TabInv(t)'
    BY <1>1, <1>2, <1>3, <1>4 DEF TabInv, At, Known, Spared, Neutralizing
  <1>6. TabJobs(t)' /\ proc'[t].at # "delete"
    BY <1>2, <1>3 DEF TabJobs
  <1> QED BY <1>3, <1>5, <1>6, TabFacts, ActorKeepsInv DEF Own, OwnJobs

LEMMA ReadingKeepsInv ==
  ASSUME DeletionInv, NEW t \in Tabs,
         UserByID(t) \/ CompareStored(t) \/ ConfigureCustomer(t) \/ CheckoutStops(t)
  PROVE  DeletionInv'
  <1>1. UNCHANGED <<rowVars, stripeVars>> /\ slips' \in Nat
    BY SlipsAreNat DEF UserByID, CompareStored, ConfigureCustomer, CheckoutStops
  <1>2. CASE UserByID(t)
    <2>1. CASE proc[t].user = user
      <3>1. At(t, "owner") /\ Goto(t, "compare") /\ "compare" \in Steps
        BY <1>2, <2>1 DEF UserByID, Steps
      <3>2. "compare" \notin Neutralizing
        BY DEF Neutralizing
      <3> QED BY <1>1, <3>1, <3>2, TabGoes
    <2>2. CASE proc[t].user # user
      <3>1. At(t, "owner") /\ Neutralize(t, proc[t].target, NoCustomer)
        BY <1>2, <2>2 DEF UserByID
      <3>2. Spared(proc[t].target)
        BY <2>2, <3>1, TabFacts DEF TabInv, At, Spared
      <3> QED BY <1>1, <3>1, <3>2, TabNeutralizes DEF At
    <2> QED BY <2>1, <2>2
  <1>3. CASE CompareStored(t)
    <2>1. CASE End(t)
      BY <1>1, <2>1, TabEnds
    <2>2. CASE ~End(t)
      <3>1. At(t, "compare") /\ Neutralize(t, proc[t].target, NoCustomer)
            /\ stored # NoCustomer /\ stored # proc[t].target
        BY <1>3, <2>2 DEF CompareStored
      <3> QED BY <1>1, <3>1, TabNeutralizes DEF At, Spared
    <2> QED BY <2>1, <2>2
  <1>4. CASE ConfigureCustomer(t)
    <2>1. CASE End(t)
      BY <1>1, <2>1, TabEnds
    <2>2. CASE Goto(t, "session")
      <3>1. "session" \in Steps /\ "session" \notin Neutralizing
        BY DEF Steps, Neutralizing
      <3>2. proc[t].next \in Customers
        BY <1>4, TabFacts DEF ConfigureCustomer, TabInv, At
      <3> QED BY <1>1, <2>2, <3>1, <3>2, TabGoes
    <2> QED BY <1>4, <2>1, <2>2 DEF ConfigureCustomer
  <1>5. CASE CheckoutStops(t)
    BY <1>1, <1>5, TabEnds DEF CheckoutStops
  <1> QED BY <1>2, <1>3, <1>4, <1>5

\* A session is only opened for a customer that is held.
LEMMA OpenKeepsInv ==
  ASSUME DeletionInv, NEW t \in Tabs, NEW s \in Sessions, OpenCheckoutSession(t, s)
  PROVE  DeletionInv'
  <1> DEFINE c == proc[t].next
  <1>1. /\ At(t, "session") /\ End(t) /\ UNCHANGED <<rowVars, customer, key, slips>>
        /\ session' = IF customer[c].state = "live"
                      THEN [session EXCEPT ![s] = [of |-> c, state |-> "open"]]
                      ELSE session
    BY DEF OpenCheckoutSession
  <1>2. c \in Customers
    BY <1>1, TabFacts DEF TabInv, At
  <1>3. /\ customer \in [Customers -> CustomerType] /\ session \in [Sessions -> SessionType]
    BY DEF DeletionInv, LiveInv, Types, StripeTypes
  <1>4. session' \in [Sessions -> SessionType]
    BY <1>1, <1>2, <1>3 DEF SessionType
  <1>5. /\ RowTypes' /\ StripeTypes' /\ Ids' /\ Context /\ JobsContext
        /\ \A d \in Actors : proc'[d] = proc[d] => Same(d) /\ SameJobs(d)
    BY <1>1, <1>3, <1>4, StripeKeeps DEF Known, Deleted
  <1>6. /\ proc' \in [Actors -> ProcType]
        /\ \A d \in Actors \ {t} : proc'[d] = proc[d]
        /\ Own(t)' /\ OwnJobs(t)' /\ proc'[t].at # "delete"
    BY <1>1, TabFacts, EndStep
  <1>7. Types'
    BY <1>1, <1>5, <1>6 DEF DeletionInv, LiveInv, Types
  <1>8. ASSUME OneDeleter PROVE Charges'
    <2>1. user' = user /\ stored' = stored /\ job' = job /\ customer' = customer
      BY <1>1 DEF rowVars
    <2>2. Charges /\ Held(c)
      BY <1>2, <1>8, TabFacts, NobodyIsNobody DEF DeletionInv, JobsInv, TabJobs
    <2>3. ASSUME NEW d \in Customers, Chargeable(d)' PROVE d \in {stored, job} /\ ~Deleted(d)
      <3>1. CASE Chargeable(d)
        BY <2>2, <3>1 DEF Charges
      <3>2. CASE ~Chargeable(d)
        <4>1. d = c /\ customer[c].state = "live"
          BY <1>1, <1>3, <2>1, <2>3, <3>2 DEF Chargeable, OpenSessions, SessionType
        <4> QED BY <2>2, <4>1 DEF Held, Deleted
      <3> QED BY <3>1, <3>2
    <2> QED BY <2>1, <2>3 DEF Charges, Deleted
  <1> QED BY <1>5, <1>6, <1>7, <1>8, TabFacts, LockStep, Closing

-----------------------------------------------------------------------------
(* Commands.                                                               *)

LEMMA CommandFacts ==
  ASSUME DeletionInv, NEW o \in Operators
  PROVE  /\ o \in Actors /\ o \notin Tabs /\ proc[o] \in ProcType
         /\ Types /\ Ids /\ CommandInv(o)
         /\ OneDeleter => CommandJobs(o)
  BY ActorsAssumption DEF ActorsAssumption, Actors, DeletionInv, LiveInv, JobsInv, Types

\* A command that reads, and goes on with what it knows.
LEMMA CommandKeepsInv ==
  ASSUME DeletionInv, UNCHANGED <<rowVars, stripeVars>>, slips' \in Nat, NEW o \in Operators,
         NEW p \in ProcType, proc' = [proc EXCEPT ![o] = p],
         p.at = "delete" => ~Locked /\ p.target = stored /\ user # Nobody,
         p.at = "exists" => Known(p.target),
         p.at \in CleaningUp => Known(p.target) /\ customer[p.target].of # user,
         OneDeleter =>
           /\ p.at \in {"begin", "delete"} => o \in Deleters /\ job = NoCustomer
           /\ p.at \in CleaningUp => job = p.target \/ Deleted(p.target)
           /\ p.at # "finish"
  PROVE  DeletionInv'
  <1>1. /\ proc' \in [Actors -> ProcType]
        /\ \A d \in Actors \ {o} : proc'[d] = proc[d]
        /\ proc'[o] = p
    BY CommandFacts, ProcStep
  <1>2. customer' = customer /\ stored' = stored /\ user' = user /\ job' = job
    BY StayingPut
  <1>3. CommandInv(o)'
    BY <1>1, <1>2 DEF CommandInv, At, Known
  <1>4. OneDeleter => CommandJobs(o)'
    BY <1>1, <1>2 DEF CommandJobs, At, Deleted
  <1> QED BY <1>1, <1>3, <1>4, CommandFacts, ActorKeepsInv DEF Own, OwnJobs

LEMMA CommandEnds ==
  ASSUME DeletionInv, UNCHANGED <<rowVars, stripeVars>>, slips' \in Nat, NEW o \in Operators,
         End(o) \/ proc' = [proc EXCEPT ![o] = Done]
  PROVE  DeletionInv'
  BY CommandFacts, EndStep, ActorKeepsInv

LEMMA RecheckNext ==
  ASSUME DeletionInv, UNCHANGED <<rowVars, stripeVars>>, slips' \in Nat, NEW o \in Operators,
         proc[o].at \in CleaningUp, Goto(o, "recheck")
  PROVE  DeletionInv'
  <1> DEFINE p == [proc[o] EXCEPT !.at = "recheck"]
  <1>1. /\ p \in ProcType /\ p.at = "recheck" /\ p.target = proc[o].target
    BY CommandFacts DEF ProcType, Steps
  <1>2. proc' = [proc EXCEPT ![o] = p]
    BY DEF Goto
  <1>3. /\ Known(proc[o].target) /\ customer[proc[o].target].of # user
        /\ OneDeleter => job = proc[o].target \/ Deleted(proc[o].target)
    BY CommandFacts DEF CommandInv, CommandJobs
  <1> HIDE DEF p
  <1> QED BY <1>1, <1>2, <1>3, CommandKeepsInv

LEMMA BeginDeleteKeepsInv ==
  ASSUME DeletionInv, NEW o \in Operators, BeginDelete(o)
  PROVE  DeletionInv'
  <1> DEFINE p == [Idle EXCEPT !.at = "begin"]
  <1>1. /\ UNCHANGED <<rowVars, stripeVars>> /\ slips' \in Nat
        /\ o \in Deleters /\ job = NoCustomer /\ proc' = [proc EXCEPT ![o] = p]
    BY SlipsAreNat DEF BeginDelete
  <1>2. p \in ProcType /\ p.at = "begin"
    BY BoundsAreNat DEF Idle, ProcType, Steps
  <1> HIDE DEF p
  <1> QED BY <1>1, <1>2, CommandKeepsInv DEF CleaningUp, Neutralizing

LEMMA LockKeepsInv ==
  ASSUME DeletionInv, NEW o \in Operators, NEW verified, LockAccount(o, verified)
  PROVE  DeletionInv'
  <1> DEFINE p == [proc[o] EXCEPT !.at = "delete", !.target = stored]
  <1>1. /\ UNCHANGED <<rowVars, stripeVars>> /\ slips' \in Nat
        /\ At(o, "begin") /\ ~Locked
        /\ End(o) \/ (user # Nobody /\ proc' = [proc EXCEPT ![o] = p])
    BY SlipsAreNat DEF LockAccount
  <1>2. p \in ProcType /\ p.at = "delete" /\ p.target = stored
    BY CommandFacts DEF ProcType, Steps, Types, RowTypes
  <1>3. OneDeleter => o \in Deleters /\ job = NoCustomer
    BY <1>1, CommandFacts DEF CommandJobs, At
  <1> HIDE DEF p
  <1>4. CASE End(o)
    BY <1>1, <1>4, CommandEnds
  <1>5. CASE user # Nobody /\ proc' = [proc EXCEPT ![o] = p]
    BY <1>1, <1>2, <1>3, <1>5, CommandKeepsInv DEF CleaningUp, Neutralizing
  <1> QED BY <1>1, <1>4, <1>5

LEMMA BeginCleanupKeepsInv ==
  ASSUME DeletionInv, NEW o \in Operators, NEW c \in Customers, BeginCleanup(o, c)
  PROVE  DeletionInv'
  <1> DEFINE p == [Idle EXCEPT !.at = "exists", !.target = c]
  <1>1. /\ UNCHANGED <<rowVars, stripeVars>> /\ slips' \in Nat
        /\ Known(c) /\ proc' = [proc EXCEPT ![o] = p]
    BY SlipsAreNat DEF BeginCleanup, Known
  <1>2. p \in ProcType /\ p.at = "exists" /\ p.target = c
    BY IdleIsTyped DEF ProcType, Steps
  <1> HIDE DEF p
  <1> QED BY <1>1, <1>2, CommandKeepsInv DEF CleaningUp, Neutralizing

LEMMA JobExistsKeepsInv ==
  ASSUME DeletionInv, NEW o \in Operators, JobExists(o)
  PROVE  DeletionInv'
  <1> DEFINE p == [proc[o] EXCEPT !.at = "list", !.target = job, !.next = NoCustomer,
                                  !.rounds = MaxRounds]
  <1>1. /\ UNCHANGED <<rowVars, stripeVars>> /\ slips' \in Nat /\ At(o, "exists")
        /\ End(o) \/ (job = proc[o].target /\ proc' = [proc EXCEPT ![o] = p])
    BY SlipsAreNat DEF JobExists, Neutralize
  <1>2. p \in ProcType /\ p.at = "list" /\ p.target = job
    <2>1. "list" \in Steps /\ MaxRounds \in 0..MaxRounds /\ job \in Customers \cup {NoCustomer}
      BY CommandFacts, BoundsAreNat DEF Steps, Neutralizing, Types, RowTypes
    <2> QED BY <2>1, CommandFacts DEF ProcType
  <1> HIDE DEF p
  <1>3. CASE End(o)
    BY <1>1, <1>3, CommandEnds
  <1>4. CASE job = proc[o].target /\ proc' = [proc EXCEPT ![o] = p]
    <2>1. Known(job) /\ customer[job].of # user
      <3>1. Known(proc[o].target)
        BY <1>1, CommandFacts DEF CommandInv
      <3> QED BY <1>4, <3>1, CommandFacts, NobodyIsNobody DEF Ids, Known
    <2> QED BY <1>1, <1>2, <1>4, <2>1, CommandKeepsInv
  <1> QED BY <1>1, <1>3, <1>4

LEMMA EndingKeepsInv ==
  ASSUME DeletionInv, NEW o \in Operators, RecordFailure(o) \/ Recheck(o) \/ CommandStops(o)
  PROVE  DeletionInv'
  <1>1. UNCHANGED <<rowVars, stripeVars>> /\ slips' \in Nat
    BY SlipsAreNat DEF RecordFailure, Recheck, CommandStops
  <1>2. \/ End(o)
        \/ proc' = [proc EXCEPT ![o] = Done]
        \/ proc[o].at \in CleaningUp /\ Goto(o, "recheck")
    BY DEF RecordFailure, Recheck, CommandStops, At, CleaningUp, End
  <1> QED BY <1>1, <1>2, CommandEnds, RecheckNext

\* The job and the deletion are one transaction.
LEMMA DeleteKeepsInv ==
  ASSUME DeletionInv, NEW o \in Operators, DeleteAccount(o)
  PROVE  DeletionInv'
  <1> DEFINE c == proc[o].target
  <1>1. /\ At(o, "delete") /\ user' = Nobody /\ stored' = NoCustomer /\ status' = "none"
        /\ job' = IF c = NoCustomer THEN job ELSE c
        /\ UNCHANGED <<born, stripeVars, slips>>
        /\ \/ c = NoCustomer /\ proc' = [proc EXCEPT ![o] = Done]
           \/ c # NoCustomer /\ Goto(o, "exists")
    BY DEF DeleteAccount
  <1>2. born' = born /\ customer' = customer /\ session' = session /\ key' = key /\ slips' = slips
    BY <1>1 DEF stripeVars
  <1>3. Types /\ Ids /\ c = stored /\ user # Nobody
    BY <1>1, CommandFacts DEF CommandInv
  <1>4. \A d \in Customers : Known(d) => customer[d].of # Nobody
    BY <1>3 DEF Ids, Types, RowTypes, Nobody
  <1>5. c # NoCustomer => Known(c)
    BY <1>3 DEF Ids, Known, Types, RowTypes
  <1>6. RowTypes' /\ StripeTypes'
    BY <1>1, <1>2, <1>3 DEF Types, RowTypes, StripeTypes, CustomerType, SessionType
  <1>7. Context
    BY <1>1, <1>2, <1>3, <1>4, BoundsAreNat
       DEF Types, RowTypes, Context, Known, Deleted, Spared
  <1>8. Ids'
    <2>1. job' # NoCustomer => /\ job' \in Customers /\ customer[job'].state # "absent"
                               /\ customer[job'].of # Nobody
      <3>1. job # NoCustomer => Known(job)
        BY <1>3 DEF Ids
      <3>2. job' = job \/ (job' = c /\ c # NoCustomer)
        BY <1>1
      <3>3. ASSUME NEW d, Known(d)
            PROVE  d \in Customers /\ customer[d].state # "absent" /\ customer[d].of # Nobody
        BY <1>4, <3>3 DEF Known
      <3> QED BY <1>5, <3>1, <3>2, <3>3
    <2>2. \A d \in Customers : Deleted(d) => customer[d].of # Nobody
      BY <1>4 DEF Known, Deleted
    <2>3. user' <= born
      BY <1>1, <1>3, BoundsAreNat DEF Types, RowTypes, Nobody
    <2> QED BY <1>1, <1>2, <1>3, <2>1, <2>2, <2>3 DEF Ids, Known, Deleted, Spared
  <1>9. /\ proc' \in [Actors -> ProcType]
        /\ \A d \in Actors \ {o} : proc'[d] = proc[d]
        /\ Own(o)' /\ OwnJobs(o)' /\ proc'[o].at # "delete"
    <2>1. CASE proc' = [proc EXCEPT ![o] = Done]
      BY <2>1, CommandFacts, EndStep
    <2>2. CASE c # NoCustomer /\ Goto(o, "exists")
      <3>1. "exists" \in Steps /\ "exists" \notin CleaningUp
        BY DEF Steps, CleaningUp, Neutralizing
      <3>2. /\ proc' \in [Actors -> ProcType]
            /\ \A d \in Actors \ {o} : proc'[d] = proc[d]
            /\ proc'[o].at = "exists" /\ proc'[o].target = c
        BY <2>2, <3>1, CommandFacts, GotoStep
      <3>3. CommandInv(o)'
        BY <1>2, <1>5, <2>2, <3>1, <3>2 DEF CommandInv, At, Known
      <3>4. CommandJobs(o)'
        BY <3>1, <3>2 DEF CommandJobs, At
      <3> QED BY <3>2, <3>3, <3>4, CommandFacts DEF Own, OwnJobs
    <2> QED BY <1>1, <2>1, <2>2
  <1>10. Types'
    BY <1>2, <1>3, <1>6, <1>9 DEF Types
  <1>11. ASSUME NEW d \in Actors \ {o} PROVE Same(d)
    BY <1>1, <1>9 DEF Same, DeletionInv, LiveInv, OneLock
  <1>12. ASSUME OneDeleter
         PROVE  /\ Charges' /\ JobsContext
                /\ \A d \in Actors \ {o} : SameJobs(d)
    <2>1. o \in Deleters /\ job = NoCustomer
      BY <1>1, <1>12, CommandFacts DEF CommandJobs, At
    <2>2. JobsContext
      BY <1>1, <1>2, <1>3, <2>1, NobodyIsNobody DEF JobsContext, Held, Deleted
    <2>3. ASSUME NEW d \in Actors \ {o}, d \in Operators, proc[d].at \in {"begin", "delete"}
          PROVE  FALSE
      <3>1. d \in Deleters
        BY <1>12, <2>3, CommandFacts DEF CommandJobs
      <3> QED BY <1>12, <2>1, <2>3, <3>1 DEF OneDeleter
    <2>4. Charges'
      BY <1>1, <1>2, <1>3, <1>12, <2>1, NobodyIsNobody
         DEF DeletionInv, JobsInv, Charges, Chargeable, OpenSessions, Deleted
    <2> QED BY <1>9, <2>2, <2>3, <2>4 DEF SameJobs
  <1> QED BY <1>7, <1>8, <1>9, <1>10, <1>11, <1>12, CommandFacts, LockStep, Closing

\* A job goes when its customer has.
LEMMA DeleteJobKeepsInv ==
  ASSUME DeletionInv, NEW o \in Operators, DeleteJob(o)
  PROVE  DeletionInv'
  <1> DEFINE c == proc[o].target
  <1>1. /\ At(o, "finish") /\ job' = IF job = c THEN NoCustomer ELSE job
        /\ UNCHANGED <<user, born, stored, status, stripeVars>>
        /\ proc' = [proc EXCEPT ![o] = Done] \/ Goto(o, "recheck")
        /\ slips' \in Nat
    BY SlipsAreNat DEF DeleteJob
  <1>2. customer' = customer /\ session' = session /\ key' = key
    BY <1>1 DEF stripeVars
  <1>3. Types /\ Ids /\ Known(c) /\ customer[c].of # user
    BY <1>1, CommandFacts DEF CommandInv, At, CleaningUp
  <1>4. OneDeleter => Deleted(c)
    BY <1>1, CommandFacts DEF CommandJobs
  <1>5. RowTypes' /\ StripeTypes'
    BY <1>1, <1>2, <1>3 DEF Types, RowTypes, StripeTypes, CustomerType, SessionType
  <1>6. Context
    BY <1>1, <1>2, <1>3, BoundsAreNat DEF Types, RowTypes, Context, Known, Deleted, Spared
  <1>7. Ids'
    BY <1>1, <1>2, <1>3 DEF Ids, Known, Deleted, Spared
  <1>8. /\ proc' \in [Actors -> ProcType]
        /\ \A d \in Actors \ {o} : proc'[d] = proc[d]
        /\ Own(o)' /\ (OneDeleter => OwnJobs(o)') /\ proc'[o].at # "delete"
    <2>1. CASE proc' = [proc EXCEPT ![o] = Done]
      BY <2>1, CommandFacts, EndStep
    <2>2. CASE Goto(o, "recheck")
      <3>1. "recheck" \in Steps
        BY DEF Steps
      <3>2. /\ proc' \in [Actors -> ProcType]
            /\ \A d \in Actors \ {o} : proc'[d] = proc[d]
            /\ proc'[o].at = "recheck" /\ proc'[o].target = c
        BY <2>2, <3>1, CommandFacts, GotoStep
      <3>3. CommandInv(o)'
        BY <1>1, <1>2, <1>3, <3>2 DEF CommandInv, At, Known
      <3>4. OneDeleter => CommandJobs(o)'
        BY <1>2, <1>4, <3>2 DEF CommandJobs, At, Deleted
      <3> QED BY <3>2, <3>3, <3>4, CommandFacts DEF Own, OwnJobs
    <2> QED BY <1>1, <2>1, <2>2
  <1>9. Types'
    BY <1>1, <1>5, <1>8 DEF Types
  <1>10. ASSUME NEW d \in Actors \ {o} PROVE Same(d)
    BY <1>1, <1>8 DEF Same
  <1>11. ASSUME OneDeleter
         PROVE  /\ Charges' /\ JobsContext
                /\ \A d \in Actors \ {o} : SameJobs(d)
    <2>1. Deleted(c)
      BY <1>4, <1>11
    <2>2. JobsContext
      BY <1>1, <1>2, <2>1 DEF JobsContext, Held, Deleted
    <2>3. ASSUME NEW d \in Actors \ {o}, d \in Operators, proc[d].at \in {"begin", "delete"}
          PROVE  job' = job
      <3>1. job = NoCustomer
        BY <1>11, <2>3, CommandFacts DEF CommandJobs
      <3> QED BY <1>1, <3>1
    <2>4. Charges'
      BY <1>1, <1>2, <1>11, <2>1
         DEF DeletionInv, JobsInv, Charges, Chargeable, OpenSessions, Deleted
    <2> QED BY <1>8, <2>2, <2>3, <2>4 DEF SameJobs
  <1> QED BY <1>6, <1>7, <1>8, <1>9, <1>10, <1>11, CommandFacts, LockStep, Closing

-----------------------------------------------------------------------------
(* The owner of the account, and Stripe.                                   *)

\* A step of Stripe.
LEMMA StripeMovesKeepInv ==
  ASSUME DeletionInv, UNCHANGED <<rowVars, key, proc, slips>>,
         customer' \in [Customers -> CustomerType], session' \in [Sessions -> SessionType],
         \A c \in Customers : /\ customer'[c].of = customer[c].of
                              /\ customer'[c].state = customer[c].state
                              /\ Chargeable(c)' => Chargeable(c)
  PROVE  DeletionInv'
  <1>1. /\ RowTypes' /\ StripeTypes' /\ Ids' /\ Context /\ JobsContext
        /\ \A d \in Actors : Same(d) /\ SameJobs(d)
    BY StripeKeeps DEF Known, Deleted
  <1>2. Types' /\ OneLock'
    BY <1>1 DEF DeletionInv, LiveInv, Types, OneLock, At
  <1>3. ASSUME OneDeleter PROVE Charges'
    BY <1>3 DEF DeletionInv, JobsInv, Charges, Deleted, rowVars
  <1> QED BY <1>1, <1>2, <1>3, Closing

LEMMA StripeTyped ==
  ASSUME DeletionInv
  PROVE  customer \in [Customers -> CustomerType] /\ session \in [Sessions -> SessionType]
  BY DEF DeletionInv, LiveInv, Types, StripeTypes

LEMMA PayKeepsInv ==
  ASSUME DeletionInv, NEW s \in Sessions, PaySession(s)
  PROVE  DeletionInv'
  <1> DEFINE c == session[s].of
  <1>1. /\ session[s].state = "open" /\ session' = [session EXCEPT ![s].state = "paid"]
        /\ customer' = [customer EXCEPT ![c].plan = "live"]
        /\ UNCHANGED <<rowVars, key, proc, slips>>
    BY DEF PaySession
  <1>2. /\ customer' \in [Customers -> CustomerType]
        /\ \A d \in Customers : /\ customer'[d].of = customer[d].of
                                /\ customer'[d].state = customer[d].state
                                /\ d # c => customer'[d] = customer[d]
    BY <1>1, StripeTyped DEF CustomerType
  <1>3. session' \in [Sessions -> SessionType]
    BY <1>1, StripeTyped DEF SessionType
  <1>4. ASSUME NEW d \in Customers, Chargeable(d)' PROVE Chargeable(d)
    <2>1. OpenSessions(d)' \subseteq OpenSessions(d)
      BY <1>1, StripeTyped DEF OpenSessions, SessionType
    <2>2. CASE d = c
      <3>1. s \in OpenSessions(d)
        BY <1>1, <2>2, StripeTyped DEF OpenSessions, SessionType
      <3> QED BY <3>1 DEF Chargeable
    <2>3. CASE d # c
      BY <1>2, <1>4, <2>1, <2>3 DEF Chargeable
    <2> QED BY <2>2, <2>3
  <1> QED BY <1>1, <1>2, <1>3, <1>4, StripeMovesKeepInv

LEMMA PlanEndsKeepsInv ==
  ASSUME DeletionInv, NEW c \in Customers, SubscriptionEnds(c)
  PROVE  DeletionInv'
  <1>1. /\ customer' = [customer EXCEPT ![c].plan = "ended"]
        /\ UNCHANGED <<rowVars, session, key, proc, slips>>
    BY DEF SubscriptionEnds
  <1>2. /\ customer' \in [Customers -> CustomerType]
        /\ \A d \in Customers : /\ customer'[d].of = customer[d].of
                                /\ customer'[d].state = customer[d].state
                                /\ customer'[d].plan = "live" => customer[d].plan = "live"
    BY <1>1, StripeTyped DEF CustomerType
  <1>3. ASSUME NEW d \in Customers, Chargeable(d)' PROVE Chargeable(d)
    BY <1>1, <1>2, <1>3 DEF Chargeable, OpenSessions
  <1> QED BY <1>1, <1>2, <1>3, StripeTyped, StripeMovesKeepInv

LEMMA SignUpKeepsInv ==
  ASSUME DeletionInv, SignUp
  PROVE  DeletionInv'
  <1>1. /\ user = Nobody /\ born < MaxUsers /\ born' = born + 1 /\ user' = born + 1
        /\ stored' = stored /\ status' = status /\ job' = job /\ proc' = proc /\ slips' = slips
        /\ customer' = customer /\ session' = session /\ key' = key
    BY DEF SignUp, stripeVars
  <1>2. Types /\ Ids /\ born \in Nat
    BY BoundsAreNat DEF DeletionInv, LiveInv, Types, RowTypes
  <1>3. Types'
    BY <1>1, <1>2, BoundsAreNat
       DEF Types, RowTypes, StripeTypes, Users, CustomerType, SessionType, ProcType
  <1>4. \A c \in Customers : Known(c) => customer[c].of # user' /\ customer[c].of \in 1..born'
    BY <1>1, <1>2 DEF Ids
  <1>5. Ids'
    <2>1. stored = NoCustomer
      BY <1>1, <1>2 DEF Ids
    <2>2. user' <= born' /\ user' # Nobody
      BY <1>1, <1>2 DEF Nobody
    <2>3. \A c \in Customers : Deleted(c) => customer[c].of # user'
      BY <1>4 DEF Known, Deleted
    <2> QED BY <1>1, <1>2, <1>4, <2>1, <2>2, <2>3 DEF Ids, Known, Deleted, Spared
  <1>6. Context
    BY <1>1, <1>2, <1>4 DEF Context, Known, Deleted, Spared
  <1>7. JobsContext /\ (OneDeleter => Charges')
    BY <1>1 DEF JobsContext, Held, Deleted, DeletionInv, JobsInv, Charges, Chargeable,
                OpenSessions
  <1>8. \A d \in Actors : Same(d) /\ SameJobs(d)
    BY <1>1, CommandFacts DEF Same, SameJobs, CommandInv
  <1>9. OneLock'
    BY <1>1 DEF DeletionInv, LiveInv, OneLock, At
  <1> QED BY <1>3, <1>5, <1>6, <1>7, <1>8, <1>9, Closing

LEMMA RefreshKeepsInv ==
  ASSUME DeletionInv, RefreshSubscription
  PROVE  DeletionInv'
  <1>1. /\ stored # NoCustomer /\ status' = customer[stored].plan
        /\ user' = user /\ born' = born /\ stored' = stored /\ job' = job /\ proc' = proc
        /\ slips' = slips /\ customer' = customer /\ session' = session /\ key' = key
    BY DEF RefreshSubscription, stripeVars
  <1>2. Types /\ Ids /\ born \in Nat
    BY BoundsAreNat DEF DeletionInv, LiveInv, Types, RowTypes
  <1>3. Known(stored) /\ user # Nobody
    BY <1>1, <1>2 DEF Ids, Known, Types, RowTypes, Nobody
  <1>4. Types'
    BY <1>1, <1>2, <1>3 DEF Types, RowTypes, StripeTypes, CustomerType, SessionType, ProcType,
                            Known
  <1>5. Ids'
    BY <1>1, <1>2, <1>3 DEF Ids, Known, Deleted, Spared
  <1>6. Context
    BY <1>1, <1>2 DEF Context, Known, Deleted, Spared
  <1>7. JobsContext /\ (OneDeleter => Charges')
    BY <1>1 DEF JobsContext, Held, Deleted, DeletionInv, JobsInv, Charges, Chargeable,
                OpenSessions
  <1>8. (\A d \in Actors : Same(d) /\ SameJobs(d)) /\ OneLock'
    BY <1>1 DEF Same, SameJobs, DeletionInv, LiveInv, OneLock, At
  <1> QED BY <1>4, <1>5, <1>6, <1>7, <1>8, Closing

-----------------------------------------------------------------------------
(* The theorems.                                                           *)

LEMMA NeutralizeStepKeepsInv ==
  ASSUME DeletionInv, NEW a \in Actors, NeutralizeStep(a) \/ NeutralizeFails(a)
  PROVE  DeletionInv'
  BY ListKeepsInv, ExpireKeepsInv, DropKeepsInv, NeutralizeFailsKeepsInv DEF NeutralizeStep

LEMMA CheckoutKeepsInv ==
  ASSUME DeletionInv, NEW t \in Tabs, Checkout(t)
  PROVE  DeletionInv'
  BY TabFacts, BeginCheckoutKeepsInv, CreateKeepsInv, StoreKeepsInv, ReadingKeepsInv,
     OpenKeepsInv, NeutralizeStepKeepsInv DEF Checkout

LEMMA CommandStepKeepsInv ==
  ASSUME DeletionInv, NEW o \in Operators, Command(o)
  PROVE  DeletionInv'
  BY CommandFacts, BeginDeleteKeepsInv, LockKeepsInv, DeleteKeepsInv, BeginCleanupKeepsInv,
     JobExistsKeepsInv, NeutralizeStepKeepsInv, EndingKeepsInv, DeleteJobKeepsInv
     DEF Command, DeletionStep, CleanupStep

LEMMA StutterKeepsInv ==
  ASSUME DeletionInv, UNCHANGED vars
  PROVE  DeletionInv'
  <1>1. /\ UNCHANGED <<rowVars, key, proc, slips>> /\ customer' = customer /\ session' = session
    BY DEF vars, stripeVars
  <1>2. \A c \in Customers : Chargeable(c)' => Chargeable(c)
    BY <1>1 DEF Chargeable, OpenSessions
  <1> QED BY <1>1, <1>2, StripeTyped, StripeMovesKeepInv

LEMMA StepInv ==
  ASSUME DeletionInv, [Next]_vars
  PROVE  DeletionInv'
  <1>1. CASE World
    BY <1>1, SignUpKeepsInv, PayKeepsInv, PlanEndsKeepsInv, RefreshKeepsInv DEF World
  <1> QED BY <1>1, CheckoutKeepsInv, CommandStepKeepsInv, StutterKeepsInv DEF Next

LEMMA DeletionInvariant == Spec => []DeletionInv
  <1> QED BY InitInv, StepInv, PTL DEF Spec

\* Every variable keeps its type, and a stored customer is the account's own.
THEOREM DeletionTypes == Spec => []TypeOK
  BY DeletionInvariant, InvTypeOK, PTL

\* The customer of an account that exists is never deleted at Stripe, however
\* many operators delete accounts at once.
THEOREM StoredCustomersLive == Spec => []StoredCustomerLives
  <1>1. DeletionInv => StoredCustomerLives
    BY DEF DeletionInv, LiveInv, Ids, StoredCustomerLives
  <1> QED BY <1>1, DeletionInvariant, PTL

\* With one deleter, whoever could still be charged for an account that is gone
\* is in the job.
THEOREM OrphansKeepJobs == OneDeleter => (Spec => []OrphansHaveJobs)
  <1>1. SUFFICES ASSUME OneDeleter PROVE Spec => []OrphansHaveJobs
    OBVIOUS
  <1>2. ASSUME DeletionInv PROVE OrphansHaveJobs
    <2>1. ASSUME NEW c \in Customers, Chargeable(c), customer[c].of # user PROVE job = c
      <3>1. c = stored \/ c = job
        BY <1>1, <1>2, <2>1 DEF DeletionInv, JobsInv, Charges
      <3> QED BY <1>2, <2>1, <3>1, NobodyIsNobody DEF DeletionInv, LiveInv, Ids
    <2> QED BY <2>1 DEF OrphansHaveJobs
  <1> QED BY <1>2, DeletionInvariant, PTL

\* With one deleter, a job stays until its customer is deleted.
THEOREM JobsOutliveTheirCustomers == OneDeleter => (Spec => JobsLastUntilCleanup)
  <1>1. SUFFICES ASSUME OneDeleter PROVE Spec => JobsLastUntilCleanup
    OBVIOUS
  <1>2. ASSUME DeletionInv, [Next]_vars, job # NoCustomer, job' # job
        PROVE  customer[job].state = "deleted"
    <2>1. \E o \in Operators : DeleteAccount(o) \/ DeleteJob(o)
      <3>1. ~UNCHANGED rowVars
        BY <1>2 DEF rowVars
      <3>2. ASSUME NEW a, NeutralizeStep(a) \/ NeutralizeFails(a) PROVE FALSE
        BY <3>1, <3>2 DEF NeutralizeStep, NeutralizeFails, ListOpenCheckoutSessions,
           ExpireSession, DropCustomer
      <3>3. ASSUME NEW t \in Tabs, Checkout(t) PROVE FALSE
        BY <1>2, <3>1, <3>2, <3>3 DEF Checkout, CreateCheckoutSession, CreateCustomer,
           SetStripeCustomer, UserByID, CompareStored, ConfigureCustomer, OpenCheckoutSession,
           CheckoutStops
      <3>4. CASE World
        BY <1>2, <3>1, <3>4 DEF World, SignUp, PaySession, SubscriptionEnds,
           RefreshSubscription
      <3>5. ASSUME NEW o \in Operators, Command(o) PROVE DeleteAccount(o) \/ DeleteJob(o)
        BY <3>1, <3>2, <3>5 DEF Command, BeginDelete, DeletionStep, LockAccount, BeginCleanup,
           CleanupStep, JobExists, RecordFailure, Recheck, CommandStops
      <3> QED BY <1>2, <3>1, <3>3, <3>4, <3>5 DEF Next, vars
    <2>2. PICK o \in Operators : DeleteAccount(o) \/ DeleteJob(o)
      BY <2>1
    <2>3. CommandJobs(o)
      BY <1>1, <1>2, CommandFacts
    <2>4. ~DeleteAccount(o)
      BY <1>2, <2>3 DEF CommandJobs, DeleteAccount, At
    <2>5. DeleteJob(o)
      BY <2>2, <2>4
    <2> QED BY <1>2, <2>3, <2>5 DEF CommandJobs, DeleteJob, Deleted
  <1>3. DeletionInv /\ [Next]_vars =>
          [job # NoCustomer /\ job' # job => customer[job].state = "deleted"]_vars
    BY <1>2
  <1> QED BY <1>3, DeletionInvariant, PTL DEF Spec, JobsLastUntilCleanup


\* A step of an actor that does not report success.
Moves(a) == \E p \in ProcType : p.at # "done" /\ proc' = [proc EXCEPT ![a] = p]

LEMMA MovesAreQuiet ==
  ASSUME DeletionInv, NEW a \in Actors, Moves(a), NEW o \in Operators, ~At(o, "done")
  PROVE  proc'[o].at # "done"
  <1>1. PICK p \in ProcType : p.at # "done" /\ proc' = [proc EXCEPT ![a] = p]
    BY DEF Moves
  <1>2. o \in Actors /\ proc'[a] = p /\ \A d \in Actors \ {a} : proc'[d] = proc[d]
    BY <1>1, CommandFacts, ProcStep
  <1> QED BY <1>1, <1>2 DEF At

LEMMA EndMoves ==
  ASSUME NEW a \in Actors, End(a)
  PROVE  Moves(a)
  <1>1. Idle.at # "done"
    BY DEF Idle
  <1> QED BY <1>1, IdleIsTyped DEF End, Moves

LEMMA GotoMoves ==
  ASSUME DeletionInv, NEW a \in Actors, NEW step \in Steps \ {"done"}, Goto(a, step)
  PROVE  Moves(a)
  <1> DEFINE p == [proc[a] EXCEPT !.at = step]
  <1>1. p \in ProcType /\ p.at = step
    BY DEF DeletionInv, LiveInv, Types, ProcType
  <1> QED BY <1>1 DEF Goto, Moves

LEMMA NeutralizingMoves ==
  ASSUME DeletionInv, NEW a \in Actors, NeutralizeStep(a) \/ NeutralizeFails(a)
  PROVE  Moves(a)
  <1>1. {"record", "finish", "configure", "drop"} \subseteq Steps \ {"done"}
    BY DEF Steps, Neutralizing
  <1>2. proc[a] \in ProcType
    BY DEF DeletionInv, LiveInv, Types
  <1>3. NeutralizeFailed(a) \/ Neutralized(a) => Moves(a)
    BY <1>1, EndMoves, GotoMoves DEF NeutralizeFailed, Neutralized
  <1>4. CASE ListOpenCheckoutSessions(a)
    <2> DEFINE open == OpenSessions(proc[a].target)
               p == [proc[a] EXCEPT !.at = "expire", !.seen = open, !.rounds = @ - 1]
    <2>1. CASE proc[a].rounds # 0 /\ proc' = [proc EXCEPT ![a] = p]
      <3>1. proc[a].rounds - 1 \in 0..MaxRounds /\ open \subseteq Sessions
        BY <1>2, <2>1, BoundsAreNat DEF ProcType, OpenSessions
      <3> HIDE DEF open
      <3>2. p \in ProcType /\ p.at # "done"
        BY <1>2, <3>1 DEF ProcType, Steps, Neutralizing
      <3> QED BY <2>1, <3>2 DEF Moves
    <2> QED BY <1>1, <1>3, <1>4, <2>1, GotoMoves DEF ListOpenCheckoutSessions
  <1>5. ASSUME NEW s \in Sessions, ExpireSession(a, s) PROVE Moves(a)
    <2> DEFINE rest == proc[a].seen \ {s}
               p == [proc[a] EXCEPT !.seen = rest, !.at = IF rest = {} THEN "list" ELSE @]
    <2>1. CASE proc' = [proc EXCEPT ![a] = p]
      <3>1. rest \subseteq Sessions /\ proc[a].at = "expire"
        BY <1>2, <1>5 DEF ProcType, ExpireSession, At
      <3> HIDE DEF rest
      <3>2. p \in ProcType /\ p.at # "done"
        BY <1>2, <3>1 DEF ProcType, Steps, Neutralizing
      <3> QED BY <2>1, <3>2 DEF Moves
    <2> QED BY <1>3, <1>5, <2>1 DEF ExpireSession
  <1> QED BY <1>3, <1>4, <1>5 DEF NeutralizeStep, NeutralizeFails, DropCustomer

LEMMA CheckoutMoves ==
  ASSUME DeletionInv, NEW t \in Tabs, Checkout(t), NEW o \in Operators
  PROVE  proc'[o] = proc[o]
  <1>1. t \in Actors /\ o \in Actors /\ o # t /\ proc \in [Actors -> ProcType]
    BY TabFacts, CommandFacts DEF DeletionInv, LiveInv, Types
  <1>2. ASSUME NEW p, proc' = [proc EXCEPT ![t] = p] PROVE proc'[o] = proc[o]
    BY <1>1, <1>2
  <1>3. ASSUME NEW step, Goto(t, step) PROVE proc'[o] = proc[o]
    BY <1>2, <1>3 DEF Goto
  <1>4. End(t) => proc'[o] = proc[o]
    BY <1>2 DEF End
  <1>5. ASSUME NEW c, NEW next, Neutralize(t, c, next) PROVE proc'[o] = proc[o]
    BY <1>2, <1>5 DEF Neutralize
  <1>6. NeutralizeStep(t) \/ NeutralizeFails(t) => proc'[o] = proc[o]
    BY <1>1, <1>2, NeutralizingMoves DEF Moves
  <1>7. ASSUME NEW c, Linked(t, c) PROVE proc'[o] = proc[o]
    <2>1. CASE Neutralize(t, proc[t].target, c)
      BY <1>5, <2>1
    <2>2. CASE ~Neutralize(t, proc[t].target, c)
      BY <1>1, <1>7, <2>2 DEF Linked
    <2> QED BY <2>1, <2>2
  <1>8. CreateCheckoutSession(t) => proc'[o] = proc[o]
    BY <1>1 DEF CreateCheckoutSession
  <1>9. ASSUME NEW c \in Customers, CreateCustomer(t, c) PROVE proc'[o] = proc[o]
    BY <1>1, <1>4, <1>9 DEF CreateCustomer
  <1>10. SetStripeCustomer(t) => proc'[o] = proc[o]
    BY <1>3, <1>7 DEF SetStripeCustomer
  <1>11. UserByID(t) \/ CompareStored(t) \/ ConfigureCustomer(t) \/ CheckoutStops(t) =>
           proc'[o] = proc[o]
    BY <1>3, <1>4, <1>5 DEF UserByID, CompareStored, ConfigureCustomer, CheckoutStops
  <1>12. ASSUME NEW s \in Sessions, OpenCheckoutSession(t, s) PROVE proc'[o] = proc[o]
    BY <1>4, <1>12 DEF OpenCheckoutSession
  <1> QED BY <1>6, <1>8, <1>9, <1>10, <1>11, <1>12 DEF Checkout

\* Whoever reports success had nothing to clean up, found no job or removed it.
LEMMA Reporting ==
  ASSUME DeletionInv, NEW o \in Operators, NEW a \in Operators, Command(a), ~At(o, "done"),
         proc'[o].at = "done"
  PROVE  \/ DeleteAccount(o) /\ proc[o].target = NoCustomer
         \/ Recheck(o) /\ job # proc[o].target
         \/ DeleteJob(o)
  <1>1. a \in Actors /\ o \in Actors /\ proc \in [Actors -> ProcType] /\ proc[a] \in ProcType
    BY CommandFacts DEF DeletionInv, LiveInv, Types
  <1>2. ~Moves(a)
    BY <1>1, MovesAreQuiet
  <1>3. ~End(a) /\ ~(\E step \in Steps \ {"done"} : Goto(a, step))
    BY <1>1, <1>2, EndMoves, GotoMoves
  <1>4. ~NeutralizeStep(a) /\ ~NeutralizeFails(a)
    BY <1>1, <1>2, NeutralizingMoves
  <1>5. {"exists", "recheck"} \subseteq Steps \ {"done"}
    BY DEF Steps
  <1>6. ~BeginDelete(a)
    <2>1. [Idle EXCEPT !.at = "begin"] \in ProcType /\ [Idle EXCEPT !.at = "begin"].at # "done"
      BY IdleIsTyped DEF ProcType, Steps
    <2> QED BY <1>2, <2>1 DEF BeginDelete, Moves
  <1>7. ASSUME NEW verified, LockAccount(a, verified) PROVE FALSE
    <2> DEFINE p == [proc[a] EXCEPT !.at = "delete", !.target = stored]
    <2>1. p \in ProcType /\ p.at # "done"
      BY <1>1, CommandFacts DEF ProcType, Steps, Types, RowTypes
    <2> QED BY <1>2, <1>3, <1>7, <2>1 DEF LockAccount, Moves
  <1>8. ASSUME NEW c \in Customers, BeginCleanup(a, c) PROVE FALSE
    <2> DEFINE p == [Idle EXCEPT !.at = "exists", !.target = c]
    <2>1. p \in ProcType /\ p.at # "done"
      BY IdleIsTyped DEF ProcType, Steps
    <2> QED BY <1>2, <1>8, <2>1 DEF BeginCleanup, Moves
  <1>9. ~JobExists(a)
    <2> DEFINE p == [proc[a] EXCEPT !.at = "list", !.target = job, !.next = NoCustomer,
                                    !.rounds = MaxRounds]
    <2>1. p \in ProcType /\ p.at # "done"
      <3>1. "list" \in Steps /\ MaxRounds \in 0..MaxRounds /\ job \in Customers \cup {NoCustomer}
        BY CommandFacts, BoundsAreNat DEF Steps, Neutralizing, Types, RowTypes
      <3> QED BY <1>1, <3>1 DEF ProcType
    <2> QED BY <1>2, <1>3, <2>1 DEF JobExists, Neutralize, Moves
  <1>10. ~RecordFailure(a) /\ ~CommandStops(a)
    BY <1>3, <1>5 DEF RecordFailure, CommandStops
  <1>11. DeleteAccount(a) \/ Recheck(a) \/ DeleteJob(a)
    BY <1>4, <1>6, <1>7, <1>8, <1>9, <1>10 DEF Command, DeletionStep, CleanupStep
  <1>12. proc' = [proc EXCEPT ![a] = Done]
    BY <1>3, <1>5, <1>11 DEF DeleteAccount, Recheck, DeleteJob, End
  <1>13. a = o
    BY <1>1, <1>12 DEF At
  <1> QED BY <1>3, <1>5, <1>11, <1>13 DEF DeleteAccount, Recheck, End

\* With one deleter, a command that reports success has left neither the customer
\* nor its job.
THEOREM SuccessIsComplete == OneDeleter => (Spec => SuccessMeansGone)
  <1>1. SUFFICES ASSUME OneDeleter PROVE Spec => SuccessMeansGone
    OBVIOUS
  <1>2. ASSUME DeletionInv, [Next]_vars, NEW o \in Operators, ~At(o, "done"),
               proc'[o].at = "done", NEW c \in Customers, c = proc[o].target
        PROVE  customer'[c].state = "deleted" /\ job' # c
    <2>1. proc'[o] # proc[o]
      BY <1>2 DEF At
    <2>2. ~World /\ ~UNCHANGED vars
      BY <2>1 DEF World, SignUp, PaySession, SubscriptionEnds, RefreshSubscription, vars
    <2>3. PICK a \in Operators : Command(a)
      BY <1>2, <2>1, <2>2, CheckoutMoves DEF Next
    <2>4. (Recheck(o) /\ job # proc[o].target) \/ DeleteJob(o)
      BY <1>2, <2>3, Reporting, NobodyIsNobody
    <2>5. CommandJobs(o)
      BY <1>1, <1>2, CommandFacts
    <2>6. CASE Recheck(o) /\ job # proc[o].target
      BY <1>2, <2>5, <2>6 DEF CommandJobs, Recheck, CleaningUp, At, Deleted, rowVars, stripeVars
    <2>7. CASE DeleteJob(o)
      BY <1>2, <2>5, <2>7, NobodyIsNobody DEF CommandJobs, DeleteJob, Deleted, stripeVars
    <2> QED BY <2>4, <2>6, <2>7
  <1>3. DeletionInv /\ [Next]_vars =>
          [\A o \in Operators : ~At(o, "done") /\ proc'[o].at = "done" =>
             \A c \in Customers : c = proc[o].target =>
               customer'[c].state = "deleted" /\ job' # c]_vars
    BY <1>2
  <1> QED BY <1>3, DeletionInvariant, PTL DEF Spec, SuccessMeansGone
=============================================================================
