--------------------------- MODULE MembershipsProofs ---------------------------
(***************************************************************************)
(* Proofs about Memberships, for any number of addresses, referrals,       *)
(* tokens and clients, and any limits.                                     *)
(*                                                                         *)
(* MembershipsInv adds three facts to the types: what a client at a step   *)
(* is known to carry (RequestsInv), that a signup past the referral's lock *)
(* still has the current code and is alone in inserting its address        *)
(* (SignupsInv), and that what a request has read of its entitlement is    *)
(* within the history kept for it (ServedInv).                             *)
(***************************************************************************)
EXTENDS Memberships, TLAPS

ReferralType == [state: {"absent", "active", "disabled"}, code: Codes \cup {0}]
TokenType == [of: users \cup {None}, state: {"absent", "live", "revoked"}]
BestType == [pro: BOOLEAN, limit: Nat]
Steps == {"idle", "lock", "insert", "commit", "pro", "account", "count",
          "insert document", "insert token"}
ProcType == [at: Steps, kind: {"none", "signup", "create", "agent", "token"},
             email: Emails \cup {None}, referral: Referrals \cup {None},
             code: Codes \cup {0}, token: Tokens \cup {None}, limit: Nat, usage: Nat]

\* TypeOK without the history, its records named.
Types ==
  /\ users \subseteq Emails
  /\ ent \in [Emails -> Entitlement]
  /\ \A e \in Emails : ent[e] # Default => e \in users
  /\ referral \in [Referrals -> ReferralType]
  /\ codes \in 0..MaxCodes
  /\ token \in [Tokens -> TokenType]
  /\ \A t \in Tokens : token[t].state = "live" => token[t].of \in users
  /\ saved \in [Emails -> Nat]
  /\ proc \in [Clients -> ProcType]
  /\ edits \in 0..MaxEdits

SigningUp == {"lock", "insert", "commit"}
Serving == {"pro", "account", "count", "insert document", "insert token"}

\* What a client at a step carries.
Carries(c) ==
  /\ At(c, "idle") => proc[c] = Idle
  /\ proc[c].at \in SigningUp =>
       /\ proc[c].kind = "signup" /\ proc[c].email \in Emails
       /\ proc[c].referral \in Referrals /\ proc[c].code \in Codes
  /\ proc[c].at \in Serving =>
       proc[c].kind \in {"create", "agent", "token"} /\ proc[c].email \in users
  /\ At(c, "insert token") => proc[c].kind = "token"

RequestsInv == \A c \in Clients : Carries(c)

\* A signup past the lock: its code is current, its address free and its own.
HasCode(c) ==
  /\ proc[c].at \in {"insert", "commit"} => ActiveReferral(proc[c].referral, proc[c].code)
  /\ At(c, "commit") => proc[c].email \notin users

SignupsInv ==
  /\ \A c \in Clients : HasCode(c)
  /\ \A c, d \in Clients :
       At(c, "commit") /\ At(d, "commit") /\ proc[c].email = proc[d].email => c = d

\* What a request has read is within its history.
Within(c) ==
  /\ proc[c].at \in {"count", "insert document"} => proc[c].limit <= best[c].limit
  /\ proc[c].at \in Serving \ {"pro"} /\ proc[c].kind \in {"token", "agent"} =>
       best[c].pro = TRUE

ServedInv == \A c \in Clients : Within(c)

MembershipsInv ==
  Types /\ best \in [Clients -> BestType] /\ RequestsInv /\ SignupsInv /\ ServedInv

-----------------------------------------------------------------------------
(* Values.                                                                 *)

LEMMA TypesAreTypeOK == MembershipsInv => TypeOK
  BY Zenon DEF MembershipsInv, Types, TypeOK, ReferralType, TokenType, BestType, ProcType, Steps

LEMMA IdleIsTyped == Idle \in ProcType
  BY DEF Idle, ProcType, Steps

LEMMA LimitIsNat ==
  ASSUME NEW e, NEW state \in Entitlement
  PROVE  LimitOf(e, state) \in Nat
  BY LimitsAssumption DEF LimitsAssumption, LimitOf, Entitlement

LEMMA InitInv == Init => MembershipsInv
  <1>1. SUFFICES ASSUME Init PROVE MembershipsInv
    OBVIOUS
  <1>2. Default \in Entitlement
    BY DEF Default, Entitlement
  <1>3. [state |-> "absent", code |-> 0] \in ReferralType
    BY DEF ReferralType
  <1>4. [of |-> None, state |-> "absent"] \in TokenType
    BY DEF TokenType
  <1>5. [pro |-> FALSE, limit |-> 0] \in BestType
    BY DEF BestType
  <1>6. MaxCodes \in Nat /\ MaxEdits \in Nat
    BY BoundsAssumption DEF BoundsAssumption
  <1>7. Types /\ best \in [Clients -> BestType]
    BY <1>1, <1>2, <1>3, <1>4, <1>5, <1>6, IdleIsTyped DEF Init, Types
  <1>8. RequestsInv /\ SignupsInv /\ ServedInv
    BY <1>1 DEF Init, RequestsInv, Carries, SignupsInv, HasCode, ServedInv, Within, At,
                Idle, SigningUp, Serving
  <1> QED BY <1>7, <1>8 DEF MembershipsInv

-----------------------------------------------------------------------------
(* The history.                                                            *)

\* One step of it, for a request that is being served.
LEMMA WatchStep ==
  ASSUME MembershipsInv, Types', RequestsInv', Watch, NEW c \in Clients,
         proc'[c].at \in Serving
  PROVE  /\ best'[c].limit >= best[c].limit
         /\ best'[c].limit >= LimitOf(proc'[c].email, ent'[proc'[c].email])
         /\ best[c].pro = TRUE => best'[c].pro = TRUE
         /\ Plan(proc'[c].email, ent'[proc'[c].email]) = "pro" => best'[c].pro = TRUE
  <1> DEFINE e == proc'[c].email
             l == LimitOf(e, ent'[e])
             p == Plan(e, ent'[e]) = "pro"
  <1>1. e \in Emails /\ proc'[c].kind \notin {"none", "signup"}
    BY DEF RequestsInv, Carries, Types
  <1>2. l \in Nat /\ best[c] \in BestType
    BY <1>1, LimitIsNat DEF MembershipsInv, Types
  <1>3. best'[c] = Watched(c, e, ent'[e])
    BY <1>1, Zenon DEF Watch
  <1>4. /\ best'[c].pro = (best[c].pro \/ p)
        /\ best'[c].limit = IF l > best[c].limit THEN l ELSE best[c].limit
    <2> DEFINE pp == best[c].pro \/ p
               ll == IF l > best[c].limit THEN l ELSE best[c].limit
    <2>1. best'[c] = [pro |-> pp, limit |-> ll]
      BY <1>3, Zenon DEF Watched
    <2> HIDE DEF pp, ll
    <2>2. best'[c].pro = pp /\ best'[c].limit = ll
      BY <2>1
    <2> QED BY <2>2 DEF pp, ll
  <1> HIDE DEF l, p
  <1>5. best'[c].limit >= best[c].limit /\ best'[c].limit >= l
    BY <1>2, <1>4 DEF BestType
  <1>6. /\ best[c].pro = TRUE => best'[c].pro = TRUE
        /\ p => best'[c].pro = TRUE
    BY <1>4, Zenon
  <1> QED BY <1>5, <1>6 DEF l, p

LEMMA WatchTypes ==
  ASSUME MembershipsInv, Types', RequestsInv', Watch
  PROVE  best' \in [Clients -> BestType]
  <1>1. ASSUME NEW c \in Clients
        PROVE  (IF proc'[c].kind \in {"none", "signup"} THEN Nothing
                ELSE Watched(c, proc'[c].email, ent'[proc'[c].email])) \in BestType
    <2>1. CASE proc'[c].kind \in {"none", "signup"}
      BY <2>1 DEF Nothing, BestType
    <2>2. CASE proc'[c].kind \notin {"none", "signup"}
      <3>1. proc'[c].at \in Serving
        <4>1. Carries(c)' /\ proc'[c].at \in Steps
          BY DEF RequestsInv, Types, ProcType
        <4>2. proc'[c].at # "idle"
          <5>1. SUFFICES ASSUME proc'[c].at = "idle" PROVE FALSE
            OBVIOUS
          <5>2. proc'[c] = Idle
            BY <4>1, <5>1, Zenon DEF Carries, At
          <5> QED BY <2>2, <5>2 DEF Idle
        <4>3. proc'[c].at \notin SigningUp
          BY <2>2, <4>1 DEF Carries
        <4> QED BY <4>1, <4>2, <4>3 DEF Steps, SigningUp, Serving
      <3>2. proc'[c].email \in Emails
        BY <3>1 DEF RequestsInv, Carries, Types
      <3>3. /\ LimitOf(proc'[c].email, ent'[proc'[c].email]) \in Nat
            /\ best[c] \in BestType
        BY <3>2, LimitIsNat DEF MembershipsInv, Types
      <3> DEFINE l == LimitOf(proc'[c].email, ent'[proc'[c].email])
                 p == Plan(proc'[c].email, ent'[proc'[c].email]) = "pro"
      <3>4. (best[c].pro \/ p) \in BOOLEAN
        BY Zenon
      <3>5. (IF l > best[c].limit THEN l ELSE best[c].limit) \in Nat
        BY <3>3 DEF BestType
      <3>6. Watched(c, proc'[c].email, ent'[proc'[c].email])
              = [pro |-> best[c].pro \/ p,
                 limit |-> IF l > best[c].limit THEN l ELSE best[c].limit]
        BY Zenon DEF Watched
      <3>7. Watched(c, proc'[c].email, ent'[proc'[c].email]) \in BestType
        <4> DEFINE pp == best[c].pro \/ p
                   ll == IF l > best[c].limit THEN l ELSE best[c].limit
        <4>1. pp \in BOOLEAN /\ ll \in Nat
          BY <3>4, <3>5
        <4>2. Watched(c, proc'[c].email, ent'[proc'[c].email]) = [pro |-> pp, limit |-> ll]
          BY <3>6
        <4> HIDE DEF pp, ll
        <4> QED BY <4>1, <4>2 DEF BestType
      <3> QED BY <2>2, <3>7
    <2> QED BY <2>1, <2>2
  <1> QED BY <1>1 DEF Watch

\* What a client has read after a step is either what it had read before or what
\* its account is entitled to after the step.
ReadLimit(c) ==
  proc'[c].at \in {"count", "insert document"} =>
    \/ proc'[c].limit <= best[c].limit
    \/ proc'[c].limit = LimitOf(proc'[c].email, ent'[proc'[c].email])

ReadPlan(c) ==
  proc'[c].at \in Serving \ {"pro"} /\ proc'[c].kind \in {"token", "agent"} =>
    best[c].pro = TRUE \/ Plan(proc'[c].email, ent'[proc'[c].email]) = "pro"

LEMMA ServedKept ==
  ASSUME MembershipsInv, Types', RequestsInv', Watch, NEW c \in Clients,
         ReadLimit(c), ReadPlan(c)
  PROVE  Within(c)'
  <1>1. CASE proc'[c].at \notin Serving
    BY <1>1 DEF Within, Serving
  <1>2. CASE proc'[c].at \in Serving
    <2> DEFINE l == LimitOf(proc'[c].email, ent'[proc'[c].email])
    <2>1. /\ best[c].limit \in Nat /\ best'[c].limit \in Nat /\ proc'[c].limit \in Nat
      BY WatchTypes DEF MembershipsInv, BestType, Types, ProcType
    <2>2. l \in Nat
      BY <1>2, LimitIsNat DEF RequestsInv, Carries, Types
    <2>3. best'[c].limit >= best[c].limit /\ best'[c].limit >= l
      BY <1>2, WatchStep
    <2>4. ASSUME proc'[c].at \in {"count", "insert document"}
          PROVE  proc'[c].limit <= best'[c].limit
      <3>1. proc'[c].limit <= best[c].limit \/ proc'[c].limit = l
        BY <2>4 DEF ReadLimit
      <3> HIDE DEF l
      <3>2. CASE proc'[c].limit <= best[c].limit
        BY <2>1, <2>3, <3>2
      <3>3. CASE proc'[c].limit = l
        BY <2>3, <3>3
      <3> QED BY <3>1, <3>2, <3>3
    <2>5. proc'[c].at \in Serving \ {"pro"} /\ proc'[c].kind \in {"token", "agent"} =>
            best'[c].pro = TRUE
      BY <1>2, WatchStep, Zenon DEF ReadPlan
    <2> QED BY <2>4, <2>5 DEF Within
  <1> QED BY <1>1, <1>2

-----------------------------------------------------------------------------
(* What a step must leave alone.                                           *)

\* An account's entitlement is read anew: an old reading stays in the history.
LEMMA StillRead ==
  ASSUME MembershipsInv, NEW c \in Clients, proc'[c] = proc[c]
  PROVE  ReadLimit(c) /\ ReadPlan(c)
  <1>1. Within(c)
    BY DEF MembershipsInv, ServedInv
  <1> QED BY <1>1, Zenon DEF Within, ReadLimit, ReadPlan

LEMMA Closing ==
  ASSUME MembershipsInv, Types', Watch, RequestsInv', SignupsInv',
         \A c \in Clients : ReadLimit(c) /\ ReadPlan(c)
  PROVE  MembershipsInv'
  <1>1. ServedInv'
    BY ServedKept DEF ServedInv
  <1> QED BY <1>1, WatchTypes DEF MembershipsInv

\* A step that no client takes.
LEMMA RowsKeepInv ==
  ASSUME MembershipsInv, Types', Watch, proc' = proc, users \subseteq users',
         \A c \in Clients : proc[c].at \in {"insert", "commit"} =>
           referral'[proc[c].referral] = referral[proc[c].referral],
         \A c \in Clients : At(c, "commit") => proc[c].email \notin users'
  PROVE  MembershipsInv'
  <1>1. RequestsInv'
    BY DEF MembershipsInv, RequestsInv, Carries, At
  <1>2. SignupsInv'
    BY DEF MembershipsInv, SignupsInv, HasCode, ActiveReferral, At
  <1> QED BY <1>1, <1>2, StillRead, Closing

\* A step that one client takes.
Alone(c) == \A d \in Clients \ {c} : At(d, "commit") => proc[d].email \notin users'
Unrivalled(c) ==
  proc'[c].at = "commit" =>
    \A d \in Clients \ {c} : ~(At(d, "commit") /\ proc[d].email = proc'[c].email)

LEMMA ClientKeepsInv ==
  ASSUME MembershipsInv, Types', Watch, users \subseteq users', referral' = referral,
         NEW c \in Clients, \A d \in Clients \ {c} : proc'[d] = proc[d],
         Carries(c)', HasCode(c)', ReadLimit(c), ReadPlan(c), Alone(c), Unrivalled(c)
  PROVE  MembershipsInv'
  <1>1. ASSUME NEW d \in Clients \ {c} PROVE Carries(d)' /\ HasCode(d)'
    BY <1>1 DEF MembershipsInv, RequestsInv, Carries, SignupsInv, HasCode, ActiveReferral,
                At, Alone
  <1>2. RequestsInv'
    BY <1>1 DEF RequestsInv
  <1>3. SignupsInv'
    <2>1. ASSUME NEW a \in Clients, NEW b \in Clients,
                 At(a, "commit")', At(b, "commit")', proc'[a].email = proc'[b].email
          PROVE  a = b
      BY <2>1 DEF MembershipsInv, SignupsInv, At, Unrivalled
    <2> QED BY <1>1, <2>1 DEF SignupsInv
  <1>4. \A d \in Clients : ReadLimit(d) /\ ReadPlan(d)
    BY StillRead
  <1> QED BY <1>2, <1>3, <1>4, Closing

\* proc changes for one client only.
LEMMA ProcStep ==
  ASSUME MembershipsInv, NEW c \in Clients, NEW p \in ProcType,
         proc' = [proc EXCEPT ![c] = p]
  PROVE  /\ proc' \in [Clients -> ProcType]
         /\ proc'[c] = p
         /\ \A d \in Clients \ {c} : proc'[d] = proc[d]
  BY DEF MembershipsInv, Types

\* A request that ends.
LEMMA EndStep ==
  ASSUME MembershipsInv, NEW c \in Clients, End(c)
  PROVE  /\ proc' \in [Clients -> ProcType]
         /\ \A d \in Clients \ {c} : proc'[d] = proc[d]
         /\ Carries(c)' /\ HasCode(c)' /\ ReadLimit(c) /\ ReadPlan(c) /\ Unrivalled(c)
  <1>1. /\ proc' \in [Clients -> ProcType]
        /\ proc'[c] = Idle
        /\ \A d \in Clients \ {c} : proc'[d] = proc[d]
    BY ProcStep, IdleIsTyped DEF End
  <1>2. proc'[c].at = "idle"
    BY <1>1 DEF Idle
  <1> QED BY <1>1, <1>2 DEF Carries, HasCode, At, ReadLimit, ReadPlan, Unrivalled, SigningUp,
                            Serving

\* A request that goes on, with all it carries.
LEMMA GotoStep ==
  ASSUME MembershipsInv, NEW c \in Clients, NEW step \in Steps, Goto(c, step)
  PROVE  /\ proc' \in [Clients -> ProcType]
         /\ \A d \in Clients \ {c} : proc'[d] = proc[d]
         /\ proc'[c] = [proc[c] EXCEPT !.at = step]
         /\ proc'[c].at = step
         /\ proc'[c].kind = proc[c].kind /\ proc'[c].email = proc[c].email
         /\ proc'[c].referral = proc[c].referral /\ proc'[c].code = proc[c].code
         /\ proc'[c].limit = proc[c].limit
  <1> DEFINE p == [proc[c] EXCEPT !.at = step]
  <1>1. proc[c] \in ProcType
    BY DEF MembershipsInv, Types
  <1>2. /\ p \in ProcType
        /\ p.at = step /\ p.kind = proc[c].kind /\ p.email = proc[c].email
        /\ p.referral = proc[c].referral /\ p.code = proc[c].code /\ p.limit = proc[c].limit
    BY <1>1 DEF ProcType
  <1>3. proc' = [proc EXCEPT ![c] = p]
    BY DEF Goto
  <1> HIDE DEF p
  <1>4. /\ proc' \in [Clients -> ProcType]
        /\ proc'[c] = p
        /\ \A d \in Clients \ {c} : proc'[d] = proc[d]
    BY <1>2, <1>3, ProcStep
  <1> QED BY <1>2, <1>4 DEF p

-----------------------------------------------------------------------------
(* Referrals, administrators, and what needs no request.                   *)

\* What the conditions on a referral's row mean to the signups past the lock.
LEMMA SharedRow ==
  ASSUME MembershipsInv, NEW c \in Clients, proc[c].at \in {"insert", "commit"}
  PROVE  /\ Shared(proc[c].referral)
         /\ referral[proc[c].referral].state = "active"
         /\ proc[c].email \in Emails
  <1>1. Carries(c) /\ HasCode(c)
    BY DEF MembershipsInv, RequestsInv, SignupsInv
  <1>2. proc[c].email \in Emails
    BY <1>1 DEF Carries, SigningUp
  <1>3. referral[proc[c].referral].state = "active"
    BY <1>1 DEF HasCode, ActiveReferral
  <1> QED BY <1>2, <1>3 DEF Shared

LEMMA FreeEmail ==
  ASSUME MembershipsInv, NEW c \in Clients, At(c, "commit")
  PROVE  proc[c].email \notin users
  BY DEF MembershipsInv, SignupsInv, HasCode

LEMMA ReferralKeepsInv ==
  ASSUME MembershipsInv, Watch, NEW r \in Referrals,
         CreateReferral(r) \/ RotateReferral(r) \/ DisableReferral(r)
  PROVE  MembershipsInv'
  <1>1. /\ UNCHANGED <<users, ent, token, saved, proc, edits>>
        /\ referral' \in [Referrals -> ReferralType]
        /\ codes' \in 0..MaxCodes
        /\ \A s \in Referrals \ {r} : referral'[s] = referral[s]
        /\ Shared(r) => referral[r].state # "active"
    <2>1. /\ referral \in [Referrals -> ReferralType] /\ codes \in 0..MaxCodes
          /\ MaxCodes \in Nat
      BY BoundsAssumption DEF MembershipsInv, Types, BoundsAssumption
    <2>2. CASE CreateReferral(r)
      BY <2>1, <2>2 DEF CreateReferral, NewCode, Codes, ReferralType
    <2>3. CASE RotateReferral(r)
      BY <2>1, <2>3 DEF RotateReferral, NewCode, Codes, ReferralType
    <2>4. CASE DisableReferral(r)
      BY <2>1, <2>4 DEF DisableReferral, Codes, ReferralType
    <2> QED BY <2>2, <2>3, <2>4
  <1>2. Types'
    BY <1>1 DEF MembershipsInv, Types, TokenType
  <1>3. ASSUME NEW c \in Clients, proc[c].at \in {"insert", "commit"}
        PROVE  referral'[proc[c].referral] = referral[proc[c].referral]
    <2>1. proc[c].referral \in Referrals
      BY <1>3 DEF MembershipsInv, RequestsInv, Carries, SigningUp
    <2> QED BY <1>1, <1>3, <2>1, SharedRow
  <1> QED BY <1>1, <1>2, <1>3, FreeEmail, RowsKeepInv

LEMMA EditKeepsInv ==
  ASSUME MembershipsInv, Watch, NEW e \in Emails, NEW state \in Entitlement, Edit(e, state)
  PROVE  MembershipsInv'
  <1>1. Types'
    BY BoundsAssumption DEF Edit, MembershipsInv, Types, TokenType, BoundsAssumption
  <1>2. UNCHANGED <<users, referral, proc>>
    BY DEF Edit
  <1> QED BY <1>1, <1>2, FreeEmail, RowsKeepInv

LEMMA EditsAreTyped ==
  ASSUME MembershipsInv, NEW e \in Emails
  PROVE  /\ [ent[e] EXCEPT !.grant = "revoked"] \in Entitlement
         /\ \A plan \in {"none", "free", "pro"}, limit \in Limits \cup {None} :
              [ent[e] EXCEPT !.manual = plan, !.limit = limit] \in Entitlement
         /\ [ent[e] EXCEPT !.paid = ~@] \in Entitlement
  <1>1. ent[e] \in Entitlement
    BY DEF MembershipsInv, Types
  <1>2. (~ent[e].paid) \in BOOLEAN
    <2>1. ent[e].paid = TRUE \/ ent[e].paid = FALSE
      BY <1>1 DEF Entitlement
    <2>2. CASE ent[e].paid = TRUE
      BY <2>2
    <2>3. CASE ent[e].paid = FALSE
      BY <2>3
    <2> QED BY <2>1, <2>2, <2>3
  <1>3. [ent[e] EXCEPT !.paid = ~@] \in Entitlement
    <2> DEFINE b == ~ent[e].paid
    <2>1. b \in BOOLEAN
      BY <1>2
    <2> HIDE DEF b
    <2>2. [ent[e] EXCEPT !.paid = b] \in Entitlement
      BY <1>1, <2>1 DEF Entitlement
    <2> QED BY <2>2 DEF b
  <1> QED BY <1>1, <1>3 DEF Entitlement

LEMMA RegisterKeepsInv ==
  ASSUME MembershipsInv, Watch, NEW e \in Emails, Register(e)
  PROVE  MembershipsInv'
  <1>1. Types'
    BY DEF Register, MembershipsInv, Types, TokenType
  <1>2. \A c \in Clients : At(c, "commit") => proc[c].email \notin users'
    BY FreeEmail DEF Register, Inserting
  <1> QED BY <1>1, <1>2, RowsKeepInv DEF Register

LEMMA ArchiveKeepsInv ==
  ASSUME MembershipsInv, Watch, NEW e \in Emails, ArchiveDocument(e)
  PROVE  MembershipsInv'
  <1>1. Types'
    BY DEF ArchiveDocument, MembershipsInv, Types, TokenType
  <1> QED BY <1>1, FreeEmail, RowsKeepInv DEF ArchiveDocument

LEMMA RevokeTokenKeepsInv ==
  ASSUME MembershipsInv, Watch, NEW t \in Tokens, RevokeAPIToken(t)
  PROVE  MembershipsInv'
  <1>1. Types'
    BY DEF RevokeAPIToken, MembershipsInv, Types, TokenType
  <1> QED BY <1>1, FreeEmail, RowsKeepInv DEF RevokeAPIToken

-----------------------------------------------------------------------------
(* Requests.                                                               *)

\* A step of a client that writes no row.
LEMMA ReadingKeepsInv ==
  ASSUME MembershipsInv, Watch, UNCHANGED <<rows, edits>>, NEW c \in Clients,
         proc' \in [Clients -> ProcType], \A d \in Clients \ {c} : proc'[d] = proc[d],
         Carries(c)', HasCode(c)', ReadLimit(c), ReadPlan(c), Unrivalled(c)
  PROVE  MembershipsInv'
  <1>1. Types' /\ users' = users /\ referral' = referral
    BY DEF rows, MembershipsInv, Types, TokenType
  <1>2. Alone(c)
    BY <1>1, FreeEmail DEF Alone
  <1> QED BY <1>1, <1>2, ClientKeepsInv

LEMMA FailureKeepsInv ==
  ASSUME MembershipsInv, Watch, NEW c \in Clients, RequestFails(c)
  PROVE  MembershipsInv'
  BY EndStep, ReadingKeepsInv DEF RequestFails

\* A request that begins carries its kind, its address and what it names.
LEMMA BeginKeepsInv ==
  ASSUME MembershipsInv, Watch, UNCHANGED <<rows, edits>>, NEW c \in Clients,
         NEW p \in ProcType, Begin(c, p), p.at \in {"lock", "account", "pro"},
         p.at = "lock" => /\ p.kind = "signup" /\ p.email \in Emails
                          /\ p.referral \in Referrals /\ p.code \in Codes,
         p.at # "lock" => p.kind \in {"create", "agent", "token"} /\ p.email \in users,
         p.at = "account" => p.kind = "create"
  PROVE  MembershipsInv'
  <1>1. /\ proc' \in [Clients -> ProcType]
        /\ proc'[c] = p
        /\ \A d \in Clients \ {c} : proc'[d] = proc[d]
    BY ProcStep DEF Begin
  <1>2. Carries(c)'
    BY <1>1 DEF Carries, At, SigningUp, Serving, rows
  <1>3. HasCode(c)' /\ Unrivalled(c) /\ ReadLimit(c) /\ ReadPlan(c)
    BY <1>1 DEF HasCode, At, Unrivalled, ReadLimit, ReadPlan, Serving
  <1> QED BY <1>1, <1>2, <1>3, ReadingKeepsInv

LEMMA RedeemKeepsInv ==
  ASSUME MembershipsInv, Watch, NEW c \in Clients, NEW e \in Emails, NEW r \in Referrals,
         NEW code \in Codes, Redeem(c, e, r, code)
  PROVE  MembershipsInv'
  <1> DEFINE p == [Idle EXCEPT !.at = "lock", !.kind = "signup", !.email = e,
                               !.referral = r, !.code = code]
  <1>1. /\ p \in ProcType /\ p.at = "lock" /\ p.kind = "signup" /\ p.email = e
        /\ p.referral = r /\ p.code = code
    BY DEF Idle, ProcType, Steps
  <1>2. Begin(c, p) /\ UNCHANGED <<rows, edits>>
    BY DEF Redeem
  <1> HIDE DEF p
  <1> QED BY <1>1, <1>2, BeginKeepsInv

LEMMA BeginCreateKeepsInv ==
  ASSUME MembershipsInv, Watch, NEW c \in Clients, NEW e \in Emails, BeginCreate(c, e)
  PROVE  MembershipsInv'
  <1> DEFINE p == [Idle EXCEPT !.at = "account", !.kind = "create", !.email = e]
  <1>1. p \in ProcType /\ p.at = "account" /\ p.kind = "create" /\ p.email = e
    BY DEF Idle, ProcType, Steps
  <1>2. Begin(c, p) /\ e \in users /\ UNCHANGED <<rows, edits>>
    BY DEF BeginCreate
  <1> HIDE DEF p
  <1> QED BY <1>1, <1>2, BeginKeepsInv

LEMMA BeginTokenKeepsInv ==
  ASSUME MembershipsInv, Watch, NEW c \in Clients, NEW e \in Emails, BeginToken(c, e)
  PROVE  MembershipsInv'
  <1> DEFINE p == [Idle EXCEPT !.at = "pro", !.kind = "token", !.email = e]
  <1>1. p \in ProcType /\ p.at = "pro" /\ p.kind = "token" /\ p.email = e
    BY DEF Idle, ProcType, Steps
  <1>2. Begin(c, p) /\ e \in users /\ UNCHANGED <<rows, edits>>
    BY DEF BeginToken
  <1> HIDE DEF p
  <1> QED BY <1>1, <1>2, BeginKeepsInv

\* A step that moves on and keeps what the request carries.
LEMMA GotoKeepsInv ==
  ASSUME MembershipsInv, Watch, UNCHANGED <<rows, edits>>, NEW c \in Clients,
         NEW step \in Steps \ {"idle"}, Goto(c, step),
         proc[c].at \in SigningUp <=> step \in SigningUp, ~At(c, "idle"),
         step = "insert token" => proc[c].kind = "token",
         HasCode(c)', Unrivalled(c), ReadLimit(c), ReadPlan(c)
  PROVE  MembershipsInv'
  <1>1. proc[c].at \in Steps /\ Carries(c)
    BY DEF MembershipsInv, RequestsInv, Types, ProcType
  <1>2. Carries(c)'
    BY <1>1, GotoStep DEF Carries, At, rows, SigningUp, Serving, Steps
  <1> QED BY <1>2, GotoStep, ReadingKeepsInv

LEMMA LockKeepsInv ==
  ASSUME MembershipsInv, Watch, NEW c \in Clients, LockReferral(c)
  PROVE  MembershipsInv'
  <1>1. CASE End(c)
    BY <1>1, EndStep, ReadingKeepsInv DEF LockReferral
  <1>2. CASE ActiveReferral(proc[c].referral, proc[c].code) /\ Goto(c, "insert")
    <2>1. "insert" \in Steps \ {"idle"}
      BY DEF Steps
    <2>2. proc'[c].at = "insert" /\ proc'[c].referral = proc[c].referral
          /\ proc'[c].code = proc[c].code
      BY <1>2, <2>1, GotoStep
    <2>3. HasCode(c)' /\ Unrivalled(c) /\ ReadLimit(c) /\ ReadPlan(c)
      BY <1>2, <2>2 DEF LockReferral, rows, HasCode, ActiveReferral, At, Unrivalled, ReadLimit,
                        ReadPlan, Serving
    <2> QED BY <1>2, <2>1, <2>3, GotoKeepsInv DEF LockReferral, At, SigningUp
  <1> QED BY <1>1, <1>2 DEF LockReferral

LEMMA InsertUserKeepsInv ==
  ASSUME MembershipsInv, Watch, NEW c \in Clients, InsertUser(c)
  PROVE  MembershipsInv'
  <1>1. CASE End(c)
    BY <1>1, EndStep, ReadingKeepsInv DEF InsertUser
  <1>2. CASE proc[c].email \notin users /\ Goto(c, "commit")
    <2>1. "commit" \in Steps \ {"idle"}
      BY DEF Steps
    <2>2. /\ proc'[c].at = "commit" /\ proc'[c].email = proc[c].email
          /\ proc'[c].referral = proc[c].referral /\ proc'[c].code = proc[c].code
      BY <1>2, <2>1, GotoStep
    <2>3. ActiveReferral(proc[c].referral, proc[c].code)
      BY DEF InsertUser, At, MembershipsInv, SignupsInv, HasCode
    <2>4. HasCode(c)'
      BY <1>2, <2>2, <2>3 DEF InsertUser, rows, HasCode, ActiveReferral, At
    <2>5. Unrivalled(c)
      BY <2>2 DEF InsertUser, Inserting, Unrivalled
    <2>6. ReadLimit(c) /\ ReadPlan(c)
      BY <2>2 DEF ReadLimit, ReadPlan, Serving
    <2> QED BY <1>2, <2>1, <2>4, <2>5, <2>6, GotoKeepsInv DEF InsertUser, At, SigningUp
  <1> QED BY <1>1, <1>2 DEF InsertUser

LEMMA CommitKeepsInv ==
  ASSUME MembershipsInv, Watch, NEW c \in Clients, CommitSignup(c)
  PROVE  MembershipsInv'
  <1> DEFINE e == proc[c].email
  <1>1. At(c, "commit") /\ e \in Emails
    BY SharedRow DEF CommitSignup, At
  <1>2. /\ users' = users \cup {e} /\ ent' = [ent EXCEPT ![e].grant = "live"] /\ End(c)
        /\ UNCHANGED <<referral, codes, token, saved, edits>>
    BY DEF CommitSignup
  <1>3. ent' \in [Emails -> Entitlement]
    <2>1. [ent[e] EXCEPT !.grant = "live"] \in Entitlement
      BY <1>1 DEF MembershipsInv, Types, Entitlement
    <2> QED BY <1>2, <2>1 DEF MembershipsInv, Types
  <1>4. proc' \in [Clients -> ProcType]
    BY <1>2, EndStep
  <1>5. Types'
    BY <1>1, <1>2, <1>3, <1>4 DEF MembershipsInv, Types, TokenType
  <1>6. Alone(c)
    BY <1>1, <1>2, FreeEmail DEF Alone, MembershipsInv, SignupsInv
  <1> QED BY <1>2, <1>5, <1>6, EndStep, ClientKeepsInv

LEMMA BeginAgentKeepsInv ==
  ASSUME MembershipsInv, Watch, NEW c \in Clients, NEW t \in Tokens, BeginAgent(c, t)
  PROVE  MembershipsInv'
  <1> DEFINE p == [Idle EXCEPT !.at = "pro", !.kind = "agent", !.email = token[t].of,
                               !.token = t]
  <1>1. token[t].of \in users /\ token[t].of \in Emails
    BY DEF BeginAgent, MembershipsInv, Types
  <1>2. /\ p \in ProcType /\ p.at = "pro" /\ p.kind = "agent" /\ p.email = token[t].of
    BY <1>1 DEF Idle, ProcType, Steps
  <1>3. Begin(c, p) /\ UNCHANGED <<rows, edits>>
    BY DEF BeginAgent
  <1> HIDE DEF p
  <1> QED BY <1>1, <1>2, <1>3, BeginKeepsInv

LEMMA EnsureProKeepsInv ==
  ASSUME MembershipsInv, Watch, NEW c \in Clients, EnsurePro(c)
  PROVE  MembershipsInv'
  <1>1. CASE End(c)
    BY <1>1, EndStep, ReadingKeepsInv DEF EnsurePro
  <1>2. CASE ~End(c)
    <2> DEFINE step == IF proc[c].kind = "token" THEN "insert token" ELSE "account"
    <2>1. /\ At(c, "pro") /\ Goto(c, step) /\ UNCHANGED <<rows, edits>>
          /\ Plan(proc[c].email, ent[proc[c].email]) = "pro"
      BY <1>2 DEF EnsurePro
    <2>2. /\ step \in Steps \ {"idle"} /\ step \notin SigningUp
          /\ step = "insert token" => proc[c].kind = "token"
          /\ step \in {"insert token", "account"}
      BY DEF Steps, SigningUp
    <2> HIDE DEF step
    <2>3. proc'[c].at = step /\ proc'[c].email = proc[c].email
      BY <2>1, <2>2, GotoStep
    <2>4. ent' = ent
      BY <2>1 DEF rows
    <2>5. HasCode(c)' /\ Unrivalled(c) /\ ReadLimit(c)
      BY <2>2, <2>3 DEF HasCode, At, Unrivalled, ReadLimit
    <2>6. ReadPlan(c)
      BY <2>1, <2>3, <2>4 DEF ReadPlan
    <2> QED BY <2>1, <2>2, <2>5, <2>6, GotoKeepsInv DEF At, SigningUp
  <1> QED BY <1>1, <1>2

\* The limit is the one the account has at this step.
LEMMA ReadStateKeepsInv ==
  ASSUME MembershipsInv, Watch, NEW c \in Clients, ReadState(c)
  PROVE  MembershipsInv'
  <1> DEFINE l == LimitOf(proc[c].email, ent[proc[c].email])
             p == [proc[c] EXCEPT !.at = "count", !.limit = l]
  <1>1. At(c, "account") /\ UNCHANGED <<rows, edits>> /\ proc' = [proc EXCEPT ![c] = p]
    BY DEF ReadState
  <1>2. /\ proc[c].email \in users /\ proc[c].kind \in {"create", "agent", "token"}
        /\ proc[c] \in ProcType /\ ent[proc[c].email] \in Entitlement
    BY <1>1 DEF At, MembershipsInv, RequestsInv, Carries, Types, Serving
  <1>3. l \in Nat
    BY <1>2, LimitIsNat
  <1> HIDE DEF l
  <1>4. /\ p \in ProcType /\ p.at = "count" /\ p.limit = l
        /\ p.kind = proc[c].kind /\ p.email = proc[c].email
    BY <1>2, <1>3 DEF ProcType, Steps
  <1> HIDE DEF p
  <1>5. /\ proc' \in [Clients -> ProcType]
        /\ proc'[c] = p
        /\ \A d \in Clients \ {c} : proc'[d] = proc[d]
    BY <1>1, <1>4, ProcStep
  <1>6. users' = users /\ ent' = ent
    BY <1>1 DEF rows
  <1>7. Carries(c)' /\ HasCode(c)' /\ Unrivalled(c)
    BY <1>2, <1>4, <1>5, <1>6 DEF Carries, HasCode, Unrivalled, At, SigningUp
  <1>8. ReadLimit(c)
    BY <1>4, <1>5, <1>6 DEF ReadLimit, l
  <1>9. ReadPlan(c)
    <2>1. Within(c) /\ proc[c].at = "account"
      BY <1>1 DEF MembershipsInv, ServedInv, At
    <2>2. proc[c].kind \in {"token", "agent"} => best[c].pro = TRUE
      BY <2>1 DEF Within, Serving
    <2> QED BY <1>4, <1>5, <2>2 DEF ReadPlan
  <1> QED BY <1>1, <1>5, <1>7, <1>8, <1>9, ReadingKeepsInv

\* What a request past its reading still knows.
LEMMA StillWithin ==
  ASSUME MembershipsInv, NEW c \in Clients, proc[c].at \in {"count", "insert document"}
  PROVE  /\ proc[c].limit <= best[c].limit
         /\ proc[c].kind \in {"token", "agent"} => best[c].pro = TRUE
  <1>1. Within(c)
    BY DEF MembershipsInv, ServedInv
  <1> QED BY <1>1 DEF Within, Serving

LEMMA CountKeepsInv ==
  ASSUME MembershipsInv, Watch, NEW c \in Clients, CountSavedDocs(c)
  PROVE  MembershipsInv'
  <1> DEFINE p == [proc[c] EXCEPT !.at = "insert document", !.usage = saved[proc[c].email]]
  <1>1. At(c, "count") /\ UNCHANGED <<rows, edits>> /\ proc' = [proc EXCEPT ![c] = p]
    BY DEF CountSavedDocs
  <1>2. /\ proc[c].email \in users /\ proc[c].kind \in {"create", "agent", "token"}
        /\ proc[c] \in ProcType /\ saved[proc[c].email] \in Nat
    BY <1>1 DEF At, MembershipsInv, RequestsInv, Carries, Types, Serving
  <1>3. /\ p \in ProcType /\ p.at = "insert document" /\ p.limit = proc[c].limit
        /\ p.kind = proc[c].kind /\ p.email = proc[c].email
    BY <1>2 DEF ProcType, Steps
  <1> HIDE DEF p
  <1>4. /\ proc' \in [Clients -> ProcType]
        /\ proc'[c] = p
        /\ \A d \in Clients \ {c} : proc'[d] = proc[d]
    BY <1>1, <1>3, ProcStep
  <1>5. users' = users
    BY <1>1 DEF rows
  <1>6. Carries(c)' /\ HasCode(c)' /\ Unrivalled(c)
    BY <1>2, <1>3, <1>4, <1>5 DEF Carries, HasCode, Unrivalled, At, SigningUp
  <1>7. ReadLimit(c) /\ ReadPlan(c)
    BY <1>1, <1>3, <1>4, StillWithin DEF ReadLimit, ReadPlan, At
  <1> QED BY <1>1, <1>4, <1>6, <1>7, ReadingKeepsInv

LEMMA CreateKeepsInv ==
  ASSUME MembershipsInv, Watch, NEW c \in Clients, CreateDocument(c)
  PROVE  MembershipsInv'
  <1>1. End(c) /\ UNCHANGED <<users, ent, referral, codes, token, edits>>
    BY DEF CreateDocument
  <1>2. saved' \in [Emails -> Nat]
    <2>1. saved \in [Emails -> Nat] /\ proc[c].email \in Emails
      BY DEF CreateDocument, At, MembershipsInv, RequestsInv, Carries, Serving, Types
    <2>2. saved' = [saved EXCEPT ![proc[c].email] = @ + 1] \/ saved' = saved
      BY DEF CreateDocument
    <2> QED BY <2>1, <2>2
  <1>3. Types'
    BY <1>1, <1>2, EndStep DEF MembershipsInv, Types, TokenType
  <1>4. Alone(c)
    BY <1>1, FreeEmail DEF Alone
  <1> QED BY <1>1, <1>3, <1>4, EndStep, ClientKeepsInv

LEMMA CreateTokenKeepsInv ==
  ASSUME MembershipsInv, Watch, NEW c \in Clients, NEW t \in Tokens, CreateAPIToken(c, t)
  PROVE  MembershipsInv'
  <1>1. End(c) /\ UNCHANGED <<users, ent, referral, codes, saved, edits>>
    BY DEF CreateAPIToken
  <1>2. proc[c].email \in users
    BY DEF CreateAPIToken, At, MembershipsInv, RequestsInv, Carries, Serving
  <1>3. /\ token' \in [Tokens -> TokenType]
        /\ \A s \in Tokens : token'[s].state = "live" => token'[s].of \in users
    BY <1>2 DEF CreateAPIToken, MembershipsInv, Types, TokenType
  <1>4. Types'
    BY <1>1, <1>3, EndStep DEF MembershipsInv, Types, TokenType
  <1>5. Alone(c)
    BY <1>1, FreeEmail DEF Alone
  <1> QED BY <1>1, <1>4, <1>5, EndStep, ClientKeepsInv

-----------------------------------------------------------------------------
(* The theorems.                                                           *)

LEMMA EditStep ==
  ASSUME MembershipsInv, NEW e \in Emails,
         \/ RevokeGrant(e)
         \/ \E plan \in {"none", "free", "pro"}, limit \in Limits \cup {None} :
              UpdateOverride(e, plan, limit)
         \/ UpdateSubscription(e)
  PROVE  \E state \in Entitlement :
           Edit(e, state) /\ (state.grant = ent[e].grant \/ state.grant = "revoked")
  <1>1. ent[e] \in Entitlement
    BY DEF MembershipsInv, Types
  <1>2. CASE RevokeGrant(e)
    <2> DEFINE state == [ent[e] EXCEPT !.grant = "revoked"]
    <2>1. state \in Entitlement
      BY EditsAreTyped, Zenon
    <2>2. state.grant = "revoked"
      BY <1>1 DEF Entitlement
    <2> QED BY <1>2, <2>1, <2>2 DEF RevokeGrant
  <1>3. ASSUME NEW plan \in {"none", "free", "pro"}, NEW limit \in Limits \cup {None},
               UpdateOverride(e, plan, limit)
        PROVE  \E state \in Entitlement :
                 Edit(e, state) /\ (state.grant = ent[e].grant \/ state.grant = "revoked")
    <2> DEFINE state == [ent[e] EXCEPT !.manual = plan, !.limit = limit]
    <2>1. state \in Entitlement
      BY EditsAreTyped, Zenon
    <2>2. state.grant = ent[e].grant
      BY <1>1 DEF Entitlement
    <2> QED BY <1>3, <2>1, <2>2 DEF UpdateOverride
  <1>4. CASE UpdateSubscription(e)
    <2> DEFINE state == [ent[e] EXCEPT !.paid = ~@]
    <2>1. state \in Entitlement
      BY EditsAreTyped, Zenon
    <2>2. state.grant = ent[e].grant
      <3> DEFINE b == ~ent[e].paid
      <3>1. [ent[e] EXCEPT !.paid = b].grant = ent[e].grant
        <4> HIDE DEF b
        <4> QED BY <1>1 DEF Entitlement
      <3> QED BY <3>1, Zenon
    <2>3. Edit(e, state)
      BY <1>4, Zenon DEF UpdateSubscription
    <2> HIDE DEF state
    <2> QED BY <2>1, <2>2, <2>3
  <1> QED BY <1>2, <1>3, <1>4

LEMMA StepInv ==
  ASSUME MembershipsInv, [Next]_vars
  PROVE  MembershipsInv'
  <1>1. CASE UNCHANGED vars
    BY <1>1 DEF vars, rows, MembershipsInv, Types, TokenType, RequestsInv, Carries,
                SignupsInv, HasCode, ActiveReferral, ServedInv, Within, At
  <1>2. ASSUME Watch, NEW c \in Clients, Signup(c) PROVE MembershipsInv'
    BY <1>2, RedeemKeepsInv, LockKeepsInv, InsertUserKeepsInv, CommitKeepsInv DEF Signup
  <1>3. ASSUME Watch, NEW c \in Clients, Request(c) PROVE MembershipsInv'
    BY <1>3, BeginCreateKeepsInv, BeginTokenKeepsInv, BeginAgentKeepsInv,
       CreateTokenKeepsInv, EnsureProKeepsInv, ReadStateKeepsInv, CountKeepsInv,
       CreateKeepsInv DEF Request
  <1>4. ASSUME Watch, NEW c \in Clients, RequestFails(c) PROVE MembershipsInv'
    BY <1>4, FailureKeepsInv
  <1>5. ASSUME Watch, Administer PROVE MembershipsInv'
    BY <1>5, ReferralKeepsInv, EditStep, EditKeepsInv DEF Administer
  <1>6. ASSUME Watch, NEW e \in Emails,
               Register(e) \/ UpdateSubscription(e) \/ ArchiveDocument(e)
        PROVE  MembershipsInv'
    BY <1>6, RegisterKeepsInv, EditStep, EditKeepsInv, ArchiveKeepsInv
  <1>7. ASSUME Watch, NEW t \in Tokens, RevokeAPIToken(t) PROVE MembershipsInv'
    BY <1>7, RevokeTokenKeepsInv
  <1> QED BY <1>1, <1>2, <1>3, <1>4, <1>5, <1>6, <1>7 DEF Next, Step

LEMMA MembershipsInvariant == Spec => []MembershipsInv
  <1> QED BY InitInv, StepInv, PTL DEF Spec

\* Every variable keeps its type, and only an address with an account has
\* entitlements, for any number of addresses, codes, tokens and clients.
THEOREM MembershipsTypes == Spec => []TypeOK
  BY MembershipsInvariant, TypesAreTypeOK, PTL

\* A grant goes to an account that is made with the referral's current code.
THEOREM GrantsComeWithTheCode == Spec => GrantsNeedTheCode
  <1>1. ASSUME MembershipsInv, [Next]_vars, NEW e \in Emails,
               ent'[e].grant = "live", ent[e].grant # "live"
        PROVE  /\ e \notin users
               /\ \E c \in Clients : /\ proc[c].email = e
                                     /\ ActiveReferral(proc[c].referral, proc[c].code)
    <2>1. ASSUME NEW c \in Clients, CommitSignup(c)
          PROVE  /\ e \notin users
                 /\ proc[c].email = e /\ ActiveReferral(proc[c].referral, proc[c].code)
      <3>1. proc[c].email = e
        BY <1>1, <2>1 DEF CommitSignup, MembershipsInv, Types
      <3>2. HasCode(c)
        BY <1>1 DEF MembershipsInv, SignupsInv
      <3> QED BY <1>1, <2>1, <3>1, <3>2, FreeEmail DEF CommitSignup, HasCode, At
    <2>2. ASSUME NEW f \in Emails, NEW state \in Entitlement, Edit(f, state),
                 state.grant = ent[f].grant \/ state.grant = "revoked"
          PROVE  FALSE
      BY <1>1, <2>2 DEF Edit, MembershipsInv, Types
    <2>3. ent' # ent
      BY <1>1
    <2>4. CASE Administer
      BY <1>1, <2>2, <2>3, <2>4, EditStep
         DEF Administer, CreateReferral, RotateReferral, DisableReferral
    <2>5. ASSUME NEW f \in Emails,
                 Register(f) \/ UpdateSubscription(f) \/ ArchiveDocument(f)
          PROVE  FALSE
      BY <1>1, <2>2, <2>3, <2>5, EditStep DEF Register, ArchiveDocument
    <2>6. CASE ~Administer
      <3>1. Step
        BY <1>1, <2>3 DEF Next, vars, rows
      <3>2. ASSUME NEW c \in Clients, Request(c) \/ RequestFails(c) PROVE FALSE
        BY <2>3, <3>2 DEF Request, RequestFails, rows, BeginCreate, BeginToken, BeginAgent,
           EnsurePro, ReadState, CountSavedDocs, CreateDocument, CreateAPIToken
      <3>3. ASSUME NEW c \in Clients, Signup(c) PROVE CommitSignup(c)
        BY <2>3, <3>3 DEF Signup, rows, Redeem, LockReferral, InsertUser
      <3>4. ASSUME NEW t \in Tokens, RevokeAPIToken(t) PROVE FALSE
        BY <2>3, <3>4 DEF RevokeAPIToken
      <3> QED BY <2>1, <2>5, <2>6, <3>1, <3>2, <3>3, <3>4 DEF Step
    <2> QED BY <2>4, <2>6
  <1>2. MembershipsInv /\ [Next]_vars =>
          [\A e \in Emails : ent'[e].grant = "live" /\ ent[e].grant # "live" =>
             /\ e \notin users
             /\ \E c \in Clients : proc[c].email = e /\ ActiveReferral(proc[c].referral, proc[c].code)]_vars
    BY <1>1
  <1> QED BY <1>2, MembershipsInvariant, PTL DEF Spec, GrantsNeedTheCode

LEMMA OneMore ==
  ASSUME NEW f \in [Emails -> Nat], NEW e \in Emails, NEW l \in Nat, NEW g,
         g = IF f[e] < l THEN [f EXCEPT ![e] = @ + 1] ELSE f
  PROVE  g[e] > f[e] => g[e] <= l
  OBVIOUS

LEMMA AtMost == \A i, j, k \in Nat : i <= j /\ j <= k => i <= k
  OBVIOUS

\* A request is given what its account was entitled to while it ran.
THEOREM RequestsStayWithinThePlan == Spec => ServedWithinPlan
  <1>1. ASSUME MembershipsInv, [Next]_vars, NEW c \in Clients, proc'[c] # proc[c],
               token' # token \/ saved' # saved
        PROVE  /\ proc[c].kind \in {"token", "agent"} => best[c].pro
               /\ saved'[proc[c].email] > saved[proc[c].email] =>
                    saved'[proc[c].email] <= best[c].limit
    <2>1. ASSUME NEW d \in Clients, CreateDocument(d)
          PROVE  /\ d = c
                 /\ proc[c].kind \in {"token", "agent"} => best[c].pro = TRUE
                 /\ saved'[proc[c].email] > saved[proc[c].email] =>
                      saved'[proc[c].email] <= best[c].limit
      <3>1. d = c
        BY <1>1, <2>1, EndStep DEF CreateDocument
      <3>2. /\ proc[c].at = "insert document" /\ proc[c].email \in Emails
            /\ saved \in [Emails -> Nat] /\ proc[c].limit \in Nat /\ best[c].limit \in Nat
        BY <1>1, <2>1, <3>1 DEF CreateDocument, At, MembershipsInv, RequestsInv, Carries, Serving,
                          Types, ProcType, BestType
      <3>3. saved'[proc[c].email] > saved[proc[c].email] =>
              saved'[proc[c].email] <= proc[c].limit
        <4> DEFINE e == proc[c].email
        <4>1. saved' = IF saved[e] < proc[c].limit THEN [saved EXCEPT ![e] = @ + 1] ELSE saved
          BY <2>1, <3>1 DEF CreateDocument
        <4>2. e \in Emails /\ saved \in [Emails -> Nat] /\ proc[c].limit \in Nat
          BY <3>2
        <4> QED BY <4>1, <4>2, OneMore
      <3>4. saved' \in [Emails -> Nat]
        BY <1>1, StepInv DEF MembershipsInv, Types
      <3>5. /\ proc[c].limit <= best[c].limit
            /\ proc[c].kind \in {"token", "agent"} => best[c].pro = TRUE
        BY <1>1, <3>2, StillWithin
      <3>6. saved'[proc[c].email] > saved[proc[c].email] =>
              saved'[proc[c].email] <= best[c].limit
        <4>1. proc[c].limit <= best[c].limit
          BY <3>5, Zenon
        <4>2. saved'[proc[c].email] \in Nat
          BY <3>2, <3>4
        <4> QED BY <3>2, <3>3, <4>1, <4>2, AtMost
      <3> QED BY <3>1, <3>5, <3>6, Zenon
    <2>2. ASSUME NEW d \in Clients, NEW t \in Tokens, CreateAPIToken(d, t)
          PROVE  /\ d = c
                 /\ proc[c].kind \in {"token", "agent"} => best[c].pro = TRUE
                 /\ saved' = saved
      <3>1. d = c
        BY <1>1, <2>2, EndStep DEF CreateAPIToken
      <3>2. Within(c) /\ At(c, "insert token")
        BY <1>1, <2>2, <3>1 DEF CreateAPIToken, MembershipsInv, ServedInv
      <3> QED BY <2>2, <3>1, <3>2 DEF CreateAPIToken, Within, At, Serving
    <2>3. \/ \E d \in Clients : CreateDocument(d)
          \/ \E d \in Clients, t \in Tokens : CreateAPIToken(d, t)
      BY <1>1 DEF Next, Step, Signup, Request, vars, rows, Redeem, Edit, RevokeGrant,
         LockReferral, InsertUser, CommitSignup, BeginCreate, BeginToken, BeginAgent,
         EnsurePro, ReadState, CountSavedDocs, RequestFails, RevokeAPIToken, Administer,
         CreateReferral, RotateReferral, DisableReferral, UpdateOverride, Register,
         UpdateSubscription, ArchiveDocument
    <2>4. CASE \E d \in Clients : CreateDocument(d)
      BY <2>1, <2>4
    <2>5. CASE \E d \in Clients, t \in Tokens : CreateAPIToken(d, t)
      <3>1. saved[proc[c].email] \in Nat
        BY <1>1, <2>2, <2>5 DEF CreateAPIToken, At, MembershipsInv, RequestsInv, Carries, Serving,
                          Types
      <3>2. /\ proc[c].kind \in {"token", "agent"} => best[c].pro = TRUE
            /\ saved' = saved
        BY <2>2, <2>5, Zenon
      <3>3. ~(saved'[proc[c].email] > saved[proc[c].email])
        <4>1. saved' = saved
          BY <3>2, Zenon
        <4> QED BY <3>1, <4>1
      <3> QED BY <3>2, <3>3, Zenon
    <2> QED BY <2>3, <2>4, <2>5
  <1>2. MembershipsInv /\ [Next]_vars =>
          [\A c \in Clients :
             LET e == proc[c].email IN
             proc'[c] # proc[c] /\ (token' # token \/ saved' # saved) =>
               /\ proc[c].kind \in {"token", "agent"} => best[c].pro
               /\ saved'[e] > saved[e] => saved'[e] <= best[c].limit]_vars
    BY <1>1
  <1> QED BY <1>2, MembershipsInvariant, PTL DEF Spec, ServedWithinPlan
=============================================================================
