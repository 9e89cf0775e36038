---------------------------- MODULE Credentials ----------------------------
(***************************************************************************)
(* What the reset of a password promises the owner of an email address:    *)
(* each operation happens at one moment.  The queue, its workers and       *)
(* leases, the statements of a transaction, row locks and failures do not  *)
(* appear.                                                                 *)
(***************************************************************************)
EXTENDS Naturals

CONSTANTS Requests, None, NoAccount

VARIABLES
  account,   \* the account of the address
  born,      \* how many accounts it has had
  password,  \* the link that set the password, None: the one of the sign-up
  sessions,  \* the sessions, each with the password that opened it
  links,     \* what each link can do
  mails      \* the links that have reached the mailbox

vars == <<account, born, password, sessions, links, mails>>

Init ==
  /\ account = NoAccount /\ born = 0
  /\ password = None /\ sessions = {}
  /\ links = [r \in Requests |-> "none"] /\ mails = {}

\* The address signs up, with a password of its own.
SignedUp ==
  /\ account = NoAccount
  /\ born' = born + 1 /\ account' = born'
  /\ password' = None
  /\ UNCHANGED <<sessions, links, mails>>

\* A link is made for the account, once.
Linked(r) ==
  /\ account # NoAccount
  /\ links[r] = "none"
  /\ links' = [links EXCEPT ![r] = "usable"]
  /\ UNCHANGED <<account, born, password, sessions, mails>>

Mailed(r) ==
  /\ mails' = mails \cup {r}
  /\ UNCHANGED <<account, born, password, sessions, links>>

\* A session needs the password there is, or a login that a reset overtook.
SignedIn ==
  /\ account # NoAccount
  /\ \E p \in Requests \cup {None}, late \in BOOLEAN :
       /\ p = password \/ late
       /\ sessions' = sessions \cup {[password |-> p, overtaken |-> late]}
  /\ UNCHANGED <<account, born, password, links, mails>>

SignedOut ==
  /\ \E s \in sessions : sessions' = sessions \ {s}
  /\ UNCHANGED <<account, born, password, links, mails>>

\* A mailed link that has not been used sets the password.  In the same breath
\* every link is spent, and every session ends but those of logins it overtook.
Reset(r) ==
  /\ account # NoAccount
  /\ r \in mails
  /\ links[r] = "usable"
  /\ password' = r
  /\ links' = [q \in Requests |-> IF links[q] = "usable" THEN "spent" ELSE links[q]]
  /\ sessions' \subseteq {s \in sessions : s.overtaken}
  /\ UNCHANGED <<account, born, mails>>

\* The account goes, and all that belongs to it at once.
Deleted ==
  /\ account # NoAccount
  /\ account' = NoAccount
  /\ password' = None /\ sessions' = {}
  /\ links' = [r \in Requests |-> "none"]
  /\ UNCHANGED <<born, mails>>

Next ==
  \/ SignedUp \/ SignedIn \/ SignedOut \/ Deleted
  \/ \E r \in Requests : Linked(r) \/ Mailed(r) \/ Reset(r)

Spec == Init /\ [][Next]_vars

=============================================================================
