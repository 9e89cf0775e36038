------------------------------ MODULE Library ------------------------------
(***************************************************************************)
(* What the document service promises: each operation happens at one       *)
(* moment, on the document as it is at that moment.  Requests, statements, *)
(* retries and locks do not appear.                                        *)
(***************************************************************************)
EXTENDS Integers, FiniteSets

CONSTANTS
  Users, PublicIds, Bodies,
  ActorsOf,   \* the identities that may write the documents of each account
  Limits,     \* the saved document limits an account can have
  NoLimit, NoRow

VARIABLES docs, contributors

Active(u) == {d \in PublicIds : docs[d].state = "active" /\ docs[d].owner = u}

Room(u) == \E limit \in Limits : limit = NoLimit \/ Cardinality(Active(u)) < limit

Init ==
  /\ docs = [d \in PublicIds |-> NoRow]
  /\ contributors = [d \in PublicIds |-> {}]

\* A document is saved for the first time, by one writer, while there is room.
Created(d) ==
  \E u \in Users, b \in Bodies : \E a \in ActorsOf[u] :
    /\ docs[d].state = "absent"
    /\ Room(u)
    /\ docs' = [docs EXCEPT ![d] = [state |-> "active", owner |-> u, body |-> b,
                                    version |-> 1, starred |-> FALSE,
                                    shared |-> FALSE, editor |-> a]]
    /\ contributors' = [contributors EXCEPT ![d] = {a}]

\* A body is replaced: the next version, signed by its writer.  A star may be
\* set in the same breath.
Written(d) ==
  /\ docs[d].state = "active"
  /\ \E b \in Bodies, s \in BOOLEAN, a \in ActorsOf[docs[d].owner] :
       /\ docs' = [docs EXCEPT ![d].body = b, ![d].version = @ + 1,
                               ![d].editor = a, ![d].starred = s]
       /\ contributors' = [contributors EXCEPT ![d] = @ \cup {a}]

\* A star, or the link, is switched on or off; the text and its history stay.
Flagged(d) ==
  \E s \in BOOLEAN :
    /\ docs[d].state = "active"
    /\ \/ docs' = [docs EXCEPT ![d].starred = s]
       \/ docs' = [docs EXCEPT ![d].shared = s]
    /\ UNCHANGED contributors

\* Only a private document is archived, and nothing happens to it afterwards.
Archived(d) ==
  /\ docs[d].state = "active"
  /\ ~docs[d].shared
  /\ docs' = [docs EXCEPT ![d].state = "archived"]
  /\ UNCHANGED contributors

Next == \E d \in PublicIds : Created(d) \/ Written(d) \/ Flagged(d) \/ Archived(d)

Spec == Init /\ [][Next]_<<docs, contributors>>

=============================================================================
