-------------------------- MODULE MCDocumentStore --------------------------
(* Instances of DocumentStore for TLC. *)
EXTENDS DocumentStore, TLC

CONSTANTS u1, u2, b1, t1, t2

\* Every client acts for one account.
OneAccount == [c \in Clients |-> u1]

\* b1 and t1 act for u1; t2 for u2.
TwoAccounts == [c \in Clients |-> IF c = t2 THEN u2 ELSE u1]

\* The owner types in a browser while an agent edits through MCP.
WriterAndAgent == [c \in Clients |-> IF c \in Tokens THEN {"edit", "append"}
                                     ELSE {"create", "get", "patch", "archive"}]

\* The owner, the owner's script, and a script of another account that knows the id.
Organising == (b1 :> {"create", "archive", "share", "unshare"})
              @@ (t1 :> {"star", "archive"}) @@ (t2 :> {"star"})

\* Creates and archives only.
Filling == [c \in Clients |-> {"create", "archive"}]

\* Billing never changes, or takes an account between Free and Pro.
ProOnly == {[pro |-> TRUE, limit |-> 1]}
FreeAndPro == {[pro |-> FALSE, limit |-> 1], [pro |-> TRUE, limit |-> 2]}

PassageSymmetry == Permutations(Passages)
DocumentSymmetry == Permutations(PublicIds)

=============================================================================
