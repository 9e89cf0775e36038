--------------------------- MODULE MCDocumentIndex ---------------------------
(***************************************************************************)
(* An instance of DocumentIndex: pages of one document, three documents of *)
(* one account and one of another.                                         *)
(***************************************************************************)
EXTENDS DocumentIndex

CONSTANTS ann, bob

\* Documents 1, 2 and 3 are Ann's.
MCOwner == [d \in Docs |-> IF d <= 3 THEN ann ELSE bob]
=============================================================================
