------------------------------ MODULE MCEditor ------------------------------
(* Instances of Editor for TLC. *)
EXTENDS Editor, TLC

\* Requests in flight, documents and texts with words are interchangeable.
EditorSymmetry == Permutations(Slots) \cup Permutations(Docs)
                  \cup Permutations(Texts \ {Blank})

=============================================================================
