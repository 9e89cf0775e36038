----------------------------- MODULE EditorProofs -----------------------------
(***************************************************************************)
(* What holds of the editor for any documents, texts and autosaves in      *)
(* flight, with no bound on the versions.                                  *)
(***************************************************************************)
EXTENDS Editor, TLAPS

\* An autosave in flight is about a document; an answer carries a row.
SavesInv ==
  \A s \in Slots :
    /\ saves[s].reply # "none" => saves[s].doc \in Docs
    /\ saves[s].reply \in {"ok", "conflict"} => saves[s].row \in Row

\* The timer runs for a draft, which is that of a document.
TypesInv == TypeOK /\ SavesInv /\ (armed => pending # None)

USE DEF vars

LEMMA InitTypes == Init => TypesInv
<1> SUFFICES ASSUME Init PROVE TypesInv
  OBVIOUS
<1>1. PICK b \in [Docs -> Texts] :
        stored = [d \in Docs |-> [kept |-> TRUE, body |-> b[d], version |-> 1]]
  BY DEF Init
<1>2. stored \in [Docs -> Stored]
  BY <1>1 DEF Stored
<1>3. tab \in [Docs -> TabDoc]
  BY TextsAssumption DEF TextsAssumption, Init, TabDoc
<1>4. saves \in [Slots -> Save] /\ SavesInv /\ armed = FALSE
  BY TextsAssumption DEF TextsAssumption, Init, NoSave, Save, SavesInv, NoVersion
<1> QED
  BY <1>2, <1>3, <1>4 DEF Init, TypesInv, TypeOK

\* What the setters make of values of their types.
LEMMA RowTyped ==
  ASSUME stored \in [Docs -> Stored], NEW d \in Docs
  PROVE RowOf(d) \in Row
BY DEF Stored, Row, RowOf

LEMMA AdoptTyped ==
  ASSUME NEW doc \in TabDoc, NEW row \in Row, NEW n \in Nat, NEW b \in Texts
  PROVE /\ Adopt(doc, row, Latest(doc.stamp, n)) \in TabDoc
        /\ Adopt(doc, row, n) \in TabDoc
        /\ [Adopt(doc, row, Latest(doc.stamp, n)) EXCEPT !.body = b] \in TabDoc
        /\ [Adopt(doc, row, n) EXCEPT !.body = b] \in TabDoc
        /\ Adopt(doc, row, n).loaded /\ Adopt(doc, row, n).version = row.version
        /\ Adopt(doc, row, n).listed = doc.listed
BY DEF TabDoc, Row, Adopt, Latest

LEMMA ArchivedTyped ==
  ASSUME stored \in [Docs -> Stored], NEW d \in Docs
  PROVE [stored EXCEPT ![d].kept = FALSE] \in [Docs -> Stored]
BY DEF Stored

LEMMA WrittenTyped ==
  ASSUME stored \in [Docs -> Stored], NEW d \in Docs, NEW b \in Texts
  PROVE [stored EXCEPT ![d].body = b, ![d].version = @ + 1] \in [Docs -> Stored]
<1>1. stored[d] \in Stored /\ stored[d].version + 1 \in Nat
  BY DEF Stored
<1>2. \A r \in Stored, n \in Nat : [r EXCEPT !.body = b, !.version = n] \in Stored
  BY DEF Stored
<1>3. [stored[d] EXCEPT !.body = b, !.version = stored[d].version + 1] \in Stored
  BY <1>1, <1>2
<1> QED BY <1>1, <1>3

LEMMA ListedTyped ==
  ASSUME tab \in [Docs -> TabDoc], NEW d \in Docs
  PROVE /\ [tab EXCEPT ![d].listed = FALSE] \in [Docs -> TabDoc]
        /\ [tab EXCEPT ![d].listed = TRUE] \in [Docs -> TabDoc]
BY DEF TabDoc

\* The server's answer to an autosave.
LEMMA AnsweredTyped ==
  ASSUME saves \in [Slots -> Save], NEW s \in Slots, NEW answer \in {"ok", "conflict"},
         NEW row \in Row
  PROVE [saves EXCEPT ![s].reply = answer, ![s].row = row] \in [Slots -> Save]
<1>1. \A r \in Save : [r EXCEPT !.reply = answer, !.row = row] \in Save
  BY DEF Save
<1>2. [saves[s] EXCEPT !.reply = answer, !.row = row] \in Save
  BY <1>1
<1> QED BY <1>2

\* SetPending marks what is in flight and changes nothing else about it.
LEMMA SetPendingTyped ==
  ASSUME NEW p \in [doc: Docs, body: Texts] \cup {None}, NEW t \in [Slots -> Save],
         SetPending(p, t)
  PROVE /\ pending' \in [doc: Docs, body: Texts] \cup {None}
        /\ pending' = p
        /\ armed' \in BOOLEAN /\ (armed' => pending' # None)
        /\ saves' \in [Slots -> Save]
        /\ \A s \in Slots : /\ saves'[s].doc = t[s].doc
                            /\ saves'[s].reply = t[s].reply
                            /\ saves'[s].row = t[s].row
                            /\ saves'[s].version = t[s].version
        /\ (/\ \A s \in Slots : t[s].reply # "none" => t[s].doc \in Docs
            /\ \A s \in Slots : t[s].reply \in {"ok", "conflict"} => t[s].row \in Row)
           => SavesInv'
<1>1. \A s \in Slots : /\ saves'[s].doc = t[s].doc
                       /\ saves'[s].reply = t[s].reply
                       /\ saves'[s].row = t[s].row
                       /\ saves'[s].version = t[s].version
  BY DEF SetPending, Save
<1>2. saves' \in [Slots -> Save]
  BY DEF SetPending, Save
<1>3. pending' = p /\ armed' \in BOOLEAN /\ (armed' => pending' # None)
  BY DEF SetPending
<1> QED
  BY <1>1, <1>2, <1>3 DEF SavesInv

LEMMA FreedTyped ==
  ASSUME saves \in [Slots -> Save], NEW s \in Slots
  PROVE /\ Freed(s) \in [Slots -> Save]
        /\ \A r \in Slots : Freed(s)[r] = IF r = s THEN NoSave ELSE saves[r]
        /\ SavesInv => /\ \A r \in Slots : Freed(s)[r].reply # "none" => Freed(s)[r].doc \in Docs
                       /\ \A r \in Slots : Freed(s)[r].reply \in {"ok", "conflict"}
                                             => Freed(s)[r].row \in Row
BY TextsAssumption DEF SavesInv, Freed, Save, NoSave, NoVersion, TextsAssumption

\* A step leaves most of the state alone; what it touches keeps its type.
LEMMA TypesStep ==
  ASSUME TypesInv, [Next]_vars PROVE TypesInv'
<1> USE TextsAssumption, BoundsAssumption DEF TextsAssumption, BoundsAssumption
<1>1. /\ stored \in [Docs -> Stored] /\ tab \in [Docs -> TabDoc]
      /\ saves \in [Slots -> Save] /\ SavesInv
      /\ loads \in [Docs -> Row \cup {None, Sent}]
      /\ conflict \in [Docs -> [draft: Texts, current: Row] \cup {None}]
      /\ removals \in [Docs -> {"none", "sent", "done"}]
      /\ page \in [Docs -> Nat] \cup {None, Sent}
      /\ unsaved \in [Docs -> Texts \cup {None}]
      /\ seen \in [Docs -> SUBSET Nat]
      /\ pending \in [doc: Docs, body: Texts] \cup {None}
      /\ armed \in BOOLEAN /\ (armed => pending # None)
      /\ open \in Docs \cup {None} /\ saveState \in {"saving", "saved", "error"}
  BY DEF TypesInv, TypeOK
<1>2. ASSUME NEW b \in Texts, Type(b) PROVE TypesInv'
  <2>1. /\ open \in Docs
        /\ tab' = [tab EXCEPT ![open].body = b]
        /\ unsaved' = [unsaved EXCEPT ![open] = b]
        /\ SetPending([doc |-> open, body |-> b], saves)
        /\ saveState' = "saving"
        /\ UNCHANGED <<stored, open, loads, page, removals, conflict, seen>>
    BY <1>1, <1>2 DEF Type, Showing
  <2>2. tab' \in [Docs -> TabDoc]
    BY <1>1, <2>1 DEF TabDoc
  <2>3. unsaved' \in [Docs -> Texts \cup {None}]
    BY <1>1, <2>1
  <2>4. pending' \in [doc: Docs, body: Texts] \cup {None} /\ armed' \in BOOLEAN
        /\ (armed' => pending' # None) /\ saves' \in [Slots -> Save] /\ SavesInv'
    BY <1>1, <2>1, SetPendingTyped DEF SavesInv
  <2> QED BY <1>1, <2>1, <2>2, <2>3, <2>4 DEF TypesInv, TypeOK
<1>3. ASSUME Fire PROVE TypesInv'
  <2>1. PICK s \in Slots :
          saves' = [saves EXCEPT ![s] =
            [doc |-> pending.doc, body |-> pending.body, live |-> TRUE,
             version |-> VersionSent(pending.doc), reply |-> "sent", row |-> None]]
    BY <1>3 DEF Fire
  <2>2. pending \in [doc: Docs, body: Texts]
    BY <1>1, <1>3 DEF Fire
  <2>3. VersionSent(pending.doc) \in Nat
    BY <1>1, <2>2 DEF VersionSent, NoVersion, TabDoc
  <2>4. saves' \in [Slots -> Save] /\ SavesInv'
    BY <1>1, <2>1, <2>2, <2>3 DEF Save, SavesInv
  <2> QED BY <1>1, <1>3, <2>4 DEF Fire, TypesInv, TypeOK
<1>4. ASSUME NEW s \in Slots, ServeSave(s) PROVE TypesInv'
  <2>1. saves[s].doc \in Docs /\ saves[s].body \in Texts /\ saves[s].row \in Row \cup {None}
    BY <1>1, <1>4 DEF ServeSave, SavesInv, Save
  <2>2. stored[saves[s].doc] \in Stored /\ RowOf(saves[s].doc) \in Row
    BY <1>1, <2>1, RowTyped
  <2>3. stored[saves[s].doc].version + 1 \in Nat
    BY <2>2 DEF Stored
  <2>4. [body |-> saves[s].body, version |-> stored[saves[s].doc].version + 1] \in Row
    BY <2>1, <2>3 DEF Row
  <2> DEFINE next == [body |-> saves[s].body, version |-> stored[saves[s].doc].version + 1]
  <2>5. /\ stored' = stored \/ stored' = [stored EXCEPT ![saves[s].doc].body = next.body,
                                                    ![saves[s].doc].version = next.version]
        /\ seen' = seen \/ seen' = [seen EXCEPT ![saves[s].doc] = @ \cup {next.version}]
        /\ unsaved' = unsaved \/ unsaved' = [unsaved EXCEPT ![saves[s].doc] =
                                             IF @ = saves[s].body THEN None ELSE @]
        /\ \/ saves' = [saves EXCEPT ![s].reply = "ok", ![s].row = next]
           \/ saves' = [saves EXCEPT ![s].reply = "conflict", ![s].row = RowOf(saves[s].doc)]
    BY <1>4 DEF ServeSave
  <2>6. stored' \in [Docs -> Stored]
    BY <1>1, <2>1, <2>3, <2>5 DEF Stored
  <2>7. seen' \in [Docs -> SUBSET Nat]
    BY <1>1, <2>1, <2>3, <2>5
  <2>8. unsaved' \in [Docs -> Texts \cup {None}]
    BY <1>1, <2>1, <2>5
  <2> HIDE DEF next
  <2>9. next \in Row
    BY <2>4 DEF next
  <2>10. saves' \in [Slots -> Save]
    <3>1. CASE saves' = [saves EXCEPT ![s].reply = "ok", ![s].row = next]
      BY <1>1, <2>9, <3>1, AnsweredTyped
    <3>2. CASE saves' = [saves EXCEPT ![s].reply = "conflict", ![s].row = RowOf(saves[s].doc)]
      BY <1>1, <2>2, <3>2, AnsweredTyped
    <3> QED BY <2>5, <3>1, <3>2
  <2>11. SavesInv'
    <3>1. ASSUME NEW r \in Slots, r # s PROVE saves'[r] = saves[r]
      BY <1>1, <2>5, <3>1
    <3>2. saves'[s].doc = saves[s].doc /\ saves'[s].row \in Row
      BY <1>1, <2>2, <2>5, <2>9 DEF Save
    <3> QED BY <1>1, <2>1, <3>1, <3>2 DEF SavesInv
  <2> QED BY <1>1, <1>4, <2>6, <2>7, <2>8, <2>10, <2>11 DEF ServeSave, TypesInv, TypeOK
<1>5. ASSUME NEW s \in Slots, ReceiveSaved(s) PROVE TypesInv'
  <2>1. saves[s].doc \in Docs /\ saves[s].row \in Row /\ saves[s].row.version \in Nat
    BY <1>1, <1>5 DEF ReceiveSaved, SavesInv, Row
  <2>2. ASSUME NEW doc \in TabDoc PROVE Saved(doc, saves[s]) \in TabDoc
    <3>1. doc.body \in Texts
      BY <2>2 DEF TabDoc
    <3>2. Adopt(doc, saves[s].row, Latest(doc.stamp, saves[s].row.version)) \in TabDoc
      BY <2>1, <2>2, <3>1, AdoptTyped
    <3> QED BY <3>1, <3>2 DEF Saved, TabDoc
  <2>3. tab' \in [Docs -> TabDoc]
    <3>1. tab' = [tab EXCEPT ![saves[s].doc] =
                    IF @.listed THEN Saved(@, saves[s]) ELSE @]
      BY <1>5 DEF ReceiveSaved
    <3> QED BY <1>1, <2>1, <2>2, <3>1
  <2>4. Freed(s) \in [Slots -> Save]
        /\ \A r \in Slots : Freed(s)[r] = IF r = s THEN NoSave ELSE saves[r]
    BY <1>1, FreedTyped
  <2>5. saves' \in [Slots -> Save] /\ SavesInv'
        /\ pending' \in [doc: Docs, body: Texts] \cup {None}
        /\ armed' \in BOOLEAN /\ (armed' => pending' # None)
        /\ saveState' \in {"saving", "saved", "error"}
    <3>1. CASE saves[s].live
      <4>1. SetPending(None, Freed(s)) /\ saveState' = "saved"
        BY <1>5, <3>1 DEF ReceiveSaved
      <4> QED BY <1>1, <4>1, FreedTyped, SetPendingTyped
    <3>2. CASE ~saves[s].live
      BY <1>1, <1>5, <2>4, <3>2 DEF ReceiveSaved, SavesInv, NoSave
    <3> QED BY <3>1, <3>2
  <2> QED BY <1>1, <1>5, <2>3, <2>5 DEF ReceiveSaved, TypesInv, TypeOK
<1>6. ASSUME NEW s \in Slots, ReceiveRefusal(s) PROVE TypesInv'
  <2>1. saves[s].doc \in Docs /\ saves[s].row \in Row /\ saves[s].row.version \in Nat
        /\ saves[s].body \in Texts
    BY <1>1, <1>6 DEF ReceiveRefusal, SavesInv, Row, Save
  <2>2. Freed(s) \in [Slots -> Save]
        /\ \A r \in Slots : Freed(s)[r] = IF r = s THEN NoSave ELSE saves[r]
    BY <1>1, FreedTyped
  <2>3. /\ saves' \in [Slots -> Save] /\ SavesInv'
        /\ pending' \in [doc: Docs, body: Texts] \cup {None}
        /\ armed' \in BOOLEAN /\ (armed' => pending' # None)
        /\ saveState' \in {"saving", "saved", "error"}
        /\ conflict' \in [Docs -> [draft: Texts, current: Row] \cup {None}]
        /\ seen' \in [Docs -> SUBSET Nat]
    <3>1. CASE saves[s].live
      <4>1. /\ SetPending(None, Freed(s)) /\ saveState' = "error"
            /\ conflict' = [conflict EXCEPT ![saves[s].doc] =
                              [draft |-> saves[s].body, current |-> saves[s].row]]
            /\ seen' = [seen EXCEPT ![saves[s].doc] = @ \cup {saves[s].row.version}]
        BY <1>6, <3>1 DEF ReceiveRefusal
      <4>2. saves' \in [Slots -> Save] /\ SavesInv' /\ armed' \in BOOLEAN
            /\ (armed' => pending' # None)
            /\ pending' \in [doc: Docs, body: Texts] \cup {None}
        BY <1>1, <4>1, FreedTyped, SetPendingTyped
      <4>3. conflict' \in [Docs -> [draft: Texts, current: Row] \cup {None}]
            /\ seen' \in [Docs -> SUBSET Nat]
        BY <1>1, <2>1, <4>1
      <4> QED BY <4>1, <4>2, <4>3
    <3>2. CASE ~saves[s].live
      BY <1>1, <1>6, <2>2, <3>2 DEF ReceiveRefusal, SavesInv, NoSave
    <3> QED BY <3>1, <3>2
  <2> QED BY <1>1, <1>6, <2>3 DEF ReceiveRefusal, TypesInv, TypeOK
<1>7. ASSUME NEW s \in Slots, ReceiveFailure(s) PROVE TypesInv'
  <2>1. Freed(s) \in [Slots -> Save]
        /\ \A r \in Slots : Freed(s)[r] = IF r = s THEN NoSave ELSE saves[r]
    BY <1>1, FreedTyped
  <2>2. saves' \in [Slots -> Save] /\ SavesInv' /\ saveState' \in {"saving", "saved", "error"}
    BY <1>1, <1>7, <2>1 DEF ReceiveFailure, SavesInv, NoSave
  <2> QED BY <1>1, <1>7, <2>2 DEF ReceiveFailure, TypesInv, TypeOK
<1>8. ASSUME NEW d \in Docs, SelectDoc(d) PROVE TypesInv'
  <2>1. Asked(d) \in [Docs -> Row \cup {None, Sent}]
    BY <1>1 DEF Asked
  <2>2. /\ removals' \in [Docs -> {"none", "sent", "done"}]
        /\ tab' \in [Docs -> TabDoc]
        /\ unsaved' \in [Docs -> Texts \cup {None}]
    <3>1. CASE Discarded(open)
      <4>1. open \in Docs
        BY <1>1, <3>1, TextsAssumption DEF Discarded
      <4>2. /\ removals' = [removals EXCEPT ![open] = "sent"]
            /\ tab' = [tab EXCEPT ![open].listed = FALSE]
            /\ unsaved' = [unsaved EXCEPT ![open] = None]
        BY <1>8, <3>1 DEF SelectDoc
      <4>3. tab' \in [Docs -> TabDoc]
        BY <1>1, <4>1, <4>2, ListedTyped
      <4> QED BY <1>1, <4>1, <4>2, <4>3
    <3>2. CASE ~Discarded(open)
      BY <1>1, <1>8, <3>2 DEF SelectDoc
    <3> QED BY <3>1, <3>2
  <2> QED BY <1>1, <1>8, <2>1, <2>2 DEF SelectDoc, TypesInv, TypeOK, SavesInv
<1>9. ASSUME LoadOpen PROVE TypesInv'
  <2>1. loads' \in [Docs -> Row \cup {None, Sent}]
    BY <1>1, <1>9 DEF LoadOpen, Asked
  <2> QED BY <1>1, <1>9, <2>1 DEF LoadOpen, TypesInv, TypeOK, SavesInv
<1>10. ASSUME NEW d \in Docs, ServeLoad(d) \/ FailLoad(d) PROVE TypesInv'
  <2>1. RowOf(d) \in Row
    BY <1>1, RowTyped
  <2>2. loads' \in [Docs -> Row \cup {None, Sent}]
    BY <1>1, <1>10, <2>1 DEF ServeLoad, FailLoad
  <2> QED BY <1>1, <1>10, <2>2 DEF ServeLoad, FailLoad, TypesInv, TypeOK, SavesInv
<1>11. ASSUME NEW d \in Docs, ReceiveLoad(d) PROVE TypesInv'
  <2>1. loads[d] \in Row /\ loads[d].version \in Nat
    BY <1>1, <1>11 DEF ReceiveLoad, Row
  <2>2. tab[d] \in TabDoc /\ tab[d].body \in Texts
    BY <1>1 DEF TabDoc
  <2>3. Adopt(tab[d], loads[d], Latest(tab[d].stamp, loads[d].version)) \in TabDoc
    BY <2>1, <2>2, AdoptTyped
  <2>4. tab' \in [Docs -> TabDoc] /\ seen' \in [Docs -> SUBSET Nat]
        /\ loads' \in [Docs -> Row \cup {None, Sent}]
    BY <1>1, <1>11, <2>1, <2>2, <2>3 DEF ReceiveLoad
  <2> QED BY <1>1, <1>11, <2>4 DEF ReceiveLoad, TypesInv, TypeOK, SavesInv
<1>12. ASSUME AskPage \/ ServePage \/ FailPage PROVE TypesInv'
  <2>1. page' \in [Docs -> Nat] \cup {None, Sent}
    BY <1>1, <1>12 DEF AskPage, ServePage, FailPage, Stored
  <2> QED BY <1>1, <1>12, <2>1 DEF AskPage, ServePage, FailPage, TypesInv, TypeOK, SavesInv
<1>13. ASSUME ReceivePage PROVE TypesInv'
  <2>1. \A d \in Docs : Refreshed(d, page[d]) \in TabDoc
    BY <1>1, <1>13 DEF ReceivePage, Refreshed, Unread, TabDoc
  <2>2. tab' \in [Docs -> TabDoc]
    BY <1>13, <2>1 DEF ReceivePage
  <2> QED BY <1>1, <1>13, <2>2 DEF ReceivePage, TypesInv, TypeOK, SavesInv
<1>14. ASSUME NEW d \in Docs, ServeRemoval(d) \/ ReceiveRemoval(d) \/ FailRemoval(d)
       PROVE TypesInv'
  <2>1. stored' \in [Docs -> Stored]
    <3>1. stored' = stored \/ stored' = [stored EXCEPT ![d].kept = FALSE]
      BY <1>14 DEF ServeRemoval, ReceiveRemoval, FailRemoval
    <3> QED BY <1>1, <3>1, ArchivedTyped
  <2>2. tab' \in [Docs -> TabDoc]
    <3>1. CASE tab' = tab
      BY <1>1, <3>1
    <3>2. CASE tab' = [tab EXCEPT ![d].listed = TRUE]
      BY <1>1, <3>2, ListedTyped
    <3> QED BY <1>14, <3>1, <3>2 DEF ServeRemoval, ReceiveRemoval, FailRemoval
  <2>3. removals' \in [Docs -> {"none", "sent", "done"}]
    BY <1>1, <1>14 DEF ServeRemoval, ReceiveRemoval, FailRemoval
  <2> QED BY <1>1, <1>14, <2>1, <2>2, <2>3 DEF ServeRemoval, ReceiveRemoval, FailRemoval, TypesInv, TypeOK, SavesInv
<1>15. ASSUME LoadTheirs PROVE TypesInv'
  <2>1. open \in Docs /\ conflict[open] \in [draft: Texts, current: Row]
        /\ conflict[open].current \in Row /\ conflict[open].current.version \in Nat
    BY <1>1, <1>15 DEF LoadTheirs, Row
  <2>2. tab[open] \in TabDoc /\ tab[open].body \in Texts
    BY <1>1, <2>1 DEF TabDoc
  <2>3. Adopt(tab[open], conflict[open].current, conflict[open].current.version) \in TabDoc
    BY <2>1, <2>2, AdoptTyped
  <2>4. tab' \in [Docs -> TabDoc] /\ unsaved' \in [Docs -> Texts \cup {None}]
        /\ conflict' \in [Docs -> [draft: Texts, current: Row] \cup {None}]
    BY <1>1, <1>15, <2>1, <2>3 DEF LoadTheirs
  <2> QED BY <1>1, <1>15, <2>4 DEF LoadTheirs, TypesInv, TypeOK, SavesInv
<1>16. ASSUME KeepMine PROVE TypesInv'
  <2>1. open \in Docs /\ conflict[open] \in [draft: Texts, current: Row]
        /\ conflict[open].current \in Row /\ conflict[open].current.version \in Nat
    BY <1>1, <1>16 DEF KeepMine, Row
  <2>2. tab[open] \in TabDoc /\ tab[open].body \in Texts
    BY <1>1, <2>1 DEF TabDoc
  <2>3. [Adopt(tab[open], conflict[open].current, conflict[open].current.version)
           EXCEPT !.body = tab[open].body] \in TabDoc
    BY <2>1, <2>2, AdoptTyped
  <2>4. tab' \in [Docs -> TabDoc]
        /\ conflict' \in [Docs -> [draft: Texts, current: Row] \cup {None}]
    BY <1>1, <1>16, <2>1, <2>3 DEF KeepMine
  <2>5. SetPending([doc |-> open, body |-> tab[open].body], saves)
    BY <1>16 DEF KeepMine
  <2>6. pending' \in [doc: Docs, body: Texts] \cup {None} /\ armed' \in BOOLEAN
        /\ (armed' => pending' # None) /\ saves' \in [Slots -> Save] /\ SavesInv'
    BY <1>1, <2>1, <2>2, <2>5, SetPendingTyped DEF SavesInv
  <2> QED BY <1>1, <1>16, <2>4, <2>6 DEF KeepMine, TypesInv, TypeOK
<1>17. ASSUME Others PROVE TypesInv'
  <2>1. PICK d \in Docs : \/ stored' = [stored EXCEPT ![d].kept = FALSE]
                          \/ \E b \in Texts : stored' = [stored EXCEPT ![d].body = b,
                                                                  ![d].version = @ + 1]
    BY <1>17 DEF Others, OtherArchives, OtherWrites
  <2>2. stored' \in [Docs -> Stored]
    <3>1. CASE stored' = [stored EXCEPT ![d].kept = FALSE]
      BY <1>1, <3>1, ArchivedTyped
    <3>2. ASSUME NEW b \in Texts,
                 stored' = [stored EXCEPT ![d].body = b, ![d].version = @ + 1]
          PROVE stored' \in [Docs -> Stored]
      BY <1>1, <3>2, WrittenTyped
    <3> QED BY <2>1, <3>1, <3>2
  <2>3. UNCHANGED <<tab, open, pending, armed, saves, loads, page, removals, conflict,
                    saveState, unsaved, seen>>
    BY <1>17 DEF Others, OtherArchives, OtherWrites
  <2> QED BY <1>1, <2>2, <2>3 DEF TypesInv, TypeOK, SavesInv
<1>18. CASE UNCHANGED vars
  BY <1>1, <1>18 DEF TypesInv, TypeOK, SavesInv
<1> QED
  BY <1>2, <1>3, <1>4, <1>5, <1>6, <1>7, <1>8, <1>9, <1>10, <1>11, <1>12, <1>13, <1>14,
     <1>15, <1>16, <1>17, <1>18
     DEF Next, Writer, Progress, SaveProgress, DocProgress

(***************************************************************************)
(* The list.                                                               *)
(***************************************************************************)

\* A document whose archiving is answered is archived.
RemovedInv == \A d \in Docs : removals[d] = "done" => ~stored[d].kept

ListInv == ListTellsTheTruth /\ RemovedInv

LEMMA InitList == Init => ListInv
BY DEF Init, ListInv, ListTellsTheTruth, RemovedInv

\* What a step may do to a document as far as the list goes.
ListStep(d) ==
  /\ stored'[d].kept => stored[d].kept
  /\ ~tab'[d].listed => ~tab[d].listed \/ removals'[d] = "sent"
  /\ removals'[d] = "done" => removals[d] = "done" \/ ~stored'[d].kept
  /\ removals'[d] = "none" => \/ removals[d] \in {"none", "done"}
                             \/ tab'[d].listed

LEMMA AdoptListed ==
  ASSUME NEW doc \in TabDoc, NEW row \in Row, NEW n, NEW b
  PROVE /\ Adopt(doc, row, n).listed = doc.listed
        /\ [Adopt(doc, row, n) EXCEPT !.body = b].listed = doc.listed
BY DEF Adopt, TabDoc

LEMMA ListSteps ==
  ASSUME TypesInv, [Next]_vars, NEW e \in Docs PROVE ListStep(e)
<1> USE TextsAssumption DEF TextsAssumption
<1>1. /\ stored \in [Docs -> Stored] /\ tab \in [Docs -> TabDoc]
      /\ loads \in [Docs -> Row \cup {None, Sent}]
      /\ conflict \in [Docs -> [draft: Texts, current: Row] \cup {None}]
      /\ removals \in [Docs -> {"none", "sent", "done"}]
      /\ open \in Docs \cup {None}
      /\ SavesInv
  BY DEF TypesInv, TypeOK
<1>2. ASSUME UNCHANGED <<stored, tab, removals>> PROVE ListStep(e)
  BY <1>2, <1>1 DEF ListStep
<1>3. ASSUME UNCHANGED <<stored, removals>>, tab'[e].listed = tab[e].listed
      PROVE ListStep(e)
  BY <1>3, <1>1 DEF ListStep
<1>4. ASSUME UNCHANGED <<tab, removals>>, stored'[e].kept = stored[e].kept
      PROVE ListStep(e)
  BY <1>4, <1>1 DEF ListStep
<1>5. ASSUME NEW b \in Texts, Type(b) PROVE ListStep(e)
  BY <1>1, <1>3, <1>5 DEF Type, Showing, TabDoc
<1>6. ASSUME NEW s \in Slots, ServeSave(s) PROVE ListStep(e)
  BY <1>1, <1>4, <1>6 DEF ServeSave, SavesInv, Stored
<1>7. ASSUME NEW s \in Slots, ReceiveSaved(s) PROVE ListStep(e)
  <2>1. saves[s].doc \in Docs /\ saves[s].row \in Row
    BY <1>1, <1>7 DEF ReceiveSaved, SavesInv
  <2>2. ASSUME NEW doc \in TabDoc PROVE Saved(doc, saves[s]).listed = doc.listed
    BY <2>1, <2>2, AdoptListed DEF Saved
  <2> QED BY <1>1, <1>3, <1>7, <2>1, <2>2 DEF ReceiveSaved
<1>8. ASSUME NEW d \in Docs, SelectDoc(d) PROVE ListStep(e)
  <2>1. CASE Discarded(open)
    <3>1. open \in Docs /\ stored' = stored
          /\ removals' = [removals EXCEPT ![open] = "sent"]
          /\ tab' = [tab EXCEPT ![open].listed = FALSE]
          /\ removals[open] = "none"
      BY <1>1, <1>8, <2>1 DEF SelectDoc, Discarded
    <3>2. CASE e = open
      BY <1>1, <3>1, <3>2 DEF ListStep
    <3>3. CASE e # open
      BY <1>1, <3>1, <3>3 DEF ListStep
    <3> QED BY <3>2, <3>3
  <2> QED BY <1>2, <1>8, <2>1 DEF SelectDoc
<1>9. ASSUME NEW d \in Docs, ReceiveLoad(d) PROVE ListStep(e)
  <2>1. loads[d] \in Row
    BY <1>1, <1>9 DEF ReceiveLoad
  <2> QED BY <1>1, <1>3, <1>9, <2>1, AdoptListed DEF ReceiveLoad
<1>10. ASSUME ReceivePage PROVE ListStep(e)
  <2>1. tab'[e] = Refreshed(e, page[e]) /\ UNCHANGED <<stored, removals>>
    BY <1>10 DEF ReceivePage
  <2>2. tab'[e] = tab[e] \/ tab'[e].listed
    BY <2>1 DEF Refreshed, Unread
  <2> QED BY <1>1, <2>1, <2>2 DEF ListStep
<1>11. ASSUME NEW d \in Docs, ServeRemoval(d) PROVE ListStep(e)
  <2>1. /\ stored' = [stored EXCEPT ![d].kept = FALSE]
        /\ removals' = [removals EXCEPT ![d] = "done"]
        /\ tab' = tab
    BY <1>11 DEF ServeRemoval
  <2>2. CASE e = d
    BY <1>1, <2>1, <2>2 DEF ListStep, Stored
  <2>3. CASE e # d
    BY <1>1, <2>1, <2>3 DEF ListStep
  <2> QED BY <2>2, <2>3
<1>12. ASSUME NEW d \in Docs, ReceiveRemoval(d) PROVE ListStep(e)
  BY <1>1, <1>12 DEF ReceiveRemoval, ListStep
<1>13. ASSUME NEW d \in Docs, FailRemoval(d) PROVE ListStep(e)
  <2>1. /\ tab' = [tab EXCEPT ![d].listed = TRUE]
        /\ removals' = [removals EXCEPT ![d] = "none"]
        /\ stored' = stored
    BY <1>13 DEF FailRemoval
  <2>2. CASE e = d
    BY <1>1, <2>1, <2>2 DEF ListStep, TabDoc
  <2>3. CASE e # d
    BY <1>1, <2>1, <2>3 DEF ListStep
  <2> QED BY <2>2, <2>3
<1>14. ASSUME LoadTheirs \/ KeepMine PROVE ListStep(e)
  <2>1. open \in Docs /\ conflict[open].current \in Row /\ tab[open] \in TabDoc
    BY <1>1, <1>14 DEF LoadTheirs, KeepMine
  <2>2. UNCHANGED <<stored, removals>>
    BY <1>14 DEF LoadTheirs, KeepMine
  <2> DEFINE row == conflict[open].current
             adopted == Adopt(tab[open], row, row.version)
  <2>3. adopted.listed = tab[open].listed
        /\ [adopted EXCEPT !.body = tab[open].body].listed = tab[open].listed
    BY <2>1, AdoptListed
  <2>4. \/ tab' = [tab EXCEPT ![open] = adopted]
        \/ tab' = [tab EXCEPT ![open] = [adopted EXCEPT !.body = tab[open].body]]
    BY <1>14 DEF LoadTheirs, KeepMine
  <2> HIDE DEF row, adopted
  <2> QED BY <1>1, <1>3, <2>1, <2>2, <2>3, <2>4
<1>15. ASSUME NEW d \in Docs, NEW b \in Texts, OtherWrites(d, b) PROVE ListStep(e)
  <2>1. stored'[e].kept = stored[e].kept
    BY <1>1, <1>15 DEF OtherWrites, Stored
  <2> QED BY <1>4, <1>15, <2>1 DEF OtherWrites
<1>16. ASSUME NEW d \in Docs, OtherArchives(d) PROVE ListStep(e)
  <2>1. /\ stored' = [stored EXCEPT ![d].kept = FALSE]
        /\ UNCHANGED <<tab, removals>>
        /\ stored[d].kept
    BY <1>16 DEF OtherArchives
  <2>2. CASE e = d
    BY <1>1, <2>1, <2>2 DEF ListStep
  <2>3. CASE e # d
    BY <1>1, <2>1, <2>3 DEF ListStep
  <2> QED BY <2>2, <2>3
<1>17. ASSUME \/ Fire \/ LoadOpen \/ AskPage \/ ServePage \/ FailPage \/ UNCHANGED vars
              \/ \E s \in Slots : ReceiveRefusal(s) \/ ReceiveFailure(s)
              \/ \E d \in Docs : ServeLoad(d) \/ FailLoad(d)
       PROVE ListStep(e)
  BY <1>2, <1>17 DEF Fire, LoadOpen, AskPage, ServePage, FailPage, ReceiveRefusal,
                     ReceiveFailure, ServeLoad, FailLoad
<1> QED
  BY <1>5, <1>6, <1>7, <1>8, <1>9, <1>10, <1>11, <1>12, <1>13, <1>14, <1>15, <1>16, <1>17
     DEF Next, Writer, Progress, SaveProgress, DocProgress, Others

LEMMA ListKept ==
  ASSUME TypesInv, ListInv, [Next]_vars PROVE ListInv'
<1>1. ASSUME NEW d \in Docs
      PROVE /\ ~tab'[d].listed => removals'[d] # "none" \/ ~stored'[d].kept
            /\ removals'[d] = "done" => ~stored'[d].kept
  <2>1. ListStep(d)
    BY ListSteps
  <2>2. removals[d] \in {"none", "sent", "done"}
    BY DEF TypesInv, TypeOK
  <2> QED BY <2>1, <2>2 DEF ListStep, ListInv, ListTellsTheTruth, RemovedInv
<1> QED BY <1>1 DEF ListInv, ListTellsTheTruth, RemovedInv

(***************************************************************************)
(* The versions of a patient writer's saves.                               *)
(***************************************************************************)

\* A body on screen, an autosave in flight, an answer on its way and a conflict
\* all carry a version whose text this tab has had.
SeenInv ==
  /\ \A d \in Docs : tab[d].loaded => tab[d].version \in seen[d]
  /\ \A d \in Docs : conflict[d] # None => conflict[d].current.version \in seen[d]
  /\ \A s \in Slots : saves[s].reply = "sent" =>
                        saves[s].version \in seen[saves[s].doc] \cup {NoVersion}
  /\ \A s \in Slots : saves[s].reply = "ok" =>
                        saves[s].row.version \in seen[saves[s].doc]

\* A patient writer's draft is of the open document, whose body is there.
DraftInv ==
  pending # None => pending.doc = open /\ tab[open].listed /\ tab[open].loaded

LEMMA InitSeen == Init => SeenInv /\ DraftInv
BY DEF Init, SeenInv, DraftInv, NoSave

LEMMA AdoptLoaded ==
  ASSUME NEW doc \in TabDoc, NEW row \in Row, NEW n, NEW b
  PROVE Adopt(doc, row, n).loaded /\ [Adopt(doc, row, n) EXCEPT !.body = b].loaded
BY DEF Adopt, TabDoc

LEMMA AdoptVersion ==
  ASSUME NEW doc \in TabDoc, NEW row \in Row, NEW n, NEW b
  PROVE /\ Adopt(doc, row, n).version = row.version
        /\ [Adopt(doc, row, n) EXCEPT !.body = b].version = row.version
BY DEF Adopt, TabDoc

\* What a step may do to the body of a document on screen.
BodyStep(e) ==
  /\ seen[e] \subseteq seen'[e]
  /\ tab'[e].loaded => \/ tab[e].loaded /\ tab'[e].version = tab[e].version
                       \/ tab'[e].version \in seen'[e]

\* What it may do to an autosave in flight, or to a slot.
SlotStep(s) ==
  \/ saves'[s].reply = "none"
  \/ /\ saves'[s].doc = saves[s].doc
     /\ saves'[s].reply = saves[s].reply
     /\ saves'[s].row = saves[s].row
     /\ saves'[s].version = saves[s].version

\* The timer has fired for the draft, in slot s.
Sends(s) ==
  /\ pending # None /\ seen' = seen
  /\ saves'[s].reply = "sent"
  /\ saves'[s].doc = pending.doc
  /\ saves'[s].version = VersionSent(pending.doc)

LEMMA SeenGrows ==
  ASSUME TypesInv, [Next]_vars, NEW e \in Docs PROVE seen[e] \subseteq seen'[e]
<1>1. seen \in [Docs -> SUBSET Nat]
  BY DEF TypesInv, TypeOK
<1>2. ASSUME NEW s \in Slots, ServeSave(s) PROVE seen[e] \subseteq seen'[e]
  BY <1>1, <1>2 DEF ServeSave
<1>3. ASSUME NEW s \in Slots, ReceiveRefusal(s) PROVE seen[e] \subseteq seen'[e]
  BY <1>1, <1>3 DEF ReceiveRefusal
<1>4. ASSUME NEW d \in Docs, ReceiveLoad(d) PROVE seen[e] \subseteq seen'[e]
  BY <1>1, <1>4 DEF ReceiveLoad
<1> QED
  BY <1>2, <1>3, <1>4
     DEF Next, Writer, Type, SelectDoc, AskPage, LoadTheirs, KeepMine, Progress, Fire,
         LoadOpen, ServePage, ReceivePage, FailPage, SaveProgress, ReceiveSaved,
         ReceiveFailure, DocProgress, ServeLoad, FailLoad, ServeRemoval, ReceiveRemoval,
         FailRemoval, Others, OtherArchives, OtherWrites

LEMMA SlotSteps ==
  ASSUME TypesInv, [Next]_vars, NEW s \in Slots
  PROVE SlotStep(s) \/ Sends(s) \/ ServeSave(s)
<1>1. saves \in [Slots -> Save] /\ pending \in [doc: Docs, body: Texts] \cup {None}
      /\ tab \in [Docs -> TabDoc] /\ open \in Docs \cup {None} /\ (armed => pending # None)
      /\ conflict \in [Docs -> [draft: Texts, current: Row] \cup {None}]
  BY DEF TypesInv, TypeOK
<1>2. ASSUME saves' = saves PROVE SlotStep(s)
  BY <1>2 DEF SlotStep
<1>3. ASSUME NEW r \in Slots, saves' = Freed(r) PROVE SlotStep(s)
  BY <1>1, <1>3, FreedTyped DEF SlotStep, NoSave
<1>4. ASSUME NEW b \in Texts, Type(b) PROVE SlotStep(s)
  <2>1. open \in Docs /\ SetPending([doc |-> open, body |-> b], saves)
    BY <1>1, <1>4, TextsAssumption DEF Type, Showing, TextsAssumption
  <2> QED BY <1>1, <2>1, SetPendingTyped DEF SlotStep
<1>5. ASSUME Fire PROVE SlotStep(s) \/ Sends(s)
  <2>1. PICK r \in Slots :
          saves' = [saves EXCEPT ![r] =
            [doc |-> pending.doc, body |-> pending.body, live |-> TRUE,
             version |-> VersionSent(pending.doc), reply |-> "sent", row |-> None]]
    BY <1>5 DEF Fire
  <2>2. CASE r = s
    BY <1>1, <1>5, <2>1, <2>2 DEF Sends, Fire
  <2>3. CASE r # s
    BY <1>1, <2>1, <2>3 DEF SlotStep
  <2> QED BY <2>2, <2>3
<1>6. ASSUME NEW r \in Slots, ServeSave(r), r # s PROVE SlotStep(s)
  BY <1>1, <1>6 DEF ServeSave, SlotStep
<1>7. ASSUME NEW r \in Slots, ReceiveSaved(r) \/ ReceiveRefusal(r) PROVE SlotStep(s)
  <2>1. saves' = Freed(r) \/ SetPending(None, Freed(r))
    BY <1>7 DEF ReceiveSaved, ReceiveRefusal
  <2>2. ASSUME SetPending(None, Freed(r)) PROVE SlotStep(s)
    <3>1. Freed(r) \in [Slots -> Save] /\ Freed(r)[s] = IF s = r THEN NoSave ELSE saves[s]
      BY <1>1, FreedTyped
    <3>2. /\ saves'[s].doc = Freed(r)[s].doc
          /\ saves'[s].reply = Freed(r)[s].reply
          /\ saves'[s].row = Freed(r)[s].row
          /\ saves'[s].version = Freed(r)[s].version
      BY <2>2, <3>1, SetPendingTyped
    <3>3. NoSave.reply = "none"
      BY DEF NoSave
    <3> QED BY <3>1, <3>2, <3>3 DEF SlotStep
  <2> QED BY <1>3, <2>1, <2>2
<1>8. ASSUME KeepMine PROVE SlotStep(s)
  <2>1. open \in Docs /\ tab[open].body \in Texts
        /\ SetPending([doc |-> open, body |-> tab[open].body], saves)
    BY <1>1, <1>8 DEF KeepMine, TabDoc
  <2> QED BY <1>1, <2>1, SetPendingTyped DEF SlotStep
<1>9. ASSUME \/ LoadOpen \/ AskPage \/ ServePage \/ ReceivePage \/ FailPage \/ LoadTheirs
             \/ \E d \in Docs : SelectDoc(d) \/ DocProgress(d)
             \/ Others \/ UNCHANGED vars
      PROVE SlotStep(s)
  BY <1>2, <1>9 DEF LoadOpen, AskPage, ServePage, ReceivePage, FailPage, LoadTheirs,
                    SelectDoc, DocProgress, ServeLoad, ReceiveLoad, FailLoad, ServeRemoval,
                    ReceiveRemoval, FailRemoval, Others, OtherArchives, OtherWrites
<1>10. ASSUME NEW r \in Slots, ReceiveFailure(r) PROVE SlotStep(s)
  BY <1>3, <1>10 DEF ReceiveFailure
<1> QED
  BY <1>4, <1>5, <1>6, <1>7, <1>8, <1>9, <1>10 DEF Next, Writer, Progress, SaveProgress

LEMMA BodySteps ==
  ASSUME TypesInv, SeenInv, [Next]_vars, NEW e \in Docs PROVE BodyStep(e)
<1> USE TextsAssumption DEF TextsAssumption
<1>1. /\ tab \in [Docs -> TabDoc] /\ SavesInv
      /\ loads \in [Docs -> Row \cup {None, Sent}]
      /\ conflict \in [Docs -> [draft: Texts, current: Row] \cup {None}]
      /\ open \in Docs \cup {None}
      /\ seen \in [Docs -> SUBSET Nat]
      /\ seen[e] \subseteq seen'[e]
  BY SeenGrows DEF TypesInv, TypeOK
<1>2. ASSUME tab'[e].loaded => tab[e].loaded, tab'[e].version = tab[e].version
      PROVE BodyStep(e)
  BY <1>1, <1>2 DEF BodyStep
<1>3. ASSUME tab'[e].version \in seen'[e] PROVE BodyStep(e)
  BY <1>1, <1>3 DEF BodyStep
<1>4. ASSUME NEW b \in Texts, Type(b) PROVE BodyStep(e)
  <2>1. open \in Docs /\ tab' = [tab EXCEPT ![open].body = b]
    BY <1>1, <1>4 DEF Type, Showing
  <2>2. tab'[e].loaded = tab[e].loaded /\ tab'[e].version = tab[e].version
    BY <1>1, <2>1 DEF TabDoc
  <2> QED BY <1>2, <2>2
<1>5. ASSUME NEW s \in Slots, ReceiveSaved(s) PROVE BodyStep(e)
  <2>1. saves[s].doc \in Docs /\ saves[s].row \in Row /\ seen' = seen
        /\ saves[s].row.version \in seen[saves[s].doc]
    BY <1>1, <1>5 DEF ReceiveSaved, SavesInv, SeenInv
  <2>2. ASSUME NEW doc \in TabDoc
        PROVE Saved(doc, saves[s]).version = saves[s].row.version
    BY <2>1, <2>2, AdoptVersion DEF Saved
  <2>3. tab' = [tab EXCEPT ![saves[s].doc] = IF @.listed THEN Saved(@, saves[s]) ELSE @]
    BY <1>5 DEF ReceiveSaved
  <2>4. CASE e = saves[s].doc /\ tab[e].listed
    BY <1>1, <1>3, <2>1, <2>2, <2>3, <2>4
  <2>5. CASE ~(e = saves[s].doc /\ tab[e].listed)
    <3>1. tab'[e] = tab[e]
      BY <1>1, <2>1, <2>3, <2>5
    <3> QED BY <1>2, <3>1
  <2> QED BY <2>4, <2>5
<1>6. ASSUME NEW d \in Docs, SelectDoc(d) \/ FailRemoval(d) PROVE BodyStep(e)
  <2>1. tab'[e].loaded = tab[e].loaded /\ tab'[e].version = tab[e].version
    <3>1. PICK q \in Docs : \/ tab' = tab
                            \/ tab' = [tab EXCEPT ![q].listed = FALSE]
                            \/ tab' = [tab EXCEPT ![q].listed = TRUE]
      BY <1>1, <1>6 DEF SelectDoc, FailRemoval, Discarded
    <3> QED BY <1>1, <3>1 DEF TabDoc
  <2> QED BY <1>2, <2>1
<1>7. ASSUME NEW d \in Docs, ReceiveLoad(d) PROVE BodyStep(e)
  <2>1. loads[d] \in Row /\ seen' = [seen EXCEPT ![d] = @ \cup {loads[d].version}]
        /\ tab' = [tab EXCEPT ![d] =
             IF @.listed THEN Adopt(@, loads[d], Latest(@.stamp, loads[d].version)) ELSE @]
    BY <1>1, <1>7 DEF ReceiveLoad
  <2>2. CASE e = d /\ tab[e].listed
    <3>1. tab'[e].version = loads[d].version
      BY <1>1, <2>1, <2>2, AdoptVersion
    <3>2. loads[d].version \in seen'[e]
      BY <1>1, <2>1, <2>2
    <3> QED BY <1>3, <3>1, <3>2
  <2>3. CASE ~(e = d /\ tab[e].listed)
    <3>1. tab'[e] = tab[e]
      BY <1>1, <2>1, <2>3
    <3> QED BY <1>2, <3>1
  <2> QED BY <2>2, <2>3
<1>8. ASSUME ReceivePage PROVE BodyStep(e)
  <2>1. tab'[e] = Refreshed(e, page[e])
    BY <1>8 DEF ReceivePage
  <2>2. tab'[e] = tab[e] \/ tab'[e].loaded = FALSE
    BY <2>1 DEF Refreshed, Unread
  <2> QED BY <1>1, <1>2, <2>2 DEF BodyStep
<1>9. ASSUME LoadTheirs \/ KeepMine PROVE BodyStep(e)
  <2>1. open \in Docs /\ conflict[open].current \in Row /\ tab[open] \in TabDoc
        /\ conflict[open].current.version \in seen[open] /\ seen' = seen
    BY <1>1, <1>9 DEF LoadTheirs, KeepMine, SeenInv
  <2> DEFINE row == conflict[open].current
             adopted == Adopt(tab[open], row, row.version)
  <2>2. adopted.version = row.version
        /\ [adopted EXCEPT !.body = tab[open].body].version = row.version
    BY <2>1, AdoptVersion
  <2>3. \/ tab' = [tab EXCEPT ![open] = adopted]
        \/ tab' = [tab EXCEPT ![open] = [adopted EXCEPT !.body = tab[open].body]]
    BY <1>9 DEF LoadTheirs, KeepMine
  <2>4. row.version \in seen'[open]
    BY <2>1
  <2> HIDE DEF row, adopted
  <2>5. CASE e = open
    BY <1>1, <1>3, <2>1, <2>2, <2>3, <2>4, <2>5
  <2>6. CASE e # open
    <3>1. tab'[e] = tab[e]
      BY <1>1, <2>1, <2>3, <2>6
    <3> QED BY <1>2, <3>1
  <2> QED BY <2>5, <2>6
<1>10. ASSUME tab' = tab PROVE BodyStep(e)
  BY <1>2, <1>10
<1> QED
  BY <1>4, <1>5, <1>6, <1>7, <1>8, <1>9, <1>10
     DEF Next, Writer, AskPage, Progress, Fire, LoadOpen, ServePage, FailPage, SaveProgress,
         ServeSave, ReceiveRefusal, ReceiveFailure, DocProgress, ServeLoad, FailLoad,
         ServeRemoval, ReceiveRemoval, Others, OtherArchives, OtherWrites

LEMMA ConflictSteps ==
  ASSUME TypesInv, [Next]_vars, NEW e \in Docs, conflict'[e] # None
  PROVE conflict'[e] = conflict[e] \/ conflict'[e].current.version \in seen'[e]
<1>1. /\ conflict \in [Docs -> [draft: Texts, current: Row] \cup {None}]
      /\ seen \in [Docs -> SUBSET Nat] /\ SavesInv /\ open \in Docs \cup {None}
  BY DEF TypesInv, TypeOK
<1>2. ASSUME NEW s \in Slots, ReceiveRefusal(s), saves[s].live
      PROVE conflict'[e] = conflict[e] \/ conflict'[e].current.version \in seen'[e]
  <2>1. /\ saves[s].doc \in Docs
        /\ conflict' = [conflict EXCEPT ![saves[s].doc] =
                          [draft |-> saves[s].body, current |-> saves[s].row]]
        /\ seen' = [seen EXCEPT ![saves[s].doc] = @ \cup {saves[s].row.version}]
    BY <1>1, <1>2 DEF ReceiveRefusal, SavesInv
  <2> QED BY <1>1, <2>1
<1>3. ASSUME NEW s \in Slots, ReceiveRefusal(s), ~saves[s].live PROVE conflict' = conflict
  BY <1>3 DEF ReceiveRefusal
<1>4. ASSUME LoadTheirs \/ KeepMine PROVE conflict'[e] = conflict[e]
  BY <1>1, <1>4 DEF LoadTheirs, KeepMine
<1> QED
  BY <1>2, <1>3, <1>4
     DEF Next, Writer, Type, SelectDoc, AskPage, Progress, Fire, LoadOpen, ServePage,
         ReceivePage, FailPage, SaveProgress, ServeSave, ReceiveSaved, ReceiveFailure,
         DocProgress, ServeLoad, ReceiveLoad, FailLoad, ServeRemoval, ReceiveRemoval,
         FailRemoval, Others, OtherArchives, OtherWrites

LEMMA SeenKept ==
  ASSUME TypesInv, SeenInv, DraftInv, [Next]_vars PROVE SeenInv'
<1>1. ASSUME NEW d \in Docs, tab'[d].loaded PROVE tab'[d].version \in seen'[d]
  BY <1>1, BodySteps DEF BodyStep, SeenInv
<1>2. ASSUME NEW d \in Docs, conflict'[d] # None
      PROVE conflict'[d].current.version \in seen'[d]
  BY <1>2, ConflictSteps, SeenGrows DEF SeenInv
<1>3. ASSUME NEW s \in Slots
      PROVE /\ saves'[s].reply = "sent" =>
                 saves'[s].version \in seen'[saves'[s].doc] \cup {NoVersion}
            /\ saves'[s].reply = "ok" => saves'[s].row.version \in seen'[saves'[s].doc]
  <2>1. CASE SlotStep(s)
    <3>1. saves[s].reply \in {"sent", "ok"} => seen[saves[s].doc] \subseteq seen'[saves[s].doc]
      BY SeenGrows DEF TypesInv, SavesInv
    <3> QED BY <2>1, <3>1 DEF SlotStep, SeenInv
  <2>2. CASE Sends(s)
    <3>1. pending.doc \in Docs /\ tab[pending.doc].loaded /\ tab[pending.doc].listed
      BY <2>2 DEF Sends, DraftInv, TypesInv, TypeOK
    <3>2. VersionSent(pending.doc) \in seen[pending.doc]
      BY <3>1 DEF VersionSent, SeenInv
    <3> QED BY <2>2, <3>2 DEF Sends
  <2>3. CASE ServeSave(s)
    <3>1. saves \in [Slots -> Save] /\ saves[s].doc \in Docs /\ seen \in [Docs -> SUBSET Nat]
      BY <2>3 DEF ServeSave, TypesInv, TypeOK, SavesInv
    <3> DEFINE next == [body |-> saves[s].body, version |-> stored[saves[s].doc].version + 1]
    <3>2. \/ /\ saves' = [saves EXCEPT ![s].reply = "ok", ![s].row = next]
             /\ seen' = [seen EXCEPT ![saves[s].doc] = @ \cup {next.version}]
          \/ saves' = [saves EXCEPT ![s].reply = "conflict", ![s].row = RowOf(saves[s].doc)]
      BY <2>3 DEF ServeSave
    <3> HIDE DEF next
    <3> QED BY <3>1, <3>2 DEF Save
  <2> QED BY <2>1, <2>2, <2>3, SlotSteps
<1> QED BY <1>1, <1>2, <1>3 DEF SeenInv

\* With nothing to leave it for, the document of a draft stays open, and its
\* body on screen.
LEMMA DraftStays ==
  ASSUME TypesInv, DraftInv, [Next]_vars, Patient, pending # None
  PROVE open' = open /\ tab'[open].listed /\ tab'[open].loaded
<1> USE TextsAssumption DEF TextsAssumption
<1>1. /\ tab \in [Docs -> TabDoc] /\ SavesInv
      /\ loads \in [Docs -> Row \cup {None, Sent}]
      /\ conflict \in [Docs -> [draft: Texts, current: Row] \cup {None}]
      /\ open \in Docs /\ tab[open].listed /\ tab[open].loaded
  BY DEF TypesInv, TypeOK, DraftInv
<1> DEFINE Stays == open' = open /\ tab'[open].listed /\ tab'[open].loaded
<1>2. ASSUME open' = open, tab' = tab PROVE Stays
  BY <1>1, <1>2
<1>3. ASSUME NEW b \in Texts, Type(b) PROVE Stays
  <2>1. open' = open /\ tab' = [tab EXCEPT ![open].body = b]
    BY <1>3 DEF Type
  <2>2. tab'[open].listed /\ tab'[open].loaded
    BY <1>1, <2>1 DEF TabDoc
  <2> QED BY <2>1, <2>2
<1>4. ASSUME NEW s \in Slots, ReceiveSaved(s) PROVE Stays
  <2>1. saves[s].doc \in Docs /\ saves[s].row \in Row /\ open' = open
    BY <1>1, <1>4 DEF ReceiveSaved, SavesInv
  <2>2. ASSUME NEW doc \in TabDoc
        PROVE Saved(doc, saves[s]).listed = doc.listed
    BY <2>1, <2>2, AdoptListed DEF Saved
  <2>3. ASSUME NEW doc \in TabDoc
        PROVE Saved(doc, saves[s]).loaded
    BY <2>1, <2>3, AdoptLoaded DEF Saved
  <2>4. tab' = [tab EXCEPT ![saves[s].doc] = IF @.listed THEN Saved(@, saves[s]) ELSE @]
    BY <1>4 DEF ReceiveSaved
  <2>5. tab'[open] = tab[open] \/ tab'[open] = Saved(tab[open], saves[s])
    BY <1>1, <2>1, <2>4
  <2>6. tab'[open].listed /\ tab'[open].loaded
    BY <1>1, <2>2, <2>5, <2>3
  <2> QED BY <2>1, <2>6
<1>5. ASSUME NEW d \in Docs, SelectDoc(d) PROVE FALSE
  BY <1>5 DEF SelectDoc, Settled
<1>6. ASSUME NEW d \in Docs, ReceiveLoad(d) PROVE Stays
  <2>1. /\ loads[d] \in Row /\ open' = open
        /\ tab' = [tab EXCEPT ![d] =
             IF @.listed THEN Adopt(@, loads[d], Latest(@.stamp, loads[d].version)) ELSE @]
    BY <1>1, <1>6 DEF ReceiveLoad
  <2> DEFINE adopted == Adopt(tab[open], loads[d], Latest(tab[open].stamp, loads[d].version))
  <2>2. adopted.listed = tab[open].listed
    BY <1>1, <2>1, AdoptListed
  <2>3. adopted.loaded
    BY <1>1, <2>1, AdoptLoaded
  <2>4. tab'[open] = tab[open] \/ tab'[open] = adopted
    BY <1>1, <2>1
  <2> HIDE DEF adopted
  <2>5. tab'[open].listed /\ tab'[open].loaded
    BY <1>1, <2>2, <2>3, <2>4
  <2> QED BY <2>1, <2>5
<1>7. ASSUME ReceivePage PROVE Stays
  <2>1. tab'[open] = tab[open] /\ open' = open
    BY <1>1, <1>7 DEF ReceivePage, Refreshed, LeftAlone
  <2> QED BY <1>1, <2>1
<1>8. ASSUME NEW d \in Docs, FailRemoval(d) PROVE Stays
  <2>1. tab' = [tab EXCEPT ![d].listed = TRUE] /\ open' = open
    BY <1>8 DEF FailRemoval
  <2>2. CASE d = open
    BY <1>1, <2>1, <2>2 DEF TabDoc
  <2>3. CASE d # open
    BY <1>1, <2>1, <2>3
  <2> QED BY <2>2, <2>3
<1>9. ASSUME LoadTheirs \/ KeepMine PROVE Stays
  <2>1. conflict[open].current \in Row /\ tab[open] \in TabDoc /\ open' = open
    BY <1>1, <1>9 DEF LoadTheirs, KeepMine
  <2> DEFINE row == conflict[open].current
             adopted == Adopt(tab[open], row, row.version)
  <2>2. adopted.listed = tab[open].listed
        /\ [adopted EXCEPT !.body = tab[open].body].listed = tab[open].listed
    BY <2>1, AdoptListed
  <2>3. adopted.loaded /\ [adopted EXCEPT !.body = tab[open].body].loaded
    BY <2>1, AdoptLoaded
  <2>4. \/ tab' = [tab EXCEPT ![open] = adopted]
        \/ tab' = [tab EXCEPT ![open] = [adopted EXCEPT !.body = tab[open].body]]
    BY <1>9 DEF LoadTheirs, KeepMine
  <2> HIDE DEF row, adopted
  <2>5. tab'[open].listed /\ tab'[open].loaded
    BY <1>1, <2>2, <2>3, <2>4
  <2> QED BY <2>1, <2>5
<1> QED
  BY <1>2, <1>3, <1>4, <1>5, <1>6, <1>7, <1>8, <1>9
     DEF Next, Writer, AskPage, Progress, Fire, LoadOpen, ServePage, FailPage, SaveProgress,
         ServeSave, ReceiveRefusal, ReceiveFailure, DocProgress, ServeLoad, FailLoad,
         ServeRemoval, ReceiveRemoval, Others, OtherArchives, OtherWrites

LEMMA DraftKept ==
  ASSUME TypesInv, DraftInv, [Next]_vars, Patient PROVE DraftInv'
<1> USE TextsAssumption DEF TextsAssumption
<1> SUFFICES ASSUME pending' # None
             PROVE pending'.doc = open' /\ tab'[open'].listed /\ tab'[open'].loaded
  BY DEF DraftInv
<1>0. tab \in [Docs -> TabDoc] /\ open \in Docs \cup {None}
      /\ conflict \in [Docs -> [draft: Texts, current: Row] \cup {None}]
  BY DEF TypesInv, TypeOK
<1>1. ASSUME pending' = pending
      PROVE pending'.doc = open' /\ tab'[open'].listed /\ tab'[open'].loaded
  BY <1>1, DraftStays DEF DraftInv
<1>2. ASSUME NEW b \in Texts, Type(b)
      PROVE pending'.doc = open' /\ tab'[open'].listed /\ tab'[open'].loaded
  <2>1. /\ open \in Docs /\ tab[open].listed /\ tab[open].loaded
        /\ open' = open /\ tab' = [tab EXCEPT ![open].body = b]
        /\ pending' = [doc |-> open, body |-> b]
    BY <1>0, <1>2 DEF Type, Showing, SetPending
  <2>2. tab'[open].listed /\ tab'[open].loaded
    BY <1>0, <2>1 DEF TabDoc
  <2> QED BY <2>1, <2>2
<1>3. ASSUME KeepMine
      PROVE pending'.doc = open' /\ tab'[open'].listed /\ tab'[open'].loaded
  <2>1. tab[open].listed
    BY <1>3 DEF KeepMine
  <2>2. /\ open \in Docs /\ conflict[open].current \in Row /\ tab[open] \in TabDoc
        /\ open' = open
        /\ pending' = [doc |-> open, body |-> tab[open].body]
    BY <1>0, <1>3 DEF KeepMine, SetPending
  <2> DEFINE row == conflict[open].current
             kept == [Adopt(tab[open], row, row.version) EXCEPT !.body = tab[open].body]
  <2>3. kept.listed = tab[open].listed
    BY <2>2, AdoptListed
  <2>4. kept.loaded
    BY <2>2, AdoptLoaded
  <2>5. tab' = [tab EXCEPT ![open] = kept]
    BY <1>3 DEF KeepMine
  <2> HIDE DEF kept
  <2>6. tab'[open].listed /\ tab'[open].loaded
    BY <1>0, <2>2, <2>3, <2>4, <2>5, <2>1
  <2> QED BY <2>2, <2>6
<1>4. ASSUME NEW s \in Slots, ReceiveSaved(s) \/ ReceiveRefusal(s)
      PROVE pending' = pending
  BY <1>4 DEF ReceiveSaved, ReceiveRefusal, SetPending
<1> QED
  BY <1>1, <1>2, <1>3, <1>4
     DEF Next, Writer, SelectDoc, AskPage, LoadTheirs, Progress, Fire, LoadOpen, ServePage,
         ReceivePage, FailPage, SaveProgress, ServeSave, ReceiveFailure, DocProgress,
         ServeLoad, ReceiveLoad, FailLoad, ServeRemoval, ReceiveRemoval, FailRemoval,
         Others, OtherArchives, OtherWrites

(***************************************************************************)
(* A writer who waits for the answers before opening another document.     *)
(***************************************************************************)

\* What the writer typed is on the screen, and in the draft while there is one.
Typed(d) ==
  /\ d = open /\ tab[open].loaded
  /\ tab[open].body = unsaved[open]
  /\ pending # None => pending.body = unsaved[open]
  /\ pending # None \/ conflict[open] # None

\* The writer leaves a document when nothing in it is pending or to be resolved and
\* every autosave, superseded ones included, has had its answer.
WaitsToLeave ==
  open' # open => Settled /\ \A s \in Slots : saves[s].reply = "none"

\* No body is asked for that is there.
LoadsInv == \A d \in Docs : tab[d].loaded => loads[d] = None

\* No body is on its way to a document that is on the screen.
ScreenInv ==
  /\ open \in Docs /\ tab[open].listed
  /\ tab[open].loaded => loads[open] = None
  /\ pending # None => pending.doc = open /\ tab[open].loaded
  /\ \A d \in Docs : conflict[d] # None => d = open /\ tab[open].loaded
  /\ \A s \in Slots : saves[s].reply # "none" => saves[s].doc = open /\ tab[open].loaded
  /\ \A s \in Slots : saves[s].live =>
       /\ pending # None /\ saves[s].body = pending.body
       /\ saves[s].reply = "ok" => unsaved[open] = None
  /\ \A d \in Docs : unsaved[d] # None => Typed(d)

LEMMA InitScreen == Init => ScreenInv /\ LoadsInv /\ SavedMeansSaved
BY DEF Init, ScreenInv, LoadsInv, SavedMeansSaved, NoSave

\* Steps that leave the open document and its saves alone.
LEMMA ScreenFrame ==
  ASSUME ScreenInv, UNCHANGED <<open, pending, saves, unsaved, conflict>>,
         tab'[open] = tab[open],
         tab[open].loaded => loads'[open] = None
  PROVE ScreenInv'
BY DEF ScreenInv, Typed

\* A slot is freed, or loses its save's hold on the draft.
LEMMA FreedStays ==
  ASSUME TypesInv, ScreenInv, NEW s \in Slots
  PROVE /\ \A r \in Slots : Freed(s)[r].reply # "none" =>
             saves[r].reply # "none" /\ Freed(s)[r].doc = saves[r].doc
        /\ \A r \in Slots : Freed(s)[r].live =>
             saves[r].live /\ Freed(s)[r].body = saves[r].body /\ Freed(s)[r].reply = saves[r].reply
<1>1. saves \in [Slots -> Save]
  BY DEF TypesInv, TypeOK
<1>2. \A r \in Slots : Freed(s)[r] = IF r = s THEN NoSave ELSE saves[r]
  BY <1>1, FreedTyped
<1> QED BY <1>2 DEF NoSave

LEMMA SetPendingStays ==
  ASSUME NEW p, NEW t \in [Slots -> Save], SetPending(p, t)
  PROVE /\ pending' = p
        /\ \A r \in Slots : saves'[r].reply = t[r].reply /\ saves'[r].doc = t[r].doc
        /\ \A r \in Slots : ~saves'[r].live
BY DEF SetPending, Save

LEMMA ScreenInvKept ==
  ASSUME TypesInv, ScreenInv, LoadsInv, [Next]_vars, WaitsToLeave
  PROVE ScreenInv'
<1> USE TextsAssumption DEF TextsAssumption
<1>1. /\ tab \in [Docs -> TabDoc] /\ saves \in [Slots -> Save] /\ SavesInv
      /\ loads \in [Docs -> Row \cup {None, Sent}]
      /\ conflict \in [Docs -> [draft: Texts, current: Row] \cup {None}]
      /\ removals \in [Docs -> {"none", "sent", "done"}]
      /\ unsaved \in [Docs -> Texts \cup {None}]
      /\ pending \in [doc: Docs, body: Texts] \cup {None}
      /\ open \in Docs /\ tab[open] \in TabDoc /\ (armed => pending # None)
  BY DEF TypesInv, TypeOK, ScreenInv
<1>2. ASSUME NEW b \in Texts, Type(b) PROVE ScreenInv'
  <2>1. /\ tab' = [tab EXCEPT ![open].body = b]
        /\ unsaved' = [unsaved EXCEPT ![open] = b]
        /\ SetPending([doc |-> open, body |-> b], saves)
        /\ tab[open].loaded
        /\ UNCHANGED <<open, loads, removals, conflict>>
    BY <1>2 DEF Type, Showing
  <2>2. tab'[open].loaded /\ tab'[open].listed /\ tab'[open].body = b
    BY <1>1, <2>1 DEF TabDoc, ScreenInv
  <2>3. unsaved'[open] = b /\ \A d \in Docs : unsaved'[d] # None => d = open
    BY <1>1, <2>1 DEF ScreenInv, Typed
  <2>4. /\ pending' = [doc |-> open, body |-> b]
        /\ \A r \in Slots : saves'[r].reply = saves[r].reply /\ saves'[r].doc = saves[r].doc
        /\ \A r \in Slots : ~saves'[r].live
    BY <1>1, <2>1, SetPendingStays
  <2>5. [doc |-> open, body |-> b] # None
    BY <1>1, RecordsAssumption DEF RecordsAssumption
  <2> HIDE DEF TextsAssumption
  <2>6. \A d \in Docs : unsaved'[d] # None => Typed(d)'
    BY <2>1, <2>2, <2>3, <2>4, <2>5 DEF Typed
  <2> QED BY <2>1, <2>2, <2>4, <2>5, <2>6 DEF ScreenInv
<1>3. ASSUME Fire PROVE ScreenInv'
  <2>1. PICK s \in Slots :
          saves' = [saves EXCEPT ![s] =
            [doc |-> pending.doc, body |-> pending.body, live |-> TRUE,
             version |-> VersionSent(pending.doc), reply |-> "sent", row |-> None]]
    BY <1>3 DEF Fire
  <2>2. pending # None /\ UNCHANGED <<tab, open, pending, loads, removals, unsaved, conflict>>
    BY <1>1, <1>3 DEF Fire
  <2>3. \A r \in Slots : r # s => saves'[r] = saves[r]
    BY <1>1, <2>1
  <2>4. saves'[s].doc = pending.doc /\ saves'[s].body = pending.body /\ saves'[s].reply = "sent"
    BY <1>1, <2>1
  <2> QED BY <2>2, <2>3, <2>4 DEF ScreenInv, Typed
<1>4. ASSUME NEW s \in Slots, ServeSave(s) PROVE ScreenInv'
  <2>1. saves[s].doc = open /\ saves[s].reply = "sent"
    BY <1>4 DEF ServeSave, ScreenInv
  <2>2. UNCHANGED <<tab, open, pending, loads, removals, conflict>>
    BY <1>4 DEF ServeSave
  <2>3. \/ /\ unsaved' = [unsaved EXCEPT ![open] = IF @ = saves[s].body THEN None ELSE @]
           /\ saves'[s].reply = "ok"
        \/ unsaved' = unsaved /\ saves'[s].reply = "conflict"
    BY <1>1, <1>4, <2>1 DEF ServeSave, Save
  <2>4. \A r \in Slots : r # s => saves'[r] = saves[r]
    BY <1>1, <1>4 DEF ServeSave
  <2>5. /\ saves'[s].doc = saves[s].doc /\ saves'[s].body = saves[s].body
        /\ saves'[s].live = saves[s].live
    BY <1>1, <1>4 DEF ServeSave, Save
  <2>6. \A d \in Docs : unsaved'[d] # None => unsaved[d] # None /\ unsaved'[d] = unsaved[d]
    BY <1>1, <2>3
  <2>7. unsaved[open] = None => unsaved'[open] = None
    BY <2>6, <1>1
  <2>8. saves[s].live /\ saves'[s].reply = "ok" => unsaved'[open] = None
    <3> SUFFICES ASSUME saves[s].live, saves'[s].reply = "ok" PROVE unsaved'[open] = None
      OBVIOUS
    <3>1. unsaved'[open] = IF unsaved[open] = saves[s].body THEN None ELSE unsaved[open]
      BY <1>1, <2>3
    <3>2. pending # None /\ saves[s].body = pending.body
      BY DEF ScreenInv
    <3> QED BY <1>1, <3>1, <3>2 DEF ScreenInv, Typed
  <2> QED BY <2>1, <2>2, <2>4, <2>5, <2>6, <2>7, <2>8 DEF ScreenInv, Typed
<1>5. ASSUME NEW s \in Slots, ReceiveSaved(s) PROVE ScreenInv'
  <2>1. saves[s].doc = open /\ saves[s].row \in Row /\ tab[open].loaded /\ tab[open].listed
    BY <1>1, <1>5 DEF ReceiveSaved, ScreenInv, SavesInv
  <2>2. tab' = [tab EXCEPT ![open] = Saved(tab[open], saves[s])]
        /\ UNCHANGED <<open, loads, removals, unsaved, conflict>>
    BY <1>1, <1>5, <2>1 DEF ReceiveSaved
  <2> DEFINE n == Latest(tab[open].stamp, saves[s].row.version)
  <2>3. Adopt(tab[open], saves[s].row, n).listed /\ Adopt(tab[open], saves[s].row, n).loaded
    BY <1>1, <2>1 DEF Adopt, TabDoc
  <2>4. tab'[open].listed /\ tab'[open].loaded
        /\ (~saves[s].live => tab'[open].body = tab[open].body)
    BY <1>1, <2>1, <2>2 DEF Saved, Adopt, TabDoc
  <2>7. loads'[open] = None /\ open' \in Docs
    BY <2>1, <2>2 DEF ScreenInv
  <2> HIDE DEF n
  <2>5. CASE saves[s].live
    <3>1. unsaved[open] = None
      BY <1>5, <2>5 DEF ReceiveSaved, ScreenInv
    <3>2. SetPending(None, Freed(s)) /\ Freed(s) \in [Slots -> Save]
      BY <1>1, <1>5, <2>5, FreedTyped DEF ReceiveSaved
    <3>3. /\ pending' = None
          /\ \A r \in Slots : saves'[r].reply = Freed(s)[r].reply /\ saves'[r].doc = Freed(s)[r].doc
          /\ \A r \in Slots : ~saves'[r].live
      BY <3>2, SetPendingStays
    <3>4. \A d \in Docs : unsaved'[d] = None
      BY <2>2, <3>1 DEF ScreenInv, Typed
    <3>5. \A r \in Slots : saves'[r].reply # "none" => saves'[r].doc = open
      BY <3>3, FreedStays DEF ScreenInv
    <3> QED BY <2>2, <2>4, <2>7, <3>3, <3>4, <3>5 DEF ScreenInv
  <2>6. CASE ~saves[s].live
    <3>1. saves' = Freed(s) /\ pending' = pending
      BY <1>5, <2>6 DEF ReceiveSaved
    <3>2. \A r \in Slots : saves'[r].reply # "none" => saves'[r].doc = open
      BY <3>1, FreedStays DEF ScreenInv
    <3>3. \A r \in Slots : saves'[r].live =>
            /\ pending' # None /\ saves'[r].body = pending'.body
            /\ saves'[r].reply = "ok" => unsaved'[open] = None
      BY <2>2, <3>1, FreedStays DEF ScreenInv
    <3>4. \A d \in Docs : unsaved'[d] # None => Typed(d)'
      BY <2>2, <2>4, <2>6, <3>1 DEF ScreenInv, Typed
    <3>5. pending' # None => pending'.doc = open'
      BY <2>2, <3>1 DEF ScreenInv
    <3> QED BY <2>2, <2>4, <2>7, <3>2, <3>3, <3>4, <3>5 DEF ScreenInv
  <2> QED BY <2>5, <2>6
<1>6. ASSUME NEW s \in Slots, ReceiveRefusal(s) \/ ReceiveFailure(s) PROVE ScreenInv'
  <2>1. UNCHANGED <<tab, open, loads, removals, unsaved>>
    BY <1>6 DEF ReceiveRefusal, ReceiveFailure
  <2>2. saves[s].doc = open /\ tab[open].loaded /\ loads[open] = None
    BY <1>6 DEF ReceiveRefusal, ReceiveFailure, ScreenInv
  <2>3. CASE saves' = Freed(s) /\ pending' = pending /\ conflict' = conflict
    <3>1. \A d \in Docs : unsaved'[d] # None => Typed(d)'
      BY <2>1, <2>3 DEF ScreenInv, Typed
    <3>2. \A r \in Slots : saves'[r].reply # "none" => saves'[r].doc = open
      BY <2>3, FreedStays DEF ScreenInv
    <3>3. \A r \in Slots : saves'[r].live =>
            /\ pending' # None /\ saves'[r].body = pending'.body
            /\ saves'[r].reply = "ok" => unsaved'[open] = None
      BY <2>1, <2>3, FreedStays DEF ScreenInv
    <3> QED BY <2>1, <2>2, <2>3, <3>1, <3>2, <3>3 DEF ScreenInv
  <2>4. CASE /\ SetPending(None, Freed(s))
             /\ conflict' = [conflict EXCEPT ![open] =
                               [draft |-> saves[s].body, current |-> saves[s].row]]
             /\ saves[s].reply = "conflict"
    <3>1. Freed(s) \in [Slots -> Save]
      BY <1>1, FreedTyped
    <3>2. /\ pending' = None
          /\ \A r \in Slots : saves'[r].reply = Freed(s)[r].reply /\ saves'[r].doc = Freed(s)[r].doc
          /\ \A r \in Slots : ~saves'[r].live
      BY <2>4, <3>1, SetPendingStays
    <3>3. [draft |-> saves[s].body, current |-> saves[s].row] # None
      BY <1>1, <2>4, RecordsAssumption DEF RecordsAssumption, SavesInv, Save
    <3>4. /\ conflict'[open] # None
          /\ \A d \in Docs : conflict'[d] # None => d = open
      BY <1>1, <2>4, <3>3 DEF ScreenInv
    <3>5. \A d \in Docs : unsaved'[d] # None => Typed(d)'
      BY <2>1, <3>2, <3>4 DEF ScreenInv, Typed
    <3>6. \A r \in Slots : saves'[r].reply # "none" => saves'[r].doc = open
      BY <3>2, FreedStays DEF ScreenInv
    <3> QED BY <2>1, <2>2, <3>2, <3>4, <3>5, <3>6 DEF ScreenInv
  <2> QED BY <1>6, <2>2, <2>3, <2>4 DEF ReceiveRefusal, ReceiveFailure
<1>7. ASSUME NEW d \in Docs, ReceiveLoad(d) PROVE ScreenInv'
  <2>1. UNCHANGED <<open, pending, saves, unsaved, removals, conflict>> /\ loads' = [loads EXCEPT ![d] = None]
    BY <1>7 DEF ReceiveLoad
  <2>2. CASE d # open
    <3>1. tab'[open] = tab[open] /\ loads'[open] = loads[open]
      BY <1>1, <1>7, <2>2 DEF ReceiveLoad
    <3> QED BY <2>1, <3>1, ScreenFrame DEF ScreenInv
  <2>3. CASE d = open
    <3>1. ~tab[open].loaded /\ loads[open] \in Row
      BY <1>1, <1>7, <2>3 DEF ReceiveLoad, ScreenInv
    <3>2. pending = None /\ \A s \in Slots : saves[s].reply = "none"
      BY <1>1, <3>1 DEF ScreenInv, Save
    <3>3. \A e \in Docs : unsaved[e] = None
      BY <3>1 DEF ScreenInv, Typed
    <3>4. tab'[open] = Adopt(tab[open], loads[open], Latest(tab[open].stamp, loads[open].version))
      BY <1>1, <1>7, <2>3 DEF ReceiveLoad, ScreenInv
    <3>5. tab'[open].listed /\ tab'[open].loaded
      BY <1>1, <3>4 DEF Adopt, TabDoc, ScreenInv
    <3>6. loads'[open] = None
      BY <1>1, <2>1, <2>3
    <3>7. \A s \in Slots : ~saves[s].live
      BY <3>2 DEF ScreenInv
    <3> QED BY <2>1, <3>2, <3>3, <3>5, <3>6, <3>7 DEF ScreenInv
  <2> QED BY <2>2, <2>3
<1>8. ASSUME LoadOpen \/ \E d \in Docs : ServeLoad(d) \/ FailLoad(d) PROVE ScreenInv'
  <2>1. UNCHANGED <<tab, open, pending, saves, unsaved, removals, conflict>>
    BY <1>8 DEF LoadOpen, ServeLoad, FailLoad
  <2>2. ASSUME tab[open].loaded PROVE loads'[open] = None
    <3>1. loads[open] = None
      BY <2>2 DEF ScreenInv
    <3>2. CASE LoadOpen
      BY <2>2, <3>2 DEF LoadOpen, Asked
    <3>3. ASSUME NEW d \in Docs, ServeLoad(d) \/ FailLoad(d) PROVE loads'[open] = None
      BY <1>1, <3>1, <3>3 DEF ServeLoad, FailLoad
    <3> QED BY <1>8, <3>2, <3>3
  <2> QED BY <2>1, <2>2, ScreenFrame
<1>9. ASSUME ReceivePage PROVE ScreenInv'
  <2>1. tab'[open] = tab[open] /\ UNCHANGED <<open, pending, saves, unsaved, removals, loads, conflict>>
    BY <1>1, <1>9 DEF ReceivePage, Refreshed, LeftAlone, ScreenInv
  <2> QED BY <2>1, ScreenFrame DEF ScreenInv
<1>10. ASSUME NEW d \in Docs, ServeRemoval(d) \/ ReceiveRemoval(d) \/ FailRemoval(d)
       PROVE ScreenInv'
  <2>1. UNCHANGED <<open, pending, saves, unsaved, loads, conflict>>
    BY <1>10 DEF ServeRemoval, ReceiveRemoval, FailRemoval
  <2>2. tab' = tab \/ tab' = [tab EXCEPT ![d].listed = TRUE]
    BY <1>10 DEF ServeRemoval, ReceiveRemoval, FailRemoval
  <2>3. [tab[open] EXCEPT !.listed = TRUE] = tab[open]
    BY <1>1 DEF ScreenInv, TabDoc
  <2>4. tab'[open] = tab[open]
    BY <1>1, <2>2, <2>3
  <2> QED BY <2>1, <2>4, ScreenFrame DEF ScreenInv
<1>11. ASSUME LoadTheirs PROVE ScreenInv'
  <2>1. /\ tab' = [tab EXCEPT ![open] = Adopt(tab[open], conflict[open].current,
                                               conflict[open].current.version)]
        /\ unsaved' = [unsaved EXCEPT ![open] = None]
        /\ UNCHANGED <<open, pending, saves, removals, loads>>
    BY <1>1, <1>11 DEF LoadTheirs
  <2>2. tab'[open].listed /\ tab'[open].loaded
    BY <1>1, <2>1 DEF Adopt, TabDoc, ScreenInv
  <2>3. \A d \in Docs : unsaved'[d] = None
    BY <1>1, <2>1 DEF ScreenInv, Typed
  <2>4. loads[open] = None
    BY <1>11 DEF LoadTheirs, ScreenInv
  <2>5. pending' # None => pending'.doc = open
    BY <2>1 DEF ScreenInv
  <2>6. \A s \in Slots : /\ saves'[s].reply # "none" => saves'[s].doc = open
                        /\ saves'[s].live => pending' # None /\ saves'[s].body = pending'.body
    BY <2>1 DEF ScreenInv
  <2>7. \A d \in Docs : conflict'[d] # None => conflict[d] # None
    BY <1>1, <1>11 DEF LoadTheirs
  <2>8. \A s \in Slots : saves'[s].live /\ saves'[s].reply = "ok" => unsaved'[open] = None
    BY <2>3, <1>1
  <2> QED BY <1>1, <2>1, <2>2, <2>3, <2>4, <2>5, <2>6, <2>7, <2>8 DEF ScreenInv
<1>12. ASSUME KeepMine PROVE ScreenInv'
  <2>1. /\ tab' = [tab EXCEPT ![open] = [Adopt(tab[open], conflict[open].current,
                      conflict[open].current.version) EXCEPT !.body = tab[open].body]]
        /\ SetPending([doc |-> open, body |-> tab[open].body], saves)
        /\ UNCHANGED <<open, unsaved, removals, loads>>
    BY <1>1, <1>12 DEF KeepMine
  <2>2. tab'[open].listed /\ tab'[open].loaded /\ tab'[open].body = tab[open].body
    BY <1>1, <2>1 DEF Adopt, TabDoc, ScreenInv
  <2>3. /\ pending' = [doc |-> open, body |-> tab[open].body]
        /\ \A r \in Slots : saves'[r].reply = saves[r].reply /\ saves'[r].doc = saves[r].doc
        /\ \A r \in Slots : ~saves'[r].live
    BY <1>1, <2>1, SetPendingStays
  <2>4. loads[open] = None
    BY <1>12 DEF KeepMine, ScreenInv
  <2>5. \A s \in Slots : saves'[s].reply # "none" => saves'[s].doc = open
    BY <2>3 DEF ScreenInv
  <2>6. [doc |-> open, body |-> tab[open].body] # None
    BY <1>1, RecordsAssumption DEF RecordsAssumption, TabDoc
  <2>7. \A d \in Docs : unsaved'[d] # None => Typed(d)'
    BY <2>1, <2>2, <2>3, <2>6 DEF ScreenInv, Typed
  <2>8. \A d \in Docs : conflict'[d] # None => d = open
    BY <1>1, <1>12 DEF KeepMine, ScreenInv
  <2> QED BY <1>1, <2>1, <2>2, <2>3, <2>4, <2>5, <2>6, <2>7, <2>8 DEF ScreenInv
<1>13. ASSUME AskPage \/ ServePage \/ FailPage \/ Others \/ UNCHANGED vars PROVE ScreenInv'
  <2>1. UNCHANGED <<tab, open, pending, saves, unsaved, removals, loads, conflict>>
    BY <1>13 DEF AskPage, ServePage, FailPage, Others, OtherWrites, OtherArchives
  <2> QED BY <2>1, ScreenFrame DEF ScreenInv
<1>14. ASSUME NEW d \in Docs, SelectDoc(d) PROVE ScreenInv'
  <2>1. open' = d /\ d # open /\ UNCHANGED <<pending, saves, conflict>>
    BY <1>14 DEF SelectDoc
  <2>2. pending = None /\ \A s \in Slots : saves[s].reply = "none"
    BY <2>1 DEF WaitsToLeave, Settled
  <2>3. \A e \in Docs : conflict[e] = None
    BY <1>1, <2>1 DEF WaitsToLeave, Settled, ScreenInv
  <2>4. \A e \in Docs : unsaved[e] = None
    BY <2>2, <2>3, <1>1 DEF ScreenInv, Typed
  <2>5. \A e \in Docs : unsaved'[e] = None
    BY <1>1, <1>14, <2>4 DEF SelectDoc
  <2>6. tab'[d] = tab[d] /\ tab[d].listed
    BY <1>1, <1>14, <2>1 DEF SelectDoc
  <2>7. tab'[d].loaded => loads'[d] = None
    <3> SUFFICES ASSUME tab[d].loaded PROVE loads'[d] = None
      BY <2>6
    <3> QED BY <1>14 DEF SelectDoc, Asked, LoadsInv
  <2>8. \A s \in Slots : ~saves[s].live
    BY <2>2 DEF ScreenInv
  <2> QED BY <2>1, <2>2, <2>3, <2>5, <2>6, <2>7, <2>8 DEF ScreenInv
<1> QED
  BY <1>2, <1>3, <1>4, <1>5, <1>6, <1>7, <1>8, <1>9, <1>10, <1>11, <1>12, <1>13, <1>14
     DEF Next, Writer, Progress, SaveProgress, DocProgress

\* A body that arrives was asked for; the others are there already.
LEMMA LoadsKept ==
  ASSUME TypesInv, ScreenInv, LoadsInv, [Next]_vars
  PROVE LoadsInv'
<1> USE TextsAssumption DEF TextsAssumption
<1>1. /\ tab \in [Docs -> TabDoc] /\ saves \in [Slots -> Save] /\ SavesInv
      /\ loads \in [Docs -> Row \cup {None, Sent}]
      /\ open \in Docs /\ tab[open] \in TabDoc
      /\ conflict \in [Docs -> [draft: Texts, current: Row] \cup {None}]
  BY DEF TypesInv, TypeOK, ScreenInv
<1>2. ASSUME loads' = loads, \A d \in Docs : tab'[d].loaded => tab[d].loaded PROVE LoadsInv'
  BY <1>2 DEF LoadsInv
<1>3. ASSUME tab' = tab, \A d \in Docs : tab[d].loaded => loads'[d] = loads[d] \/ loads'[d] = None
      PROVE LoadsInv'
  BY <1>3 DEF LoadsInv
<1>4. ASSUME NEW s \in Slots, ReceiveSaved(s) PROVE LoadsInv'
  <2>1. tab[open].loaded /\ saves[s].doc = open /\ loads' = loads
    BY <1>4 DEF ReceiveSaved, ScreenInv
  <2>2. \A d \in Docs : d # open => tab'[d] = tab[d]
    BY <1>1, <1>4, <2>1 DEF ReceiveSaved
  <2> QED BY <1>2, <2>1, <2>2
<1>5. ASSUME NEW e \in Docs, ReceiveLoad(e) PROVE LoadsInv'
  <2>1. loads' = [loads EXCEPT ![e] = None]
    BY <1>5 DEF ReceiveLoad
  <2>2. \A d \in Docs : d # e => tab'[d] = tab[d]
    BY <1>1, <1>5 DEF ReceiveLoad
  <2> QED BY <1>1, <2>1, <2>2 DEF LoadsInv
<1>6. ASSUME LoadTheirs \/ KeepMine PROVE LoadsInv'
  <2>1. tab[open].loaded /\ loads' = loads
    BY <1>6 DEF LoadTheirs, KeepMine, ScreenInv
  <2>2. \A d \in Docs : d # open => tab'[d] = tab[d]
    BY <1>1, <1>6 DEF LoadTheirs, KeepMine
  <2> QED BY <1>2, <2>1, <2>2
<1>7. ASSUME ReceivePage PROVE LoadsInv'
  <2>1. \A d \in Docs : tab'[d] = tab[d] \/ tab'[d] = Unread(page[d])
    BY <1>1, <1>7 DEF ReceivePage, Refreshed
  <2>2. \A v : ~Unread(v).loaded
    BY DEF Unread
  <2>3. \A d \in Docs : tab'[d].loaded => tab[d].loaded
    BY <2>1, <2>2
  <2> QED BY <1>2, <1>7, <2>3 DEF ReceivePage
<1>8. ASSUME (\E b \in Texts : Type(b)) \/ \E d \in Docs : FailRemoval(d) PROVE LoadsInv'
  <2>1. loads' = loads
    BY <1>8 DEF Type, FailRemoval
  <2>2. ASSUME NEW b \in Texts, Type(b) PROVE \A d \in Docs : tab'[d].loaded = tab[d].loaded
    BY <1>1, <2>2 DEF Type, TabDoc
  <2>3. ASSUME NEW e \in Docs, FailRemoval(e)
        PROVE  \A d \in Docs : tab'[d].loaded = tab[d].loaded
    BY <1>1, <2>3 DEF FailRemoval, TabDoc
  <2> QED BY <1>2, <1>8, <2>1, <2>2, <2>3
<1>9. ASSUME NEW d \in Docs, SelectDoc(d) PROVE LoadsInv'
  <2>1. \A e \in Docs : tab'[e].loaded => tab[e].loaded
    BY <1>1, <1>9 DEF SelectDoc, TabDoc
  <2>2. \A e \in Docs : tab[e].loaded => loads'[e] = loads[e]
    BY <1>1, <1>9 DEF SelectDoc, Asked
  <2> QED BY <2>1, <2>2 DEF LoadsInv
<1>10. ASSUME LoadOpen \/ \E d \in Docs : ServeLoad(d) \/ FailLoad(d) PROVE LoadsInv'
  <2>1. tab' = tab
    BY <1>10 DEF LoadOpen, ServeLoad, FailLoad
  <2>2. ASSUME NEW e \in Docs, tab[e].loaded PROVE loads'[e] = loads[e] \/ loads'[e] = None
    <3>1. loads[e] = None
      BY <2>2 DEF LoadsInv
    <3>2. CASE LoadOpen
      BY <1>1, <2>2, <3>2 DEF LoadOpen, Asked
    <3>3. ASSUME NEW d \in Docs, ServeLoad(d) \/ FailLoad(d)
          PROVE  loads'[e] = loads[e] \/ loads'[e] = None
      BY <1>1, <3>1, <3>3 DEF ServeLoad, FailLoad
    <3> QED BY <1>10, <3>2, <3>3
  <2> QED BY <1>3, <2>1, <2>2
<1>11. ASSUME UNCHANGED <<tab, loads>> PROVE LoadsInv'
  BY <1>11 DEF LoadsInv
<1> QED
  BY <1>4, <1>5, <1>6, <1>7, <1>8, <1>9, <1>10, <1>11
     DEF Next, Writer, Progress, SaveProgress, DocProgress, AskPage, ServePage, FailPage,
         Fire, ServeSave, ReceiveRefusal, ReceiveFailure, ServeRemoval, ReceiveRemoval,
         Others, OtherWrites, OtherArchives

\* The bar says "saved" when a save that still holds the draft returns, and when
\* the draft is given up.
LEMMA SavedKept ==
  ASSUME TypesInv, ScreenInv, SavedMeansSaved, [Next]_vars
  PROVE SavedMeansSaved'
<1> USE TextsAssumption DEF TextsAssumption
<1>1. /\ unsaved \in [Docs -> Texts \cup {None}]
      /\ conflict \in [Docs -> [draft: Texts, current: Row] \cup {None}]
      /\ saves \in [Slots -> Save] /\ SavesInv /\ open \in Docs
  BY DEF TypesInv, TypeOK, ScreenInv
<1>2. ASSUME saveState' # "saved" PROVE SavedMeansSaved'
  BY <1>2 DEF SavedMeansSaved
<1>3. ASSUME UNCHANGED <<saveState, unsaved>>, \A d \in Docs : conflict[d] # None => conflict'[d] # None
      PROVE SavedMeansSaved'
  BY <1>3 DEF SavedMeansSaved
<1>4. ASSUME \A d \in Docs : unsaved'[d] = None PROVE SavedMeansSaved'
  BY <1>4 DEF SavedMeansSaved
<1>5. ASSUME NEW s \in Slots, ServeSave(s) PROVE SavedMeansSaved'
  <2>1. \A d \in Docs : unsaved'[d] # None => unsaved[d] # None
    BY <1>1, <1>5 DEF ServeSave, SavesInv
  <2>2. UNCHANGED <<saveState, conflict>>
    BY <1>5 DEF ServeSave
  <2> QED BY <2>1, <2>2 DEF SavedMeansSaved
<1>6. ASSUME NEW s \in Slots, ReceiveSaved(s) PROVE SavedMeansSaved'
  <2>1. unsaved' = unsaved /\ conflict' = conflict
    BY <1>6 DEF ReceiveSaved
  <2>2. CASE saves[s].live
    <3>1. unsaved[open] = None
      BY <1>6, <2>2 DEF ReceiveSaved, ScreenInv
    <3>2. \A d \in Docs : unsaved'[d] = None
      BY <2>1, <3>1 DEF ScreenInv, Typed
    <3> QED BY <1>4, <3>2
  <2>3. CASE ~saves[s].live
    <3>1. saveState' = saveState
      BY <1>6, <2>3 DEF ReceiveSaved
    <3> QED BY <1>3, <2>1, <3>1
  <2> QED BY <2>2, <2>3
<1>7. ASSUME NEW s \in Slots, ReceiveRefusal(s) PROVE SavedMeansSaved'
  <2>1. CASE saves[s].live
    BY <1>2, <1>7, <2>1 DEF ReceiveRefusal
  <2>2. CASE ~saves[s].live
    BY <1>3, <1>7, <2>2 DEF ReceiveRefusal
  <2> QED BY <2>1, <2>2
<1>8. ASSUME NEW s \in Slots, ReceiveFailure(s) PROVE SavedMeansSaved'
  <2>1. UNCHANGED <<unsaved, conflict>> /\ (saveState' = "error" \/ saveState' = saveState)
    BY <1>8 DEF ReceiveFailure
  <2> QED BY <1>2, <1>3, <2>1
<1>9. ASSUME LoadTheirs PROVE SavedMeansSaved'
  <2>1. \A d \in Docs : unsaved'[d] = None
    BY <1>1, <1>9 DEF LoadTheirs, ScreenInv, Typed
  <2> QED BY <1>4, <2>1
<1>10. ASSUME Fire \/ KeepMine \/ \E b \in Texts : Type(b) PROVE SavedMeansSaved'
  <2>1. saveState' = "saving"
    BY <1>10 DEF Fire, KeepMine, Type
  <2> QED BY <1>2, <2>1
<1>11. ASSUME \/ LoadOpen \/ AskPage \/ ServePage \/ FailPage \/ ReceivePage \/ Others
              \/ \E d \in Docs : DocProgress(d)
              \/ UNCHANGED vars
       PROVE SavedMeansSaved'
  <2>1. UNCHANGED <<saveState, unsaved, conflict>>
    BY <1>11 DEF LoadOpen, AskPage, ServePage, FailPage, ReceivePage, Others, OtherWrites,
         OtherArchives, DocProgress, ServeLoad, ReceiveLoad, FailLoad, ServeRemoval,
         ReceiveRemoval, FailRemoval
  <2> QED BY <1>3, <2>1
<1>12. ASSUME NEW d \in Docs, SelectDoc(d) PROVE SavedMeansSaved'
  <2>1. \A e \in Docs : unsaved'[e] # None => unsaved[e] # None
    BY <1>1, <1>12 DEF SelectDoc
  <2>2. UNCHANGED <<saveState, conflict>>
    BY <1>12 DEF SelectDoc
  <2> QED BY <2>1, <2>2 DEF SavedMeansSaved
<1> QED
  BY <1>5, <1>6, <1>7, <1>8, <1>9, <1>10, <1>11, <1>12
     DEF Next, Writer, Progress, SaveProgress

\* What is on the screen and not saved yet is left there.
LEMMA ScreenKept ==
  ASSUME TypesInv, ScreenInv, [Next]_vars, ~Writer, Showing, unsaved[open] # None
  PROVE tab'[open].body = tab[open].body
<1> USE TextsAssumption DEF TextsAssumption
<1>1. /\ tab \in [Docs -> TabDoc] /\ saves \in [Slots -> Save] /\ SavesInv
      /\ open \in Docs /\ tab[open] \in TabDoc /\ tab[open].loaded
  BY DEF TypesInv, TypeOK, ScreenInv, Showing
<1>2. ASSUME NEW s \in Slots, ReceiveSaved(s) PROVE tab'[open].body = tab[open].body
  <2>1. saves[s].doc = open /\ tab[open].listed
    BY <1>2 DEF ReceiveSaved, ScreenInv
  <2>2. ~saves[s].live
    BY <1>2 DEF ReceiveSaved, ScreenInv
  <2>3. tab' = [tab EXCEPT ![open] = Saved(tab[open], saves[s])]
    BY <1>1, <1>2, <2>1 DEF ReceiveSaved
  <2> QED BY <1>1, <2>2, <2>3 DEF Saved, Adopt, TabDoc
<1>3. ASSUME NEW d \in Docs, ReceiveLoad(d) PROVE tab'[open].body = tab[open].body
  <2>1. d # open
    BY <1>1, <1>3 DEF ReceiveLoad, ScreenInv
  <2> QED BY <1>1, <1>3, <2>1 DEF ReceiveLoad
<1>4. ASSUME ReceivePage PROVE tab'[open].body = tab[open].body
  BY <1>1, <1>4 DEF ReceivePage, Refreshed, LeftAlone, ScreenInv
<1>5. ASSUME NEW d \in Docs, FailRemoval(d) PROVE tab'[open].body = tab[open].body
  BY <1>1, <1>5 DEF FailRemoval
<1>6. CASE tab' = tab
  BY <1>6
<1> QED
  BY <1>2, <1>3, <1>4, <1>5, <1>6
     DEF Next, Progress, SaveProgress, DocProgress, Fire, LoadOpen, ServePage, FailPage,
         ServeSave, ReceiveRefusal, ReceiveFailure, ServeLoad, FailLoad, ServeRemoval,
         ReceiveRemoval, Others, OtherWrites, OtherArchives

\* A text stays in its draft or in its save until the answer: the timer moves it
\* from the one to the other, and only the answer of that save ends it.
LEMMA CarriedKept ==
  ASSUME TypesInv, ScreenInv, EditsAreCarried, [Next]_vars, WaitsToLeave
  PROVE EditsAreCarried'
<1> USE TextsAssumption DEF TextsAssumption
<1>1. /\ unsaved \in [Docs -> Texts \cup {None}] /\ saves \in [Slots -> Save] /\ SavesInv
      /\ conflict \in [Docs -> [draft: Texts, current: Row] \cup {None}]
      /\ pending \in [doc: Docs, body: Texts] \cup {None}
      /\ open \in Docs /\ (armed => pending # None)
  BY DEF TypesInv, TypeOK, ScreenInv
<1>2. \A d \in Docs : unsaved[d] # None => d = open
  BY DEF ScreenInv, Typed
<1>3. ASSUME \A d \in Docs : unsaved'[d] = None PROVE EditsAreCarried'
  BY <1>3 DEF EditsAreCarried
<1>4. ASSUME UNCHANGED <<saveState, unsaved, conflict, armed, pending, saves>>
      PROVE EditsAreCarried'
  BY <1>4 DEF EditsAreCarried
<1>5. ASSUME NEW b \in Texts, Type(b) PROVE EditsAreCarried'
  <2>1. armed' /\ pending' = [doc |-> open, body |-> b]
    <3>1. [doc |-> open, body |-> b] # None
      BY <1>1, RecordsAssumption DEF RecordsAssumption
    <3> QED BY <1>5, <3>1 DEF Type, SetPending
  <2>2. unsaved'[open] = b /\ \A d \in Docs : unsaved'[d] # None => d = open
    BY <1>1, <1>2, <1>5 DEF Type
  <2> QED BY <2>1, <2>2 DEF EditsAreCarried
<1>6. ASSUME Fire PROVE EditsAreCarried'
  <2>1. PICK s \in Slots :
          saves' = [saves EXCEPT ![s] =
            [doc |-> pending.doc, body |-> pending.body, live |-> TRUE,
             version |-> VersionSent(pending.doc), reply |-> "sent", row |-> None]]
    BY <1>6 DEF Fire
  <2>2. saves'[s].live /\ saves'[s].reply # "none"
        /\ saves'[s].doc = pending.doc /\ saves'[s].body = pending.body
    BY <1>1, <2>1
  <2>3. unsaved' = unsaved /\ pending # None
    BY <1>1, <1>6 DEF Fire
  <2>4. \A d \in Docs : unsaved'[d] # None => pending.doc = d /\ pending.body = unsaved'[d]
    BY <2>3 DEF ScreenInv, Typed
  <2> QED BY <2>2, <2>4 DEF EditsAreCarried
<1>7. ASSUME NEW s \in Slots, ServeSave(s) PROVE EditsAreCarried'
  <2>1. UNCHANGED <<pending, armed, conflict, saveState>> /\ saves[s].doc \in Docs
    BY <1>1, <1>7 DEF ServeSave, SavesInv
  <2>2. \A r \in Slots : /\ saves'[r].live = saves[r].live /\ saves'[r].doc = saves[r].doc
                         /\ saves'[r].body = saves[r].body
    BY <1>1, <1>7 DEF ServeSave, Save
  <2>3. \A r \in Slots : saves[r].reply # "none" => saves'[r].reply # "none"
    BY <1>1, <1>7 DEF ServeSave, Save
  <2>4. \A d \in Docs : unsaved'[d] # None => unsaved'[d] = unsaved[d]
    BY <1>1, <1>7, <2>1 DEF ServeSave
  <2> QED BY <2>1, <2>2, <2>3, <2>4 DEF EditsAreCarried
<1>8. ASSUME NEW s \in Slots, saves' = Freed(s), ~saves[s].live,
             UNCHANGED <<pending, armed, conflict, saveState, unsaved>>
      PROVE EditsAreCarried'
  <2>1. \A r \in Slots : r # s => saves'[r] = saves[r]
    BY <1>1, <1>8, FreedTyped
  <2>2. \A r \in Slots : saves[r].live => saves'[r] = saves[r]
    BY <1>8, <2>1
  <2> QED BY <1>8, <2>2 DEF EditsAreCarried
<1>9. ASSUME NEW s \in Slots, ReceiveSaved(s) PROVE EditsAreCarried'
  <2>1. CASE saves[s].live
    <3>1. unsaved[open] = None /\ unsaved' = unsaved
      BY <1>9, <2>1 DEF ReceiveSaved, ScreenInv
    <3> QED BY <1>2, <1>3, <3>1
  <2>2. CASE ~saves[s].live
    BY <1>8, <1>9, <2>2 DEF ReceiveSaved
  <2> QED BY <2>1, <2>2
<1>10. ASSUME NEW s \in Slots, ReceiveRefusal(s) PROVE EditsAreCarried'
  <2>1. CASE saves[s].live
    <3>1. saveState' = "error"
      BY <1>10, <2>1 DEF ReceiveRefusal
    <3> QED BY <3>1 DEF EditsAreCarried
  <2>2. CASE ~saves[s].live
    BY <1>8, <1>10, <2>2 DEF ReceiveRefusal
  <2> QED BY <2>1, <2>2
<1>11. ASSUME NEW s \in Slots, ReceiveFailure(s) PROVE EditsAreCarried'
  <2>1. CASE saves[s].live
    <3>1. saveState' = "error"
      BY <1>11, <2>1 DEF ReceiveFailure
    <3> QED BY <3>1 DEF EditsAreCarried
  <2>2. CASE ~saves[s].live
    BY <1>8, <1>11, <2>2 DEF ReceiveFailure
  <2> QED BY <2>1, <2>2
<1>12. ASSUME NEW d \in Docs, SelectDoc(d) PROVE EditsAreCarried'
  <2>1. pending = None /\ conflict[open] = None
    BY <1>1, <1>12 DEF SelectDoc, WaitsToLeave, Settled
  <2>2. \A e \in Docs : unsaved[e] = None
    BY <2>1 DEF ScreenInv, Typed
  <2>3. \A e \in Docs : unsaved'[e] = None
    BY <1>1, <1>12, <2>2 DEF SelectDoc
  <2> QED BY <1>3, <2>3
<1>13. ASSUME LoadTheirs PROVE EditsAreCarried'
  <2>1. \A d \in Docs : unsaved'[d] = None
    BY <1>1, <1>2, <1>13 DEF LoadTheirs
  <2> QED BY <1>3, <2>1
<1>14. ASSUME KeepMine PROVE EditsAreCarried'
  <2>1. pending' = [doc |-> open, body |-> tab[open].body]
    BY <1>14 DEF KeepMine, SetPending
  <2>2. armed'
    <3>1. tab[open].body \in Texts
      BY <1>1 DEF TypesInv, TypeOK, TabDoc
    <3>2. [doc |-> open, body |-> tab[open].body] # None
      BY <1>1, <3>1, RecordsAssumption DEF RecordsAssumption
    <3> QED BY <1>14, <3>2 DEF KeepMine, SetPending
  <2>3. unsaved' = unsaved
    BY <1>14 DEF KeepMine
  <2>4. \A d \in Docs : unsaved[d] # None => d = open /\ tab[open].body = unsaved[d]
    BY DEF ScreenInv, Typed
  <2> QED BY <2>1, <2>2, <2>3, <2>4 DEF EditsAreCarried
<1>15. ASSUME \/ LoadOpen \/ AskPage \/ ServePage \/ FailPage \/ ReceivePage \/ Others
              \/ \E d \in Docs : DocProgress(d)
              \/ UNCHANGED vars
       PROVE EditsAreCarried'
  <2>1. UNCHANGED <<saveState, unsaved, conflict, armed, pending, saves>>
    BY <1>15 DEF LoadOpen, AskPage, ServePage, FailPage, ReceivePage, Others, OtherWrites,
         OtherArchives, DocProgress, ServeLoad, ReceiveLoad, FailLoad, ServeRemoval,
         ReceiveRemoval, FailRemoval
  <2> QED BY <1>4, <2>1
<1> QED
  BY <1>5, <1>6, <1>7, <1>9, <1>10, <1>11, <1>12, <1>13, <1>14, <1>15
     DEF Next, Writer, Progress, SaveProgress

(***************************************************************************)
(* Theorems.                                                               *)
(***************************************************************************)

\* Every variable keeps its type, and an answer in flight is about a document.
THEOREM EditorTypes == Spec => []TypeOK
<1>1. Spec => []TypesInv
  BY InitTypes, TypesStep, PTL DEF Spec
<1> QED BY <1>1, PTL DEF TypesInv

\* A document missing from the list is archived or about to be, whatever pages,
\* answers and failures arrive in whatever order, also for a writer who does not
\* wait: what deleteDoc, the discarding effect and the refresh make of docs.
THEOREM ListIsTruthful == Spec => []ListTellsTheTruth
<1>1. Spec => []TypesInv
  BY InitTypes, TypesStep, PTL DEF Spec
<1>2. TypesInv /\ ListInv /\ [Next]_vars => ListInv'
  BY ListKept
<1>3. Spec => []ListInv
  BY <1>1, <1>2, InitList, PTL DEF Spec
<1> QED BY <1>3, PTL DEF ListInv

\* The autosave effect of a writer who lets a save finish before going on to
\* another document: with any number of documents, autosaves in flight and
\* refreshes, a save with a version replaces only a text the tab has had.
THEOREM SavesReplaceSeen == Patient => (Spec => SavesReplaceSeenText)
<1> SUFFICES ASSUME Patient PROVE Spec => SavesReplaceSeenText
  OBVIOUS
<1>1. Spec => []TypesInv
  BY InitTypes, TypesStep, PTL DEF Spec
<1>2. Init => SeenInv /\ DraftInv
  BY InitSeen
<1>3. TypesInv /\ (SeenInv /\ DraftInv) /\ [Next]_vars => (SeenInv /\ DraftInv)'
  BY SeenKept, DraftKept
<1>4. Spec => [](SeenInv /\ DraftInv)
  BY <1>1, <1>2, <1>3, PTL DEF Spec
<1>5. TypesInv /\ SeenInv /\ [Next]_vars =>
        [\A s \in Slots : Stores(s) /\ saves[s].version # NoVersion =>
           stored[saves[s].doc].version \in seen[saves[s].doc]]_vars
  <2> SUFFICES ASSUME TypesInv, SeenInv, [Next]_vars, NEW s \in Slots,
                      Stores(s), saves[s].version # NoVersion
               PROVE stored[saves[s].doc].version \in seen[saves[s].doc]
    OBVIOUS
  <2>1. ServeSave(s)
    BY SlotSteps DEF Stores, SlotStep, Sends
  <2>2. saves[s].version = stored[saves[s].doc].version
    <3>1. saves \in [Slots -> Save]
      BY DEF TypesInv, TypeOK
    <3> QED BY <2>1, <3>1 DEF ServeSave, Stores, Save
  <2> QED BY <2>2 DEF SeenInv, Stores
<1> QED BY <1>1, <1>4, <1>5, PTL DEF Spec, SavesReplaceSeenText

\* The writer waits before opening another document; all documents may be refreshed,
\* written and archived meanwhile.
Waits == Spec /\ [][WaitsToLeave]_vars

\* A writer of one document has no other to open, so what holds of a writer who waits
\* holds of any.
THEOREM OneDocumentWaits == (\A d, e \in Docs : d = e) => (Spec => Waits)
<1> SUFFICES ASSUME \A d, e \in Docs : d = e PROVE Spec => Waits
  OBVIOUS
<1>1. Init => open \in Docs
  BY DEF Init
<1>2. open \in Docs /\ [Next]_vars => open' = open
  <2> SUFFICES ASSUME open \in Docs, [Next]_vars, open' # open PROVE FALSE
    OBVIOUS
  <2>1. PICK d \in Docs : SelectDoc(d)
    BY DEF Next, Writer, Type, AskPage, LoadTheirs, KeepMine, Progress, Fire, LoadOpen,
       ServePage, ReceivePage, FailPage, SaveProgress, ServeSave, ReceiveSaved,
       ReceiveRefusal, ReceiveFailure, DocProgress, ServeLoad, ReceiveLoad, FailLoad,
       ServeRemoval, ReceiveRemoval, FailRemoval, Others, OtherArchives, OtherWrites, vars
  <2> QED BY <2>1 DEF SelectDoc
<1>3. open \in Docs /\ [Next]_vars => (open \in Docs)'
  BY <1>2
<1>4. open \in Docs /\ [Next]_vars => [WaitsToLeave]_vars
  BY <1>2 DEF WaitsToLeave
<1> QED BY <1>1, <1>3, <1>4, PTL DEF Spec, Waits

LEMMA WaitsAlways == Waits => [](TypesInv /\ ScreenInv /\ LoadsInv /\ SavedMeansSaved)
<1> DEFINE Inv == ScreenInv /\ LoadsInv /\ SavedMeansSaved
<1>1. TypesInv /\ Inv /\ [Next]_vars /\ [WaitsToLeave]_vars => Inv'
  <2> SUFFICES ASSUME TypesInv, ScreenInv, LoadsInv, SavedMeansSaved,
                      [Next]_vars, [WaitsToLeave]_vars
               PROVE Inv'
    OBVIOUS
  <2>1. WaitsToLeave
    BY DEF WaitsToLeave, vars
  <2> QED BY <2>1, ScreenInvKept, LoadsKept, SavedKept
<1> QED BY <1>1, InitTypes, TypesStep, InitScreen, PTL DEF Spec, Waits

\* The autosave effect and its answers: for a writer who waits as above, with any
\* number of autosaves in flight, writes of others and conflicts, the bar never
\* says "saved" over a text that is stored nowhere and no conflict's draft.
THEOREM SavedIsSaved == Waits => []SavedMeansSaved
BY WaitsAlways, PTL

\* The autosave effect never lets go of a text: every one the bar does not call not
\* saved, and no conflict holds, is in a draft whose timer runs or in a save that
\* still counts.  With timers that fire and answers that come, that is why edits settle.
THEOREM EditsCarried == Waits => []EditsAreCarried
<1>1. Init => EditsAreCarried
  BY DEF Init, EditsAreCarried
<1>2. /\ TypesInv /\ ScreenInv /\ LoadsInv /\ SavedMeansSaved
      /\ EditsAreCarried /\ [Next]_vars /\ [WaitsToLeave]_vars
      => EditsAreCarried'
  <2> SUFFICES ASSUME TypesInv, ScreenInv, EditsAreCarried, [Next]_vars, [WaitsToLeave]_vars
               PROVE EditsAreCarried'
    OBVIOUS
  <2>1. WaitsToLeave
    BY DEF WaitsToLeave, vars
  <2> QED BY <2>1, CarriedKept
<1> QED BY <1>1, <1>2, WaitsAlways, PTL DEF Spec, Waits

\* Nothing but the writer's hand takes unsaved text off the screen.
THEOREM TypedTextStays == Waits => KeystrokesStay
<1>1. TypesInv /\ ScreenInv /\ [Next]_vars /\ [WaitsToLeave]_vars =>
        [~Writer /\ Showing /\ unsaved[open] # None => tab'[open].body = tab[open].body]_vars
  <2> SUFFICES ASSUME TypesInv, ScreenInv, [Next]_vars, [WaitsToLeave]_vars,
                      ~Writer, Showing, unsaved[open] # None
               PROVE tab'[open].body = tab[open].body
    OBVIOUS
  <2> QED BY ScreenKept
<1> QED BY <1>1, WaitsAlways, PTL DEF Spec, Waits, KeystrokesStay

\* "Keep mine" saves what was typed last.
THEOREM KeptDraftIsTyped == Waits => KeptDraftIsTheDraft
<1>1. TypesInv /\ ScreenInv => [KeepMine /\ unsaved[open] # None => pending'.body = unsaved[open]]_vars
  <2> SUFFICES ASSUME TypesInv, ScreenInv, KeepMine, unsaved[open] # None
               PROVE pending'.body = unsaved[open]
    OBVIOUS
  <2>1. pending' = [doc |-> open, body |-> tab[open].body]
    BY DEF KeepMine, SetPending
  <2>2. tab[open].body = unsaved[open]
    BY DEF ScreenInv, Typed
  <2> QED BY <2>1, <2>2
<1> QED BY <1>1, WaitsAlways, PTL DEF KeptDraftIsTheDraft

(***************************************************************************)
(* The server.                                                             *)
(***************************************************************************)

LibraryRow ==
  [state: {"active", "archived"}, owner: {Account}, body: Texts, version: Nat,
   starred: BOOLEAN, shared: BOOLEAN, editor: {Account}]

\* What the updates of the Library make of a row.
LEMMA RowWritten ==
  ASSUME NEW r \in LibraryRow, NEW q \in LibraryRow,
         q.state = r.state, q.owner = r.owner, q.shared = r.shared
  PROVE  [r EXCEPT !.body = q.body, !.version = q.version, !.editor = q.editor,
                   !.starred = q.starred] = q
  BY DEF LibraryRow

LEMMA RowArchived ==
  ASSUME NEW r \in LibraryRow, NEW q \in LibraryRow,
         q.state = "archived", q.owner = r.owner, q.body = r.body, q.version = r.version,
         q.editor = r.editor, q.starred = r.starred, q.shared = r.shared
  PROVE  [r EXCEPT !.state = "archived"] = q
  BY DEF LibraryRow

LEMMA FlagsAreOff ==
  ASSUME NEW r \in LibraryRow, NEW q \in LibraryRow,
         ~r.starred, ~r.shared, ~q.starred, ~q.shared
  PROVE  q.starred = FALSE /\ q.starred = r.starred /\ q.shared = r.shared
<1>1. r.starred \in BOOLEAN /\ r.shared \in BOOLEAN /\ q.starred \in BOOLEAN
      /\ q.shared \in BOOLEAN
  BY DEF LibraryRow
<1> QED BY <1>1, Zenon

\* The fields of a document's row.
LEMMA FieldsOfRow ==
  ASSUME NEW d \in Docs
  PROVE  /\ Rows[d].state = (IF stored[d].kept THEN "active" ELSE "archived")
         /\ Rows[d].owner = Account /\ Rows[d].editor = Account
         /\ Rows[d].body = stored[d].body /\ Rows[d].version = stored[d].version
         /\ ~Rows[d].starred /\ ~Rows[d].shared
         /\ stored[d].body \in Texts /\ stored[d].version \in Nat => Rows[d] \in LibraryRow
  BY Z3 DEF Rows, LibraryRow

LEMMA WriteIsWritten ==
  ASSUME TypesInv, NEW d \in Docs, NEW b \in Texts, stored[d].kept,
         stored' = [stored EXCEPT ![d].body = b, ![d].version = stored[d].version + 1]
  PROVE  Lib!Next
<1> DEFINE n == stored[d].version
<1>1. stored \in [Docs -> Stored] /\ stored[d].body \in Texts /\ n \in Nat
  BY DEF TypesInv, TypeOK, Stored
<1>2. /\ stored'[d].kept /\ stored'[d].body = b /\ stored'[d].version = n + 1
      /\ \A e \in Docs \ {d} : stored'[e] = stored[e]
  BY <1>1 DEF Stored
<1> DEFINE r == Rows[d]
           q == Rows'[d]
<1>3. /\ r \in LibraryRow /\ r.state = "active" /\ r.owner = Account /\ r.version = n
      /\ ~r.starred /\ ~r.shared
  BY <1>1, FieldsOfRow
<1>4. /\ q \in LibraryRow /\ q.state = "active" /\ q.owner = Account /\ q.body = b
      /\ q.version = n + 1 /\ q.editor = Account /\ ~q.starred /\ ~q.shared
  BY <1>1, <1>2, Z3 DEF Rows, LibraryRow
<1>5. Rows' = [Rows EXCEPT ![d] = q]
  BY <1>2 DEF Rows
<1> HIDE DEF n, q
<1>6. q.state = r.state /\ q.owner = r.owner /\ q.shared = r.shared
  BY <1>3, <1>4, FlagsAreOff, Zenon
<1>7. [Rows[d] EXCEPT !.body = q.body, !.version = q.version, !.editor = q.editor,
                      !.starred = q.starred] = q
  BY <1>3, <1>4, <1>6, RowWritten
<1>8. Rows' = [Rows EXCEPT ![d].body = q.body, ![d].version = q.version,
                           ![d].editor = q.editor, ![d].starred = q.starred]
  <2>1. Rows = [e \in Docs |-> Rows[e]]
    BY DEF Rows
  <2> QED BY <1>5, <1>7, <2>1
<1>9. [e \in Docs |-> {Account}]' = [[e \in Docs |-> {Account}] EXCEPT ![d] = @ \cup {Account}]
  OBVIOUS
<1>10. /\ Rows[d].state = "active" /\ q.version = Rows[d].version + 1 /\ q.editor = Account
       /\ Account \in [u \in {Account} |-> {Account}][Rows[d].owner]
  BY <1>3, <1>4
<1>11. q.body \in Texts /\ q.starred \in BOOLEAN
  BY <1>4 DEF LibraryRow
<1>12. Lib!Written(d)
  BY <1>8, <1>9, <1>10, <1>11, Zenon DEF Lib!Written
<1> QED BY <1>12 DEF Lib!Next

LEMMA RemovalIsArchived ==
  ASSUME TypesInv, NEW d \in Docs, stored[d].kept,
         stored' = [stored EXCEPT ![d].kept = FALSE]
  PROVE  Lib!Next
<1> DEFINE n == stored[d].version
<1>1. stored \in [Docs -> Stored] /\ stored[d].body \in Texts /\ n \in Nat
  BY DEF TypesInv, TypeOK, Stored
<1>2. /\ ~stored'[d].kept /\ stored'[d].body = stored[d].body /\ stored'[d].version = n
      /\ \A e \in Docs \ {d} : stored'[e] = stored[e]
  BY <1>1 DEF Stored
<1> DEFINE r == Rows[d]
           q == Rows'[d]
<1>3. /\ r \in LibraryRow /\ r.state = "active" /\ r.owner = Account
      /\ r.body = stored[d].body /\ r.version = n /\ r.editor = Account
      /\ ~r.starred /\ ~r.shared
  BY <1>1, FieldsOfRow
<1>4. /\ q \in LibraryRow /\ q.state = "archived" /\ q.owner = Account
      /\ q.body = stored[d].body /\ q.version = n /\ q.editor = Account
      /\ ~q.starred /\ ~q.shared
  BY <1>1, <1>2, Z3 DEF Rows, LibraryRow
<1>5. Rows' = [Rows EXCEPT ![d] = q]
  BY <1>2 DEF Rows
<1> HIDE DEF n, q
<1>6. [Rows[d] EXCEPT !.state = "archived"] = q
  <2>1. q.starred = r.starred /\ q.shared = r.shared
    BY <1>3, <1>4, FlagsAreOff, Zenon
  <2> HIDE DEF r
  <2>2. [r EXCEPT !.state = "archived"] = q
    BY <1>3, <1>4, <2>1, RowArchived, Zenon
  <2> QED BY <2>2 DEF r
<1>7. Rows' = [Rows EXCEPT ![d].state = "archived"]
  BY <1>5, <1>6 DEF Rows
<1>8. Lib!Archived(d)
  BY <1>3, <1>7, Zenon DEF Lib!Archived
<1> QED BY <1>8 DEF Lib!Next

\* Every step of the tab, the network and the other clients is, on the server, one
\* operation of the Library or nothing: what DocumentStore is proved to implement.
THEOREM ServerIsALibrary == Spec => ServedByTheLibrary
<1>1. ASSUME TypesInv, [Next]_vars PROVE [Lib!Next]_Rows
  <2>1. CASE UNCHANGED stored
    BY <2>1 DEF Rows
  <2>2. ASSUME NEW s \in Slots, ServeSave(s) PROVE [Lib!Next]_Rows
    <3>1. saves[s].doc \in Docs /\ saves[s].body \in Texts
      BY <1>1, <2>2 DEF TypesInv, TypeOK, SavesInv, Save, ServeSave
    <3>2. \/ UNCHANGED stored
          \/ /\ stored[saves[s].doc].kept
             /\ stored' = [stored EXCEPT
                  ![saves[s].doc].body = saves[s].body,
                  ![saves[s].doc].version = stored[saves[s].doc].version + 1]
      BY <2>2 DEF ServeSave
    <3> QED BY <1>1, <2>1, <3>1, <3>2, WriteIsWritten
  <2>3. ASSUME NEW d \in Docs, ServeRemoval(d) \/ OtherArchives(d) PROVE [Lib!Next]_Rows
    BY <1>1, <2>3, RemovalIsArchived DEF ServeRemoval, OtherArchives
  <2>4. ASSUME NEW d \in Docs, NEW b \in Texts, OtherWrites(d, b) PROVE [Lib!Next]_Rows
    <3>1. stored[d].kept
          /\ stored' = [stored EXCEPT ![d].body = b, ![d].version = stored[d].version + 1]
      BY <1>1, <2>4 DEF OtherWrites, TypesInv, TypeOK, Stored
    <3> QED BY <1>1, <3>1, WriteIsWritten
  <2>5. CASE Writer
    BY <2>1, <2>5 DEF Writer, Type, SelectDoc, AskPage, LoadTheirs, KeepMine
  <2>6. CASE Progress
    <3>1. CASE Fire \/ LoadOpen \/ ServePage \/ ReceivePage \/ FailPage
      BY <2>1, <3>1 DEF Fire, LoadOpen, ServePage, ReceivePage, FailPage
    <3>2. ASSUME NEW s \in Slots, SaveProgress(s) PROVE [Lib!Next]_Rows
      BY <2>1, <2>2, <3>2 DEF SaveProgress, ReceiveSaved, ReceiveRefusal, ReceiveFailure
    <3>3. ASSUME NEW d \in Docs, DocProgress(d) PROVE [Lib!Next]_Rows
      BY <2>1, <2>3, <3>3 DEF DocProgress, ServeLoad, ReceiveLoad, FailLoad,
         ReceiveRemoval, FailRemoval
    <3> QED BY <2>6, <3>1, <3>2, <3>3 DEF Progress
  <2> QED BY <1>1, <2>1, <2>3, <2>4, <2>5, <2>6 DEF Next, Others
<1> QED BY <1>1, InitTypes, TypesStep, PTL DEF Spec, ServedByTheLibrary

=============================================================================
