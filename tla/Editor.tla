------------------------------- MODULE Editor -------------------------------
(***************************************************************************)
(* One browser tab of the writer: typing, the delayed autosave, documents  *)
(* opened, refreshed, discarded and resolved, against a server that other  *)
(* clients write too.                                                      *)
(*                                                                         *)
(* A handler, an effect or the continuation of an await is one step, with  *)
(* the state it sets.  A request is sent in one step, served in another    *)
(* and received in a third, so answers arrive in any order; a request or   *)
(* its answer may be lost.  A text is a value; Blank stands for every text *)
(* isBlankDoc calls blank.  No document is shared, and updatedAt orders    *)
(* the content versions: only content is written here.                     *)
(*                                                                         *)
(* A definition named Mutant... is no part of the model: it is the one     *)
(* after it with a slip of the kind a change to the code could make.       *)
(***************************************************************************)
EXTENDS Integers, FiniteSets

CONSTANTS
  Docs,        \* documents of the account
  Texts,       \* what a document can say
  Blank,       \* a text without a word
  Slots,       \* bound: autosaves in flight at once
  MaxVersion,  \* bound: others write, and the writer types, below this version
  Patient,     \* the writer leaves a document only when nothing is unsettled
  None,        \* no document, no text, no request
  Sent         \* a request the server has not served yet

NoVersion == 0   \* an update sent without a version

ASSUME TextsAssumption ==
  Blank \in Texts /\ None # Sent /\ {None, Sent} \cap (Texts \cup Docs) = {}
ASSUME BoundsAssumption == MaxVersion \in Nat /\ Patient \in BOOLEAN
ASSUME SlotsAssumption == IsFiniteSet(Slots)

VARIABLES
  stored,    \* the server's documents
  tab,       \* the docs state of the tab
  open,      \* activeId
  pending,   \* pendingSave
  armed,     \* the autosave effect's timer is running
  saves,     \* autosaves sent
  loads,     \* the body request of each document
  page,      \* the list request of a refresh
  removals,  \* the archive request of each discarded document
  conflict,  \* saveConflicts
  saveState, \* the label in the bar
  unsaved,   \* history: the writer's text, while no save stored it
  seen       \* history: the versions whose text this tab was sent or wrote

vars == <<stored, tab, open, pending, armed, saves, loads, page, removals, conflict,
          saveState, unsaved, seen>>

Row == [body: Texts, version: Nat]

\* None is neither a draft nor a refused one.
ASSUME RecordsAssumption ==
  None \notin [doc: Docs, body: Texts] \cup [draft: Texts, current: Row]

Stored == [kept: BOOLEAN, body: Texts, version: Nat]
TabDoc == [listed: BOOLEAN, body: Texts, version: Nat, stamp: Nat, loaded: BOOLEAN]

NoSave == [doc |-> None, body |-> Blank, version |-> NoVersion, live |-> FALSE,
           reply |-> "none", row |-> None]
Save == [doc: Docs \cup {None}, body: Texts, version: Nat, live: BOOLEAN,
         reply: {"none", "sent", "ok", "conflict"}, row: Row \cup {None}]

\* After the account load: every document is listed without its body and the
\* first is open; its body is on the way.
Init ==
  /\ \E b \in [Docs -> Texts] :
       stored = [d \in Docs |-> [kept |-> TRUE, body |-> b[d], version |-> 1]]
  /\ tab = [d \in Docs |-> [listed |-> TRUE, body |-> Blank, version |-> 1,
                            stamp |-> 1, loaded |-> FALSE]]
  /\ open \in Docs
  /\ pending = None
  /\ armed = FALSE
  /\ saves = [s \in Slots |-> NoSave]
  /\ loads = [d \in Docs |-> IF d = open THEN Sent ELSE None]
  /\ page = None
  /\ removals = [d \in Docs |-> "none"]
  /\ conflict = [d \in Docs |-> None]
  /\ saveState = "saved"
  /\ unsaved = [d \in Docs |-> None]
  /\ seen = [d \in Docs |-> {}]

-----------------------------------------------------------------------------
(* The state setters. *)

Latest(m, n) == IF m >= n THEN m ELSE n   \* newestTimestamp

\* A new pendingSave runs the effect's cleanup: its timer stops and a save
\* already sent is marked cancelled.
SetPending(p, inFlight) ==
  /\ pending' = p
  /\ armed' = (p # None)
  /\ saves' = [s \in Slots |-> [inFlight[s] EXCEPT !.live = FALSE]]

RowOf(d) == [body |-> stored[d].body, version |-> stored[d].version]

\* {...doc, ...answer}: what an answer with a body makes of the tab's document.
Adopt(doc, row, stamp) == [doc EXCEPT !.body = row.body, !.version = row.version,
                                      !.stamp = stamp, !.loaded = TRUE]

Showing == open # None /\ tab[open].listed /\ tab[open].loaded

-----------------------------------------------------------------------------
(* Typing and the autosave effect. *)

\* updateBody.  Bound: the writer stops typing when the versions run out.
Type(b) ==
  /\ Showing
  /\ b # tab[open].body
  /\ stored[open].version < MaxVersion
  /\ tab' = [tab EXCEPT ![open].body = b]
  /\ SetPending([doc |-> open, body |-> b], saves)
  /\ saveState' = "saving"
  /\ unsaved' = [unsaved EXCEPT ![open] = b]
  /\ UNCHANGED <<stored, open, loads, page, removals, conflict, seen>>

\* The version is read when the timer fires; a document no longer in the list
\* has none.
VersionSent(d) == IF tab[d].listed THEN tab[d].version ELSE NoVersion

Fire ==
  /\ armed
  /\ \E s \in Slots :
       /\ saves[s] = NoSave
       /\ saves' = [saves EXCEPT ![s] =
            [doc |-> pending.doc, body |-> pending.body, live |-> TRUE,
             version |-> VersionSent(pending.doc), reply |-> "sent", row |-> None]]
  /\ armed' = FALSE
  /\ saveState' = "saving"
  /\ UNCHANGED <<stored, tab, open, pending, loads, page, removals, conflict, unsaved,
                 seen>>

\* PATCH /docs/{id} on the server.
ServeSave(s) ==
  LET save == saves[s]
      row == stored[save.doc]
      next == [body |-> save.body, version |-> row.version + 1]
  IN
  /\ save.reply = "sent"
  /\ row.kept
  /\ \/ /\ save.version \in {NoVersion, row.version}
        /\ stored' = [stored EXCEPT ![save.doc].body = next.body,
                                    ![save.doc].version = next.version]
        /\ saves' = [saves EXCEPT ![s].reply = "ok", ![s].row = next]
        /\ seen' = [seen EXCEPT ![save.doc] = @ \cup {next.version}]
        /\ unsaved' = [unsaved EXCEPT ![save.doc] = IF @ = save.body THEN None ELSE @]
     \/ /\ save.version \notin {NoVersion, row.version}
        /\ saves' = [saves EXCEPT ![s].reply = "conflict", ![s].row = RowOf(save.doc)]
        /\ UNCHANGED <<stored, seen, unsaved>>
  /\ UNCHANGED <<tab, open, pending, armed, loads, page, removals, conflict, saveState>>

Freed(s) == [saves EXCEPT ![s] = NoSave]

\* Every save brings its own text back to the screen.
MutantSaved(doc, save) == Adopt(doc, save.row, Latest(doc.stamp, save.row.version))

\* A superseded save still tells the version; the newer draft stays on screen.
Saved(doc, save) ==
  [Adopt(doc, save.row, Latest(doc.stamp, save.row.version)) EXCEPT
     !.body = IF save.live THEN @ ELSE doc.body]

\* A superseded save clears the draft that superseded it.
MutantReceiveSaved(s) ==
  LET save == saves[s] IN
  /\ save.reply = "ok"
  /\ tab' = [tab EXCEPT ![save.doc] = IF @.listed THEN Saved(@, save) ELSE @]
  /\ SetPending(None, Freed(s))
  /\ saveState' = "saved"
  /\ UNCHANGED <<stored, open, loads, page, removals, conflict, unsaved, seen>>

ReceiveSaved(s) ==
  LET save == saves[s] IN
  /\ save.reply = "ok"
  /\ tab' = [tab EXCEPT ![save.doc] = IF @.listed THEN Saved(@, save) ELSE @]
  /\ IF save.live
       THEN SetPending(None, Freed(s)) /\ saveState' = "saved"
       ELSE saves' = Freed(s) /\ UNCHANGED <<pending, armed, saveState>>
  /\ UNCHANGED <<stored, open, loads, page, removals, conflict, unsaved, seen>>

\* A superseded save that was refused adopts the server's version.
MutantReceiveRefusal(s) ==
  LET save == saves[s] IN
  /\ save.reply = "conflict"
  /\ ~save.live
  /\ tab' = [tab EXCEPT ![save.doc].version = save.row.version]
  /\ saves' = Freed(s)
  /\ UNCHANGED <<stored, open, pending, armed, loads, page, removals, conflict,
                 saveState, unsaved, seen>>

\* The refusal of a superseded save is ignored: the next one meets it too.
ReceiveRefusal(s) ==
  LET save == saves[s] IN
  /\ save.reply = "conflict"
  /\ IF save.live
       THEN /\ conflict' = [conflict EXCEPT ![save.doc] =
                              [draft |-> save.body, current |-> save.row]]
            /\ seen' = [seen EXCEPT ![save.doc] = @ \cup {save.row.version}]
            /\ SetPending(None, Freed(s))
            /\ saveState' = "error"
       ELSE /\ saves' = Freed(s)
            /\ UNCHANGED <<pending, armed, conflict, seen, saveState>>
  /\ UNCHANGED <<stored, tab, open, loads, page, removals, unsaved>>

\* The bar reports the failures of superseded saves, not of the live one.
MutantReceiveFailure(s) ==
  /\ saves[s].reply \in {"sent", "ok"}
  /\ saves' = Freed(s)
  /\ saveState' = IF saves[s].live THEN saveState ELSE "error"
  /\ UNCHANGED <<stored, tab, open, pending, armed, loads, page, removals, conflict,
                 unsaved, seen>>

\* Any other error, a document archived meanwhile or a request or answer lost,
\* leaves the draft pending; nothing tries again until the writer types.
ReceiveFailure(s) ==
  /\ saves[s].reply \in {"sent", "ok"}
  /\ saves' = Freed(s)
  /\ saveState' = IF saves[s].live THEN "error" ELSE saveState
  /\ UNCHANGED <<stored, tab, open, pending, armed, loads, page, removals, conflict,
                 unsaved, seen>>

-----------------------------------------------------------------------------
(* Opening a document. *)

\* loadDocBody asks once at a time, and only for a body that is not there.
Asked(d) == IF tab[d].loaded \/ loads[d] # None THEN loads
            ELSE [loads EXCEPT ![d] = Sent]

\* Nothing unsaved or unresolved in the open document.
Settled == pending = None /\ (open # None => conflict[open] = None)

\* A document left without a word in it is discarded.
Discarded(left) == left # None /\ tab[left].listed /\ tab[left].loaded
                   /\ tab[left].body = Blank

\* selectDoc, and the effect that discards the document left.  Bound: one archive
\* request of a document at a time.
SelectDoc(d) ==
  /\ tab[d].listed
  /\ d # open
  /\ Patient => Settled
  /\ open' = d
  /\ loads' = Asked(d)
  /\ IF Discarded(open)
       THEN /\ removals[open] = "none"
            /\ removals' = [removals EXCEPT ![open] = "sent"]
            /\ tab' = [tab EXCEPT ![open].listed = FALSE]
            /\ unsaved' = [unsaved EXCEPT ![open] = None]
       ELSE UNCHANGED <<removals, tab, unsaved>>
  /\ UNCHANGED <<stored, pending, armed, saves, page, conflict, saveState, seen>>

\* The effect that loads the open document's body, and "Try again".
LoadOpen ==
  /\ open # None
  /\ tab[open].listed
  /\ Asked(open) # loads
  /\ loads' = Asked(open)
  /\ UNCHANGED <<stored, tab, open, pending, armed, saves, page, removals, conflict,
                 saveState, unsaved, seen>>

\* GET /docs/{id} on the server.
ServeLoad(d) ==
  /\ loads[d] = Sent
  /\ stored[d].kept
  /\ loads' = [loads EXCEPT ![d] = RowOf(d)]
  /\ UNCHANGED <<stored, tab, open, pending, armed, saves, page, removals, conflict,
                 saveState, unsaved, seen>>

ReceiveLoad(d) ==
  /\ loads[d] \notin {None, Sent}
  /\ loads' = [loads EXCEPT ![d] = None]
  /\ tab' = [tab EXCEPT ![d] =
       IF @.listed THEN Adopt(@, loads[d], Latest(@.stamp, loads[d].version)) ELSE @]
  /\ seen' = [seen EXCEPT ![d] = @ \cup {loads[d].version}]
  /\ UNCHANGED <<stored, open, pending, armed, saves, page, removals, conflict,
                 saveState, unsaved>>

\* The document is gone, or the request or its answer is lost.
FailLoad(d) ==
  /\ loads[d] # None
  /\ loads' = [loads EXCEPT ![d] = None]
  /\ UNCHANGED <<stored, tab, open, pending, armed, saves, page, removals, conflict,
                 saveState, unsaved, seen>>

-----------------------------------------------------------------------------
(* Coming back to the tab refreshes the list. *)

AskPage ==
  /\ page = None
  /\ page' = Sent
  /\ UNCHANGED <<stored, tab, open, pending, armed, saves, loads, removals, conflict,
                 saveState, unsaved, seen>>

\* Archived documents are listed too, without a version.
MutantServePage ==
  /\ page = Sent
  /\ page' = [d \in Docs |-> IF stored[d].kept THEN stored[d].version ELSE None]
  /\ UNCHANGED <<stored, tab, open, pending, armed, saves, loads, removals, conflict,
                 saveState, unsaved, seen>>

\* The list carries no bodies, and no archived documents.
ServePage ==
  /\ page = Sent
  /\ page' = [d \in Docs |-> IF stored[d].kept THEN stored[d].version ELSE 0]
  /\ UNCHANGED <<stored, tab, open, pending, armed, saves, loads, removals, conflict,
                 saveState, unsaved, seen>>

\* A refresh that fails changes nothing.
FailPage ==
  /\ page # None
  /\ page' = None
  /\ UNCHANGED <<stored, tab, open, pending, armed, saves, loads, removals, conflict,
                 saveState, unsaved, seen>>

\* The open document and the one about to be saved are left alone.
LeftAlone(d) == d = open \/ (pending # None /\ d = pending.doc)

Unread(version) == [listed |-> TRUE, body |-> Blank, version |-> version,
                    stamp |-> version, loaded |-> FALSE]

Refreshed(d, version) ==
  IF version # 0 /\ IF tab[d].listed THEN ~LeftAlone(d) /\ version > tab[d].stamp
                    ELSE TRUE
    THEN Unread(version)
    ELSE tab[d]

ReceivePage ==
  /\ page \notin {None, Sent}
  /\ tab' = [d \in Docs |-> Refreshed(d, page[d])]
  /\ page' = None
  /\ UNCHANGED <<stored, open, pending, armed, saves, loads, removals, conflict,
                 saveState, unsaved, seen>>

-----------------------------------------------------------------------------
(* Archiving a discarded document. *)

ServeRemoval(d) ==
  /\ removals[d] = "sent"
  /\ stored[d].kept
  /\ stored' = [stored EXCEPT ![d].kept = FALSE]
  /\ removals' = [removals EXCEPT ![d] = "done"]
  /\ UNCHANGED <<tab, open, pending, armed, saves, loads, page, conflict, saveState,
                 unsaved, seen>>

ReceiveRemoval(d) ==
  /\ removals[d] = "done"
  /\ removals' = [removals EXCEPT ![d] = "none"]
  /\ UNCHANGED <<stored, tab, open, pending, armed, saves, loads, page, conflict,
                 saveState, unsaved, seen>>

\* A document that could not be archived stays out of the list.
MutantFailRemoval(d) ==
  /\ removals[d] # "none"
  /\ removals' = [removals EXCEPT ![d] = "none"]
  /\ UNCHANGED <<stored, tab, open, pending, armed, saves, loads, page, conflict,
                 saveState, unsaved, seen>>

\* A document that could not be archived is put back as it was left.
FailRemoval(d) ==
  /\ removals[d] # "none"
  /\ removals' = [removals EXCEPT ![d] = "none"]
  /\ tab' = [tab EXCEPT ![d].listed = TRUE]
  /\ UNCHANGED <<stored, open, pending, armed, saves, loads, page, conflict, saveState,
                 unsaved, seen>>

-----------------------------------------------------------------------------
(* The writer resolves the conflict of the open document. *)

\* "Discard mine, load theirs".
LoadTheirs ==
  /\ open # None
  /\ tab[open].listed
  /\ conflict[open] # None
  /\ LET current == conflict[open].current IN
       tab' = [tab EXCEPT ![open] = Adopt(@, current, current.version)]
  /\ conflict' = [conflict EXCEPT ![open] = None]
  /\ saveState' = "saved"
  /\ unsaved' = [unsaved EXCEPT ![open] = None]
  /\ UNCHANGED <<stored, open, pending, armed, saves, loads, page, removals, seen>>

\* The draft is what was refused, without what was typed since.
MutantKeepMine ==
  /\ open # None
  /\ tab[open].listed
  /\ conflict[open] # None
  /\ LET current == conflict[open].current
         draft == conflict[open].draft
     IN
     /\ tab' = [tab EXCEPT ![open] = [Adopt(@, current, current.version) EXCEPT !.body = draft]]
     /\ SetPending([doc |-> open, body |-> draft], saves)
  /\ conflict' = [conflict EXCEPT ![open] = None]
  /\ saveState' = "saving"
  /\ UNCHANGED <<stored, open, loads, page, removals, unsaved, seen>>

\* "Keep mine, overwrite theirs": the draft is the body as it stands now.
KeepMine ==
  /\ open # None
  /\ tab[open].listed
  /\ conflict[open] # None
  /\ LET current == conflict[open].current
         draft == tab[open].body
     IN
     /\ tab' = [tab EXCEPT ![open] = [Adopt(@, current, current.version) EXCEPT !.body = draft]]
     /\ SetPending([doc |-> open, body |-> draft], saves)
  /\ conflict' = [conflict EXCEPT ![open] = None]
  /\ saveState' = "saving"
  /\ UNCHANGED <<stored, open, loads, page, removals, unsaved, seen>>

-----------------------------------------------------------------------------

\* Another tab, a script or an agent writes.
OtherWrites(d, b) ==
  /\ stored[d].kept
  /\ stored[d].version < MaxVersion
  /\ stored' = [stored EXCEPT ![d].body = b, ![d].version = @ + 1]
  /\ UNCHANGED <<tab, open, pending, armed, saves, loads, page, removals, conflict,
                 saveState, unsaved, seen>>

OtherArchives(d) ==
  /\ stored[d].kept
  /\ stored' = [stored EXCEPT ![d].kept = FALSE]
  /\ UNCHANGED <<tab, open, pending, armed, saves, loads, page, removals, conflict,
                 saveState, unsaved, seen>>

Others == \E d \in Docs : OtherArchives(d) \/ \E b \in Texts : OtherWrites(d, b)

Writer ==
  \/ \E b \in Texts : Type(b)
  \/ \E d \in Docs : SelectDoc(d)
  \/ AskPage \/ LoadTheirs \/ KeepMine

\* The browser and the server do what was asked, or fail to.
SaveProgress(s) ==
  ServeSave(s) \/ ReceiveSaved(s) \/ ReceiveRefusal(s) \/ ReceiveFailure(s)

DocProgress(d) ==
  \/ ServeLoad(d) \/ ReceiveLoad(d) \/ FailLoad(d)
  \/ ServeRemoval(d) \/ ReceiveRemoval(d) \/ FailRemoval(d)

Progress ==
  \/ Fire \/ LoadOpen \/ ServePage \/ ReceivePage \/ FailPage
  \/ \E s \in Slots : SaveProgress(s)
  \/ \E d \in Docs : DocProgress(d)

Next == Writer \/ Progress \/ Others

Spec == Init /\ [][Next]_vars

\* Timers fire, and a fetch is answered or fails.
Fairness == WF_vars(Fire) /\ \A s \in Slots : WF_vars(SaveProgress(s))

FairSpec == Spec /\ Fairness

-----------------------------------------------------------------------------
(* Properties. *)

\* Every variable holds a value of its type.
TypeOK ==
  /\ stored \in [Docs -> Stored]
  /\ tab \in [Docs -> TabDoc]
  /\ open \in Docs \cup {None}
  /\ pending \in [doc: Docs, body: Texts] \cup {None}
  /\ armed \in BOOLEAN
  /\ saves \in [Slots -> Save]
  /\ loads \in [Docs -> Row \cup {None, Sent}]
  /\ page \in [Docs -> Nat] \cup {None, Sent}
  /\ removals \in [Docs -> {"none", "sent", "done"}]
  /\ conflict \in [Docs -> [draft: Texts, current: Row] \cup {None}]
  /\ saveState \in {"saving", "saved", "error"}
  /\ unsaved \in [Docs -> Texts \cup {None}]
  /\ seen \in [Docs -> SUBSET Nat]

\* The welcome page: "Everything you type is saved as Markdown."  While the bar
\* shows no trouble, whatever the writer typed into any document has been stored,
\* or is the draft of a conflict still to be resolved.
SavedMeansSaved ==
  saveState = "saved" =>
    \A d \in Docs : unsaved[d] # None => conflict[d] # None

\* The server takes s and stores its text.
Stores(s) == saves[s].reply = "sent" /\ saves'[s].reply = "ok"

\* An autosave that carries a version replaces only text this tab was sent or
\* wrote: refreshes, late answers and refusals never lend a draft the version of
\* a text its writer could not have read.
SavesReplaceSeenText ==
  [][\A s \in Slots : Stores(s) /\ saves[s].version # NoVersion =>
       stored[saves[s].doc].version \in seen[saves[s].doc]]_vars

\* A text the writer typed is on its way to the server, in a draft whose timer runs
\* or in a save that still counts, unless it is stored, offered as the draft of a
\* conflict or reported as not saved.
EditsAreCarried ==
  \A d \in Docs :
    unsaved[d] # None /\ conflict[d] = None /\ saveState # "error" =>
      \/ armed /\ pending = [doc |-> d, body |-> unsaved[d]]
      \/ \E s \in Slots : /\ saves[s].live /\ saves[s].reply # "none"
                         /\ saves[s].doc = d /\ saves[s].body = unsaved[d]

\* Keystrokes stay: what the writer typed into the open document leaves the
\* screen only by the writer's own hand, whichever saves return meanwhile.
KeystrokesStay ==
  [][~Writer /\ Showing /\ unsaved[open] # None => tab'[open].body = tab[open].body]_vars

\* The draft of a conflict is kept verbatim, so that the writer never loses what
\* they typed: keeping it saves what was typed last, before or after the refusal.
KeptDraftIsTheDraft ==
  [][KeepMine /\ unsaved[open] # None => pending'.body = unsaved[open]]_vars

\* Only a document left without a word in it is discarded: what the tab archives
\* by itself is blank where it is stored.
DiscardedIsBlank ==
  [][\A d \in Docs : removals[d] = "sent" /\ removals'[d] = "done" =>
       stored[d].body = Blank]_vars

\* The list tells the truth: a document missing from it is archived, or the
\* request that archives it is still on its way.
ListTellsTheTruth ==
  \A d \in Docs : ~tab[d].listed => removals[d] # "none" \/ ~stored[d].kept

\* Once the writer pauses, what was typed is stored, is offered as the draft of
\* a conflict or is reported as not saved: it never just stays behind.
EditsSettle ==
  <>[][\A b \in Texts : ~Type(b)]_vars =>
    \A d \in Docs :
      unsaved[d] # None ~>
        unsaved[d] = None \/ conflict[d] # None \/ saveState = "error"

\* The server's documents as the rows of the Library: of one account, which is also
\* who signs, with no star and no link.
Account == "account"
Rows ==
  [d \in Docs |-> [state |-> IF stored[d].kept THEN "active" ELSE "archived",
                   owner |-> Account, body |-> stored[d].body,
                   version |-> stored[d].version, starred |-> FALSE, shared |-> FALSE,
                   editor |-> Account]]

Lib == INSTANCE Library WITH
  docs <- Rows, contributors <- [d \in Docs |-> {Account}],
  Users <- {Account}, PublicIds <- Docs, Bodies <- Texts,
  ActorsOf <- [u \in {Account} |-> {Account}], Limits <- {None}, NoLimit <- None,
  NoRow <- None

\* The server of this model does to the documents only what the Library allows, the
\* promise that the statements of DocumentStore keep.
ServedByTheLibrary == [][Lib!Next]_Rows

=============================================================================
