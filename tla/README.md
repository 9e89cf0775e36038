# Passage, verified

TLA+ models of [passage.md](../src/README.md): a Go server over PostgreSQL that
stores Markdown documents, lets agents edit them through MCP, bills through
Stripe, and serves a browser editor that saves as the writer types. TLC checks
the models on small instances; TLAPS proves the most important results for every
value of the constants.

## Inventory

| Component | State | Operations | What is hard |
|---|---|---|---|
| Document store, HTTP API, MCP tools (`documents/`) | `documents`, `document_contributors`, row locks | create, get, update, archive, share, unshare, edit, append, list, search | each request is several SQL statements under READ COMMITTED; version guard, retries, 409 answers, quota under concurrency |
| Document list (`documents/store.go` `ListPage`, `use-editor-documents.ts`) | pages below a cursor; the list, its cursor, whether it is complete | walk, load more, refresh, create, delete, change of account | documents move between two pages; answers of an earlier account |
| Browser editor (`apps/web/app/use-editor-*.ts`) | one pending save, documents in memory, an unresolved conflict | type, autosave, select, refresh, discard blank, resolve, share, delete | timers, answers out of order, state read before an `await` and used after it |
| Subscription refresh and webhook (`billing/pgstore.go`, `server/billing_webhook.go`) | `billing_accounts`, generations | webhook, refresh, guarded upsert | Stripe read outside the transaction, events out of order and repeated |
| Plans and entitlements (`billing/billing.go`) | `billing_accounts`, grants | account, Pro check, admin override | a decision read before the transaction that relies on it |
| Checkout and Stripe client (`server/handlers_billing.go`, `billing/stripe.go`) | the customer id in PostgreSQL and at Stripe | create session, neutralize a customer | two systems without a common transaction |
| Account deletion (`accountdata/`) | users, cleanup jobs | delete, cleanup, retry | crash between the commit and the Stripe call |
| Accounts, sessions, tokens (`auth/`) | users, sessions, API tokens | register, login, logout, create and revoke tokens | login against password reset |
| Password reset (`auth/`) | requests with leases, tokens | queue, claim, send, retry, reset | lease expiry, at-least-once delivery, lock order |
| Rate limits (`server/ratelimit*.go`) | one counter row per key | consume, cleanup | window boundaries, several clocks |
| Community referrals (`community/`) | referral, grants | redeem, rotate, disable, revoke | redeem against rotate |
| Migrations, deployment | schema version, advisory lock, revisions | apply, deploy | crash between files, lost lock |
| Public pages, static files, configuration, web pages | none | rendering | not modelled: stateless or presentation |

Browsers and agents call the HTTP and MCP handlers; these call the store, which
is the only code that touches the documents tables. Billing supplies two facts
to the document handlers: whether the account is Pro, and how many documents it
may save. Stripe calls the webhook; the webhook and the checkout handler call
the subscription refresh. Account deletion and checkout share the Stripe
customer; account deletion and a password reset share the users row and its
tokens; a referral and a sign-up share the referral's row. PostgreSQL is the only shared state between server processes.

What makes each part correct:

- Documents: no writer replaces text its author has not read; an agent's change
  applies to the text that is stored; a version names one text; the quota holds;
  an answer tells the truth; the statements compose like single operations.
- Editor: what was typed is saved, shown as a conflict, or still on screen.
- Billing: what Stripe was told is done is in the row; a late answer of Stripe
  undoes nothing; who pays is Pro; a customer without an account is neutralized.
- Deletion: after the account is gone its Stripe customer is dealt with, once.
- Password reset: a token is used at most once; afterwards no old session lives;
  every request is mailed or given up for a reason.
- Document list: once complete it has every document that stood still, once.
- Memberships: a grant needs the current code; nobody is served beyond the plan.
- Rate limits: at most *limit* requests are admitted in a window.
- Migrations: every file is applied once and in order.

## Plan

Done, in this order; each is described below.

1. `DocumentStore`, with the abstract `Library`; `DocumentStoreProofs`.
2. `Editor`: the autosave of one tab over documents that others write; `EditorProofs`.
3. `StripeRefresh`: deliveries, generations, the guarded upsert; `StripeRefreshProofs`.
4. `PasswordReset`: queue, leases, tokens, sessions, account deletion, with the
   abstract `Credentials`; `PasswordResetProofs`.
5. `AccountDeletion`, composed with checkout; `AccountDeletionProofs`.
6. `Memberships`: referrals, grants, overrides, sign-ups, API tokens and the checks
   of a request; `MembershipsProofs`.
7. `DocumentIndex`: the cursor pages of the server composed with the walk of a tab;
   `DocumentIndexProofs`.

Left, most important first: sharing, deleting and creating in `Editor` while a
save is pending; an abstract specification of the billing row; the fixed window
of the rate limits; the migrator's lock; the pages of search.

## DocumentStore

A client is a browser of an account or an API token; each has at most one
request in flight. `pc[c]` is the next SQL statement of the request of `c`, so
one action is one statement, and everything another request committed in the
meantime is visible to it: that is READ COMMITTED, the isolation level the pool
uses. A transaction that holds no lock another request could wait for is
collapsed into its last statement (`Insert` is INSERT, contribution, COMMIT).

| Model | Code |
|---|---|
| `docs`, `contributors` | tables `documents` and `document_contributors` |
| `account` | the answer of `billing.Account`: Pro or not, document limit; changes at any time |
| `lockedBy` | the `FOR UPDATE` lock on the owner's `users` row |
| `req` | the decoded request and the local variables of its handler |
| `copy` | the document the client was sent last, with its version |
| `answer` | what the last step answered, so that action properties can speak of it |
| `ReadAccount`, `LockUser`, `CountSaved`, `Insert`, `InsertCollides` | `createDoc`, `Store.Create`, `createWithPublicID` |
| `Update`, `UpdateMatchesNoRow`, `Recheck`, `WriteVersionConflict` | `Store.Update`, its second SELECT, and the 409 answer |
| `ReadForRewrite`, and `Recheck` back to it | `mcpTools.rewrite` and its retry loop |
| `ArchiveSnapshot`, `Archive` | the CTE of `Store.Archive`: its SELECT sees the statement's snapshot, its UPDATE the row as committed when it gets the lock |
| `Get`, `Share`, `Unshare` | the store functions of the same names |
| `Lose` | a disconnect, a timeout or a stopped instance: the open transaction rolls back |
| `ChangeAccount` | Stripe, an administrator, a community grant |

A body is a bag of passages (how often each occurs), because what `edit` tests is
how often a passage occurs and what an overwrite loses is a passage; the order
on the page changes neither. Titles, times, share tokens and
actor names are left out: no condition of these operations reads them. Public
ids and UUIDs are one identity. Rate limiting is left out here: it only refuses
a request before it begins.

Definitions named `Mutant...`, here and in the modules below, are not part of the model. Each stands before the
definition it varies and makes the kind of slip a change to the code could make
(a guard forgotten, a `FOR UPDATE` dropped, a version not sent); replacing the
definition by it makes the property paired with it in `PROJECT.json` fail.

### Runs

| Run | Instance | Shows |
|---|---|---|
| `documents_text` | a browser and a token of one account, one document, two passages, bodies of at most two, two write attempts, versions to 4 | `TypeOK`, `VersionNamesBody`, `NoBlindOverwrite`, `AgentChangesStoredText`, `NotFoundMeansGone`, `ConflictShowsNewerText`: no interleaving of an autosave and an agent overwrites unread text or gives a false answer |
| `documents_sharing` | a browser and a token of one account and a token of another that knows the id, account moving between Free and Pro | `ArchivedIsPrivate`, `WritersAreContributors`, and `ImplementsLibrary`: the statements implement the operations of `Library` |
| `documents_quota` | two clients that create and archive, limits 1 and 2, three ids, two attempts | `CreateWithinLimit`, and the liveness property `RequestsEnd` |

Why the bounds are enough. Two passages are the fewest that tell "the text
changed" from "the text changed back", and a body of two holds a passage twice,
which an edit must refuse. Versions up to 4 let a retry lose
twice: with `mcpWriteAttempts` 2 the loop succeeds, retries and
gives up. Three ids and limits of 1 and 2 let the limit change inside a create,
and let ids collide with an active and an archived document. One document is
enough for the text properties, since no statement but the count reads two
documents. `MaxVersion` caps the counter in the guards of the Begin
actions (`MayWrite`), never in the middle of a request. Everything proved below
holds without these bounds, for every number of clients, accounts,
documents and passages.

### Fairness

`FairSpec` assumes weak fairness of the statements of a request already begun (the
database answers or the request is lost) and strong fairness of `LockUser`
(PostgreSQL queues the transactions that wait for a row lock, so that none is
passed over for ever). No fairness is given to beginning a request, to
`Lose` or to `ChangeAccount`. Under it every request ends: neither the
collision retries nor the rewrite retries can starve one.

### Observation

`Store.Archive` tells 409 from 404 by its statement's snapshot, while its UPDATE
re-reads the row once it has the lock. A share that commits between the two makes
the archive of an existing, shared document answer 404 although
`docs/document-api.md` promises 409 for shared documents. `SharedIsNotArchivable`
states that promise; no run checks it, for the code breaks it. The document is not
harmed (`ArchivedIsPrivate` holds); the answer is wrong.

## Editor

One tab, against a server on which other clients write and archive. Each
handler, effect or continuation of an `await` is one action. A request is sent,
served and received in separate actions, so that answers arrive in any order and
may be lost; the server's side of a request is one step, as `Library` allows.

| Model | Code (`apps/web/app/use-editor-documents.ts`) |
|---|---|
| `tab` | the `docs` state: listed or not, body, version, `updatedAt`, `bodyLoaded` |
| `open`, `conflict`, `saveState` | `activeId`, `saveConflicts`, the label in the bar |
| `pending`, `armed` | `pendingSave` and the timer of the autosave effect |
| `saves`, with `live` | autosaves sent; a new `pendingSave` runs the effect's cleanup, which sets `cancelled` |
| `loads`, `page`, `removals` | `loadDocBody`, the list request of a refresh, the archive of a discarded document |
| `unsaved`, `seen` | history variables: what the writer typed and no save has stored; the versions whose text the tab was sent or wrote |
| `Type`, `Fire`, `ServeSave`, `Receive...` | `updateBody` and the autosave effect |
| `SelectDoc`, `LoadOpen` | `selectDoc`, the effects that discard the document left and load the one opened |
| `AskPage`, `ServePage`, `ReceivePage` | the refresh on coming back to the tab |
| `LoadTheirs`, `KeepMine` | `resolveConflict` |

A text is a value: no action looks into it except to ask whether it is blank.
`updatedAt` orders the content versions, because only content is written here.

| Run | Instance | Shows |
|---|---|---|
| `editor_typing` | one document, two autosaves in flight, versions to 3 | `SavedMeansSaved`, `KeystrokesStay`, `KeptDraftIsTheDraft`, and the liveness property `EditsSettle`: in a document that stays open nothing typed is lost |
| `editor_switching` | two documents, one autosave in flight, versions to 2, a patient writer | `TypeOK`, `ListTellsTheTruth`, `SavesReplaceSeenText`: no late answer, refresh or refusal lends a draft a version it was not made from |

`Patient` says whether the writer leaves a document only when its save is done
and its conflict resolved. It separates what the editor gets right however slow
the network is from what it gets wrong when the writer does not wait.

Bounds. `Slots` bounds the autosaves in flight: two are what it takes for a save
to overtake the one it supersedes. `MaxVersion` stops the others from
writing and the writer from typing; three versions are enough for a
save, a refusal and a second refusal. Two texts, blank and not, are enough to tell a draft from what
replaced it. A list request, a body request per document and an
archive request per document run at a time. The server's documents begin with any text.

Fairness. `EditsSettle` assumes that timers fire and that a fetch is answered or
fails (weak fairness of `Fire` and of the progress of each save), and it speaks
of a writer who pauses: typing without a pause may put the autosave off for ever.

The server is the one of `Library`: `Rows` maps `stored` to the rows of that module,
and every step of the model is there one of its operations or nothing
(`ServedByTheLibrary`, proved below). So the editor is checked against what
`DocumentStore` is shown to implement, seen by one account.

Observations of a writer who does not wait (no run checks the properties there,
for the code breaks them):

- `pendingSave` is one slot for all documents. Typing in a second
  document within 500 ms of the last keystroke in the first replaces
  the first one's save. The bar shows no trouble; the words are stored nowhere, though the
  welcome page says "Everything you type is saved as Markdown" (`SavedMeansSaved`
  fails with `Patient` FALSE).
- A refresh of the list spares the open and the pending document,
  not one with an unresolved conflict that has been left. Its draft is dropped from memory, and
  "Keep mine" saves what is there instead, blank or the other writer's, though
  the draft is to be "kept verbatim" (`KeptDraftIsTheDraft` with two documents).
- A document that is blank in the tab is archived on leaving it,
  by id and with no version, also when an agent has written in it since
  (`DiscardedIsBlank`).
- The answer of a superseded save sets `bodyLoaded` and keeps the body of the list
  (`use-editor-documents.ts:257-268`). If the document was left and refreshed
  meanwhile, that body is not there: the document shows as loaded and blank, and what is
  typed into it is replaced when the real body arrives. This needs a
  document left while a superseded save has no answer, which `Patient` allows: the
  theorems about the screen ask the writer to wait for those answers too (`Waits`).

And one of a writer who does everything in turn. `resolveConflict("latest")`, the button
"Discard mine, load theirs", leaves `pendingSave` alone (lines 324-336). What was
typed after the refusal is still pending; its timer fires with the version just loaded
and saves the discarded draft over theirs. `SavesReplaceSeenText` holds, for the writer
has seen their text, and the draft is stored, not lost.

## StripeRefresh

One account, its customers and their subscriptions at Stripe, and the webhook
requests in flight. Stripe announces each change of a subscription with an event
and delivers it until a delivery is answered with 200; it may deliver any
event again at any time, in any order and to several handlers at once.

| Model | Code |
|---|---|
| `stripe`, `due` | Stripe: each subscription with the count of its changes; the events not acknowledged |
| `row`, `generation`, `applied` | the Stripe columns of `billing_accounts` |
| `request[w]` | the local variables of one webhook request |
| `Deliver`, `ResolveStripeUser` | `applyCurrentSubscription` up to the account, `resolveStripeUser` |
| `ReserveGeneration`, `RetrieveSubscription`, `ApplyRefresh` | the three parts of `RefreshSubscription`: the reservation, `load`, the transaction |
| `Accepts` | the WHERE of the upsert in `updateSubscription` |
| `SetStripeCustomer` | the customer that checkout stores |
| `Fail` | an error of PostgreSQL or Stripe, a stopped process: no 200 |

The payload of an event only names the subscription, so its content is left out:
the handler asks Stripe for the current state. Price, period and scheduled cancellation travel with the status
and are part of `version`. The transaction holds its row from first to last
statement, so it is one step. `floor` is a history variable: the version at which
Stripe was when a generation was reserved. A lost 200 leaves the event due and the row changed; a delivery
of an acknowledged event stands for it. The events the handler ignores (other types, malformed
identifiers) change nothing.

| Run | Instance | Shows |
|---|---|---|
| `billing_refresh` | two handlers, two subscriptions of one customer and one of another customer whose metadata names another account, two changes of each, three generations | `TypeOK`, `AnsweredMeansStored`, `NoStaleSnapshot` |
| `billing_order` | two handlers, two subscriptions of one customer, four generations | a violation of `PaidMeansPro` |

Two handlers are what it takes for a refresh to be overtaken, three
generations for one that is overtaken after another was applied. With two
changes a subscription has a state to go stale. The bounds are
in the guards of `Announce` and `ReserveGeneration`; the theorems hold without
them. There is no deadlock check: when every subscription has ended and every event has its
answer nothing is left to happen, and a refresh past `MaxGeneration` waits.

Two limits of what holds are worth knowing. `NoStaleSnapshot` does not say that
the row never steps back: a refresh with a later generation may have asked Stripe
earlier, and then replaces a newer snapshot until the event of the missed change is handled.
`AnsweredMeansStored` is about customers with one subscription; nothing in checkout
prevents a second, and a returning customer has one.

Finding. `billing_order`: generations are per account, not per subscription. A
refresh of the ended or unpaid subscription that reserves later but finishes
earlier makes the refresh of the new, paid subscription stale; it is dropped and
answered with 200. If no other event of the new subscription follows, the customer pays
and the account is Free. With one subscription per customer `PaidMeansPro` holds, whatever
the order of the events (`OnePaidSubscriptionIsPro`, proved below).

## PasswordReset

The address of one account, the queue that mails it links, and whoever follows
them. Requests, workers and visitors interleave statement by statement; a reset
and an account deletion hold row locks from one statement to the next.

| Model | Code |
|---|---|
| `account`, `password`, `sessions`, `tokens` | `users`, `sessions`, `password_reset_tokens`; a password is named by the link that set it |
| `queue` | `password_reset_requests`: unclaimed or put back (`due`), claimed (`held`), processed (`done`) |
| `RequestPasswordReset`, `ClaimPasswordResetRequest` | the public handler's insert; the claim with a lease of five minutes |
| `CreatePasswordResetToken`, `SendPasswordReset`, `MailFails` | `processPasswordResetRequest`: one token per request id, `ON CONFLICT DO NOTHING`, then Resend |
| `CompletePasswordResetRequest`, `RetryPasswordResetRequest` | its two ends, both `WHERE processed_at IS NULL` |
| `ResetPassword`, `UseToken`, `SetPassword`, `EndSessions`, `UseOtherTokens` | the check before hashing, and the four statements of `PGStore.ResetPassword` |
| `Login`, `CreateSession`, `Logout`, `Register` | `auth.go` and its store: reading the hash and inserting the session are two steps |
| `BeginDelete`, `Delete`, `DeleteFails` | the deletion's transaction, reduced to the rows it shares with the reset |
| `Blockers`, `Deadlocked` | who waits for whom: PostgreSQL's row locks and its deadlock detection |
| `refused`, `mails`, `overtaken` | history: requests that met no account or a dead token, links that were delivered, logins that ran while a reset did |

There is no clock: a lease ends and a link expires whenever they may, which
includes a lease that ends while its worker is still sending. Session records that
are equal merge, since nothing tells two sessions with the same password
apart. The command `passage user` is a sign-up of `Memberships`; here an account
begins with `Register`.

| Run | Instance | Shows |
|---|---|---|
| `reset_links` | two links, two visitors, one worker, one account and its deletion, one slip | `TypeOK`, `PasswordByLink`, `ResetEndsSessions`, and `ImplementsCredentials`: the statements implement the operations of `Credentials` |
| `reset_queue` | two workers, one request of two attempts, two accounts one after the other | `ClosedMeansMailed`, `RequestsAreServed` |

`Credentials` is what the account's owner is promised: signing up, in and out, a
link mailed, a password reset and an account deleted, each at one moment. A reset
there takes one usable link of an account that exists, sets the password, spends every
link and ends every session that is not of a login which ran at the same time. There are no
requests, workers, leases, statements or locks. The mapping `Links` calls a token
usable from the statement that stores it to the reset that spends it; whether it has expired is
left out (the check of the expiry is in `UseToken`). A retry that finds its token stored, a lapsed
lease, a deadlock and a failed statement are stutters.

Bounds. Two links are what it takes for one to survive the other, two visitors for
two resets at once and for the deadlock of a reset with a reset; the
deletion is the third party of the other deadlock. Two workers are what a lapsed
lease brings together at one row; two attempts make the second the last. A slip
is a worker that stops, a lease outlived, or a statement that fails: one at a time is
the case the code is written for, and the theorems hold for any number. Two
accounts of the address (`reset_queue`) let a worker come back to a request
whose account was deleted and created anew. There is no deadlock check, because
every request may be done and every account gone.

Fairness of `RequestsAreServed`: workers run in a loop on every instance (weak
fairness of a claim, strong fairness of the next step of a worker, for it may have
to wait for the users row again and again); time passes (weak fairness of
`LeaseEnds`); PostgreSQL serves waiters in turn and ends every deadlock (strong
fairness of the statements of a visitor and of the deletion, and of the failure of
a deadlocked one). Visitors need not begin anything.

## AccountDeletion

Checkout and deletion for the accounts one address has one after the other, and
the Stripe they share. Nothing is atomic across the two; every request can fail
with its effect or without, and a process can stop between any two steps.

| Model | Code |
|---|---|
| `user`, `stored`, `status`, `job` | `users`, the Stripe columns of `billing_accounts`, `stripe_customer_cleanup_jobs` |
| `customer`, `session`, `key` | Stripe: customers, Checkout sessions, the idempotency key of a user (external) |
| `CreateCheckoutSession` ... `OpenCheckoutSession` | the handler of `POST /api/billing/checkout`, one action per call |
| `UserByID`, `CompareStored` | `reconcileStripeCustomerWrite`, after an error of the write |
| `ListOpenCheckoutSessions`, `ExpireSession`, `DropCustomer` | `NeutralizeUnsubscribedCustomer`, used by both sides, with its bound on the rounds |
| `BeginDelete`, `LockAccount`, `DeleteAccount` | `accountdata.Delete`: the check for a pending job, the locked checks, the transaction |
| `JobExists`, `RecordFailure`, `Recheck`, `DeleteJob` | `CleanupStripeCustomer` |
| `PaySession`, `SubscriptionEnds`, `RefreshSubscription` | the customer, Stripe, a webhook |

Stripe is assumed to do what `stripe.go` relies on: an idempotency key repeats the
customer it made, even a deleted one, until the key expires; only an open session
can be expired; deleting a customer ends its sessions and subscriptions.

`account_deletion` has two checkouts, a deleting operator and one that runs the
cleanup, two accounts, two customers, one Checkout session, two rounds and one
failure, and checks `TypeOK`, `OrphansHaveJobs`, `StoredCustomerLives`,
`JobsLastUntilCleanup` and `SuccessMeansGone`. Two checkouts and two customers
make a losing candidate; the second account is the one a late request must not
touch; two rounds let the listing show a session twice or run out; a failure may fall
at any step, and the theorems allow any number. Only safety is stated: nothing
in the code makes an operator retry a cleanup. The system may stop when the accounts
and the bounds are used up, so there is no deadlock check.

Observation. The check for a pending cleanup (`accountdata.go:153`) is a statement
outside the deletion's transaction, and the job's insert replaces the row of the
address. With two operators who delete at the same time, the second can pass the check
while the first account still exists, wait, find the account that signed up after
it, and overwrite the first job before its customer is gone:
`JobsLastUntilCleanup` fails with `Deleters = {o1, o2}`, although
`docs/account-data-requests.md` says that a job is removed when its cleanup
succeeds. `Deleters` has one operator in the run, and the theorems that need it
say so (`OneDeleter`).

## Memberships

Who is Pro, by which right, and what that lets a request do.

| Model | Code |
|---|---|
| `ent`, `Plan`, `LimitOf` | `billing_accounts` and `community_grants`; `accountFromState` |
| `referral`, `codes` | `community_referrals`, whose code is replaced by `RotateReferral` |
| `Redeem`, `LockReferral`, `InsertUser`, `CommitSignup` | `community.Service.Redeem` and the statements of `PGStore.Redeem` |
| `Register` | public sign-up and `passage user` |
| `BeginCreate`, `BeginToken`, `BeginAgent`, `EnsurePro` | the session or token of a request and `requirePro` |
| `ReadState`, `CountSavedDocs`, `CreateDocument` | `billing.Account` and its two queries, then the create with its own count |
| `CreateAPIToken`, `RevokeAPIToken` | `auth` |
| `UpdateOverride`, `RevokeGrant`, `UpdateSubscription` | the admin handlers; a refresh as `StripeRefresh` commits it |
| `best` | history: the most the account was entitled to since the request began |

`memberships` runs two clients over two addresses (one an owner's), one referral
with two codes, one API token and one change of entitlements, and checks `TypeOK`,
`GrantsNeedTheCode` and `ServedWithinPlan`, with deadlock checked. Two codes are a code and
its rotation, two clients two racing sign-ups, or a request and a
sign-up; one edit in the middle of a request is the window between its
check and its write. Limits 0 and 1 make Free refuse what Pro allows. Accounts are not deleted here.
The count `Account` makes decides nothing for a create, which counts again under the lock;
the model keeps it because the mutant that trusts it breaks `ServedWithinPlan`.

## DocumentIndex

The pages of `GET /api/v1/docs` and the walk of a tab over them, composed in one
module: `ServePage` is the query of `Store.ListPage`, the `Receive...`
actions are the continuations in `use-editor-documents.ts`.

| Model | Code |
|---|---|
| `row`, `Below`, `Page` | `updated_at` and `id` of each document; the keyset condition; `limit + 1` rows and the next cursor |
| `list`, `cursor`, `loading`, `complete`, `failed`, `turn` | `docs`, `nextCursor`, `loadingMore`, `documentIndexComplete`, `documentIndexError`, `accountGeneration` |
| `ReceiveWalk` | the first pages, up to the one with the document of the URL |
| `ReceiveNext`, `LoadMore`, `ReceiveMore`, `FailWalk` | the rest of the walk, and `loadMoreDocs` after a page failed |
| `Refresh`, `CreateDoc`, `DeleteDoc` with `Serve...` and `Receive...` | the refresh on coming back, `createDoc`, `deleteDoc` |
| `SignIn`, `Ignore` | another account in the same tab, and the generation check of its continuations |
| `OtherWrites`, `OtherArchives` | any other client |
| `touched` | history: documents written since the walk's first page |

`document_index` has four documents of two accounts, pages of one document, two
timestamps, two moves (writes of others, refreshes, creates and deletes together), one
change of account and two requests in flight; it checks `TypeOK`,
`CompleteIndexMissesNothing`, `ListedOnce`, `NoForeignDocuments` and
`WalkSettles`. Pages of one make every boundary a page boundary; two timestamps
leave documents that share one, so that the tie-breaker counts; two moves are one on either
side of a cursor. Fairness: a request of the walk is answered or fails
(weak fairness of `WalkProgress`).

A document written during the walk may be missed or doubled, and the index is
"complete" all the same; the next refresh lists it. What the model shows further, and
the properties therefore leave to `touched` documents: `createDoc` prepends
what it created without asking whether it is listed (a refresh may have been
faster) or whether the account has changed; the first pages of the walk
are not compared with each other; a refresh served before a delete brings the
document back. One create and one delete are in flight at a time.
`createDoc` on a blank open document and the refusal to delete a shared one are left
out; discarding blanks is in `Editor`.

## Proofs

`DocumentStoreProofs` proves, for every value of the constants that satisfies
the assumptions named in `DocumentStore` (clients and accounts of any
number; finitely many ids and passages), that `Spec` implies:

| Theorem | Property |
|---|---|
| `TypeCorrect` | `TypeOK` |
| `VersionsNameBodies` | `VersionNamesBody` |
| `NoPatchOverwritesBlindly` | `NoBlindOverwrite` |
| `AgentsChangeStoredText` | `AgentChangesStoredText` |
| `NotFoundIsTrue` | `NotFoundMeansGone` |
| `ConflictsShowNewerText` | `ConflictShowsNewerText` |
| `ArchivedArePrivate` | `ArchivedIsPrivate` |
| `CreatesStayWithinLimit` | `CreateWithinLimit` |
| `WritersContribute` | `WritersAreContributors` |
| `RequestsImplementLibrary` | `ImplementsLibrary`, initial states and every step |
| `LocksAreReleased` | `LocksAreShort`, which no run checks |
| `RequestsComeToAnEnd` | `AnswersComeCloser`, which no run checks |

The argument has four parts.

1. *Rows only move forward.* Every step leaves each row of the table the same or
   `Later`: a version at least as high, the same owner, and the same text if the
   version is the same (`RowsMoveForward`). Everything a request remembers about a
   row stays meaningful because of this.
2. *`TextInv`.* `VersionNamesBody` is not inductive alone: one must know that
   stored versions start at one (`NoVersion` names none), and what the local
   variables of a request in flight mean: a PATCH sends the version of its copy,
   a tool call at its UPDATE carries the change of some text and the version
   of that text, and a request that was refused holds a version the row
   has passed. From it follow the properties of the text and the answers.
3. *`QuotaInv`.* A create past `LockUser` holds the lock of its account
   (`LockIsHeld`), so at most one create of an account is there; and one past
   `CountSaved` still has the room it counted (`RoomIsKept`), because only an
   insert that holds the same lock could use it up.
4. *`AuthorInv`.* The contributor sets are non-empty exactly for rows that exist,
   contain the last editor and act for the owner; archived rows are not shared.

The last two theorems are the safety half of `RequestsEnd`. `Ahead` counts the statements a
request may still need, those of its remaining attempts included; each of its own
statements makes it smaller, and no step of another client makes it larger. A create that
waits for its users row waits for a create that waits for nothing. What is left to TLC is that
fairness then ends the request.

The refinement maps `docs` and `contributors` to themselves and each statement to
one operation of `Library` or to a stutter; it needs `QuotaInv` for the room
`Created` demands and `AuthorInv` for the actors.

The named assumptions are what the configuration gives (who acts for whom, the
plan's limits) and finiteness. `EmptyBodyAssumption` holds of every
instance; it is stated because the size of a body is a fold, whose value no installed
prover computes.

`StripeRefreshProofs` proves, for any subscriptions, customers, handlers and bounds:

| Theorem | Property |
|---|---|
| `RefreshTypes` | `TypeOK` |
| `AnsweredIsStored` | `AnsweredMeansStored` |
| `NothingStaleReturns` | `NoStaleSnapshot` |
| `AccountKeepsItsCustomer` | `OneCustomer` |
| `AnsweredIsCurrent` | `RowIsCurrent`, which no run checks: once the newest change of an only subscription is answered, the row shows what Stripe has |
| `OnePaidSubscriptionIsPro` | `PaidMeansPro`, if each customer has one subscription: what `billing_order` refutes for two |

All of them follow from `RefreshInv`. Its heart is that a generation is reserved before
Stripe is asked. Hence of two refreshes of one subscription the one with the later
generation must have seen at least as much (`FloorsFollowGenerations`), a refresh
compares with the row as its generation does (`ComparesWithRow`), and a refresh will
have seen the change it was delivered for (`KnowsItsEvent`). So one that is turned away
by its generation has nothing the row lacks, and may be acknowledged
(`AnsweredInv`). The invariant is needed with `floor` in place of the versions in the row:
those may step back, the floors cannot. The step that argues this is
`DroppingKeepsInv`; it uses that the row accepts every snapshot of an only
subscription, which is what fails when a customer has two.

`PasswordResetProofs` proves, for any requests, workers, visitors and bounds:

| Theorem | Property |
|---|---|
| `ResetTypes` | `TypeOK` |
| `PasswordsComeByLink` | `PasswordByLink` |
| `ResetsEndSessions` | `ResetEndsSessions` |
| `ClosedRequestsAreMailed` | `ClosedMeansMailed` |
| `ResetsSpendEveryLink` | `ResetSpendsEveryLink`, which no run checks |
| `UsedLinksAreSpent` | `UsedLinksStayUsed`, which no run checks |
| `ResetImplementsCredentials` | `ImplementsCredentials`, initial states and every step |
| `ClaimsComeToAnEnd` | `ClaimsAreCounted`, which no run checks |

`ResetInv` says what a request in flight has reason to rely on. A reset past `UseToken`
holds the row of its token, which is unused and of the present account
(`TokensInv`): so two resets are never past it with the same link, the commit finds
nobody else's update in the tokens it spends, and a deletion cannot have taken the
account away. Sessions are of the current password, of a login that is marked, or
among those a reset in progress has doomed (`SessionsInv`, `LoginInv`, `EndedInv`). A worker that
is about to mail works on a request whose token is stored (`WorkersInv`).

The refinement needs most of this at one step, the commit of a reset (`CommitIsReset`): the link it used is
still usable, the account is still there, and the sessions it does not delete are
those of marked logins. The other statements are stutters or a step of their own.

`ClaimsComeToAnEnd` is the safety half of `RequestsAreServed`: a request is claimed
`MaxAttempts` times, and once more for every worker that stopped and every lease outlived. Its
invariant `ClaimLeft` says that a request which may be claimed again has a claim
left; a claim costs one, and a request comes back below `MaxAttempts` or by a slip.

`MembershipsProofs` proves, for any addresses, referrals, tokens, clients and limits:

| Theorem | Property |
|---|---|
| `MembershipsTypes` | `TypeOK` |
| `GrantsComeWithTheCode` | `GrantsNeedTheCode` |
| `RequestsStayWithinThePlan` | `ServedWithinPlan` |

`SignupsInv` carries the code from `LockReferral` to the commit: the shared lock
keeps rotations and disabling out, and past `InsertUser` the address
is free and nobody else inserts it. `ServedInv` says that the plan and the limit a request
has read are within its history `best`.

`AccountDeletionProofs` proves, for any requests, operators and bounds:

| Theorem | Property |
|---|---|
| `DeletionTypes` | `TypeOK` |
| `StoredCustomersLive` | `StoredCustomerLives`, with any number of deleting operators |
| `OrphansKeepJobs` | `OrphansHaveJobs`, if at most one operator deletes |
| `JobsOutliveTheirCustomers` | `JobsLastUntilCleanup`, if at most one operator deletes |
| `SuccessIsComplete` | `SuccessMeansGone`, if at most one operator deletes |

A customer is `Spared` when its account is gone, or stored another customer:
neither ever changes back, so whoever has decided to neutralize a spared customer
may take as long as it likes. Everyone who neutralizes has a spared customer: that is
`StoredCustomerLives`. A customer for which a checkout may still open a session is `Held`: it is
stored, in the job, or deleted. The second half of the invariant, `JobsInv`, needs that a
deletion that has passed the check for a pending job still finds none when it writes its
own, which only one deleting operator guarantees: the hypothesis `OneDeleter`.

`EditorProofs` proves, for any documents, texts and autosaves in flight:

| Theorem | Property |
|---|---|
| `EditorTypes` | `TypeOK` |
| `ListIsTruthful` | `ListTellsTheTruth`, also for a writer who does not wait |
| `SavesReplaceSeen` | `SavesReplaceSeenText`, for a patient writer |
| `SavedIsSaved` | `SavedMeansSaved`, for a writer who waits |
| `TypedTextStays` | `KeystrokesStay`, for a writer who waits |
| `KeptDraftIsTyped` | `KeptDraftIsTheDraft`, for a writer who waits |
| `EditsCarried` | `EditsAreCarried`, for a writer who waits; no run checks it |
| `OneDocumentWaits` | with one document, as in `editor_typing`, `Spec` implies `Waits` |
| `ServerIsALibrary` | `ServedByTheLibrary`, which no run checks |

The list needs only that an answered archive request has archived its document
(`RemovedInv`). For the versions, `SeenInv` says that every version the tab may still
take over, of a body on screen, a save in flight, an answer or a conflict, is one whose
text it has had; `DraftInv` that the draft is of the open document, whose body
is there. The second is where `Patient` is used: a draft left behind may lose its
body to a refresh, and its timer would then send the version of a text nobody read.
A writer who waits (`Waits`) opens another document only when the one on screen is settled
and every autosave of the tab, superseded ones included, has had its answer. What
the three theorems need (`ScreenInv`) is that no body is on its way to a
document that is on the screen (`LoadsInv`), and that a live save carries the draft, so that once it is
stored nothing is unsaved. `EditsAreCarried` is the safety half of `EditsSettle`: an
unsaved text is in a draft whose timer runs, or in a save that counts and is answered or fails.

`ServerIsALibrary` needs only the types: an accepted save and a write of another client
are `Written`, and a discarded or archived document is `Archived`.

`DocumentIndexProofs` proves, for any finite set of documents, any accounts, page size,
timestamps and requests in flight:

| Theorem | Property |
|---|---|
| `IndexTypes` | `TypeOK` |
| `NothingIsMissed` | `CompleteIndexMissesNothing` |
| `NothingIsRepeated` | `ListedOnce` |
| `NothingIsForeign` | `NoForeignDocuments` |
| `WalkGoesOn` | `WalkIsUnderWay`, which no run checks: the walk has one request at a time, and while it loads there is one |
| `WalkDescends` | `CursorOnlyDescends`, which no run checks: from page to page the cursor moves down |

The order of the list is total, so a page that is not the last has a last
document, and everything left over is below it: a page is exactly what is ahead of
its cursor and not ahead of the next (`PageIsASegment`). The invariant
follows the one request the walk has under way (`WalkInv`): the pages put aside, and later the
list, hold what has been passed (`Found`, `ListInv`), a page on its way what lies between
its cursors (`Brought`). A write makes its document `touched`, and a step that leaves
the others where they are disturbs none of this (`Calm`). What remains are
answers that are not of the walk: a created document is `touched`, a deleted one is
archived, and a page asked for in this turn has documents of this account (`Plain`).

Only model-checked: the liveness properties
`RequestsEnd`, `EditsSettle`, `RequestsAreServed` and `WalkSettles`, for TLAPS does not
reach liveness under fairness. Of each the safety half is proved, that there
always is a next step and that it brings the end closer: `LocksAreShort` and
`AnswersComeCloser`, `EditsAreCarried`, `ClaimsAreCounted`, `WalkIsUnderWay` and
`CursorOnlyDescends`. For `RequestsAreServed` that leaves out the waiting of
visitors and deletions for each other's rows, where the argument is PostgreSQL's
detection of deadlocks; there TLC has the last word. Every other property that a run expects to hold is a theorem, some of them under
the hypotheses their tables name.

## Not modelled

- The reads that change nothing: search, the flat list, contributors, the public page,
  the administrators' dashboard, the export (one read-only snapshot).
- In the tab: sharing, and deleting while a save is pending
  (`use-editor-sharing.ts`, `deleteDoc`); the visual editor, views and Markdown are
  presentation.
- Rate limits: one upsert per request on a row of its own, whose only effect is a 429.
- Migrations: one transaction per file behind one advisory lock. The deployment is a
  shell script around an external tool.
- HTTP plumbing, configuration, static files, signatures, hashing and decoding:
  they keep no state. The configured limits appear as constants.
- The customer portal, which asks Stripe for a URL and stores nothing.

PostgreSQL, the mail service, the MCP transport and Stripe are taken as what the code relies on
them for. The reason for each component left out is in `PROJECT.json`.
