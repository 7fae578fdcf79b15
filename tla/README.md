# Ascend: models, checks and proofs

Ascend is a private vault and messenger: a Go API (`src/services/api`) whose
capabilities each own a package under `internal/` and a part of one Postgres
database, and a React Native client (`src/apps/mobile`) that keeps the keys and
the plaintext.  This directory models the parts whose correctness depends on
the order in which things happen: handlers that interleave between two store
calls, calls that fail half-way, processes that die, locks and pools.

TLC checks the models on small instances; TLAPS proves all of their
safety properties for any number of identities, devices, blobs, files,
conversations, calls and connections.
Paths below are relative to `src/services/api/internal/` unless they start with
`apps/` or `docs/`.

## 1. The system

Every HTTP request runs in a goroutine of its own.  There is no lock around a
handler unless this table says so: a handler calls its stores one at a time,
each store call is one SQL statement, one transaction or one Redis script, and
another handler may run between any two of them.  Store failures reach the
handler as an error (audit, identity, backends) or as a panic that the router
recovers (session and blob stores); reads that fail are often folded into "not
found".

| Component | State | Operations that change it | Talks to |
|---|---|---|---|
| Session / Request Authentication (`sessionauth/`) | challenge nonces (Redis), sessions and device generations (Postgres), failure counters (process) | GetSessionChallenge, IssueSession, ValidateSession, RevokeSession, RevokeAllSessions, RevokeSessionsForDevice | Identity (is this device bound?), Audit |
| Identity & Device Binding (`identity/`) | one row per identity: epoch and devices; signed and one-time prekeys per device | CreateIdentity, BindDevice, RevokeDevice, PublishPrekeyBundle, FetchPrekeyBundle | Audit |
| Storage (`storage/`) | blob records and wrapping keys (Postgres), ciphertext (one backend per policy), an advisory lock per blob | StoreBlob, MoveBlob, DeleteBlob (RetrieveBlob reads and audits) | Permissions (grant, check), Audit |
| Audit (`audit/`) | one append-only, hash-chained table | Emit | Permissions (who may query) |
| Permissions (`permissions/`) | grants; the first grant on a resource makes its owner | GrantPermission, RevokePermission | Audit |
| File Objects (`fileobjects/`) | file records, versions, shares | CreateFileObject, CreateVersion, SetFileMetadata, ShareFileObject, DeleteFileObject | Storage, Permissions, Audit |
| Conversations (`conversations/`) | conversations and their messages | CreateConversation, SendMessage | Permissions, Audit |
| Platform (`platform/`) | the one connection pool, Redis client, migrations | | |
| Wiring (`services/api/wiring.go`) | middlewares that resolve a session to an actor, adapters between packages | | all of them |
| Mobile crypto (`apps/mobile/src/capabilities/crypto`) | device keys, prekeys, one ratchet state per session handle | generatePrekeyBundle, deriveSharedSecret, completeSharedSecret, encryptMessage, decryptMessage | secure storage |
| Mobile conversations (`apps/mobile/src/features/conversations`) | cached session handles, local plaintext history | sendMessage, syncThreadHistory, ensureOwnPrekeyIdentity | crypto, Identity, Conversations |
| Mobile onboarding (`apps/mobile/src/features/onboarding`) | local identity and session | createIdentity, bind, removeDevice | Identity, Session |

What is hard about it, and what makes each part correct:

* **Sessions.**  A login reads the nonce, the device list and the device's
  generation in separate calls; a revocation may fall between any of them.
  Correct: a revocation that has reported is complete, a nonce is spent once, a
  session ends only through its own identity, a reported act is in the log.
* **Identity.**  Edits are read-modify-write on a row with no comparison.
  Correct: edits add up, the epoch only grows, a proof binds once; a one-time
  prekey is given once and none is lost.  A bundle may be published again, after
  an answer that was lost.
* **Storage.**  A blob is spread over three systems without a transaction.
  Correct: no step, failure or crash loses a blob that nobody deleted or leaves
  a copy nobody knows of; a deletion is final; a failed store leaves nothing.
* **Audit and the pool.**  Appends take a global lock inside a transaction, and
  blob handlers take connections while they hold one.  Correct: the log is one
  chain in which an alteration shows, no connection is lost, everybody returns.
* **Permissions.**  A decision and the write it allows are separate statements,
  without a lock.  Correct: access comes from a participant or an owner, and is
  taken away only by who may.
* **Conversations.**  A row and its grants are written one by one, rolled back on
  failure and repaired by a later call.  Correct: what a caller was told of is
  usable by both participants; paging through messages loses none.
* **File Objects.**  A file is a record, versions, their blobs in Storage and the
  same grants mirrored on the file and every blob; the record is read before the
  mutex is taken and written back whole.  Correct: who may read the file may
  fetch its content and nobody else, a deleted file has no content, the mutex
  never stays locked.
* **Mobile messaging.**  The chains advance without message numbers, several
  calls of one device overlap at every `await`, a list may come without some of its
  messages, and the process may be killed between two steps.  Correct: a session
  makes no message key twice, a prekey on offer can be
  completed with, a message that nothing disturbed is readable on both ends.

`PROJECT.json` lists each hazard at its line with the properties about it.

## 2. Modules

| Module | Models | Used by |
|---|---|---|
| `SessionLedger` | what Session / Request Authentication promises, abstractly | refined by `SessionAuth` |
| `SessionAuth` | challenges, IssueSession in seven steps, validation and the three revocations, with Identity's device list | `MCSessionAuth`, `SessionAuthProofs` |
| `SessionAnomaly` | the failure counter of `anomaly.go` and its audit event | `MCSessionAnomaly`, `SessionAnomalyProofs` |
| `Identity` | the record's edits and the prekey pools of one identity | `MCIdentity`, `IdentityProofs` |
| `Storage` | the blob service, store call by store call | `MCStorage`, `StorageProofs` |
| `ConnectionPool` | the pool under `lockBlob` and Audit's `Append`, the hash chain and VerifyIntegrity | `MCConnectionPool`, `ConnectionPoolProofs` |
| `Grants` | the store of Permissions and the decisions taken on what it holds | `Permissions`, `FileObjects` |
| `Permissions` | GrantPermission and RevokePermission as read, decide, write, audit | `Conversations` |
| `Conversations` | creation, repair, messages and pages, composed with `Permissions` | `MCConversations`, `ConversationsProofs` |
| `FileObjects` | the five mutating requests on files, over `Grants` and what Storage promises | `MCFileObjects`, `FileObjectsProofs` |
| `Messaging` | two mobile clients: sessions, chains, prekeys, history, await by await | `MCMessaging`, `MessagingProofs` |

The `MC*` modules hold the bounds and symmetries of the runs; the `*Proofs`
modules the theorems.  Operators with "Mutated form of" in their comment are
what a plausible bug would make of the definition that follows them.  They are
not part of a specification; putting one in the place of its original shows
that the property named in `PROJECT.json` can fail.

How state and actions correspond to the code:

* **`SessionAuth`**.  `challenge` is Redis, `sessions` and `generation` the two
  Postgres tables, `ipc`/`asked`/`observed` the local variables of an
  `IssueSession` goroutine, `opc`/`op` those of another call.  One action per
  store call: `ObserveGeneration` (`currentDeviceGeneration`, where a failed
  query reads as 0), `PeekNonce`, `ResolveDevice`, `ConsumeNonce` (signature
  check and the Redis script), `CommitSession`
  (`putIfDeviceGenerationUnchanged`, a transaction), `ReturnSession` (the emit).
  A panic or crash is `AbortIssue`/`AbortOp`.  Expiry is "a look-up may find
  nothing" at any time.  `binding` changes as `Identity`'s record does,
  including the return of a revoked device (`Reinstate`), which `Identity`
  shows to be possible.
* **`Identity`**.  `Decide` is `Get` with everything computed on the copy,
  `Replace` the unconditional UPDATE, `EmitEdit` the emit.  Proofs are pairs of
  a key and an epoch, signed by the root key; they can be presented again.
  `PublishBundle` is one transaction, `ClaimOneOneTimePrekey` one statement
  with `FOR UPDATE SKIP LOCKED`.  A bundle is a value that any number of
  PublishPrekeyBundle calls of one device may carry, which is what the store's
  `ON CONFLICT (prekey_id) DO NOTHING` is there for: `PublishBundle` leaves the
  prekeys alone that are still in the pool and inserts the others, those that a
  claim has deleted included; the history variable `reinserted` keeps these.
* **`Storage`**.  `record`, `key`, `copies`, `granted` are the four places
  StoreBlob writes to.  `spc` follows a StoreBlob call, `pc` any other.  Each
  call to a store, backend, Permissions or Audit is an action with its failure
  outcomes; deferred unlocks are part of the action that returns (`Leaves`);
  `Die` is a panic or the end of the process.
* **`ConnectionPool`**.  `free` counts idle connections; a blob call holds one
  for the lock of its blob, `blobLock[blobOf[c]]`, and takes a second for each
  query and for `Append`; `log` keeps of an event its author, which stands for
  its hash, and its `prev_hash`.
* **`Grants`, `Permissions`**.  `grants`, `owners`, `policies` are the three
  tables.  `Grants` holds what one statement does (`putGrant`, `removeGrant`) and
  what the service decides (`authorizeGrant`, `authorizeRevoke`,
  `CheckPermission`).  In `Permissions` a call of worker w is `call[w]`, and
  `step[w]` how far it is; a read that fails looks like a missing grant, a write
  that fails panics, an emit that fails leaves the change in place.
* **`Conversations`** EXTENDS `Permissions`: while a handler waits for a grant,
  the worker's `call` and `step` are that call's, so every interleaving of the
  handlers with each other and with direct calls of Permissions is explored.
  `at[w]` names the place in CreateConversation (a new row: `grantSelf`,
  `grantPeer`, `rollback`; an existing one: `checkSelf` to `repairPeer`) or in
  SendMessage.  `DrawSeq` and `addMessage` are the two ends of the insert: the
  sequence is drawn before the row is visible.  `walk[s]` is a client that pages
  through `ListMessages`.  `pairOf`, `told`, `rolledBack`, `revoked`,
  `conferred` are history variables.
* **`FileObjects`** takes a call of Permissions or Storage as one step, with its
  three results (done; refused; failed, with or without the change), because
  `Conversations` and `Storage` explore what is inside one.  `mu` is the
  service's mutex, `fo[w]` the record a handler read before taking it, `todo[w]`
  what its loop over grants or blobs has left, `listed[w]` the versions it read,
  which may be none because the read failed.  `excuses` and `late` are history:
  what befell a file that the properties except.
* **`Messaging`**.  `task[t]` is one asynchronous call under way (a send, a sync,
  an ensureOwnPrekeyIdentity), an action what runs between two awaits.  The
  three locks are stages: `storing` is reached by one task per history
  (`withKeyLock`), `advancing` and `opening` by one per session
  (`withRatchetSessionLock`), `consuming` by one per prekey
  (`withOneTimePrekeyLock`).  A section reads the session's record and writes it
  back whole, with both chains (`position` and `opposite` are what it read).
  `ListMessages` is the walk of `listAllMessagesAscending`: it reads as many pages
  of `PageLimit` messages, from the newest back, as it gets before one fails, which
  looks like the last one.  A message that has its place in the list need not be
  visible in it yet (`hidden`, `CommitMessage`).  The pages are read at one moment;
  a walk that takes longer finds what it would find at its last page, but for the
  newest messages that were committed meanwhile, as if these had been committed
  later.  `ratchet`, `cached`, `rows` and the prekeys are the
  secure store and survive `Restart`; tasks and locks do not.  A message key is
  <<secret, sender, position>>, a ciphertext opens under its own key only.  The
  server is what the client sees of modules `Identity` (prekeys) and
  `Conversations` (one row, messages in order).  `encrypted`, `reused`,
  `consumed` and `spoiled` are history; `spoiled` records, at the action where it
  happens, which message a disturbance befell.
* **`SessionAnomaly`**.  `window` is the map of `failureTracker`; time is in
  ticks; `Restart` loses the map, not the log.  `failures`, `signals` and `lost` are
  history: the ticks of each token's failures and signals, and of the restarts.

## 3. Runs

`tlc -config <cfg> <module>`, from this directory.

| Run | Module, cfg | Distinct states | Result |
|---|---|---|---|
| `session` | `MCSessionAuth`, `SessionAuth.cfg` | 1.17 million | holds |
| `storage` | `MCStorage`, `Storage.cfg` | 198 thousand | holds |
| `storage_retrieve` | `MCStorage`, `StorageRetrieve.cfg` | | violates `RetrieveFindsBlob` |
| `pool` | `MCConnectionPool`, `ConnectionPool.cfg` | 75 thousand | holds, liveness included |
| `pool_blobs` | `MCConnectionPool`, `ConnectionPoolBlobs.cfg` | | violates `EveryCallReturns` |
| `anomaly` | `MCSessionAnomaly`, `SessionAnomaly.cfg` | 243 thousand | holds |
| `anomaly_audit` | `MCSessionAnomaly`, `AnomalyAudit.cfg` | | violates `AnomalyAudited` |
| `identity` | `MCIdentity`, `Identity.cfg` | 1.38 million | holds |
| `identity_epoch` | `MCIdentity`, `IdentityEpoch.cfg` | | violates `EpochOnlyGrows` |
| `conversations` | `MCConversations`, `Conversations.cfg` | 978 thousand | holds |
| `files` | `MCFileObjects`, `FileObjects.cfg` | 542 thousand | holds, liveness included |
| `messaging` | `MCMessaging`, `Messaging.cfg` | 2.96 million | holds |

### What the passing runs show, and their bounds

**`session`**: 2 identities, 2 devices, 2 nonces, 2 logins and 2 other calls
(validations and revocations of every kind).  `Paired` lets a call name a
device together with one identity only, which is how a client asks; what a
foreign pair can do is still covered by the identity a revocation is called
with.  A race needs a login, a revocation of its device and at most one change
of the device list; a foreign revocation needs the second identity; reuse of a
nonce needs the second login.  Nothing in the handlers counts, so more calls
only add independent copies of these.

* `DeviceRevocationComplete`: once RevokeSessionsForDevice has swept, no login
  that began before it leaves a session, however it interleaves.
* `RemovedDeviceSignedOut`: the same for the two services together, in the
  order the client's `removeDevice` calls them.
* `NonceUsedOnce`, `OnlyOwnerRevokes`: two logins never both pass with one
  nonce; sessions end only through their own identity.
* `ReportedMeansAudited`: a success that reached its caller is in the log.
* `LedgerSpec`: `SessionAuth` implements `SessionLedger`, in which a login
  commits in one atomic step against the generation it began with, and a session
  once ended never returns: the update of `last_used_at` cannot bring one back.
  The ledger also says what signing out everywhere does not do: it ends live
  sessions (`SignOutEverywhere`), and a login under way succeeds after it, unlike
  one under way for a device that is signed out.

**`storage`**: one blob (locks, records and keys of different blobs share
nothing), its StoreBlob, 3 other calls, 3 policies, of which `p3` has no
physical delete.  The store rolls back or succeeds, two calls race on the
result and a third follows what they left; three policies let a blob move away
and on again.  A fourth call (4.2 million states) shows nothing new.

* `BytesSurvive`: a stored blob that nobody has begun to delete has its record,
  its key, its grant and a copy somewhere, whatever moves failed or died.
* `SoleCopyWhereRecorded`: when no call holds the lock, and none died or reported
  a duplicate, the one copy is where the record says.
* `DeletedIsGone`, `DeletedOnce`, `DeletionIsFinal`: a tombstone means that the
  key is gone, and the ciphertext where the policy promises it; one call wrote it
  and none takes it back.
* `RollbackLeavesNothing`: a StoreBlob that reported its rollback leaves neither
  record nor key; ciphertext that a backend failed to drop is unreadable.

**`pool`**: 3 blob calls on 2 blobs and one other emitter, on 3 connections.
Four calls want up to seven connections, so every connection may be held while
holders and waiters wait for one more, the case `lockAcquireTimeout` exists for;
but there are fewer blobs than connections, which `EveryCallReturns` needs
(`pool_blobs` is the instance where it fails).  Any two of the four calls may
race for the first event.

* `NoConnectionLeaks`: every exit, time-outs included, gives back what was taken.
* `ChainUnbroken`: VerifyIntegrity accepts the log, so two emitters never
  extended the same tail; and whatever else is made of its events, by leaving some
  out, moving or repeating them, it rejects, unless it is a beginning of the log.
* `EveryCallReturns` (liveness): nobody waits for ever.

**`anomaly`**: threshold 3, window 2, horizon 4 ticks, a burst of 3.  The code
has 5 failures in a minute; only whether the threshold is reached within a
window matters, and the horizon lets a window end and another begin.

* `SignalMeansBurst`: a signal stands for as many failures as the threshold
  within one window.
* `BurstSignalled`: enough failures close together are signalled wherever the
  window's seam falls.

**`identity`**: 3 edits, 2 publications and 2 fetches, of which `Load` lets a
behaviour begin five; 2 bundles of one prekey, so that the publications are of
two bundles, or of one that is published again.  The edits and the prekeys
share only the device list; three edits are one more than a lost update needs,
two fetches race for one prekey, a fetch with no prekey left is reached, and so is
one that gets a prekey for the second time.

* `RecordIsSumOfEdits`, `ProofBindsOnce`: as long as no edit overwrote another
  (the ghost `clobbered`), the record is the sum of the edits and the epoch in
  the proof makes it usable once.  Without that condition both fail, as
  `identity_epoch` shows of the epoch.
* `PrekeyGivenOnce`, `PrekeysAccountedFor`: a one-time prekey is either in its
  device's pool or with one fetcher, unless a publication that was repeated after
  the claim put it back (`reinserted`, see below).

**`conversations`**: one pair and a third subject, 2 conversation ids, 2
workers, 4 requests, 1 failure or crash, 2 values of the messages' sequence and
pages of one.  `Pairs` has the one pair because rows of different pairs share
nothing; the third subject is whom a direct grant may bring in.  `DirectCalls`
are the grants to that subject, in either scope, and revocations of full access
by anybody, so that access is given, narrowed and taken away while a creation or
a repair is under way.  Four requests are a creation, a second one that finds
its row, and two calls or walks around them; the second id is there for the pair
that was rolled back.  A page of one makes every boundary a page boundary.

* `AccessTracesToMember`: every grant on a conversation was first stored in the
  name of a participant, or of somebody given as wide a scope before: the
  bootstrap exemption of GrantPermission makes nobody else its owner, whatever
  the rollbacks and races on the row.
* `RevokedByRight`: a grant disappears only by the decision of somebody entitled
  to take away the grant that was there when RevokePermission read it.  The grant
  that is gone may be a newer one, of another grantor: RevokePermission does not
  compare (`permissions/service.go:199`).
* `ToldMeansUsable`: a conversation that CreateConversation returned can be opened
  by both participants, crashes between the row and its grants included.
* `WalkLosesNothing`: paging returns all that was there when it began, and none
  twice, although messages commit out of the order of their numbers meanwhile.

**`files`**: one file, its owner and one more subject, 2 blobs, 2 workers, 4
requests of those in `Requests`, 1 failure, panic or crash.  Different files
share only the mutex, which one file's requests contend for as well; two blobs
are the first version and one that races; four requests are the creation, two
that overlap and one that follows.  `Requests` leaves out what is refused at once.

* `BlobAccessFollowsFileAccess`: those whom the owner is shown as readers can
  export every version, nobody else gets the bytes of any from Storage.
* `BlobOwnerIsFileOwner`: a writer who adds a version does not become its owner.
* `DeletedMeansErased`: what is shown as deleted has lost its content, but for a
  version that a request added later on a stale record.
* `EveryCallReturns` (liveness): no failure leaves the mutex locked.

The first and third except the files which one of the failures listed below as
divergences befell; the exceptions are noted by the action in which it happens.

**`messaging`**: 2 participants, 2 calls at a time and 4 in all, 3 messages, 2
session establishments, 2 prekey bundles between them, pages of one message and at
most three of them, 1 failed call of the network or the secure store, or restart.
Two calls at a time are what one lock and one read-modify-write need; with four
calls in all, two syncs of a thread run at once over messages that two sends
delivered, the two devices establish sessions at the same time, a one-time prekey
is claimed, used up and missing, and a bundle whose publication was not answered is
followed by a second one.  With a page for each message a list may be cut short anywhere, and three messages are one
more than it takes to miss an earlier one.  A behaviour begins with no device, one
or both having published; `MCInit` leaves out that both have and one of them has
been claimed from, which an empty pool of the only one covers.  (About two minutes
with two workers; from every initial state the run has 5.33 million states, and
holds as well.)

* `NoKeyReuse`: a session makes each message key once, whatever overlaps and
  restarts.  Two ciphertexts have one key only if their device registered the
  secret twice, and that happens only without a one-time prekey (see below).
* `PrekeysKept`: every prekey on offer has its private half on the device, and a
  claimed one keeps it until it served the handshake that claimed it.
* `ReadableUnlessDisturbed`: a message is stored as undecryptable only if one of
  the disturbances listed below befell it, as long as no ciphertext was lost or
  overtaken and one session serves the conversation.

The configurations say `CHECK_DEADLOCK FALSE` because every call is made at most
once: a behaviour in which all of them have returned has nothing left to do.

### Fairness

Only the two `EveryCallReturns` need any.  In `ConnectionPool` it is weak fairness
of the steps of each call: a goroutine that can go on does, Postgres answers a
query that has its connection, and the waits of `lockBlob` end at their
deadline (`lockAcquireTimeout`).  It assumes nothing about who gets a connection
or a lock first.  The mutant that leaves the lock's wait without its deadline
hangs.

In `FileObjects` it is weak fairness of the steps of each handler and strong
fairness of `Lock`: a `sync.Mutex` hands itself to a goroutine that has waited
for more than a millisecond (its starvation mode), so a waiter for whom it is
free again and again gets it.  Panics and crashes are not fair, they need not
happen.  The mutant whose handlers panic without the deferred `Unlock` hangs.

### Where the code and what is said of it differ

* **`storage_retrieve`**.  `docs/DECISION_LOG.md:1126` left RetrieveBlob without
  the blob's lock because no interleaving could hurt it.  It reads the record,
  then the backend; a move in between has deleted the old copy, and the caller is
  told of a failure although the blob was there all the time.
* **`pool_blobs`**.  "No unbounded context.Background() wait anywhere in this file"
  (`storage/postgres_store.go:193`), hence "contention that self-resolves within
  `lockAcquireTimeout`" (`docs/DECISION_LOG.md:1720`).  The two waits of `lockBlob`
  are bounded; those of `get` and `put`, and of Audit's `Append`, inside the locked
  section are not.  2 calls that hold the locks of 2 blobs on 2 connections wait
  for a third connection for ever (10 and 10 in the code, `maxPoolConns`).  With
  one hot blob, the case the documents discuss, all return.
* **`anomaly_audit`**.  "Repeated failures ... ARE audited"
  (`sessionauth/service.go:300`).  The event has an empty actor, which
  `audit.Service.Emit` refuses; the refusal is dropped.
* **`identity_epoch`**.  The epoch is "never decremented or reset"
  (`docs/DECISION_LOG.md:628`).  `Replace` is an unconditional UPDATE of what a
  call read earlier: the slower of two calls takes the epoch back, and with it
  the device list.

These have a run of their own.  The following are what the properties of the
passing runs except; taking an exception out of its property makes TLC show the
behaviour.

* **Conversations, rollback.**  A rollback "only ever removes a row this exact call
  just inserted, before returning its ID to any caller"
  (`conversations/store.go:35`; likewise `service.go:194`).  Between the insert and
  the rollback another CreateConversation of the pair may have found the row,
  repaired its grants and returned it; the rollback then deletes it
  (`ToldMeansUsable` excepts `rolledBack`), unless a message holds on to it.
* **Files, lists that cannot be read.**  `listVersions` and `grantsForResource` fold
  a failed query into an empty list.  SetFilePermissions then reports a share, and
  DeleteFileObject a deletion, that touched no blob (excuse `misread`); the same
  happens between the record and the first version of CreateFileObject
  (`unborn`).
* **Files, stale records.**  SetFileMetadata reads the record, takes no mutex and
  writes it back whole: a deletion in between is undone in the record, the
  current version of a CreateVersion in between forgotten.  A CreateVersion that
  waited for the mutex during a deletion adds its version afterwards (`late`).
* **Files, half a deletion.**  When one of several blobs cannot be erased,
  DeleteFileObject reports the error; its retry meets the blobs that are erased
  already, which DeleteBlob answers with an error, and can never finish
  (`cutShort`).
* **Files, the record without its event.**  "metadata updated but audit emit failed"
  (`fileobjects/service.go:698`) is returned before the record is written.
* **Identity, a publication repeated.**  A prekey published again is to be "an
  idempotent no-op", for the sake of "a client's
  safe retry-after-uncertain-network-response"
  (`identity/postgres_prekey_store.go:85`; its test,
  `postgres_prekey_store_test.go:119`, claims nothing in between).  The claim
  deletes the row, and with it what `ON CONFLICT` would meet: a publication that is
  repeated after a claim puts the prekey back and counts it as new, and a second
  fetch is given what the first one has, which "server-side atomic
  single-issuance" (`docs/capabilities/identity.charter.md:58`) is to exclude
  (`reinserted`).  The client of this repository does not repeat a publication, it
  generates another bundle
  (`apps/mobile/src/features/conversations/prekeyLifecycle.ts:55`); hence
  `Messaging` has no such step, and `PrekeysKept` no exception.
* **Messages, a list cut short.**  `listMessages` answers a failed query with an
  empty page and `hasMore` false (`conversations/postgres_store.go:184`), and the
  client's walk ends there.  If there are more new messages than the pages before
  it hold, the newest are tried without the older ones: they cannot be decrypted,
  and stay so, because each message is attempted once.  The same happens if a
  message's insert commits after that of a later one of its sender's.  (`spoiled`,
  by `Skips`.)
* **Messages, one attempt each.**  A message is to be decrypted "EXACTLY ONCE, ever,
  on this device" (`history.ts:16`).  Two syncs of a thread that overlap, or a sync
  and a send, both have a message in hand; decryption works for one of them, and
  the one whose row is stored first is the one that is kept.  A restart after the chain has
  advanced and before the row is stored loses the plaintext.  (`spoiled`.)
* **Messages, failures taken for absence.**  `loadHistory` and `loadSessionMap`
  take a failed read for an empty one, which the next write makes true (a sync
  that fails to read what it knows only tries everything again, since rows that
  are stored win); a device that fails to read its own prekey identity publishes
  another bundle; a failed `resolveIdentity` makes a session's first message, and
  with it all that follow, undecryptable for good.
* **Messages, lost deliveries.**  `encryptMessage` has advanced the chain when the
  delivery fails.  Ciphertexts have no numbers, so the receiver never opens a
  later one (the condition `ChainsInOrder`).
* **Messages, a second session.**  A thread opened without its conversation id
  establishes a new session on every first send; a receiver that has a session
  cached ignores the payload and cannot open it (the condition `OneSession`).
* **Messages, keys without a one-time prekey.**  If the pool is empty, a handshake
  has only long-lived keys.  Two overlapping syncs of the responder then complete
  it twice and register two sessions with equal chains: sends on either use the
  same message keys, which the locks of `keyRegistry.ts:169` are there to
  prevent within one session.  TLC shows it with five calls, one handshake and an
  empty pool.  `NoKeyReuse` allows it, and requires that the device holds two
  handles of the secret.

## 4. Proofs

`tlapm <module>Proofs.tla` checks them (`MessagingProofs` takes about a quarter of
an hour, the others some minutes at most).  Each holds for all values of the
constants that meet the assumption named: any number of identities, devices,
nonces, calls, policies, connections and prekeys.

| Module | Assumption | Theorems |
|---|---|---|
| `SessionAuthProofs` | `NoneAssumption` | `TypeCorrect`, `RevocationIsComplete`, `RemovalIsFinal`, `NoncesAreSpent`, `ReportsAreAudited`, `OwnersRevoke`, `ImplementsLedger` |
| `SessionAnomalyProofs` | `AnomalyAssumption` | `TypeCorrect`, `SignalsAreEarned`, `BurstsAreNoticed` |
| `IdentityProofs` | `IdentityAssumption` | `IdentityTypeCorrect`, `EditsAddUp`, `ProofsAreSpent`, `SingleIssuance`, `NoPrekeyLost` |
| `StorageProofs` | `StorageAssumption` | `StorageTypeCorrect`, `LockIsHeld`, `DeletedAtMostOnce`, `TombstonesAreFinal`, `BytesAreKept`, `OneCopyWhereRecorded`, `TombstonesAreTrue`, `RollbackIsComplete` |
| `ConnectionPoolProofs` | `PoolAssumption` | `PoolTypeCorrect`, `PoolKeepsItsConnections`, `BlobLockIsExclusive`, `LogIsOneChain`, `AlterationsShow`, `JamsAreLockHolders`, `FewBlobsNeverJam` (`Cardinality(Blobs) < MaxConns`) |
| `ConversationsProofs` | `GrantsAssumption`, `PermissionsAssumption`, `ConversationsAssumption` | `TypeCorrect`, `ParticipantsConfer`, `RightsRevoke`, `ToldIsEnough`, `PagingIsComplete` |
| `FileObjectsProofs` | `GrantsAssumption`, `FileObjectsAssumption` | `TypeCorrect`, `OwnersKeepTheirBlobs`, `DeletionErases`, `AccessFollows` |
| `MessagingProofs` | `MessagingAssumption`, `TaskAssumption` | `TypeCorrect`, `OfferedCanBeCompleted`, `KeysUsedOnce`, `ReadableStays` |

The assumptions say that the markers (`None`, `First`) are not values of the
sets they mark absence in (a call under way, in `Messaging`, is not `None`), that sets which are counted are finite, that the
pool has a connection, that a pair is of two subjects and a page of at least one
message, that file ids and blob refs are different resources, and that the bounds
are numbers.

The safety properties are not inductive as they stand; the arguments rest on:

* `RevocationInv` (`SessionAuth`).  A revocation speaks of logins that *began*
  before it, the commit compares a *generation*.  The invariant ties the two: a
  session's login observed the device's current generation, and a login that a
  sweep overtook observed an older one.
* `NonceInv` (`SessionAuth`).  The nonce that let a login through is closed in
  Redis and was given out for that login's device, hence no second login passes
  `consumeIfValid` with it.
* `Phase` (`SessionAuth` to `SessionLedger`).  A login under way is *pending*
  while the generation it observed is the device's, *ended* once a sweep has moved
  the generation, and *live* when committed.  The sweep is the one step that
  changes many phases at once, and is the ledger's SignOutDevice; each other step
  changes one phase or none.
* `BurstInv`, `SignalInv` (`SessionAnomaly`).  The open window counts a final
  stretch of the failures (`WindowInv`); what came before that stretch has paid
  for the signals, the threshold for each.  A burst without a signal lies in the
  open window and at most one before it, and either holds less than the
  threshold.  `GoneByInv` keeps this for stretches of time that are over.
* `EditInv` (`Identity`).  A decided edit's copy is the current record, or an
  epoch has passed since; in the second case its write is the overwriting the
  properties exclude.
* `PrekeyInv` (`Identity`).  What is in a pool was published by that device, and
  no fetch has claimed it unless it was put back.  The statement that claims is
  atomic, so claims keep this, and a publication notes what it puts back.
* `DeletionInv` (`Storage`).  A call that holds the blob's lock has in its local
  copy what the record still says, so what it decides on is not stale.  With
  the exclusion of the lock, a second deleter reads the tombstone.
* `DataInv` (`Storage`).  Three parts per blob, for the time it is being stored,
  is stored, and is gone, and one per call that holds its lock (`HolderInv`), which
  says at each step of a move or a deletion where copies may be: a move writes
  the new copy before the record and drops the old one after it, so the policy in
  the record always names a copy.
* `LocksInv` (`ConnectionPool`).  The append lock is held from the reading of
  the tail to the commit, hence the tail an emitter read is the tail still.
  Connections are counted over the holders with the facts on cardinalities of
  the library.  A call appends one event, so an event has one predecessor and
  one successor; the first place where a sequence that VerifyIntegrity accepts
  differed from the log would name another predecessor (`OnlyHistoryVerifies`).
* `Jammed` (`ConnectionPool`): somebody has not returned and nobody can go on
  without waiting for another call.  Then nobody is inside a query or holds the
  append lock, so every connection in use is the one of a lock holder
  (`JamCounts`), and the holders are of different blobs: with fewer blobs than
  connections that is impossible.  It says of every instance why `pool` holds and
  `pool_blobs` does not, without replacing the liveness property: that somebody
  can go on does not say that everybody returns.
* `OwnerInv`, `GrantingInv`, `RevokingInv` (`Conversations`).  A grant to a
  conversation without an owner can only be asked for by a handler of one of its
  participants, since nobody else has the id; so the exempt first grant makes a
  participant the owner, and from then on every decision is by owner or by a
  grant.  What a call was *allowed* stays true of what was conferred, although the
  grant it was allowed by may be gone when it writes.
* `AccessInv` (`Conversations`).  A handler that goes on to the second participant
  has the first one's access secured, or knows it missing; revocations and
  rollbacks are what takes it back, and what the property excepts.
* `SequenceInv`, `WalkingInv` (`Conversations`).  A sequence number belongs to one
  message or one insert under way.  A walk has fetched everything it owes from
  its oldest message upwards; an insert that commits late is not owed.
* `HandlerInv`, `OwnedInv`, `OwningInv` (`FileObjects`).  A file without a record
  is of one handler alone, which names its owner; a blob that is not in any list
  yet is owned by the owner of the file it is made for; a record read earlier,
  however stale, has the same owner.  So putting it back whole, or adding the
  blob later, changes no owner.
* `BuriedInv`, `BuryingInv` (`FileObjects`).  Whoever puts a record that is marked
  deleted either made the mark itself, and then has erased all versions it listed,
  or read it from a file that was buried before.  The list stays complete while the
  deletion has the mutex, because only a create adds versions without it, and one
  whose file has been listed before its first version leaves the excuse `unborn`.
* `AccessInv` (`FileObjects`).  Readers of a file and holders of each of its blobs
  are the same people, except where a handler is about to make them so: `Mending`
  names it, and it either has the mutex and the blob on its list, or has met an
  error and will leave an excuse (`SyncInv`).  A handler without the mutex could
  spoil this in two ways only.  Until a create has put its record the file is its
  own alone (`AloneInv`, `FreshInv`); from then until its first version is added,
  somebody let in is let in by a handler that will list the file too early
  (`EarlyInv`).  A version's blob carries the readers that were copied, those still
  to be copied and nobody else (`CopyInv`), which holds only because the mutex keeps
  changes of permissions out between the listing and the adding.  That no two
  files share a blob (`ApartInv`) keeps the files apart.
* `SessionsInv`, `PrekeyInv` (`Messaging`).  A published bundle's private halves are
  stored before it is offered; a claimed one-time prekey is held until the
  handshake that claimed it has consumed it under its lock.
* `RegistrationInv`, `ChainInv` (`Messaging`).  A handshake that used a one-time
  prekey registers one handle per device, as the prekey is consumed once.  The
  call that has a handle's lock read the positions both chains still have
  (`Knows`), so that writing the whole record sets neither back, and every key
  that was made lies behind them: a key made twice was made on two handles.
* `ReadInv` (`Messaging`), for `ReadableUnlessDisturbed`.  Ten of its parts hold
  whatever is disturbed: what histories and syncs are about (`FoundInv`), that
  who replaces a history does so alone and records what it drops (`HistoryInv`),
  where an own message's row is (`OwnInv`), that a session in hand is one a message
  was sent in (`HandInv`), that it is its maker's alone until remembered
  (`PrivateInv`), that the payload is in the initiator's first message
  (`FirstInv`), that a chain was opened as far as it was sent (`EndsInv`), that two
  syncs with one message in hand spoil it (`OverlapInv`), that a sync which lists a
  message and not an earlier one of its sender's that it does not know spoils it
  (`MissedInv`), and that a consumed prekey registers (`ConsumedInv`).  Three are about a message that nothing
  disturbed, in an orderly conversation: the device has one handle of the session
  and finds it (`ReachInv`); it has got to no message without its chain having
  passed it (`PassedInv`); what its chain has passed is in the history or found by
  the sync that opened it, and is a gap nowhere (`KeptInv`).  The step that matters
  is `GapsWereOpened`: a key that does not fit is one the chain is past, because it
  cannot be ahead.  Every earlier message of the sender is listed, hence known or
  found and so passed, and positions have no holes.  The proof first reduces each action to what it
  does to a few parts of the state (`Steps`), and the parts are shown inductive
  over that.

Two theorems state lock disciplines that no run repeats, because TLC finds
nothing there that the proofs do not cover: `LockIsHeld` (a handler of `Storage`
that has read the record holds the blob's lock) and `BlobLockIsExclusive` (the
advisory lock is with the one call that runs under it).  `JamsAreLockHolders` and
`FewBlobsNeverJam` are no run's properties either, `EveryCallReturns` is.  The inductive
invariants of the proofs were checked with TLC on the instances of section 3
before they were proved.

Only model-checked so far:

* the two `EveryCallReturns`: liveness under fairness is out of the prover's reach;
* the four properties that are violated.

Induction over data and recursive operators are out of the prover's reach as
well.  No module here needs them: that the positions of a chain have no holes
follows for each message from the last one before it in its chain (`Chained`),
which exists because the naturals are well-founded.

## 5. What is not modelled

* Cryptography.  A signature is a choice made by who holds the key, a token or
  a nonce is fresh, sealing is having the wrapping key, a hash is injective.
* Time, except in `SessionAnomaly`: an expired challenge or session is one that
  a look-up need not find.
* Redis and Postgres themselves: a script, a statement and a transaction are
  atomic, and READ COMMITTED holds between them.  The loss of a connection that
  carries an advisory lock is not modelled (see the hazards).
* Read-only operations that no property speaks of (GetFileMetadata,
  GetStorageLocation, ListActiveSessions), exports and views; HTTP encoding; rate
  limits; the in-memory stores, which tests use in place of Postgres.
* Grants that somebody changes by calling Permissions directly on a file or a
  blob: File Objects neither sees nor mirrors them.  `Conversations` has such
  calls.
* On the client: recovery phrases, key generation and export, which race with
  nothing, and the key-change indicator, one value nobody else reads.
* Audit's Query, Explain and export, which only read.  `ChainUnbroken` is about the
  table in the order of `seq`, which `All` returns.  An exported trail is another
  sequence: one actor's events with others between them, those of one second
  newest first (`Query` sorts by `seq DESC`, the export stably by second).
* The AI service is a stub; the wire definitions, migrations, governance scripts
  and screens keep no concurrent state.

## 6. Plan

The system's concurrent parts are modelled, and of the 40 properties that hold
all but the two liveness properties are proved.  What is left, most important
first:

1. **Audit's reading side**: who may Query and Explain, and what an exported trail
   lets its reader verify (section 5).
2. **Connections that die**: an advisory lock that outlives its holder or ends
   before it (`storage/postgres_store.go:304`), the one hazard without a property.
