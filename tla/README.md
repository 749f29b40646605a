# A specification of the artifact server

The artifact server (`src/`) stores uploaded files under short links. This
directory holds a TLA+ development of it: modules that describe what its
handlers do to the database and to the blob store, TLC configurations that
check them on small instances, and proofs, checked by TLAPS, for instances of any
size. Line numbers below are those of the files under `src/server/` unless
another directory is named.

## The system

| component | files | state | operations |
|---|---|---|---|
| file records and short links | `shortlink.go` | table `files`: slug, display name, storage key, size, modified, deleted, pending | reserve, finalize, abort, soft delete, look up by slug or name |
| tags | `tag.go`, `tag_handlers.go`, `serve_tag.go` | table `tags`: (name, suffix) -> slug | add (and move), remove, sweep, look up |
| upload handler | `upload_file.go` | locals of one request | check, reserve, Put, parse, authorise, finalize, apply, reclaim, discard |
| delete handler | `delete_file.go` | locals of one request | soft delete, then remove the blob |
| downloads | `serve_file.go`, `serve_tag.go` | locals of one request | resolve, then open the blob |
| blob storage | `storage.go`, `storage_fs.go`, `storage_s3.go` | key -> bytes | Put (capped), Get, Delete |
| database handle | `db.go` | one pooled connection, swapped on replicas | open, boot decision, schema version, swap |
| snapshot publisher | `db_publisher.go`, `db_snapshot.go` | published counter, dirty since, the published object | tick, publish, last flush |
| snapshot replica | `db_replica.go`, `db_snapshot.go` | version followed, local file, live handle | poll, download, verify, swap |
| boot and restore | `db.go`, `restore_db.go`, `main.go` | local database, published object | boot of each role, restore-db, shutdown |
| authentication | `token.go`, `session.go`, `permissions.go`, `mint.go` | secrets; claims in tokens | resolve a credential, mint, verify |
| roles | `roles.go` | role registry, group bindings | parse, resolve |
| OIDC login | `oidc.go`, `auth_handlers.go` | state cookie, provider cache | login, callback |
| configuration | `config.go`, `parse_size.go` | settings | parse sizes, durations, flags |
| HTTP plumbing | `cors.go`, `security_headers.go`, `readonly.go`, `health_check.go`, `stats.go`, `list_files.go` | none | headers, listings, reports |
| web UI | `src/web/lib` | loaded page, search, session, dialogs | load, load more, search, upload, log in, delete |

How they interact: every HTTP request runs in a goroutine of its own. It calls
the database through one pooled connection (`db.go:72`), so statements and
transactions never overlap; and it calls the blob store, where nothing serialises
anything. The publisher is a goroutine of the writer that reads sqlite's change
counter and copies the database to an object store; replicas poll that object. The
web UI only talks to the HTTP API.

What is hard about it:

* **The two stores are not updated together.** A row and its bytes are written
  and removed in separate calls, any of which may fail or be the last one before
  the process dies. Nothing at boot looks for what was left behind.
* **Decisions are made on lookups that may be out of date.** The upload handler
  asks for permissions, reserves, and retires the replaced file in separate
  transactions, minutes apart for a large body. The tag handlers look up owners
  one by one before the transaction that moves the tags.
* **Time** is recorded in whole seconds and orders files of one name.
* **Replication** must not lose the last change, replace a good copy by an empty
  database, or serve a torn download, across crashes of either side.
* **Nothing revokes a session token**, while groups, roles, keys and the
  configuration of each instance change underneath.
* **A login goes through four parties** - tabs that share a cookie and a stored token,
  the server, its cache of the provider, the provider - each of which may answer
  late, restart or refuse, and the browser starts over by itself.
* **Sizes at the limit**: a body is refused by the byte past the limit, a response
  is put together from ranges of an object that may be removed meanwhile.

What makes each component correct is stated as the properties below, and under "Not
modelled" what is left out. `PROJECT.json` lists every hazard with the
line where it bites and the property that watches it.

## Modules

| module | what it is |
|---|---|
| `Catalogue` | abstract: what the holder of a short link is promised, without requests, transactions or storage calls |
| `FileStore` | the writer: requests interleaved call by call over the database and the blob store |
| `MCFileStore` | definitions for the `.cfg` files |
| `FileStoreProofs` | the proofs about `FileStore`: its invariants and its refinement |
| `FileStoreKeepProofs` | what is kept and what is cleared away: append-only mode, tags, time stamps, leaks, stuck rows |
| `Publisher` | the writer's side of replication: database, publisher, process, volume |
| `MCPublisher` | definitions for the `.cfg` files |
| `PublisherProofs` | the proofs about `Publisher` |
| `Following` | abstract: what the reader of a replica is promised |
| `Replica` | a read-only instance; extends `Publisher`, so that both sides and the object between them run together |
| `MCReplica` | definitions for the `.cfg` files |
| `ReplicaProofs` | the proofs about `Replica`; extends `PublisherProofs` |
| `Transfer`, `TransferProofs` | the bytes of an upload through the limit into the store, and out again in ranges |
| `Session`, `MCSession`, `SessionProofs` | policies, groups, keys and tokens on several instances |
| `Login`, `LoginProofs` | signing in with several tabs, from the page to the provider and back |

`Publisher` abstracts the requests of `FileStore` to commits, `FileStore` the bytes of
`Transfer` to nothing, a part and everything, and the rights of `Session` to a set of
permissions per request; `Login` takes from `Session` only which tokens a server
accepts. `FileStore` and `Publisher` are not composed: a commit does not wait for the
publisher, and the publisher sees only that the counter has changed.

### FileStore

State and code:

| variable | code |
|---|---|
| `status` | a row's existence and its `deleted` and `pending` columns |
| `nameOf`, `modified` | the columns of those names |
| `tagOf` | table `tags` |
| `blob` | what the store holds under a slug's key: nothing, a part, everything |
| `req` | the locals of each running handler, and which call comes next |
| `clock` | the second `time.Now()` is in |
| `appendOnly` | `appendOnly`, read from the environment when the process starts |
| `faults` | failures so far; a bound, not state of the program |
| `successor` | history: which upload retired a record |
| `req[r].seen` | history: the live files of its name when the upload was asked for |

A key is a function of the slug (`storageKeyForSlug`), so keys are not modelled.
Each statement outside a transaction, and each transaction, is one action; each
storage call is one action, but `Put` is two, since the bytes of a filesystem
upload are visible while they are written. Actions:

* `UploadCheck` - the first part of `uploadFileHandler`, up to the permission to
  supersede; `UploadReserve` - `reserveUpload`, the record to replace and the
  fresh slug in one transaction; `UploadPut*` - `storage.Put`; `ReadTagOwner`,
  `UploadAuthorised`, `UploadRejected` - `uploadTagPermissions`, one owner per
  statement; `UploadFinalize*` - `finalizeUpload`, its UPDATE and the read that
  follows; `UploadApply*` - `applyUploadTags`; `UploadReclaim*` - the removal of the
  replaced blob; `UploadDiscardBlob*`, `UploadAbort*`, `UploadUntag` - `discard`.
* `DeleteFile`, `DeleteBlob*` - `deleteFileHandler`.
* `AddTagsCheck`, `ReadTagOwner`, `AddTags`, `AddTagsRefused`, `RemoveTag` - the
  tag handlers.
* `ShortLink`, `FilenameURL`, `TagDownload`, `ServeFile` - the downloads.
* `Restart` - the process dies and comes back, in append-only mode or not: rows and
  bytes stay, handlers go.
* `Tick` - a second passes.

`UploadReserve` is the draw of a slug that succeeds; that none of the bounded number of
draws does (`shortlink.go:116`) is `UploadReserveFails`, which may always happen.
`UploadPutLeaves` leaves a part or everything under the key, as the S3 backend does
(`storage_s3.go:156`); the filesystem's `Put` cleans up after itself (`UploadPutFails`)
unless that fails too.

A request that is refused before it changes anything is left out: it takes no
step. Failures that leave nothing behind (`UploadReserveFails`, a `Put` that cleans
up) may happen at any time; the others cost one of `MaxFaults`.

Definitions whose comment starts with "Mutant of" belong to no behaviour: each is a
plausible mistake in one definition, and the property named with it in
`PROJECT.json` fails when the mistake takes the definition's place.

### Catalogue

A slug goes from unused to pending to published to gone and never back; it is
published only with all its bytes stored, and they stay while it is published; a
file is superseded only by a published file of its own name. `FileStore!Promise`
is the refinement mapping: `stored` is the set of slugs with complete blobs, the
other variables map to those of the same meaning.

### Publisher

`FileStore` says what requests do to the database; `Publisher` takes each commit as
one new *version* of it and follows the versions to the snapshot store.

| variable | code |
|---|---|
| `content` | what each version holds: some rows, no row (`Empty`), or something that `verifySnapshot` refuses (`Foreign`) |
| `local` | the version in the database file, 0 without one |
| `object` | the version in the snapshot store, 0 without an object |
| `phase` | the process is down, up, or has had the signal |
| `mode` | `dbRestoreMode` |
| `changes` | sqlite's `total_changes()` of the one connection |
| `published`, `dirty` | `snapshotPublisher.published`, `dirtySince` |
| `pub` | the locals of `publish`, its next call, and who called it |
| `booted`, `due` | history: what the process started with, and which version the signal found, while the shutdown is still to publish it |

`Write` and `RollBack` are the requests: a rolled back transaction leaves its rows
in sqlite's counter. `TickNotices`, `TickPublishes` are `tick`, the first sight of a
change and a tick after the delay (its length is abstracted). `Count`, `Refuse`,
`Copy`, `Put`, `PublishFails`, `PutUnanswered` are the calls of `publish`; `Flush` and
`FlushFails` are `flush`, whose errors are logged and dropped. `Stop`, `Exit` follow the end of `main`: the listener returns at once and the
loops are stopped while requests under way go on. `Crash` and `LoseVolume` are the
environment, `BootLocal`, `BootFresh`, `BootRestore` the cases of `bootDatabase` and
`startWithoutDatabase`, `RestoreDb` the command. A boot that the code refuses has no
action, so a writer may stay down: the runs do not check for deadlock.

A boot downloads and verifies in one action, since nothing else of this
deployment runs meanwhile (`src/README.md:315`, one writer). `Configure` is the
operator who gives the next process another `ART_DB_RESTORE`.

### Following and Replica

| variable | code |
|---|---|
| all of `Publisher` | the writer and the object in the store |
| `file` | the version in the replica's database file, 0 without one |
| `handle` | the version `dbRef` reads from, 0 while the process is down |
| `current` | `snapshotReplica.current`, 0 where `activeReplica` is nil |
| `fetch` | the locals of `refresh` or `bootDatabase`: the next call, what `headSnapshot` described, what the HEAD of `downloadSnapshot` described |
| `public`, `shown` | history: the versions ever published, the last one served |

`PollNotices` is the HEAD of `refresh` and `PollDescribes` that of `downloadSnapshot`;
`PollDownloads` and `PollRefused` are its GET with the size check, `verifySnapshot` and
the rename; `PollOpens` is `openSQLite`, `replaceDatabase` and the assignment of
`current`; `PollFails` any error, which leaves the handle alone though the new file may
be in place. `Boot*` are the read-only cases of `bootDatabase`, with
(`BootWithFile`) and without a file; `Kill` ends the process at any point, `Redeploy`
takes its file too. The writer may put another object between any two of these
calls. An object that replaced the described one passes the size check or not,
whichever the sizes are. `SameSnapshot` compares contents, since the entity tag is
derived from the bytes.

`Following` says what a reader may rely on: the answer is a published state this build
can read, and never an older one than before. The mapping `Promise` takes the verified
part of `public` for the readable states, and `handle` and `shown` as they are.

### Transfer

A byte is its position in the body, so an object under a key is its length and a
response is a sequence of positions. Keys are not reused, so an object is only ever
removed.

| variable | code |
|---|---|
| `kind`, `limit`, `total` | `ART_STORAGE`, `maxContentLength`, the bytes the client sends |
| `up` | `Put` under way: its next call, the bytes copied, `capReader.remaining` |
| `blob` | the length stored under the key, or `Absent` |
| `outcome` | what `Put` returned |
| `rd` | a response and its `s3ReadSeeker`: size, position, the position the open body is at, the range asked for |
| `got` | history: the bytes sent |

`Receive`, `End`, `Overflow` are reads through `capReader`, of any length up to what is
left, with the end of the body together with its last bytes or on its own; `Break` is a
read, write or request that fails; `Take` the store's answer; `RefuseLarge`, `Fail`,
`Accept` the three ends of `Put`, of which only the filesystem's removes what a failure
left (`storage_fs.go`, `storage_s3.go:156`). `Open`, `Sniff*`, `Answer`, `Send*` are
`serveFileRecord`: the content type guessed from the first bytes and the reader wound
back, the seeks of `http.ServeContent`, and `io.CopyN`. `SeekTo`, `Reads` and `After` are
`Seek` and `Read`. `CapLeft` wraps like int64. The filesystem's download is an open
file, read by the standard library, and has no actions.

A response answers one range: `multipart/byteranges` seeks and copies range after range
in the same way. When the S3 body ends early, `SendFails` goes straight to a response
that is cut; that the code notices (`storage_s3.go:232`) is taken from the source, not
checked.

### Session

| variable | code |
|---|---|
| `conf` | the environment an instance runs with (`ART_SESSION_SECRET`, OIDC on or off, `ART_ROLES`, `ART_OIDC_GROUPS`), or `Down` |
| `member` | the groups the provider reports |
| `now` | the clock, the same for all |
| `tokens` | every token minted, wherever it is kept; no server keeps any |
| `entitled` | history: when each user last could have logged in to each permission |

`RegistryOf`, `BindingsOf`, `Resolve` are `parseRoles`, `parseGroupRoles` and
`resolvePermissions` with their defaults; `Starts` the checks that end a start;
`Minted`, `Verified`, `Allowed` are `mintSessionToken`, `verifySessionToken` and
`requirePermission`. `Login` is `oidcCallbackHandler` from the provider's answer on,
`MintCommand` the `token` command, `Boot`, `Stop`, `Regroup`, `Tick` the environment.
Signatures are ideal. A tick is longer than a callback. All instances have one
`ART_SESSION_TTL`, which does not change when they are restarted. The static token is a
comparison with the configuration and left out.

### Login

| variable | code |
|---|---|
| `tab` | each tab: where it is, the client's token, whether it knows the configuration, the mark in `sessionStorage`, the login of its address, what the callback answers |
| `stored`, `cookie` | `localStorage`'s token, `art_oidc_state`: shared by the tabs |
| `good`, `fresh` | which tokens and which state cookies the server accepts (key and time) |
| `begun`, `exchanged` | logins begun, codes the provider has exchanged |
| `up`, `discovery` | the provider, and `getOIDCProvider`'s cache of it |
| `asked`, `crossed`, `outage` | history: what users have asked for; logins that met another one, a reload, a new key or their ten minutes; whether the provider was down within the last retry interval |

`Open`, `Refresh`, `LogIn`, `LogOut`, `Reload` are the user; `ConfigOK`, `ConfigRefused`,
`ConfigFails` the answers to `_load`'s request for the configuration, with
`_canRenewWithProvider` and the renewal mark; `LoginRefused`, `LoginBegins` are
`oidcLoginHandler`; `ProviderAnswers`, `ProviderLost` the provider, which is external;
`CallbackRefused`, `CallbackFails`, `CallbackExchanges` are `oidcCallbackHandler`: refused for
its state, failed before the provider takes the code, and after, where an ID token that
is missing, does not verify or has another nonce (`auth_handlers.go:202-220`) costs the code and yields no
session; and `Return` is its answer, which clears the cookie whichever login that
belongs to by then. The cookie's two refusals, `state_invalid` and `state_expired`, are one
result, since the page treats them alike, and a callback without a code is a provider error;
the 500s of `oidcLoginHandler` and a session that cannot be minted, which take a failing
source of randomness or key, are left out. `Discover` is `getOIDCProvider`: a success is
kept, a failure for the retry interval.

## What the runs check

| run | instance | properties |
|---|---|---|
| `concurrent` | 2 requests, 2 names, 3 slugs, 1 tag, 1 failure or restart, append-only mode on or off | `TypeOK`, `LiveIsWhole`, `DownloadIsWhole`, `TagsOnPublished`, `UnprivilegedKeepsFiles`, `HandlerState`, `BlobsAccounted`, `PendingAccounted`, `TagsGoWithFiles`, `AppendOnlyKeepsFiles`, and that `FileStore` implements `Catalogue` |
| `fair` | 2 requests, 1 name, 2 slugs, 2 seconds, no failure, fairness | `Answered`, `Reclaimed`, `OutranksEarlier` |
| `race_names` | 2 requests, 1 name, 3 slugs, no failure | `OneLivePerName` fails |
| `race_tags` | 2 requests, 1 name, 2 slugs, 1 tag, no failure | `TagsOnLive` fails |
| `race_permissions` | 2 requests, 1 name, 3 slugs, 1 tag, no failure | `PermissionsPerEffect` fails |
| `publisher_writer` | 4 versions, 2 databases with rows, 2 failures, every `ART_DB_RESTORE`, fairness | `PublisherTypeOK`, `CleanIsPublished`, `SignalledIsPublished`, `SnapshotMovesForward`, `GoodCopyKept`, `WritesArePublished` |
| `publisher_lag` | 3 versions, 1 failure, fairness | `PublisherConverges` fails |
| `replica_follow` | 3 versions that may recur, 1 failure, restarts and redeployments of both sides, fairness | `ReplicaTypeOK`, `CatchesUp`, and that `Replica` implements `Following` |
| `replica_restart` | 2 versions, no failure, fairness | `LagIsBounded` fails |
| `transfer_bytes` | both backends, every limit up to an int64 of 7, bodies of up to 6 bytes, reads of up to 3, 2 failures | `TransferTypeOK`, `StoredIsWhole`, `RefusedIsLarge`, `WholeIsRange` |
| `session_rights` | 2 instances, 1 user, 1 group, 2 keys, 6 environments, sessions of 2 ticks, 1 token | `SessionTypeOK`, `RightsAreRecent` |
| `login_browser` | 2 tabs, an old token of the `token` command, 4 requests of the user, fairness | `LoginTypeOK`, `LoginsAreAsked`, `FailsForCause`, `Settles` |

What the less obvious ones show:

* `BlobsAccounted`, `PendingAccounted`: bytes that belong to no live file and to no request
  that will deal with them, and pending rows nobody will finish, come from failures and
  crashes only, and from each of these at most one for every request that may be under
  way. Nothing removes them later, so the bound is also what an operator may find.
* `TagsGoWithFiles`: whatever takes a file away takes its tags along in the same step; a
  tag on a file that is gone was put there later, by a request that had seen the file live
  or had published it.
* `OutranksEarlier`: however uploads overlap, none goes live with an earlier stamp than a
  file of its name that was there when it was asked for.
* `SignalledIsPublished`: what the database held when the signal came is in the store
  when the process has ended by itself, unless the last publish failed - also when the
  signal cut another publish off half way.
* `CatchesUp`: the version a replica records is that of an earlier HEAD than the
  download's (`db_replica.go:83`); it still comes to serve every state it could have
  found, or a later one, unless what is published is again what it was by the time of
  the state served.
* `RefusedIsLarge`: a body of exactly the limit passes, whichever read crosses it and
  however the end of the body is reported.
* `RightsAreRecent`: whoever a session token lets through could have logged in to the
  same permission within the last `ART_SESSION_TTL`, whatever policies, keys, groups and
  restarts came between.
* `LoginsAreAsked`: tabs that renew by themselves never begin more logins than their
  user has asked for things, even at a server that refuses every token it issues.
* `FailsForCause`: a user is told of a mismatch, a time-out or an unreachable provider
  only when there was one.

The rows that fail are disagreements between the code and its own documentation:

* **`race_names`** - "at most one, unless append-only" (`shortlink.go:158`): two
  overlapping uploads of a name both reserve with nothing to replace, and both stay
  live after both have answered.
* **`race_tags`** - "Tags only ever describe live files" (`shortlink.go:353`): an upload
  is published by one transaction and tagged by another, which does not look whether the
  file is still live (`tag.go:324`); a file deleted in between is left with the tags.
  `addFileTagsHandler` has the same gap after its own check (`tag_handlers.go:146`).
  `TagsGoWithFiles` and `TagsOnPublished` are what remains true.
* **`race_permissions`** - "Permissions are checked per effect ... replacing an existing
  name needs `file:delete`" (`src/README.md:579`): the permission is asked for on one
  lookup (`upload_file.go:119`) and the replaced record found by another, in
  `reserveUpload`; a file of the name published in between is taken away by a caller who
  may not. The rule's other half, `tag:remove` for a tag that belongs to another file,
  fails the same way, by a longer trace: owners are looked up one by one and the tags
  moved later (`tag_handlers.go:161-163`). `UnprivilegedKeepsFiles` is what remains true of
  the first half: a file that was there when the upload was asked for is safe.
* **`publisher_lag`** - "Replication lag is up to ART_DB_BACKUP_DELAY +
  ART_DB_POLL_INTERVAL" (`src/README.md:309`): a writer that died before it
  published starts with a new baseline (`db_publisher.go:45`) and publishes nothing
  until something else changes. `WritesArePublished` is what remains true: what a
  process commits is published while it runs.
* **`replica_restart`** - "Every ART_DB_POLL_INTERVAL ... it asks whether the object
  changed" (`src/README.md:160-161`): a replica restarted with its file still there
  serves it and leaves `activeReplica` nil (`db.go:108`), so no loop is started
  (`db_snapshot.go:318`) and it never asks again. `CatchesUp` and `Following` are what
  remains true.

Others of the same kind are in the models without a run of their own:

* `modified` has whole seconds and `latestLiveRecordByName` no tie-break
  (`shortlink.go:189`), and two overlapping uploads may be published in the other order, so
  `/f/{filename}` may resolve to the first of two uploads, against `src/README.md:609`.
  `OutranksEarlier` is what holds.
* `ListenAndServe` returns when `Shutdown` begins, so the last publish may be over before
  the last request commits (`main.go:265-273`), and the next process takes its database
  for published. `SignalledIsPublished` therefore speaks of what the signal found.
* A PUT that fails after the store has taken the object returns without removing it
  (`storage_s3.go:156`); a limit of the largest int64 wraps and refuses every upload
  (`storage.go:94`).
* A refusal that reaches one tab late removes the stored token another tab has just
  obtained (`app.dart:187`).
* A replica records the description its HEAD returned for the object its GET
  returned (`db_replica.go:83`, and `bootDatabase` likewise). When the writer publishes
  another snapshot between the two, and later one equal to the first - a tag added
  between two calls and removed again is enough - the replica takes it for the one it
  serves and stays behind until something else changes. The last alternative of
  `CatchesUp` is exactly this case; without it, `replica_follow` finds it at a boot.

### Bounds

* *Two requests*: each hazard of the code is a conflict of two handlers. The
  safety properties of `concurrent` are proved for any number.
* *Three slugs*: one replaced, one replacing, one in flight. Slugs are never
  freed, so a behaviour ends up with every slug used; further uploads then answer
  500, which is also what the code does when it cannot find a slug
  (`shortlink.go:146`).
* *One failure* (`MaxFaults`): every action that may fail can be the one, and so
  can a restart between any two calls.
* *Time* (`MaxTime`): two seconds give equal and different stamps, in `fair`; no other
  run has a property about stamps, and there the clock stands still.
* *Append-only mode*: every run starts with it on and off, and a restart may change it
  (`concurrent`, which allows one).
* *Permissions* (`MCPermSets`): a caller who may upload and tag, and one who may do
  everything. One with no permission beyond `file:create` does no more than the first
  without tags.
* *Versions* (`MaxVersions`): four give a published database, a copy under way, a
  commit during the copy and one after it; the safety properties are proved for
  any number. `Recurs` lets the database come to hold again what it once held. Beside a
  replica three are enough for one served, one described and one downloaded, all
  different; `replica_restart` needs two.
* *Failures of the publisher*: two, so that a retry can fail or meet a crash. A
  request to the store cut off by the signal is not counted.
* *Sizes of `Transfer`*: bodies below, at and beyond the limit, several reads each, and
  the largest integer, where the cap wraps. Ranges start at every position. Two
  failures let the content type's read fail and then the response. Every size is
  covered by the proofs.
* *Session*: one token (`MaxTokens`), since tokens are independent of each other; one
  that lives two ticks can be used fresh, late and expired within the horizon. The
  environments are an upgrade without a word about groups, groups bound to roles, the
  same narrowed after a key rotation, a registry with a misspelt permission, one with a
  single narrow role, and OIDC off. The proofs cover any environments.
* *Login*: two tabs have every conflict over the cookie and the stored token.
  `MaxLogins` is above `MaxAsked`, so that the bound on logins never stops what
  `LoginsAreAsked` forbids. The token stored before is one of the `token` command,
  which takes both ways through `_canRenewWithProvider`; the proof covers the others.
* Requests, slugs and names are interchangeable, so the safety runs of `FileStore` use
  symmetry. The runs with liveness do not.

### Fairness

`FairSpec` asks for weak fairness of each request's `Step`: a handler that can
make its next call does. `net/http` gives each request a goroutine, the
connection pool serves waiting callers in order, and the storage and database
calls return or fail. New requests, restarts, failures and the clock are owed
nothing.

`FairPublisherSpec` asks for weak fairness of `Publish`: the publisher is one
goroutine with a ticker, and while the process lives each of its calls returns or
fails. Commits, failures, signals and boots are owed nothing.

`FairReplicaSpec` asks for weak fairness of `Poll`: the refresh loop is one goroutine with a
timer, whose calls return or fail. The writer, boots and restarts are owed nothing.

`LoginSpec` asks for weak fairness of each tab's `TabStep`: a request is answered, and
the page acts on the answer. A user may stop anywhere; a provider that is down may
stay down.

## What is proved

`FileStoreProofs` proves, for every number of requests, slugs, names and tags, every
set of permissions, both settings of append-only mode, which a restart may change, and any
number of failures:

* `TypeCorrect` - `TypeOK`;
* `LiveFilesAreWhole`, `DownloadsAreWhole`, `TagsPointAtPublishedFiles`,
  `UnprivilegedUploadsKeepFiles`, `HandlersKeepTheirState` - the invariants of the
  `concurrent` run;
* `ImplementsCatalogue` - every step is a step of `Catalogue` or changes none of
  its variables.

The only assumption is `FileStoreAssumption`, on the constants: `None` is neither a
slug nor a name, the bounds are naturals, the permissions are permissions, and there are
finitely many handlers (a process runs finitely many goroutines; only the counting below
uses it).

The inductive invariant `Inv` is the conjunction of these invariants. None of them
is inductive without `HandlerState`: that a live file is complete depends on the
upload that publishes it having written every byte *and* on no other handler being
about to remove or overwrite bytes under that slug. `HandlerState` says so from each
handler's point of view: a pending row belongs to one upload, a record once
published only ever becomes deleted, a blob is about to be removed only under a
deleted record or the handler's own pending one. It rests on slugs never being
reused (`RowsOneWay`). The proof that it is preserved goes action by action
(`HandlerStep`); the other invariants follow from it with a few lines each
(`LiveIsWholeStep`, `DownloadIsWholeStep`, `TagsOnPublishedStep`,
`UnprivilegedStep`). The refinement splits each step into one that writes to the
database or one that writes to the blob store (`OneStoreAtATime`).

`FileStoreKeepProofs` proves, from the same assumption and for any interleaving:

* `LeaksAreCounted`, `StuckRowsAreCounted` - `BlobsAccounted` and `PendingAccounted`;
* `AtRestStoresAgree` - until something fails, whenever no request is under way, exactly
  the live files have bytes, all of them, and no row is pending (`StoresAgree`);
* `AppendOnlyLosesNothing` - `AppendOnlyKeepsFiles`;
* `TagsLeaveWithTheirFile` - `TagsGoWithFiles`;
* `UploadsOutrankEarlierFiles` - `OutranksEarlier`.

The two counts are one induction (`AccountInv`). A step of a request that fails nothing
hands every slug it stops working on to a later step of its own or clears it, so the sets
`Leaked` and `Stuck` do not grow (`NewlyAccounted`, `NewlyPending`); one that fails leaves
its own slug at most; a restart leaves what was under way, one slug for each request
(`LeftBehind`), which is where the handlers have to be finitely many. `AtRestStoresAgree`
follows with `Inv`. Append-only mode needs an invariant of its own, since the decision to
retire nothing is made at the reservation and acted upon at the end: no upload holds a
record to supersede while the mode is on (`NothingSuperseded`), and the mode changes only
when no handler survives.

`TagsLeaveWithTheirFile` needs no more than `Inv`: two transactions retire a file, the one
that supersedes and the one that deletes, and each removes its tags (`RetiredUntagged`);
`WhoTags` finds the request behind a tag that has moved. `UploadsOutrankEarlierFiles` needs
`StampInv`: no stamp is ahead of the clock, so that the files an upload found are stamped no
later than its last check (`AboutToStamp`), and from then on they keep their stamps
(`PublishedStamps`) while its own is still to be taken from the clock (`WhatStamps`).

`PublisherProofs` proves, for any databases, any number of commits and failures, and
every setting of `ART_DB_RESTORE`, from `PublisherAssumption` (the two special
contents are no ordinary ones, the bounds are naturals):

* `PublisherTypeCorrect` - `PublisherTypeOK`;
* `CleanMeansPublished` - `CleanIsPublished`;
* `PublishedMovesForward` - `SnapshotMovesForward`;
* `PublishedKeepsRows` - `GoodCopyKept`;
* `LastPublishKeepsItsPromise` - `SignalledIsPublished`.

Their inductive invariant `PublisherInv` adds to the properties what relates the
publish under way to the rest: the copy is never behind the object nor ahead of the
database (`InOrder`), the counter it read first is above the published one and,
while nothing has been committed since, the copy is the database (`Counted`), and
what the guard has passed still has rows when it is copied (`Guarded`), and what the
signal found is never ahead of the database, and in the store or in the hands of the
last publish once that has begun (`Signalled`). It is proved
one conjunct at a time (`NumbersStep` to `DownStep`), by the actions that may
disturb it.

`ReplicaProofs` proves, from `PublisherAssumption` and whatever both processes do:

* `ReplicaTypeCorrect` - `ReplicaTypeOK`;
* `ReplicaImplementsFollowing` - every step of the two is a step of `Following` or
  changes none of its variables.

Its invariant `ReplicaInv` is `PublisherInv` with three parts: what has been published is
up to the object and contains it (`PublicOK`); the file and what readers saw last are
verified, published states, the file the later of the two (`Fetched`); the handle reads
what was shown last (`Handled`). That readers never go back rests on the writer's own
`InOrder`: the object only moves forward, so a GET never returns less than the file.

`TransferProofs` proves, for every limit, size of body, chunk and number of failures,
from `TransferAssumption` (a body is smaller than the largest integer):

* `TransferTypeCorrect` - `TransferTypeOK`;
* `StoredUploadsAreWhole` - `StoredIsWhole`; `OnlyLargeUploadsAreRefused` - `RefusedIsLarge`;
* `ResponsesAreTheirRange` - `WholeIsRange`.

`UploadInv` counts: what is left of the cap and what has been copied make the limit
and one (`Capped`), and the store follows the copy (`Followed`). `DownloadInv` says that
an open body stands at the reader's position (`Positioned`) and that what was sent is
the range up to there (`Sent`); `BytesExtend` is its lemma on sequences.

`SessionProofs` proves `SessionTypeCorrect` (`SessionTypeOK`) and
`RightsOutliveTheirGrantBriefly` (`RightsAreRecent`) for any instances, users, groups, keys,
environments and lifetimes, from `SessionAssumption` (the environments are environments,
the bounds are naturals). A token carries its expiry and no memory of what granted
it; `Backed` ties the two together, and needs `Recorded`, that the history is up to date.

`LoginProofs` proves `LoginTypeCorrect` (`LoginTypeOK`) `TabsDoNotBounce`
(`LoginsAreAsked`) and `FailuresHaveCauses` (`FailsForCause`) for any finite set of tabs,
from `LoginAssumption`. The second is an argument by
counting: a tab owes a login when it is on its way to one, or when the answer it waits
for may still send it there. `Budget` says that the logins begun and the tabs that owe
one are together no more than what users asked for; `Marked`, that a tab returning
from the provider still carries its mark, is why it is not counted twice. The third is
about what is kept (`CauseInv`): two tabs are never in the same login (`LoginsApart`), a login
that has met no other still finds its own cookie, accepted, when it returns
(`CookieKept`), and a discovery that is remembered as failed failed during an outage
that is not over for longer than the retry interval (`OutageKnown`).

Only model-checked: `Answered`, `Reclaimed`, `WritesArePublished`, `CatchesUp` and
`Settles`, since liveness under fairness is out of the prover's reach, and the five runs
that expect a violation. Every other property of a run is stated by a theorem.

## Not modelled

* **Listings and the portal's list** (`list_files.go`, `stats.go`, `app.dart`'s loads,
  searches and pages). The server side only reads. In the portal a late answer may
  overwrite a newer one and a page may repeat a file; the code has no guard against
  either and nothing promises otherwise, so there is no property to hold it to.
* **`parseTag`, `parseSize`, `parseDuration`** and the JSON of roles and groups: arithmetic
  and splitting of strings, where a model would only repeat the code. What the result
  means is modelled (`Session`, `FileStore`).
* **`restore-db -force`** over a database with a write-ahead log: the outcome is decided
  by what SQLite does with a log of another database, which is not in `src/`.
* **The minute** after which a replaced handle is closed (`db.go:266`): it is longer than any
  query by choice, and without real time a model could only assume so.
* **The static token and the portal's form for it**: one comparison with the
  configuration. `rejectWhenReadOnly` is one comparison too; `Replica` has no writes.
* **`serveFileRecord` on the filesystem backend**: the open file stays readable after its
  removal, and the ranges are the standard library's.
* Rendering, headers, wording of errors, the multipart and JSON formats, TLS and the
  S3 protocol itself.

What could be added: proofs that `Catalogue` and `Following` keep the promises a reader draws
from them (no link comes back, a published byte stays), carried to `FileStore` and
`Replica` by their refinements; and an account of how far a replica may lag as
a safety property.
