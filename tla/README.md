# RisuNest: models, checks and proofs of its synchronisation

RisuNest is a chat application (Tauri, Rust and TypeScript) whose library — characters,
conversations, personas, presets, assets, plugin storage — can be kept on several devices.
The parts of the program modelled here are the two that keep those libraries equal:
**RisuNest Sync**, a server (`server/sync`), the wire types it shares with its clients
(`crates/sync-wire`) and the client in the application (`src-tauri/src/server_sync` with
`src-tauri/src/persistent_store`); and **external storage** (`src-tauri/src/external_storage`), the
same library kept on a cloud drive that runs no code, where the devices themselves append, compact
and delete, and keep out of each other's way by leases.

## The system

A library is a set of *units*. A unit has a key (`["messages", character, conversation]`, ...),
a value (inline, an object, or the tombstone) and a *stamp*: a hybrid logical clock reading and
the name of the writer that issued it. The version with the greater stamp wins. An *existence*
unit (`["exists", "character", id]`) is the parent of the units of that character; its deletion
is a *retirement*: it wins whatever its stamp, it is for ever, and it takes the descendants with
it.

With a server, a device **pushes** a request: changed units under an operation id. The server answers once per
operation (a receipt), numbers the winners and keeps for every unit the row of its last change in
a **journal**. Devices **read changes** after their cursor and **acknowledge** how far they came.
A device without a usable cursor **pins** a copy of the library, pages through it, and then reads
the journal from where the pin starts. **Maintenance** runs every 15 minutes and forgets journal
rows, receipts, recorded versions, pins and registrations nobody needs. A server restored from a
backup starts a new **epoch** in which every device registers anew.

On an external storage a device appends its changes as numbered **segments**. Large bodies are
objects of their own, which a later segment may name again for some days without sending them. Any
device merges segments into a **checkpoint** (compaction), and a **clean-up** deletes what no kept
checkpoint or segment has named for a week. A job that touches the repository holds a **lease**: an
object with an expiry, written to the storage and renewed. Before it works, a job lists all leases
and yields to any that excludes its own; a clean-up puts up a second lease, its marker, before it
deletes.

### Inventory

| component | state | operations | interacts with | hard behaviour | correct when |
|---|---|---|---|---|---|
| Server library store (`store/lww.rs`) | units, retired, parent links, journal, receipts, writers, recorded versions, pins | push, push to an empty library, cancel, changes, pin, page, release, acknowledge | every client; maintenance and the object store over one database | two devices and maintenance in any order; a late push against its cancellation; retirements against late or same-push children; level switch | units are the join of what was accepted; journal mirrors them; an answer is final |
| Maintenance (`store/maintenance.rs`) | floor of the journal, all tables | maintain, reconcile orphans, drain trash, rotate epoch | every table, the object files | runs between any two requests, crash between file and row | forgets nothing a recent cursor, pin, receipt or object needs |
| Registrations (`store/mod.rs`, `registration_claims.rs`) | devices, writers, claims | add, revoke, forget, bind writer, claim as new device | authorisation of every request | revocation between two requests; repeated claims; one writer per device | a writer belongs to one device and a device to one writer |
| Object store (`objects.rs`, `descriptors*.rs`, `retention.rs`) | rows, files, leases, custody, trash | put, open, lease, pin, retain, release, collect | push (references), uploads, maintenance | crash between rename and commit; collection while a file is opened | what a unit, pin, lease or upload names is there |
| Uploads and transfers (`uploads.rs`, `upload_jobs.rs`, `transfers.rs`, `stream_transfers.rs`) | uploads, chunks, jobs, deltas | begin, put chunk, finalise, delta | object store, maintenance | finalisation after restart, expiry during finalisation | a finished upload is an object, an abandoned one leaves nothing |
| Backup (`backup.rs`) | a directory and its marker | backup, restore, restore-epoch | maintenance | incomplete copies | a restored library is one that was backed up, under a new epoch |
| Sync client (`server_sync/lww_client.rs`) | prepared operations, outbox, cursor, frontier | prepare, push, settle, cancel, receive, full read, acknowledge | server, persistent store, scheduler | lost answers, restarts, retries, floor and epoch changes during a read | each change published once or known to be refused; the client ends with the library |
| Client store (`persistent_store/lww.rs`) | units, outbox, receive rows, witnesses, projections | capture, stage, apply, finish | editor, sync client | edits while a page is applied, held children | local edits survive until published, received ones are applied parents first |
| Stamps and clocks (`sync-wire/stamp.rs`) | last issued stamp, admitted clock | issue, sample, admit | capture, push | clock steps back, counter overflow | stamps of a writer grow, skew is refused |
| Leases (`external_storage/leases.rs`, `clock.rs`, `lease_ledger.rs`) | lease objects, the owner and its clock, the local ledger | admit, survey, renew, mark, release, restart | every repository job; the storage's Date headers | no lock to take; wrong clocks, suspended devices, answers that are late or never come, restarts | a clean-up is alone, also as long as a DELETE may still land |
| Segments, checkpoints and clean-up (`lww_engine.rs`, `lww_checkpoint.rs`, `lww_compaction.rs`, `cleanup.rs`, `persistent_store/external_lww.rs`) | objects in the storage, sealed publication, proofs of bodies, progress, ages | publish, receive, compact, clean up | other devices only through the storage | failed and repeated requests, listings that are old, bodies named again while a clean-up judges them | what is kept is whole, nothing published is lost |
| External providers, connections, history and restore, device backup, file jobs, app lock, updater, front end, manager | — | — | — | — | not part of the two protocols; see *Not modelled* |

## The modules

| module | what it is |
|---|---|
| `SyncUnits` | Units, stamps, `compare_version`, parents, retirements, level values; how a client merges a pinned read with the tail of the journal |
| `LwwServer` | The server's store: one variable per table, one action per transaction |
| `LwwLibrary` | The abstract promise: the library is the join of the changes accepted so far |
| `LwwServerRefinement` | `LwwServer` with a history of accepted changes, refining `LwwLibrary` (`library <- units`) |
| `MCLwwServerRefinement` | Request sets and the three scenes of the runs of `LwwServer` and its refinement |
| `LwwServerProofs` | Theorems about `LwwServer` |
| `LwwLibraryProofs` | Theorems about `LwwServerRefinement`: the refinement, spent requests, level 1, pins |
| `WriterClaims` | `LwwServer` with the ways a registration comes by its writer before it publishes |
| `MCWriterClaims` | Request set and next-state relation of the run of `WriterClaims` |
| `WriterClaimsProofs` | Theorems about `WriterClaims`, from those of `LwwServer` |
| `ClientStore` | What synchronisation works on in a device's store: units, outbox, receive rows, the clock; every operation a function from store to store |
| `SyncClient` | `LwwServer` composed with devices: the user's edits, the send lane and the receive lane over a network that loses and delays |
| `MCSyncClient` | Keys, commits, foreign pushes and initial states of the runs of `SyncClient` |
| `MCSyncClientScenes` | Two scenes over the same keys: two editors, and one reader of a conversation |
| `SyncClientProofs` | Theorems about devices and server together: no change is forgotten, what was given up stays so, devices up to date show the library |
| `ObjectStore` | The bodies behind the library: rows, files, keepers, uploads, collection, crashes |
| `MCObjectStore` | The bodies and the works of the runs of `ObjectStore` |
| `ObjectStoreProofs` | Theorems about `ObjectStore` |
| `StorageLeases` | The leases of an external storage: owners, clocks, uploads, the marker, DELETE requests, restarts |
| `MCStorageLeases` | Clocks, limits and jobs of the run of `StorageLeases` |
| `StorageLeasesProofs` | Theorems about `StorageLeases` |
| `StorageSegments` | Segments, bodies, checkpoints, reception, compaction and clean-up on an external storage |
| `MCStorageSegments` | The works the runs of `StorageSegments` give the devices |
| `StorageCatalogProofs` | Theorems about publishing and the published state: sequences are unique, what was published stays, what is counted is held |
| `StorageCleanupProofs` | Theorems about the clean-up: kept roots stay whole, types |

### How `LwwServer` corresponds to the code

A table is a function from the primary keys that have a row to the rows; the variables are named
after the tables of `store/schema.rs`. Every mutating operation holds the one writer connection
for one SQLite transaction, so it is one action; operations that answer an error and write nothing
are not steps, and reads are operators (`Readable`, `ChangesAfter`). All of the state is in the
database, so a crash between transactions leaves it as it is: there is no crash action.

* `AcceptPush` is `push_at` to its end. `CanPush` holds the early answers (no registration, a
  repeated operation, a level the server does not know), `Refused` the refusals that are kept
  (duplicate keys, a library that is not empty, writers, clock skew, equal stamps, levels), `Wins`
  the decision for a change. The loop over the winners is one function update: in a well formed
  request keys differ and, below a key the request retires, only retirements win, so the deletion
  of descendants (`Orphans`) and the writes of the winners do not depend on their order.
  Numbers do (`SeqOf`).
* `RefusePush` keeps a refusal as the operation's answer. `sound` is what the descriptor and alias
  checks find: the content of objects is not in this model.
* `CancelOperation`, `Acknowledge`, `CreateStatePin`, `ReleaseStatePin`, `AddDevice`,
  `RevokeDevice` are the functions of those names. `CreateStatePin` includes the eviction of the
  device's older pins.
* `Maintain` is the transaction of `maintain_at` as far as these tables go: expired pins, purged
  registrations, the floor from cursors, pins and recent rows, the journal, receipts and recorded
  versions. `holding` are the revoked registrations that leases, custody or transfers keep.
* `RotateRestoredEpoch` is what `restore` and `restore-epoch` do to a copied directory. Any copy
  of a reachable state is itself a reachable state, so the restored server is the one that goes
  on. The code picks a random epoch; the model counts.

Data is abstracted to what the protocol compares: a value is a model value compared by identity
(the code compares hashes), the digest of a body is the body, a writer is a number because the
order of names decides between stamps of one instant, and times (seconds for retention,
milliseconds for stamps) share one small scale. Error codes are not distinguished. The level a
client *declares* (`admit_format`) only decides whether its request is looked at, which is a step
that need not happen. `head_id` is left out: nothing in the store reads it.

### How `WriterClaims` corresponds to the code

The module adds one table, `device_writer_claims`, and the two transactions of
`store/registration_claims.rs` that write. Every step of `LwwServer` is a step here that leaves
the claims alone.

* `BindDeviceWriter` is `bind_device_writer`: an installation that joins again gives its new
  registration the writer it already has. `RegistrationUsed` is the function of that name, a row
  in `writers` or in `operations`. Binding the own writer a second time changes nothing and is no
  step.
* `ClaimNewDeviceWriter` is `claim_new_device_writer`: the registration gets a writer nobody ever
  used (`WriterKnown` looks at `writers` and at the stamps of recorded versions) and, in the same
  transaction, the registration it replaces is revoked (`RevokeFormer`). The code finds the former
  by the hash of its token whatever its state, so a revoked or purged one may be named. A claim
  row is never deleted: a repeated claim is answered from it (`new_device_writer_claim`, a read)
  or refused, and neither is a step.

### How `ClientStore` and `SyncClient` correspond to the code

A store is a record of the tables of `persistent_store/lww.rs` that synchronisation reads:
`units` and `retired` (`lww_units`, `lww_retired`), the keys of `outbox` (an outbox row repeats
its unit: `put_unit` writes both), the `rows` of `lww_receive_rows` that are held or deferred
(rows that are done are not read again, staged ones are part of a page), and `issued` and
`accepted` of `lww_clock`. The units of the device database and of the library are one function:
they are handled by the same code, one database after the other.

* `IssueStamp`, `Observe`, `ParentStatus`, `SuppressRetired`, `PutUnits`,
  `RecordChanges`, `AckOutbox`, `WitnessReceived` are the functions of those names. `ApplyRows` is `apply_receive_rows`: existence
  units first, in the order of keys, so characters, then conversations, then the rest; within
  such a layer no row is the parent of another and `ApplyLayer` takes them at once, with
  `Prevails` between rows of one key. Dependent on the row: `Fate` (retired, held, deferred, done),
  `Overwrites`, and the removal from the outbox of what turns out to be published.
* `Edit` is `lww_commit`. What the application offers (`Offered`) is a change to what it shows.
  `InterruptEdit` is the same up to the intent with its stamp (`reserve_intent`); `RecoverIntents` is
  the rest of the commit, or its replay after a restart. `fresh` stands for the revision of the library:
  once received rows have changed it the intent is closed without effect.
* `Publish` is `push_through` from the outbox (`OutboxPage`) over the log (`Prepare`, `Finish`)
  to the request being sent: the fence has settled
  everything before, so a device has one open row in its operation log (`publication`).
  `DeliverPush` is the server taking the push, now or after the device has given it up, `LosePush`
  its loss. `LearnOutcome` is the reply or the query of `settle`; `CancelPublication` the
  cancellation after the server knew nothing, with or without its reply; `AcknowledgePublication`
  is `acknowledge`, which the log may miss, so that the fence does it again.
* `RetryUnpublished` is `retry_unpublished` with `lww_retry_unpublished` (`StampAnew`). It runs
  before a push that would lie too far ahead and whenever the user retries. The fence
  before it has left nothing open, so the proof of what is unpublished always succeeds; the time is
  that of a clock just compared with the server's, at most the skew away from it. Its two
  transactions are one step: the intent of the first is replayed before anything else is written.
* `ReadChanges`, `BeginStateRead`, `ReadStatePage`, `ForgetExpiredPin` are the branches of
  `receive_page_with_frontier`; `ApplyPage` (with its staging, which may be repeated), `FinishPage`,
  `AcknowledgePage`, `CloseStateRead` the steps after it, each from what is stored. `Drain` applies
  the rows that wait again.
* A crash is a step not taken: every step starts from what is stored. Three operations are more than
  one transaction with an effect in between that another step can see: a commit and `acknowledge`
  (above), and the application of a page: `InterruptApply` is the transaction of the library
  without that of the device database. `InterruptedNext` has it and
  `InterruptEdit`, `SystemNext` does not (see the finding).
* While a page is applied edits are paused by the application (`withPausedPersistentWrites`); a
  page is applied in one step or is interrupted.

Left out: intents set aside after repeated failures, archived characters (which hold their rows like a missing parent), the level of the
library, the admission of clock samples (`Publish` and `ReadChanges` need not happen), another library or registration for the same store, joining a library
that exists (`state`), and content the store shows without having it as units.

### How `StorageLeases` corresponds to the code

An owner is the record of `OwnerState` with `delete_in_flight` and the step its job has reached;
`Owners` are jobs, `Host` the installation a job runs on, and the mode of a job is its admission:
backup, shared work (publishing, receiving, compaction) or clean-up. `leases` and `uploads` are the
lease objects in the storage and on their way: an upload may land at any later time, whether its
writer waits or not.

* `Admit`, `Confirm`, `GiveUpLease` are `admit_mode` and `create_lease`, up to the upload and from
  the answer on; `Survey` and `Proceed` (or `Yield`) are `recheck`, its listing and its verdict, with
  everything that may happen between them. `Blockers` is `blocker_for`. `Renew` and `ReleaseOld` are
  `renew_if_due`, `PlaceMarker` is `place_marker`, `ReleaseAll` is `release_all`.
* `Dispatch` is the DELETE of one candidate, directly after the clean-up looked at its limits
  (`current_limit`); `Deleted` its answer, `DeleteLands` a request whose sender waits no more. A
  request is carried out within the safety margin or not at all.
* A clock (`ClockState`) has an offset to the true time, counts as verified for `RENEW_AFTER` after a
  response with a Date (`Observe`), and gets a new epoch when it jumps or the application is
  suspended (`ClockBreaks`). Monotonic clocks run with the time. `Restart` is the death of the
  process: its jobs are gone, the ledger's rows of its leases (here the leases themselves) become
  `abandoned`, and the next admission deletes those that are listed. Epochs are numbered on across
  restarts, so that one number tells processes and clock breaks apart.

What is assumed of the surroundings: writing and confirming a lease, and a survey with its verdict,
take at most `REQUEST_LIMIT`, twice of which fits into the safety margin. Single control requests
have a deadline (`CONTROL_DEADLINE_MS`); a survey is one request per page and lease, which the code
does not bound as a whole. Without that assumption two jobs can be admitted together, each by a
listing older than the other's lease. `Protected` claims something only for owners whose lease was
written with a clock inside the allowed error: backups and shared work are admitted with any clock,
and a lease with a wrong expiry protects nobody.

Left out: listings that show only a part, lease documents that cannot be read (an owner yields to
them), a job that is tried again without a restart, and the publication of segments with a lease
without a ledger row. Not run, but read off the model: the marker of a clean-up that died while a
DELETE was unanswered is among the rows its device abandons, so the next admission *of that device*
deletes it, although the comment at `leases.rs:755` says that an unreleased object "is finite and
expires without local replay". `DeletesMeetNoOtherJob` therefore speaks of requests whose sender was
not restarted.

### How `StorageSegments` corresponds to the code

A segment carries one change and at most one body; a checkpoint carries the merge of the segments it
covers and names bodies. `PublishedState` is `published_state`: the retained checkpoints, the listed
segments that continue them, and their merge.

* `Capture`, `AbandonUnsent`, `Dispatch`, `Finish` are `publish_segments` and `publish_captured` from
  the sealing of a publication to the step of its sequence; a dispatch may fail although it sent the
  body, and is repeated with the same segment. `Reusable` and `Revalidated` are the checks by which a
  body is named without being sent.
* `ReceiveSegment` and `ReceivePublished` are the two ways to receive, `BeginRead`, `ReadSegments`,
  `PublishCheckpoint` the compaction: checkpoints are listed first, segments later, and the result is
  written later still.
* `Clean` is one clean-up: ages of what is unreachable (`Ages`, by device), the verdict
  (`Eligible`, `Candidates`), and deletions that may stop anywhere.

Leases keep shared work and clean-ups apart, so a dispatch under its lease and a clean-up are one
step each, and no clean-up runs during a compaction; receiving takes no lease. All devices have the
true time: a stamp from the future is taken back by `AbandonUnsent`, which may happen at any time.
Left out: packs, catalogs, inventory pages, the data catalogs of assets, bindings to another storage,
and a publication that lands after its device gave it up for lost. The order of settling a
publication is one step because what lies between is in memory only.

### How `ObjectStore` corresponds to the code

The variables are the tables that hold or keep bodies (`rows` is `objects`, with the place of each
body; `uploads` has the rows of `uploads`, `upload_chunks` and `upload_jobs`), the directories of
object and chunk files, the `objects_gate`, and what requests hold in memory. Unlike the tables of
`LwwServer`, a body is changed in more than one step: a file is renamed into its place before its row
is written, a row is deleted before its file. The gate is taken for each of these, the database for
each transaction, and a step that needs one of them waits for it (`GateFree`, `DbFree`).

* `BeginPut` is `put_hashed_objects` up to its look at the rows, which it trusts later. A small body
  is stored with its row (`PutInline`, `put_inline`); another becomes a file (`PublishFile`), then gets
  its row and lease, or does not (`CommitFile`). `PinObject` is `pin_objects`.
* `RetainObject`, `ReleaseRetained`, `Revoke`, `Forget` are custody and what ends it. `Push` is the
  part of `push_at` that concerns bodies: `Prepared` is `prepare_descriptor`. The alias of a plain body
  is taken as it is. That is sound only because a client uploads or pins every body before it pushes
  (`Transfer::upload_with_hints`, called at `lww_client.rs:783`): the action requires that lease.
* `BeginUpload`, `PutChunk`, `Submit`, `StartJob`, `ReadChunks`, `PublishUpload`, `FailUpload`,
  `Cancel` are `uploads.rs` and `upload_jobs.rs`. Large bodies are finished by the worker, the others
  in the request. `finish_upload` reads and verifies its chunks without any lock: these are two steps,
  between which the upload may expire, its device be revoked, or a maintenance run.
* `Collect`, `Reconcile`, `DrainTrash` are the stages of one maintenance, which holds the gate from
  the first to the last. `held` and `shown` are the leases and read pins that have not expired, at any
  moment. `AbandonMaintenance` is a maintenance whose later stage fails, `Crash` the end of the process
  at any point, with what `open_inner` resumes (`Resumed`). `Restore` is a backup, restored under a new
  epoch.
* `LookUp` and `OpenBody` are a reader that finds the row and opens the file later; `lost` notes that
  the object was collected meanwhile. Such a reader may find the body all the same, or get the error
  of a file that cannot be opened or of a corrupt object: only a missing row is answered as not found.
* `stale` is history: the chunks whose row was last written while `staging_trash` named their file.

Abstracted: bodies are put one at a time (the code commits groups, with one transaction); a maintenance
visits one of two directories of object files (of 256) and all orphans in it (the code has pages of
1024); a descriptor names bodies directly; the second transaction of the worker, which removes or
requeues its job, is part of the step before it; the removals of chunk files that a cancelled upload
leaves do not fail. Upload identifiers are random and never used again. Quotas, deltas, corrupted
files and their repair are left out.

Nothing is assumed of removals: any of them may fail, and any maintenance may end before them, so that
`staging_trash` is carried from one maintenance to the next, as it is across restarts. What that means
for object files and for chunks is not the same, because only `drain_trash_locked` looks at the rows
again (see `staging_trash` below).

## The properties

* `JournalMirrorsLibrary` — a journal row carries the version its unit has, rows have different
  numbers, and these lie between the floor and the head.
* `NothingLivesBelowTheRetired` — below a retired parent there are only retirements, and the
  tombstone of the retired is stored.
* `UnitsLeaveOnlyBelowRetirements` — no step undoes a retirement, and a unit leaves only below a
  parent retired in that step.
* `PinTailReachesLibrary` — for every pin still held, at every moment: the journal is readable
  from its start, no row contradicts the copy, and the copy merged with the tail as the client
  merges them, applied parents first, *is* the library.
* `AcceptedRequestsAreSpent` — whatever was accepted would win nothing if it were pushed again, in any
  grouping, also when its receipt and the versions it recorded have expired: it is stated over the
  history `accepted` of `LwwServerRefinement`, not over the receipts that are left.
* `OneWriterPerDevice`, `AnswersStand`, `RecentCursorsStayReadable`, `LevelOneHoldsNoParts` — as their comments in `LwwServer` say.
* `ClaimsOwnTheirWriter` — the writer in the receipt of a claim stays the writer of that device,
  and a consent is spent on one device only.
* `FormerDevicesAreSilent` — after a claim no operation of the registration it replaced gets an
  answer any more.
* `VersionsOnlyAdvance` — a version a device holds is replaced by a later one or by the deletion of
  its record, although clocks disagree and step back.
* `OwnVersionsAdvance` — what a device has to publish is not older than what the library already has
  from it. It does not hold (see `restamped`).
* `NoChangeIsForgotten` — what a device holds and does not have in its outbox the library has, or
  has something later, or has deleted what it belonged to.
* `GivenUpMeansUnpublished` — an operation a device noted as cancelled or refused is not accepted
  later.
* `NothingBeforeTheCursorIsMissing` — what the library has and no journal row after the cursor
  carries is with the device, or waits there, or was replaced by something later.
* `UpToDateDevicesShowTheLibrary` — a device at the head with nothing under way shows the library,
  apart from rows whose parents nobody has. Below the retired the two may differ: the client drops
  tombstones of conversations with their character, the server keeps them.
* `DevicesCatchUp` — when edits stop, every device comes to that and stays there.
* `ProtectedJobsAreCompatible` — two jobs at work together, each by its own account, are shared work
  and no clean-up.
* `DeletesMeetNoOtherJob` — while the storage may still carry out a DELETE, no job but its sender is
  at work, also after the sender gave up.
* `WorkingLeasesStayListed` — nobody takes away a lease somebody works under.
* `KeptRootsAreWhole` — every body a kept checkpoint or segment names is in the storage.
* `NothingPublishedIsLost` — the storage shows the merge of everything that ever landed.
* `CheckpointsHoldWhatTheyCover`, `SequencesAreUnique`, `DevicesHoldWhatTheyCount` — a checkpoint
  accounts for each segment under its coverage, a sequence is used once, and what a device counts as
  received is part of what it shows.
* `HeldBodiesAreThere` — what has a row has its body, and what a unit, a read pin, a lease or custody
  keeps, and what the descriptors among it name, has a row.
* `ReadersFindWhatStays` — a body is where a reader saw it, as long as the object is not collected.
* `CustodyStands` — the last retention id of a device and object is in force until its release is
  asked for, whatever other release is late, and through a restoration.
* `UploadsLoseOnlyStaleChunks` — an upload that was accepted keeps its chunks, rows and files, through
  crashes, expiry, failed rows and removals and abandoned maintenances; the only chunks that can go are
  those that were put while `staging_trash` still named their file (`stale`). `AcceptedUploadsAreWhole`
  is the same without the exception, and fails.
* `UnaccountedBodiesGo`, `SubmittedUploadsEnd` — a file without a row is removed or gets a row, and
  the worker brings every job to an end, except one whose chunk file was taken under its row.
* `ImplementsLibrary` — the refinement of `LwwLibrary`: convergence of the store whatever the
  order, grouping, repetition and origin of pushes.

## The runs

| run | configuration | bounds | shows |
|---|---|---|---|
| `library_promise` | `MCLwwServerRefinement.cfg` | one of three scenes. *join*: 2 devices with 2 operations, requests over a character, a conversation, its messages and the level (switch first, last and alone, content with parts), 2 instants. *tree*: 1 device, 3 operations out of 36 requests (two versions and a retirement of the character, two of a conversation, its messages; alone or in ordered pairs), 3 pins of which 1 is kept. *retention*: 2 devices with an operation each, one unit with two versions, one of them at first refused for its clock, retention and pin lifetime 1, 2 instants, 1 restored epoch | refinement of `LwwLibrary`; the level switch; retirement against late, early and same-push children, and the full read across them; cursors, pins, receipts and writers against maintenance, revocation and the rotation of a restored epoch |
| `claims` | `MCWriterClaims.cfg` | 3 registrations, 2 writers, 2 consents, 1 operation id, retention 0 (receipts and versions are forgotten at the next maintenance), 1 restored epoch | joins by pushing, binding and claiming, replacements, revocations and purges in any order |
| `devices` | `MCSyncClientScenes.cfg` | one of two scenes. *devices*: 2 devices, 1 unit with 2 values, wall clock 0 or 1 at every edit, 2 operation ids, interrupted commits on one of them. *reading*: 1 device, pages of 1, a character, its conversation and messages pushed and deleted by another, 2 pins, retention 0 (the floor moves at any maintenance), messages under generation or not at every step, edits and deletions of the messages and edits of the conversation, one publication at a time | two editors with clocks that disagree; held and deferred rows, floor and pin against edits |
| `publication` | `MCSyncClient_publication.cfg` | 1 device and another that joins and pushes, 1 loss, 2 instants, skew limit 0, wall clock 0 or 1, interrupted commits and applications | lost, late, refused, cancelled and repeated operations, and what is stamped anew |
| `catch_up` | `MCSyncClient_catch_up.cfg` | 1 device with an edit, another that pushes, 1 loss, 2 instants, 3 pins | liveness |
| `interrupted_apply` | `MCSyncClient_interrupted.cfg` | 1 device, another that pushes 2 versions | a flaw of the code (below) |
| `restamped` | `MCSyncClient_restamped.cfg` | 1 device with 1 unit, wall clock 0 or 1, skew limit 1 | a flaw of the code (below) |
| `leases` | `MCStorageLeases.cfg` | 2 jobs on 2 devices, as two clean-ups, shared work and a clean-up, or a backup and shared work; clocks 1 behind, 1 ahead or 4 behind with an error of 1 allowed; lease 4, margin 2, renewal from 1, 5 instants, 1 event (failed request, renewal, clock break, restart) | exclusion over a storage without locks |
| `segments` | `MCStorageSegments.cfg` | 2 devices, a character and its name with and without a body, reuse for 1, grace 2; one of five works: a body named again for a character that was deleted, a body borrowed from another device, catching up with what was compacted and deleted, two compactions at once, a deletion undone elsewhere | publication, compaction and clean-up against each other |
| `late_settlement` | `MCStorageSegments_late.cfg` | the same, one publication is settled up to 2 after it landed | a promise that holds only in time (below) |
| `objects` | `MCObjectStore.cfg` | 2 devices, a large body of 2 chunks, a small one, a descriptor that names the large one; one of six works: two devices put the same bodies, a small body first uploaded and then put, a descriptor pushed and replaced, custody with a restoration, two uploads with crashes, two uploads with a stuck removal; each with up to 2 crashes, 1 failed row, 1 stuck removal, 1 expiry, 1 revocation | what is kept is there; files, rows, readers and uploads against collection and crashes |
| `staging_trash` | `MCObjectStore_staging.cfg` | two uploads, 1 failed row, 1 failed removal, 1 expiry | a flaw of the code (below) |

The bounds are named: `MaxTime`, `MaxPins`, `MaxEpoch`, for the clients `MaxWall` (their clocks),
`MaxEvents` (what goes wrong with leases), the fields of `Works` (what the devices of a storage do; in `ObjectStore`, how often each operation and each fault may happen),
`MaxLogical` (stamps of one instant) and `MaxLost` (losses), and the sets `OperationIds` and
`DeviceIds`, which are used up. Three operations are enough for the order-dependent cases of
retirement (store, retire, return late) because decisions look at one key and its parents, of
which there are at most two, and a push of two covers a parent and a child together. With
retention 1 and two instants everything can be recent, and exactly at the edge, where it no longer is.
The runs whose configuration says so use symmetry over operation ids, registrations and consents,
and `devices` over the values of its first scene, which are only compared; writers, times and units are not symmetric. `library_promise`,
`devices` and `claims` use next-state relations without the actions that do not touch what
their properties speak of. Deadlock is not checked: with every bound reached the model
stops, the server never does.

A divergence from the documentation is visible in `Maintain` and has no run of its own.
`maintenance.rs:368-369` says *"Explicit maintenance uses every active device acknowledgement and
read pin. Offline devices are never silently forgotten."* The function counts an acknowledgement only
if it is younger than seven days (line 404), so the floor passes the cursor of a device that was
offline longer; its next read answers `journal-floor`, and it reads the whole library again. What
does hold is `RecentCursorsStayReadable`.

`interrupted_apply` is expected to fail. `lww_apply_receive` commits the received units with
the library and observes their stamps in a later transaction of the device database
(`persistent_store/lww.rs:2276-2288`). If the process stops between the two, an edit made before
the page is applied again has a stamp from the local clock only. If the received version was
stamped by a clock that is ahead, the edit is older than what it replaces: the device stores it, the
library lets it lose, and the received row is done and not applied again. The device and the library
then differ with an empty outbox and the cursor at the head, until someone changes the unit again.
Without the interruption the same property holds (`devices`), and what an interruption
does not break is checked with it (`publication`).

`restamped` is expected to fail. `lww_retry_unpublished` stamps what lies more than five minutes ahead
anew and stores the new stamp as the last one issued, without looking at that one
(`persistent_store/lww.rs:2835-2844`), also when nothing lies that far ahead, as after the retry a user
asks for. Entries of the outbox that are less than five minutes ahead keep their stamps, which are now
later than the clock. When such an entry is published, and its unit edited before the acknowledgement
observes its stamp, the edit is older than what the server has from the same device: it loses there,
leaves the outbox as published, and no other device ever shows it. In `publication` no clock is ahead of
the server's by less than the limit, which is 0 there, so nothing stays behind: what
is stamped anew is not forgotten and nothing is given up.

`late_settlement` is expected to fail. A device that publishes a body and hears of it late (the
request failed, the segment landed, the next attempt finds it) records the proof of the body with the
time of *settling*, not of landing. If the segment was compacted and its body fell out of use
meanwhile, a clean-up may be about to delete the body when the device, by its young proof, names it
again without sending it. `segments` has the same property with settlement in time: it holds while
the delay is less than the difference of grace and reuse limit (with the constants of
`leases.rs:39-40`, seven days and five, two days).

`staging_trash` is expected to fail. When the row of a chunk cannot be written after its file was
(`uploads.rs:216-220`), the next maintenance takes the file for an orphan and notes it in
`staging_trash`. If its removal fails, or the maintenance ends before it, the note stays. The device
sends the chunk again, which writes file and row anew, and the upload is accepted; nothing takes the
note back. The maintenance after that deletes the row of every chunk noted (`maintenance.rs:385`), then
the file, and the worker fails an upload it had accepted. If the removal that failed is tried again right
after the maintenance (`drain_trash_backlog`), when the chunk was put in between, the file goes and the
row stays: the worker then tries the job again and again until it expires. `objects` shows that an
accepted upload loses a chunk in no other way. For object files the same sequence is harmless (`objects`, with stuck removals): they are removed only while they have no row.

The works of `objects` were chosen like those of `segments`, so that every disjunct of every action happens;
two devices are enough because what could go wrong is between one request and a maintenance or between
two requests for one body. `Putting` has two crashes, the second one during what follows the first.

The limits of `leases` are small multiples of one another as in the code, with the two assumptions
at their edge (`2 * TrustedOffset = RELATIVE_CLOCK_ERROR`, `2 * REQUEST_LIMIT = SAFETY_MARGIN`), and
the proofs cover all others. One event is enough for each single failure; renewals count as events.
The works of `segments` were chosen so that every step of every action happens and each property can
be broken by a small change of the code.

The conversation keys of the scene *reading* have two parents, so a row may wait for one or both; two
writers with walls 0 and 1 give every order of two edits and the tie; one loss is enough for every
single lost push, lost cancellation and unheard pin, and an operation given up leaves an id for the
next. The runs of the clients begin with devices that have joined, but for `publication`. A push
is delivered while its receipt, or that of its cancellation, is kept: in the program that is
seven days, in `publication` the retention is longer than the run. `Generated` is empty where no
messages are.

The library store needs no liveness: every operation happens because a client asks for it. The object
store works by itself, and `FairSpec` says when: weak fairness of `MaintenanceNext`, which a task of the
daemon runs every fifteen minutes (`http/mod.rs:103-195`), and of `CommitFile`, a request that goes on;
strong fairness of the steps that finish each upload, because they wait for the gate, which is free again
and again but not always, and because a job that failed is put behind the others (`retry_after` in
`run_pending_upload`), so that one cannot keep another from its turn. Faults are bounded, so from some
moment on none happens. For the clients `DevicesCatchUp` assumes one fairness, `WF(LaneStep)`: as long as some device can go on with
publishing or receiving, or a push is under way, one of these steps is taken. The scheduler of the
application does that while it runs and reaches the server: it repeats a lane until it reports
nothing to do and tries again after errors. Edits, maintenance, the pushes of others and losses
are not fair and are bounded.

## The proofs

`LwwServerProofs` proves for all constants, from the named assumptions of `SyncUnits` and
`LwwServer` (writers are numbers, values are not, requests are well typed):

* `TypeCorrect` — `Spec => []TypeOK`.
* `StoreIsSafe` — `Spec => []StoreInv`, the inductive invariant: types, `JournalMirrorsLibrary`,
  `NothingLivesBelowTheRetired`, and the two strengthenings it needs. `ChildrenAreLinked`: every
  stored unit is linked under each of its parents, so that a retirement finds all of them.
  `RetiredAreTombstones`: the retired are exactly the existence units whose value is the
  tombstone, so that a unit below a parent retired earlier is known to be retired itself and is
  not lost when another parent goes.
* `JournalIsAnIndex`, `RetirementIsFinal`, `UnitsAreNotLost` follow from it.
* `RecentCursorsAreHeld` — from `FloorFacts`: the floor of maintenance is the least held position
  or the old floor.
* `AnswersAreFinal`, `WritersAreExclusive` — directly inductive.

`LwwLibraryProofs` proves that the store keeps the promise of `LwwLibrary`:

* `LibraryInvariance` — the inductive invariant `HistoryInv`, over the history of accepted changes:
  `StoreInv`, `JoinInv` and that every receipt of an acceptance has its changes in the history. `JoinInv`
  is the join of `LwwLibrary` said of the server's own tables: the retired are the accepted retirements;
  stored is what was accepted and is itself retired or below nothing retired; and every stored version
  was accepted and is outweighed by no accepted change that counts for its key. A change that loses must
  leave this true as well as one that wins, which is where the rule that a retirement wins whatever
  its stamp is needed: it counts from then on, and everything else stops counting.
* `LibraryIsTheJoin` — `HistorySpec => ImplementsLibrary`: the initial states map to initial states, and
  every step accepts changes or stutters.
* `RequestsAreSpent` — from the same invariant: what is in the history is outweighed by what is stored,
  whether or not its receipt is still kept.
* `LevelOneIsKept` — while the library has no format unit it never had one, because a unit leaves it
  only below a retired parent and that key has none; and before the switch a push with parts is refused.
* `PinsReachLibrary` — every pin that is held, with the rows after its start, gives the library. The
  invariant `PinsInv` says of a pin: its start is readable; a stored unit has a row after it or
  is in the pin as it is; what the pin holds and the library does not is below a parent retired
  since; a row supersedes what the pin holds, by its stamp or as a retirement. Its hypothesis
  `StampsNameVersions`, that writers give a stamp to one version of a key, is owed by the clients: the
  server refuses a second version only while it remembers the first, which is for the retention or
  while that version is current, and a pin may hold one it has forgotten.

`WriterClaimsProofs` carries the theorems about `LwwServer` over to `WriterClaims`:

* `ClaimsTypeCorrect`, `ClaimantsHaveOneWriter` — `TypeOK` and `OneWriterPerDevice` survive
  binding and claiming.
* `ClaimsAreKept` — `ClaimsSpec => []ClaimsInv`, the inductive invariant. Besides the types and
  `ClaimsOwnTheirWriter` it says that the former of every claim is revoked or purged
  (`FormersAreRetired`): an answer needs an active registration, so this is what silences it.
* `ClaimsAreExclusive`, `FormersAreSilent` follow from it.

Lemmas: `MinOfNaturals` (a nonempty set of numbers has a least element, from well-foundedness),
`WinnerFacts`, `WinnerIsTheChange`, `SeqFacts` (numbers of winners are distinct and dense by
cardinality), `WinnersRespectRetirement`, `FloorFacts`, then one lemma per action.

`SyncClientProofs` proves about devices and server together, for any number of devices, units, commits
and lost requests, and with edits and applications that stop half way (`InterruptedSpec`, of which
`SystemSpec` is a special case). Beyond the assumptions of the modules it composes it needs that a device
commits no version of the format unit (`CommitsAssumption`: `push_library_format`, `lww_client.rs:430`,
sends it alone and not through the outbox), that the keys are finitely many and ordered
(`KeyOrderAssumption`) and that only messages wait for the end of a generation
(`GeneratedAssumption`: the test on `"messages"` in the query of the outbox and in `apply_receive_rows`,
`lww.rs:2051` and `2527`).

* `LanesInvariance` — `InterruptedSpec => []LanesInv`. A version is *spent* when the library has it or a
  later one, or has retired the unit or a parent. That is the one thing a version can become for good:
  stored units grow in their stamps or leave below a retirement, so what is spent stays spent over
  every step of the server (`PushKeepsSpent`, `MaintainKeepsSpent`, from `StoreInv`). The
  invariant follows a version from the library to a device and back. Whatever came from the library is
  spent wherever it waits: in a pin (`PinsInv`), a page that was read (`PagesInv`), a received row or a
  unit outside the outbox (`StoresInv`). What the library accepted is spent, receipts and noted outcomes
  included (`AcceptedIsSpent`), and whatever carries the identity of a device's publication, on its way or
  in a receipt, is that publication (`PublicationsInv`): without this part an answer to another request
  could take a change out of the outbox. Only then does `lww_ack_outbox` take spent versions only.
* `NoChangeForgotten`, `SystemTypeCorrect` — `NoChangeIsForgotten` and `SystemTypeOK` follow from it.
* `GivenUpStaysUnpublished` — `GivenUpMeansUnpublished`, from `GivenUpIsAnswered`: a push that may still
  arrive finds the answer with which its operation was given up. Its hypothesis `PushesArriveInTime` says
  that no receipt is forgotten while a push of its operation is under way: a server that has forgotten a
  cancellation accepts the push that comes after. The code relies on it by keeping receipts for seven
  days; nothing in it bounds how long a request may be delayed.

* `VersionsAdvance` — `VersionsOnlyAdvance`, for `SystemSpec` and for devices whose commits stop half way
  (`WholeSpec`), from `ClocksInv`: a device has issued or accepted a stamp that is not below any of its units
  and waiting rows, so `issue_stamp` comes above them; and an intent that may still be repeated is not
  below any unit. What follows is that an edit replaces older versions only. Two hypotheses are left.
  `StampsAreNotTakenBack` excludes the retries of `lww_retry_unpublished` that stamp below what
  the device issued before: that is what they are for after a clock ran ahead, and the run `restamped`
  shows what it costs. `WholeSpec` has no `InterruptApply`: a device that stops between the two
  transactions of `lww_apply_receive` holds versions whose stamps it has not observed. Of a page, one
  thing is not obvious: whether a unit could go with its parent in one layer and come back older in a
  later one. It cannot, since no row settles below a retired parent unless it is a retirement
  (`LayerOvertakes`, `OvertakesMore`).

* `NothingMissing` — `NothingBeforeTheCursorIsMissing`, for `SystemSpec` without a further hypothesis and
  for `WholeSpec` under `StampsAreNotTakenBack`, from `ReadInv`. A version is *delivered* when the
  device stores it or a later one, knows the deletion of the unit or of a parent, or has the version
  waiting in a row; and when it has accepted the stamp. Only with the last part does it stay so: an edit is
  then stamped above what it replaces, and this needs nothing of the clocks. `ReadInv` says that what a
  reader at the cursor has been shown is delivered (`CursorRead`), that what a reader at the end of the
  page has been shown is delivered or on the page (`PageRead`), and the same of the units of a pin up to
  the rank that was read (`PinRead`). What ties the two ways of reading together is `PinsShow`: a pin
  holds every unit that a reader at its start has been shown, in the version the library has, for as long as
  that start is readable; so the cursor may jump there once the pin is read. The server moves
  under all of this in one direction (`ReadersMove`): a unit that a reader has been shown and that is still
  shown at the same cursor is unchanged, or the cursor fell below the floor. Two things are not obvious. A
  page must be a prefix of the rows in the order of their numbers, or of the units in that of their keys
  (`FirstAreInitial`). And a unit swept with its parent is below a retired one, even when that parent
  goes in the same layer below another (`SweptAreBelowRetired`); this takes two levels of parents and no
  more, hence the assumption that a record is of one of four kinds (`KeysAssumption`,
  `UnitKey::try_from`, `unit.rs:52`), so that no record has a conversation as its parent. The hypothesis for
  `WholeSpec` is needed: after a retry took the stamps back, an intent may be older than an entry
  of the outbox, that entry may be published and read back, and `recover_intent` then puts the older version
  over it.
* `UpToDateDevicesShow` — `UpToDateDevicesShowTheLibrary`, under the same hypotheses. Three things had to be
  known beside what is delivered. What came from the library is spent as a *version*: a value and its
  stamp, not a stamp alone, and the deletion of a record only by a deletion. So what a device shows outside
  its outbox is what the library has, an older version of it, or gone from the library (`Spent`). A
  deletion that was given stays known: the record is retired, or below a retired one, or the deletion is held
  in a row (`KnowsRetired`). And a store is closed below (`Rooted`): units have their parents, a retired record
  is a deletion the store holds or lies below one, and no row waits below a retired record. For the rows that
  are held, `Waits` says that a parent is missing or was never shown to the device:
  a commit of the device may store that parent meanwhile without promoting the row, so "the parent is
  missing" alone is not invariant. At the head this leaves only rows whose parent the library does not have
  (`HeldAreFresh`). The rest is `Settled`: a deletion that is held back would be above a parent the
  library does not have, but that parent is in the store and spent, so the library has it or deleted it
  (`HeldBelowDeleted`); hence what is shown is in the library (`ShownIsLibrary`) in the same version
  (`ShownIsCurrent`), and what is in the library is shown or held (`LibraryIsShown`).
* `DevicesConverge` — from it: two devices that are up to date show each unit in the same version, unless one
  holds it back.
* `IssuedIsAbove` — what `issue_stamp` returns is above every stamp the device issued or accepted,
  whatever its wall clock says; the steps of all the theorems above that stamp an edit rest on it.

The operations of a store are functions from store to store, so one relation says what any of them may
do to a device (`Comes`: what it holds outside its outbox came from there or from given rows), with a
lemma for each (`RecordChangesComes`, `AckOutboxComes`, ...). The rows of a
layer are chosen by stamp; that a greatest one exists is `MaximalOf`, for any finite strict order.

`StorageLeasesProofs` proves about `StorageLeases`, for any number of jobs and devices, from
`ClockAssumption` (the error allowed for two clocks is twice that of one; two requests fit into the
margin):

* `LeaseInvariance` — the inductive invariant, in three parts. `ShapeInv` says of every owner what
  it holds at each step: its own leases only, all of one epoch and offset, the current ones listed,
  and a renewal sent while the old lease was good. `PairInv` says of two owners that have listed the
  leases: one has the other's lease in the listing it still judges and cannot ignore it in time, or
  one is *dead*, or they are compatible. Dead is an owner that will never pass `check_control`
  again: its clock broke, or its lease is about to run out and nothing it has sent can be confirmed in time.
  It is this part that no single step shows: the later of two surveys finds the lease of the other
  owner or is so late that its owner can no longer be at work. `DeleteInv` says of a DELETE on its
  way that a listed lease of its sender outlasts it, whatever has become of the sender, and that
  everybody past its survey is dead or has seen such a lease.
* `LeasesTypeCorrect`, `LeasesStayListed`, `Exclusion`, `DeletesAreAlone` follow from it: `TypeOK`,
  `WorkingLeasesStayListed`, `ProtectedJobsAreCompatible`, `DeletesMeetNoOtherJob`.

Its lemmas say what each action does to the record of an owner, that clocks only move on
(`ClockStep`), that the dead stay dead (`DeadStays`), what a listing shows (`SurveyVerdict`) and what
a verdict on it means (`ProceedVerdict`, `SeesDeleteVerdict`), and that nobody takes the announcement
of a DELETE away (`AnnouncementStays`).

`ObjectStoreProofs` proves about `ObjectStore`, for any number of devices, objects and uploads, from
`ObjectsAssumption` (descriptors name objects that are no descriptors; an idle request is no request):

* `StoreInvariance` — the inductive invariant. `Shape` is `TypeOK` with the requests under way: at most
  one of them is between its file and its row. `RowsHaveBodies` adds to the bodies behind rows the file
  behind such a request, which no removal can take because a maintenance waits for the gate.
  `KeptHasRows` adds to the rows of what is kept that the descriptors of units and read pins are
  indexed: a collection finds what they name by the index alone, so without it the step fails.
  `RowsReadStay` says that the row a reader saw is as it was until its object is collected; a small
  body that has a file is never moved into the database.
* `StoreTypeCorrect`, `BodiesStay`, `ReadersFindBodies`, `CustodyHolds` follow from it.
* `UploadsLoseOnlyStale` — for every removal that fails and every maintenance that ends early, from
  three more facts (`StagingOK`): a row whose file `staging_trash` names was put while it did, a row
  without its file belongs to such a chunk, and what was accepted has a row for every other chunk. The
  first is why the exception cannot grow: `reconcile_orphans` notes only files that have no row, under
  the gate that also serializes `put_upload_chunk`.

Its frame lemmas (`BodiesFrame`, `KeepersFrame`, ...) say once which actions touch which part, so that
each step lemma speaks only of those.

`StorageCatalogProofs` proves about `StorageSegments`, for any number of devices, changes and works,
from its named assumptions (`LimitsAssumption`, `NoneAssumption` and those of `SyncUnits`):

* `PublicationInvariance` — the inductive invariant of publishing. A sequence below the next of its
  writer is finished; what is captured takes the next one, into its stamp too; and at most one
  segment of the writer lies at it, which is the one the pending publication has sent
  (`LandedIsTaken`). So a publication that has sent something is not abandoned, and one that is
  abandoned leaves its sequence free.
* `SequencesAreNotReused` — `SequencesAreUnique` is part of it.

It goes on from there to what the storage and the devices hold:

* `StorageInvariance` — four more parts. `LandedInv`: the stamp of a change carries the writer and the
  sequence of its segment, so that the changes that landed are finitely many and never bear one stamp
  twice, and below the next sequence of a writer nothing is missing. `CatalogInv`: checkpoints, and
  what a compaction has read and not yet written, *account* for what they cover: their changes are the
  merge of every segment that ever landed at or below their coverage. What they cover has landed
  (`Published`), so nothing lands there later and they go on accounting for it. `HeldInv`: every
  segment that landed is listed or covered by a listed checkpoint, whatever a clean-up took.
  `DeviceInv`: the changes of a device are the merge of some of the segments that landed, all those at
  or below its progress among them.
* `CheckpointsAreComplete`, `NothingIsLost`, `CountsAreTrue` follow from it. A device's own publications
  count from when they are settled.

The steps of a compaction rest on the algebra of merging. `MergedMembers` says which changes survive:
those that outweigh every other of their key and lie below nothing retired. The theorem
`MergeAbsorbs`: a merge of parts that were merged before is the merge of the whole, as long as no two
changes bear one stamp;
so it does not matter who merged what when. `StateAccounts` puts the two listings of a compaction
together: checkpoints listed first, segments later, and whatever was deleted in between is covered
by what was listed (`StateCovers`).

`StorageCleanupProofs` proves about the clean-up, again for any number of devices and works:

* `CleanupInvariance` — the inductive invariant, under `AgesAreApart`: `SettleLimit + REUSE_LIMIT < GRACE`.
  With the five and seven days of `leases.rs:39-40` it says that a publisher learns within two days that
  its segment landed, which nothing in the code ensures; `late_settlement` shows what happens otherwise.
  A clean-up keeps its ages per device, so whether a body is in danger is a question of who looks. `Safe`
  answers it for all of them: the body is stored, and for every device there is a listed document that
  names it and that this device has not seen unreachable before a given time. A clean-up deletes no
  body that is safe since less than the grace, and leaves it safe (`SafeStays`): if a kept root names it, no
  device has an age for that root; otherwise the young document delays the body, and the body every
  document that names it.
  `BodiesInv` says what is safe: what a proof or a reused publication names, since the time of the proof less the
  settlement (`ProofsSafe`, `ReusedSafe`); what a segment that landed names, until its publisher must know
  (`SentSafe`). A fresh body stays from its dispatch, because no device can have an age older than the
  publication for a document that names it (`FreshSafe`); to see that, `NamesInv` says that nobody names a body
  before its first dispatch. The hard case is a segment that another device compacts and deletes
  before its publisher knows of it, and that the publisher then sends again: `DeletedInv` says that
  whoever remembers such a segment has left its body to a younger document, because bodies go first.
  `CompactionInv` says that what a compaction has read is stored; no clean-up runs while it works.
  `AgesInv` adds that what has an age is covered or superseded, and stays so, so it never becomes a
  root again. Every part was checked by TLC on the works of `segments` before it was proved.
* `RootsStayWhole` — `KeptRootsAreWhole` is part of it.
* `SegmentsTypeCorrect` — `TypeOK`, without that assumption.

Every safety invariant and action property that a passing run checks is stated by a theorem, except where a
run shows it false: `NothingBeforeTheCursorIsMissing` and with it `UpToDateDevicesShowTheLibrary` do not hold
where an application stops half way (`interrupted_apply`). `DevicesCatchUp`, `UnaccountedBodiesGo` and
`SubmittedUploadsEnd` are liveness and are only model-checked.

## The plan

In this order:

1. `LwwServer`, its refinement and first proofs — done.
2. `ClientStore` and `SyncClient`: devices composed with the server — done for the lanes. Next:
   admission of clock samples, intents that replace a library, joining a library that
   exists (`state`, binding) and leaving a registration with operations open (`fence_new_device`,
   `detach_inactive`).
3. `WriterClaims` and its proofs — done.
4. `StorageLeases`, `StorageSegments` and their proofs — done. Next: bindings to another storage and the
   initial reception of one.
5. `ObjectStore` with uploads, collection, restoration, and its proofs — done. Next: deltas against stored objects
   (`transfers.rs`), quotas, repair of bodies that do not match.
6. `HlcStamp`: stamps of a writer grow over every clock; the 32-bit counter; admission.
7. Proofs: the refinement of `LwwLibrary`, spent requests, level 1 and pins; what an external storage
   holds and what a clean-up leaves of it; of `SyncClient` types, `NoChangeIsForgotten`,
   `GivenUpMeansUnpublished`, `VersionsOnlyAdvance`, `NothingBeforeTheCursorIsMissing` and
   `UpToDateDevicesShowTheLibrary` — done.

## Not modelled

Of external storage: the providers and connections (HTTP clients of cloud drives), histories, packages
and their restoration (files of one job at a time), the formats and their encryption, delta and transfer
packs. Device and portable backups, file jobs, import and export, asset
repository, media, app lock, updates, data health, the manager, the endpoint registry, vendored
crates and plugins and the TypeScript front end work on one device or move bytes. HTTP routing,
tunnels and process ownership surround the store without changing what its transactions do.
Formatting and validation of wire values are left out: they decide which requests exist, and the
model starts from requests that parse.
