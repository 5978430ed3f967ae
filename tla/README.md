# Verification of Frame TV Art Manager

Frame TV Art Manager keeps a folder of pictures on one or more Samsung Frame
TVs. This directory holds TLA+ models of its core, the TLC runs that check them
on small instances, and theorems about them that TLAPS checks for every value
of the constants. Source paths below are relative to the repository root.

## 1. Inventory of the system

| Component | State it keeps | Operations | What makes it correct |
| --- | --- | --- | --- |
| `internal/reconcile` | one JSON record per TV: bindings digest -> content ID, one pending command, one parked upload, capacity evidence, wake record | `Run`: observe, recover, plan, execute, fold receipts, save; fallback power-off; scheduled wake; legacy migration | a command is journalled before it is sent; an unknown outcome is never repeated; bindings are true; nothing uploaded is forgotten; only owned art is deleted; runs end; the TV converges |
| `internal/samsung` adapter | connection generation, single-use authorization, failure backoff | `Observe`, `Apply`, `Close` | a command is only sent on the facts it was planned on; the outcome it reports is what the TV's state supports |
| `internal/samsung` protocol | pending-request table, reader goroutine, D2D transfer | register, send, route, fail, close | every waiter gets its reply, a timeout or the failure of the link; events are bound to the request they answer |
| `internal/durablefs` | none | `Replace`, `CreateExclusive`, `MoveExclusive`, `Rename`, `Remove`, `ReadStable` | after any stop a file is its old or its new version, success means durable, a reader sees whole versions, a foreign file is never overwritten |
| `internal/collection` | artwork files, manifest, journal, staging, kept originals | `Prepare`, `ImportBatch`, `Apply`, recovery | a collection changes all at once; recovery can always finish; originals outlive the art derived from them |
| `internal/sync` | cycle gate, TV workers, last selection rules, a channel of one requested cycle, status and placements of each TV | `RunLoop`, `RunOnce`, `requestCycle`, `Import` | one cycle at a time; a requested cycle comes and looks after the request; health tells what failed; hidden art stays hidden |
| `internal/sources` | resolutions with expiry and backoff, credits, gates of web services | `Sync`: resolve, download, import, persist | providers are left alone as long as they ask; a failing provider never removes art; everything is credited and comes in the end |
| `internal/themes` | `collections.json` | create, change, delete, add and remove members, select | the art of a day is well defined; art reserved for a collection is not everyday art |
| `internal/resources` | places and slots for image work | `Run` | never more than the configured work, every place given back |
| `internal/health`, `internal/assistant` | status, requests of clients | uploads, tools, previews, `Shutdown` | one upload at a time; what a client was told holds, and what failed is undone |
| `internal/app`, `cmd` | lifecycle of the process | `Run`: bind, prepare, serve, drain, close | a stop ends, a clean exit leaves nothing behind |
| `internal/config`, `internal/brightness`, `internal/optimize`, `internal/jpegenc`, `internal/artwork` | none | parsing, image processing | pure functions |

How they interact. `app` runs the HTTP server and the sync loop. A cycle of
`sync` takes the collection's gate, lets `sources` download and `optimize`
transform (admitted by `resources`), has `collection` commit the result, reads
`themes`, and calls `reconcile.Service.Run` for each TV with the one snapshot of
that cycle. Clients of `health` and `assistant` import through the same gate and
edit the same `collections.json` while cycles run. `reconcile` talks to its TV
through the adapter only (`Observe`, `Apply`) and keeps its record through
`durablefs.Replace`. The adapter owns the connection; a reader goroutine hands
replies to waiters through the pending table. Between two cycles, and between
any two steps of one, the TV's owner uses the TV.

What is hard here: a command whose reply is lost may have taken effect, or may
take effect later; the process may stop between a command and its record; a
write may fail or leave either version on disk; the owner acts between an
observation and the command planned on it; a full TV overwrites or refuses;
settle times race late uploads; a socket dies while a request registers; a
quota ends in the middle of a search; clients, cycle and shutdown wait for one
gate. PROJECT.json lists these hazards at their lines, each with the properties
aimed at it.

## 2. Modules

| Module | Models | Kind |
| --- | --- | --- |
| `ReconcileState` | the durable record and the pure functions that recover it (`execution.go`, `unresolved_upload.go`, `validate.go`) | operators |
| `ReconcilePlan` | the planner: retirements, fills, rotation swaps, removals, settings, power (`planner.go`, `rotation.go`, `capacity.go`) | operators |
| `Reconcile` | `Service.Run` step by step, the TV, its owner, faults and restarts | state machine |
| `MCReconcile` | the instance TLC checks (symmetry) | model checking |
| `ReconcileProofs` | lemmas about the record's operators, the inductive invariant of `Reconcile` and its theorems | proofs |
| `OwnershipProofs` | what the reconciler owns, removes and never forgets: its theorems and their invariants | proofs |
| `ScheduledWake` | the power-on at a wake boundary, before a run of `Reconcile` begins (`wake_schedule.go`) | state machine |
| `ScheduledWakeProofs` | its inductive invariant and theorem | proofs |
| `ArtworkCollection` | the artwork folder and its transactions (`internal/collection`), with the durable and the visible state of the file system | state machine |
| `ArtworkCollectionProofs` | its inductive invariant, its theorems and the refinement of `AtomicCollection` | proofs |
| `AtomicCollection` | what a collection promises: it changes at once, to what was proposed | abstract specification |
| `ArtConnection` | the pending table, the reader and the life of a socket (`connection*.go`) | state and actions |
| `SamsungAdapter` | `Observe`, `Apply` and `Close` over that connection, request by request, with the TV, its owner and other clients | state machine |
| `SamsungAdapterProofs` | the inductive invariant of the adapter and its theorems | proofs |
| `DurableFiles` | `internal/durablefs` system call by system call on a file system that forgets what was not synced | state machine |
| `DurableFilesProofs` | its inductive invariant, its theorems and the refinement of `AtomicFile` | proofs |
| `AtomicFile` | a file that changes at once, which `Reconcile` and `ArtworkCollection` assume | abstract specification |
| `Admission` | the resource controller | state and actions |
| `Themes` | the collections document, its updates and the selection of a day | operators |
| `SyncCycle` | one cycle after the other: folder, transforms, selection, TV workers, health | state and actions |
| `Requests` | uploads, the assistant's tools, previews and requested cycles | state and actions |
| `Manager` | the process around all of it: start, signals, shutdown, crash | state machine |
| `ManagerProofs` | the inductive invariant of the process and its theorems | proofs |
| `Providers` | the gates of web services and the request policy of each provider and of the museum search | operators |
| `SourcesLoader` | `Loader.Sync`: resolve, download, import, persist, over many cycles | state machine |
| `SourcesLoaderProofs` | the inductive invariants behind the credits of a sync and the requests to providers, and their theorems | proofs |
| `MCDurableFiles`, `MCManager`, `MCSourcesLoader` | the instances TLC checks | model checking |

How they are composed:

- `ReconcileState` <- `ReconcilePlan` <- `Reconcile` <- `MCReconcile`.
- Every module `...Proofs` extends the module it is about; `OwnershipProofs`
  extends `ReconcileProofs`.
- `ArtConnection` <- `SamsungAdapter`.
- `Themes`, `Admission` <- `SyncCycle` <- `Requests` <- `Manager` <- `MCManager`.
- `Providers` <- `SourcesLoader` <- `MCSourcesLoader`.
- `ArtworkCollection` instantiates `AtomicCollection`, `DurableFiles` instantiates
  `AtomicFile`, each with a refinement mapping (`Atomic`, `ControlIsAtomic`).

The layers meet at assumptions that another layer checks. `SyncCycle` takes a
store operation and a TV's run as one step: `ArtworkCollection` and `Reconcile`
take them apart. `Reconcile` takes the guard of `Apply` and its outcome as given:
`SamsungAdapter` shows `NothingBetween` and `ReceiptsAreTrue`. `Reconcile` and
`ArtworkCollection` take a control file to be replaced at once: `DurableFiles` shows
it. `ScheduledWake` stands by itself: it shares no state with the rest of a run,
only its place before it.

### Reconcile: correspondence with the code

`Service.Run` holds a mutex, so one `pc` describes it. A step ends where another
party can be seen: at an observation of the TV, at a durable write, at a
command. `disk` is the record's file, `mem` the `State` value the run carries.

| Code | Actions |
| --- | --- |
| `run`, first observation and `load` | `Begin` |
| `recover`, `resolveRecovery`, `parkUpload`, `settleUnresolvedUpload` | `Recover`, `Settle` |
| `buildPlan`, `planSnapshot`, the eligibility check | `Plan`, `SkipIneligible` |
| the command loop: fresh observation, replan, execute | `Execute`, `Reconsider`, `ObserveFails`, `Replan` |
| `stateStore.save` at each of its call sites | `Saved...`, `SaveFails`, `SaveOutcomeUnknown` |
| `mutationExecution.wait` | `Cancelled`, `SlowPacing` |
| `adapter.Apply`: guard, send, verify | `NotAuthorized`, `LinkDown`, `Refused`, `Unlisted`, `StorageFull`, `Applied`, `ReplyLost`, `AnsweredForAnother` |
| end of `run` | `Finish`, `SavedFinal` |
| `powerOffAfterFailure` | `GiveUp`, `FallBack`, `FallbackPowerOff`, `FallbackNotNeeded` |
| process stop, cancelled context | `Crash` |
| the rest of the world | `CollectionCommits`, `OwnerActs`, `LateUpload`, `SettleTimePasses` |

Abstractions, all in the direction of more behaviours unless noted:

- Digests and content IDs are model values; slideshow and brightness are one
  managed setting, as they share one recovery rule; the inventory fingerprint is
  the inventory itself.
- The order of commands within one group (by digest, or longest away first) is
  any order. Only the head of a plan matters, since the code replans after every
  command.
- Time appears as three facts: which pictures are due for rotation (`due`,
  chosen at the start of a run), whether capacity evidence has expired
  (`stale`), and whether the settle time of an upload in doubt is over
  (`settled`). Within one run the clock does not make a picture newly due.
- The adapter's fresh guard and the write of the command are one step. The TV
  could change between them in reality; nothing the client does could see that.
- The TV gives a new image a content ID nothing refers to any more, except when
  it overwrites an image while full (hazard `overwrites`). This is what the
  source assumes of content IDs; it needs `ContentIds` larger than the capacity.
- The settle time passes between two cycles and only once a transfer is over:
  that is the assumption stated at `unresolved_upload.go:12`. The action
  `SlowPacing` drops it for the one case in which the code's own wait is counted.
- After `Reconsider`, a fallback power-off uses the record in memory, as
  `result.State` does once the candidate's plan has been adopted.

Faults are named in the constant `Hazards`, and a behaviour meets at most
`Budget` of them: each run names the ones it is about. `overwrites` and
`slow-pacing` are properties of the TV and the configuration and cost nothing.

### ScheduledWake: correspondence with the code

`scheduledWake` runs inside `Service.Run` before the record of the TV is loaded.
`Begin` is the policy naming a boundary (`autoOnBoundaryAt`) and the first
observation; `LeaveAlone`, `SeenOn`, `DecideToWake` are the arms of its switch;
`NotAttempted`, `SendPacket`, `Verify` are `Apply` of a `Wake`, guard, packet and
polling; `Record` and `RecordFails` are `saveWake`. `handled` is the file,
`answered` a history variable: the boundaries a run sent a packet for or saw the TV
on at, without those of runs that were stopped or failed before the record.
Boundaries are numbered in the order of time;
`clock` is the one the last window opened at, and it may go back. What the TV
answers is one of four values, because the code treats a TV that does not answer
(presumed in deep standby) differently from one with an unknown state.

### ArtworkCollection: correspondence with the code

`Prepare`, `ImportBatch` and `Apply` hold the mutation channel of the store from
beginning to end, so one `pc` describes them; every step is one durable
operation. `fs` is what the file system shows, `durable` what a power loss leaves
of it. Recovery and the commit of an own transaction are the same code
(`recoverBatchTransaction`) and the same actions; `mine` tells them apart.

| Code | Actions |
| --- | --- |
| `acquire`, `recover`, `readJournal` | `Begin` |
| `prepare`, `planImports`, `planApply`: scan, lineage, plan | `PlanPrepare`, `PlanImport`, `PlanApply` |
| `keepOriginals` | `Keep`, `KeepRefused` |
| `cleanupBatchStages`, before the stages and after a failure | `RemoveOrphan`, `CleanDone` |
| `stageBatchAddition`, `writeJournal` | `Stage`, `WriteJournal` |
| `recoverBatchAddition`, `publishNoReplace` | `Publish`, `Unstage`, `AlreadyPublished`, `PublishRefused` |
| `writeManifest`, deletions, removal of the journal | `WriteManifest`, `Delete`, `DeleteRefused`, `Finish` |
| `commitPrepared`, `collectOriginals` | `Verify`, `Collect` |
| an error, with or without the change on disk | `Fails` |
| process stop, power loss, the owner | `Stop`, `PowerLoss`, `OwnerActs`, `OwnerRenames` |

Abstractions:

- Artwork is its digest and the digest of the original it was derived from (one
  original; a collage's second one adds nothing). Keys, sources, sizes and
  generations are left out, and with them the re-use of a renamed record whose
  key another file has taken.
- Looking at a file and the operation on it are one step (the check by digest and
  the removal; `os.Link` refuses an existing name by itself).
- `PlanApply` accepts what the image pipeline stages: what it adds is derived, no
  name changes its bytes, recorded lineage stays. Two names and two digests are
  enough for a picture that is replaced by one derived from it.
- Mutation and directory sync are one step when both succeed. `Fails` with
  `unconfirmed`, `unconfirmed-journal` or `unsynced` is the change without the sync:
  a failed sync (`ErrOutcomeUnknown`) or a stop between the two.
- The owner acts at most once in a behaviour, at any moment: adds, replaces,
  removes or renames. What the owner touched is exempt from `Recoverable` and
  `Survives`: the code refuses to touch it, and leaves the rest to the owner.

### ArtConnection and SamsungAdapter: correspondence with the code

Operations of an adapter hold `operationMu`, so one `op` and one `phase` describe
them; the reader goroutine, the TV, its owner and other clients take their steps
in between. `SendAndWait` is three steps (check, register, send) with the reader
free to act between any two. `listen` is the pending table: the reply listener and
`image_added`, each with its buffer of `PendingBuffer` messages.

| Code | Actions |
| --- | --- |
| `recvLoop`, `routeD2DEvent`, `failPending` | `ReaderReads`, `ReaderFails`, `ReaderFailsPending` |
| `Observe`: gates, device information, connection, inventory, settings | `BeginObserve`, `ReadDevice`, `Connect`, `ObserveInventory`, `SettingRead`, `FailObservation` |
| `Apply`: authorization, fresh guard, write, postcondition | `BeginApply`, `NotAuthorized`, `GuardInventory`, `WriteStage`, `MembershipRead`, `SettingRead` |
| `SendAndWait`, `Send`, timeouts | `CheckConnection`, `RegisterReply`, `SendRequest`, `ReceiveAnswer`, `StopWaiting` |
| `Upload`, `waitForImageAdded` | `Transfer`, `WaitForImageAdded` |
| `PowerOff`, `pollPostcondition` | `PressPowerKey`, `ReleasePowerKey`, `PollAgain`, `PollEnds` |
| `sendWakeOnLAN`, `Close` | `SendPacket`, `BeginClose`, `CloseSocket`, `CloseEnds` |

The generation an authorization carries is kept as `fresh`, equal to the adapter's
or not, since it never returns to an earlier value. One setting stands for
slideshow, brightness and matte, with the slideshow's two request names. The TV
starts on or off and showing one image. It goes to standby and comes back as it
likes (hazard `power`), and in standby it may drop the art channel or keep it.
An event of another client carries that client's request ID or, with the hazard
`uncorrelated`, none. An `image_added` without an ID is taken for the manager's own
(`AnsweredForAnother` of `Reconcile`, section 4); `strays` records the images announced
so, and `ReceiptsAreTrue` excepts them.

### DurableFiles: correspondence with the code

A step is a system call. `names` is the directory, `disks` every directory a power
loss may leave behind: a change of names reaches the disk by itself or with the
next sync of the directory, after earlier changes of the same names. `file` holds
the contents and synced contents of an inode, and a stamp for size and time.
`promised` is the version the last successful call vouched for. The model has
`path`, one `other` name and one temporary name, which is what each operation
touches; other programs create, replace and edit files between any two calls
(`OwnerAdds`, `OwnerEdits`), an edit changing the stamp.

### Manager, Requests, SyncCycle, Themes, Admission: correspondence with the code

| Code | Actions |
| --- | --- |
| `RunLoop`, `requestCycle` | `BeginCycle`, `Tick`, `Woken`, `LoopEnds`, `EndCycle`, `SyncNow` |
| `prepareCycle`, `prepareLocked`, `publishStage` | `AcquireGate`, `GateCanceled`, `LoadSources`, `LoadFails`, `QueueTransform`, `StartTransform`, `EndTransform`, `TransformFails`, `Publish`, `PublishFails` |
| `selectThemedArtwork`, `convergencePolicy` | `ReadThemes`, `ThemesFail`, `PolicyFails` |
| `syncAll`, `finalizeCycle` | `LaunchTV`, `StopLaunching`, `TVEnds`, `CollectTV`, `FinishCycle` |
| `processUpload`, `Import` | `StartUpload`, `Receive`, `TakeGate`, `Import`, `ImportRefused`, `ImportFails`, `GoneWaiting` |
| `addArtwork`, `reserveMember`, `releaseMember` | `StartAdd`, `Import`, `ImportJournalled`, `RecordKey`, `Release` |
| the assistant's other tools | `CreateCollection`, `UpdateCollection`, `RemoveCollection`, `LookUp`, `Look`, `RemoveFromCollection` |
| `Controller.Run`, previews | `Admit`, `Render`, `Rendered`, `GoneQueued`, and the operators of `Admission` |
| `Application.Run`, `shutdown`, `closeResources` | `Bind`, `Prepare`, `Stopped`, `ChildDied`, `Collect`, `Drained`, `FinishShutdown`, `Expire`, `CloseResources` |

Abstractions: the folder is a set of pictures and a store operation one step that
is done, refused, or fails with its journal written; a run of a TV is one step
that ends well or badly; a committed update of `collections.json` is one step
(the store's lock serialises them). New pictures reserved for
collections that are all off are in `promised`, until a client puts them into one that
is not, adds them in another way, or changes the collections by hand. Go's `select`
between the ticker and a cancelled context is either. Clients that are cut off by
a forced close are not followed further.

### Providers and SourcesLoader: correspondence with the code

`Sync` runs with the collection's gate held, so one `pc` describes it. A resolution
is a function of what the services know and of which of its requests are lost
(`broken`): every list search, page, object and manifest is one `Fetched`, which the
gate may refuse, the network lose or the service answer with 429. The five ways
the providers treat a failing request are operators: a list (`List`), one work
(`Single`), all pages or none (`Pages`), objects that are skipped unless the
service says no more (`Objects`), manifests that are skipped in any case (`Assets`).
`Museum` runs the museums' searches and merges what they found.

| Code | Actions and operators |
| --- | --- |
| `rateGate`, `fetchProviderJSON` | `Observe`, `Closed`, `Fetched` |
| `resolve`, `failureRetryAt` | `ResolveDirect`, `ResolveCached`, `ProviderAnswers`, `ProviderFails`, `Backoff`, `Doubled` |
| `syncLine`, `importSourceBatch` | `NextImage`, `EndLine`, `ImportBatch`, `ImportFails`, `AbandonLine` |
| `persistState`, `readSourceState` | `Persist`, `EndSync`, `StateGarbled`, `StartSync` |
| process stop, the owner, the sources file, the clock | `Stop`, `OwnerActs`, `SourcesEdited`, `TimePasses` |

Times are what is left of them, in units of the shortest backoff. Failures in a
row are counted as far as they lengthen the backoff. The searches of a museum
line run concurrently in the code, each behind a gate of its own, so their order
does not matter; one that runs out of time counts as one whose first request is
lost. A line stands for what it resolves to; `MCSourcesLoader` assumes, and TLC
evaluates, that this is what the providers return when nothing fails, and checks
the policies of all providers and the merge against plain definitions.

## 3. Runs

A run asks of one part of the system what can go wrong there. A violation run
shows a place where the code does not do what the repository says. In the
passing runs a hazard is left out where a property fails because of it, and only
there (section 4 lists them).

| Run | Question | Answer |
| --- | --- | --- |
| `Ownership` | With stops, failed and unknown writes, lost replies, a broken link, rotation, power-off and an owner at the TV: are intents on disk before they are sent, bindings true, nothing forgotten or uploaded twice, a parked upload given up only when it is absent, and does recovery always move on? | yes |
| `Rotation` | Does the deletion of owned art always leave another owned image, is an image of the owner's never removed while the owner uses the TV, is every saved record valid? | yes |
| `RunEnds` | Does a run end, and is a TV that shows art turned off although commands fail? | yes |
| `Converges` | Once the TV keeps showing art, does every desired picture end up bound on it? | yes, or the manager waits for the owner to explain an image |
| `Wake` | Is the TV woken once for a boundary, and not at all once it was seen on; and does an open window lead to a boundary on record, with owner, network, clock, stops and failed writes doing as they please? | yes |
| `Collection` | Can an interrupted collection update always be finished, and is it; is the committed collection never short of a file or an original, also after a power loss; does it change at once? | yes |
| `Adapter` | Is every waiter served while sockets die; does the TV carry out a command once; are receipts supported by the TV; is an authorization worthless after anything came between; is a failing TV left alone; does every operation end? | yes |
| `Durable` | Does what was reported done survive a power loss; is a foreign file never overwritten; are reads whole; is a control file atomic? | yes |
| `Manager` | With cycles, clients, the calendar, failures and shutdown interleaved: does hidden art stay hidden, is health true, is a clean exit clean, are places counted right? | yes |
| `ManagerLive` | Does a requested cycle come, and does a stop end the process, whatever clients do? | yes |
| `Sources` | Are providers left alone as long as they ask, is all art credited, does it come in the end although a quota is smaller than a search? | yes |
| `PrunedAfterUpload` | Does "nothing is forgotten" survive the owner removing a bound picture? | no: finding |

Bounds, and why they are enough.

- `Reconcile`: one to three digests, three to five content IDs, a TV with room for
  one to three images, two to five disturbances. Two digests are what a stolen
  content ID needs, three what rotation on a full TV with a last piece needs; two
  disturbances are what every known violation needs (the longest: a lost reply or
  a stop, then the end of the settle time), and a third lets two recoveries
  overlap. A larger TV adds images that behave like the ones already there.
- `Wake`: three boundaries, so that the clock can go back past one that was
  handled and one that was not.
- `Collection`: two names, two digests and two disturbances: an interruption and
  one of its recovery, an interruption and a power loss, or either with an act of
  the owner.
- `Adapter`: three operations (observe, apply, and one that finds what they left),
  three image IDs (one that was there, which `Initially` names, one stored, one of
  another client), a
  buffer of one message so that it fills up, a wire of one message, one
  disturbance. One cycle and one authorization slot: the later cycle and the
  second caller are what makes an authorization stale, which a further operation
  of the same caller does too.
- `Durable`: three calls (two that write and one that destroys), two versions, two
  disturbances, four inodes: one for each name and one a reader still has open.
- `Manager`: two TVs with one worker, two clients and two requests, one
  collection that is off or on for the second of two days, an empty folder with
  a limit of one picture, which refuses the next import, and one disturbance. A
  requested cycle makes a cycle come earlier, which the ticker does in `Manager`;
  `ManagerLive` has the requests, with one TV and the two kinds that wait for
  something. A folder the owner has filled beyond the limit is in neither.
- `Sources`: two of four lines at a time (a Met search, a museum search that shares
  its service, a NASA search, a direct URL), a Met quota of two requests where its
  search needs three, batches of two, a limit of four pictures, two disturbances.
  The cache outlives two cycles (`TTL` 3 against `MaxIdle` 1).

Deadlock checking is on but for `Durable`, `Manager` and `ManagerLive`, where
behaviours are bounded or the process exits.

Fairness. Only what a scheduler or a timer of the code provides:

- `Reconcile`: `WF(RunStep)`, as the process lives, cycles repeat on a timer and a
  run's next step is always taken; `WF(LateUpload)`, as a transfer is finished or
  dropped; `SF(SettleTimePasses)`, as the pauses between cycles add up to the settle
  time (strong, because a pause is entered again and again). `Converges` is
  conditional on the TV showing art for good, and allows `AwaitsProof`: an image
  nobody can explain appeared around an upload whose answer was lost, and the
  code waits by design until the owner resolves it.
- `ScheduledWake`, `ArtworkCollection`: the run's own step. A packet need not arrive.
- `SamsungAdapter`: the operation's step (each has a timer behind it), the reader,
  a TV that handles or ignores what it received, and `SF(PollEnds)`, as the deadline
  of a poll passes while it polls. No fairness for a TV that answers.
- `Manager`: the loop, the supervisor, the shutdown timer, the server's handlers,
  and the end of a TV's run, which the adapter's deadlines bound. None for a
  client that sends slowly.
- `SourcesLoader`: a sync takes its steps, the next line is taken, and time passes
  between two cycles (strong, since every cycle interrupts it). None for providers:
  disturbances are bounded, and what they leave behind must be overcome.

There is no fairness for faults, owners, clients or the collection's contents.

## 4. Known divergences

Confirmed by a violation run, in PROJECT.json: `PrunedAfterUpload`.

Seen by adding a hazard to a configuration, and left out of the passing runs:

| Hazard, configuration | Property that fails | What happens |
| --- | --- | --- |
| `uncorrelated` with `owner-adds`, `Ownership` | `BindingsAreTrue` | On a TV whose `image_added` carries no request ID the owner's picture, added during an upload, is bound as the manager's, against `protocol_upload.go:19-20`. |
| `overwrites`, `slow-pacing`, `Ownership` | `GivenUpMeansAbsent` | An upload that took over an owned content ID, or waited for its pacing longer than the settle time, is judged absent although it landed. |
| `overwrites`, `Ownership` | `BindingsAreTrue` | The same upload, when its answer is lost, or not recorded before the run ends: the image it took over stays bound to the picture it replaced. |
| `unlisted`, `Ownership` | `NoDuplicates`, `NothingIsForgotten` | An image the TV does not list at once is uploaded again. |
| `unconfirmed-journal`, `Collection` | `Recoverable` | The journal of a batch is on disk but its write was reported as unknown: the stages are removed and every later operation fails (`batch_transaction.go:56`). |
| `unsynced`, `Collection` | `Survives` | A file found in place is taken for kept although its directory was never synced (`originals.go:151`, `batch_transaction.go:139`). |
| `unreadable-renamed`, `Collection` | `LineageKept` | A derivative the owner renamed, unreadable at the next `Prepare`, loses its original (`prepare.go:70`). |
| `same-picture`, `Manager` | `HiddenStaysHidden` | Two clients add one picture; the first fails and takes back the membership both rely on (`tools_artwork.go:199`). |
| `journalled`, `Manager` | `HiddenStaysHidden` | An import that failed after its journal was written is completed by the next cycle, its membership undone (`tools_artwork.go:128`). |
| `unreadable-stale`, `Manager` | `HiddenStaysHidden` | `collections.json` cannot be read after a member was added; the older rules show it (`themed_selection.go:46`). |

Stated in the properties as exceptions:

- On a TV that announces images without a request ID, a receipt may name another
  client's image or one of an earlier upload whose announcement came late
  (`parseImageAdded` accepts both, `protocol_upload.go:52`); `ReceiptsAreTrue` excepts
  what is in `strays`. The second way was found by the proof: the invariant that
  excepted only other clients was not inductive, and TLC reached the case with
  four operations.
- An original is not kept for a derivative the owner renamed onto a name that a
  transaction under way gives to the same bytes derived from another original:
  two pictures became one file (`inventory.go:88`). `LineageKept` asks then that the
  record's own original is kept.
- A run of `ScheduledWake` stopped between the packet (`wake_schedule.go:102`) and its
  record (`:108`) may wake the TV again; `WokenOnce` excepts it.
- A stop, also an orderly one, or an unknown outcome of an import between the
  import and `persistState` loses the credit of artwork for good, as an image that
  is there is not resolved again to be credited (`loader_sync.go:155`); `AllCredited`
  excepts what is in `lost`.
- A museum line whose answer lacks one museum is cached as complete for 24 hours
  (`searcher.go:178`). As the Met's objects expire in the same time, a quota smaller
  than the search can keep the Met's works from the line for ever; `Filled` asks of
  a museum line only that some of its works are there. For the same reason the
  model takes the sync interval to be shorter than the cache (`MaxIdle < TTL`):
  with a longer one `Filled` fails for the Met search. A paged collection
  (`provider.go:142`) has no cache of pages and starves in any case when it needs
  more pages than the quota grants; no such line is in the instance.

Met in reading, without a model: `limitSnapshot` runs before the themed selection
(`collection.go:146`), although README.md:400 says that the limit applies to the
chosen pictures.

## 5. What is proved

`ReconcileProofs` proves, for all digests, content IDs, policies, capacities,
retry limits and hazards, with any budget:

- `TypeCorrect`: `Spec => []TypeOK`.
- `JournalFirst`: `Spec => []JournalledBeforeSent`.
- `ValidSaves`: `Spec => []SavesAreValid`.
- `NeverStuck`: `Spec => RecoveryNeverStuck`.

The argument is one inductive invariant, `IInv`, the conjunction of

- `TypeOK`;
- `InFlight`, which says for each `pc` what the pending command is and how far
  `mem` is ahead of `disk` (needed because `JournalledBeforeSent` speaks of one
  step only: the step before it must already carry the intent);
- `RetryBound`, which bounds the attempts (needed for `tries.n` to stay in its
  type: a retry is granted only below `MaxAttempts`);
- `ValidRecords`: both records pass `ValidState` (needed because recovery folds
  what an earlier run wrote).

`NeverStuck` adds `UploadsAlone`, that an upload is pending only while none is
parked, which follows from the planner: a parked upload blocks every command
that changes artwork. The lemmas about `Rebound`, `FoldApplied`, `Resolved`,
`Settled` and `Parked` stand first in the module. Assumptions: the named
`ASSUME`s of the modules, which every run evaluates.

`OwnershipProofs` proves the other safety properties of `Reconcile`, for the same
range of constants:

- `OwnersArtSafe`: `"uncorrelated" \notin Hazards => (Spec => OwnersArtStays)`.
- `LastPieceSafe`: `Spec => LastPieceStays`.
- `TrueBindings`: `"uncorrelated" \notin Hazards /\ ("overwrites" \in Hazards => AnswersRecorded) => (Spec => []BindingsAreTrue)`.
- `NothingForgotten`: `Orderly => (Spec => []NothingIsForgotten)`.
- `NeverTwice`: `Orderly => (Spec => []NoDuplicates)`.
- `GivenUpTruly`: `Orderly => (Spec => GivenUpMeansAbsent)`.

`Orderly` excludes the five hazards under which the code is known to lose track of an
image: `uncorrelated`, `overwrites`, `unlisted` and `slow-pacing` (section 4) and
`owner-removes` (the run `PrunedAfterUpload`). Crashes, failed and unknown writes, lost
replies, late uploads, rejections, lost links, a full TV and an owner who adds,
switches and tunes may all occur, in any number. `AnswersRecorded` excludes
`lost-reply`, `crash`, `save`, `unknown-save` and `uncorrelated`; with one of the first
four a TV that overwrites breaks `BindingsAreTrue` (section 4), so the theorem asks for
no more than it needs. No run checks that property on such a TV: there the theorem
stands alone.

The argument has these invariants beside `IInv`:

- `Claims`: each content ID a record binds or has from a receipt is, if the TV has
  it, an image of the manager's (and of that picture, on a TV that never overwrites).
  It holds of `mem` and `disk`, as a failed write or a restart may leave the run with
  either; what is mentioned by a record is never given to another image.
- `SparesOthers`: a deletion about to be sent is still what the planner planned: it
  names the image bound to its picture, with another owned one in sight. This is
  what `OwnersArtStays` and `LastPieceStays` need on top of `Claims`.
- `LInv`: `mem` and `disk` are each a `Ledger` of the TV. The manager's images and the
  upload that may yet land are bound or journalled (`Accounted`); what is bound is on
  the TV unless its deletion is journalled (`Present`); an upload in the journal was sent
  when no image showed its picture, and its receipt is true (`JournalTrue`). The rest
  says what the run knows of the TV: while it recovers, its observation shows all
  that the record mentions (`SeenEnough`); what is about to be sent has not happened
  (`NotYetDone`); no transfer is left when the settle time has passed
  (`NothingOnItsWay`); a parked upload leaves the journal by settling only
  (`ParkedUntilSettled`); and no binding is collected for pruning.
- `OnlyFoldingTakesOver` and `NothingInDoubt`, for a TV that overwrites while its answers
  are recorded: no operation outlives its run, and both records are right but for the
  receipt that is being folded. Its upload may have taken over the image of another
  picture, which the fold unbinds (`FoldRights`); until then the journal names it.

`Accounted` alone is not inductive: to give up a parked upload, the run must know that
nothing on the TV is that picture, which rests on what its observation saw, on what
was there before the upload, and on the settle time. A lemma for each operator on
records (`ResolvedLedger`, `ParkedLedger`, `SettledLedger`, `PreparedLedger`, ...) shows that it
takes ledgers to ledgers; TLC checked `LInv` on the instances of `Ownership` and
`Rotation` first.

`ScheduledWakeProofs` proves `WakesOnce`, `Spec => WokenOnce`, for any number of
boundaries, any hazards and any budget. `WokenOnce` speaks of the step that sends
a packet, so the invariant must carry two facts to that step: an answered
boundary is on record or is about to be (`Answered`), and a run that got as far as
sending has a boundary later than the record (`Ahead`).

`SamsungAdapterProofs` proves for all image IDs, cycles, slots, buffers, limits and
hazards:

- `AdapterTypes`: `Spec => []TypeOK`.
- `NobodyWaitsInVain`: `Spec => []WaitersAreServed`.
- `CarriedOutOnce`: `Spec => []TakenOnce`.
- `TrueReceipts`: `Spec => []ReceiptsAreTrue`.
- `FailedTVLeftAlone`: `Spec => []LeftAlone`.
- `NothingInBetween`: `Spec => NothingBetween`.

One invariant carries all six (`Inductive`): `TypeOK` and `LeftAlone` with

- `Shape`: which commands, stages and phases go together (a `delete` has a target,
  only an Apply in its verification knows a content ID);
- `Callers`: an Apply has its authorization, a fresh one has seen no write and
  excludes a backoff, and until the command is sent nothing has spoiled it;
- `Pending`: a reader that ends has closed the connection first and shuts every
  listener, and an exchange under way has a listener that is registered, shut or
  answered;
- `Once`: the TV has at most one unhandled effect of this Apply; none was
  carried out before the first write and none while an explicit rejection is on
  its way, so that the second request name is only tried on a TV that did nothing;
- `Traces`: what any queued message says of a stored image is the image stored,
  or a stray.

A step of the operation leads on in one of four ways, each with a lemma of its
own (an Observe or Apply returns, an observation fails, an Apply finishes, or it
moves to its next phase); reader, TV and owner are lemmas about the tables and
messages they touch. Assumptions: there is a cycle and a slot, the TV's first images are
images, and `None` is no authorization.

`DurableFilesProofs` proves for any number of inodes, versions, calls, failures and
acts of the owner:

- `ReportedSurvives`: `Spec => []Survives`.
- `WholeReads`: `Spec => []ReadsAreWhole`.
- `ForeignFilesSpared`: `Spec => NoClobber`.
- `ControlFileAtomic`: `Spec => ControlIsAtomic`, the refinement of `AtomicFile`.

Its invariant says for each system call what the call has achieved (`Progress`),
that the file being written is under no name in any directory a power loss may
leave (`OutOfSight`), that a file under the control file's name is whole in all of
them (`PathWhole`), what is promised now and would be again if the call failed
(`Promises`), and that the halves a reader holds are of one content unless the
stamp has moved on (`HalvesAgree`). The step of the argument is how one change of the
directory alters the set of directories a power loss may leave (`Changes`); for the
refinement each system call is shown to publish, to confirm or to stutter.

`ArtworkCollectionProofs` proves, for all names, digests, limits and budgets,

- `JournalRecoverable`: `Confirmed => (Spec => []Recoverable)`.
- `CollectionSurvives`: `Confirmed => (Spec => []Survives)`.
- `ChangesAtOnce`: `Confirmed => (Spec => Atomic)`, the refinement of `AtomicCollection`.
- `LineageStays`: `Traceable => (Spec => []LineageKept)`.

`Confirmed` excludes two hazards, `unconfirmed-journal` and `unsynced`, under which
`Recoverable` and `Survives` are false in the code (section 4); all others may occur.
`Traceable` excludes `unreadable-renamed` as well, under which `LineageKept` is false.
The invariant has two halves. `Filed` is about the disk: how far what the process
sees is ahead of what a power loss leaves (`Synced`), that the journal a power loss
leaves describes a change the folder is on its way through and whose stages are
safe (`Journalling`), and that the committed collection is in the folder (`Complete`).
`Phased` says for each phase how much of its transaction the operation has done:
what it no longer has to do is on disk. A lemma for every kind of durable change
shows `Filed` kept; a lemma about commits shows where the abstract collection changes.

`LineageStays` adds `LInv`, which follows each derivative from its name to the record
that keeps its original. A collection `Follows` a derivative that it records under
its name or, once the owner acted, under a name whose file is there with the same
bytes or was renamed away. The manifest follows every derivative, also the one a power loss may bring
back; the journal's transaction, and the one being prepared, `Carries` each: it
follows it, deletes it, or is blocked by it, as the owner gave the derivative a name
the transaction gives to other bytes and will therefore never come to its end. That
such a transaction does not get as far as the manifest is `Held`. An import must
add bytes of its own (`Fresh`), or a derivative renamed onto the name it adds would be
recorded there without its original. The lemma `PlanSees` shows that a listing of the folder
sees every derivative the manifest follows, which is where a rename is understood and
where an unreadable file may hide one.

The step of this proof that failed first was the witness of the property itself: it
took a derivative back into account whenever it was on record, also after the owner
had removed it, an import had given its name the same bytes as new artwork and a power
loss had brought the manifest before that import back. TLC showed the behaviour with
three hazards; now a derivative counts from the write of a manifest that records it.

`ManagerProofs` proves, for any number of clients, TVs, workers, pictures,
collections, requests and faults,

- `WithinLimits`: `Spec => []TypeOK`.
- `HealthIsTruthful`: `Spec => []Truthful`.
- `NothingLeftBehind`: `Spec => []CleanExit`.
- `KeptHidden`: `Sheltered => (Spec => []HiddenStaysHidden)`.

`Base` is inductive as it stands and has one part for each party: what a request
has with it at each stage (`ClientsOK`), the folder and the collections (`FolderOK`), who
holds the gate (`GateOK`) and the places for transforms (`PlacesOK`), how far the cycle is
with its TVs (`TVsOK`) and the supervisor with its children (`AppOK`). `CleanExit` needs
all of them: that nothing holds the gate after a clean exit follows only from where
each possible holder must then be. `HiddenOK` adds what `HiddenStaysHidden` rests on:
pictures that are promised are hidden by the committed rules once they are in the
folder or its journal, the rules in force are never older, and of a request that
adds a picture, that its release leaves the picture in another collection or out
of the folder (`AddingOK`). `Sheltered` excludes the three hazards of section 4 under which
the property is false in the code. The lemmas about `Reserved`, `Released`, `AddMember` and
`RemoveMember` say what an update does to one collection and that it leaves the others.

`SourcesLoaderProofs` proves, for all lines, catalogues, providers, quotas, batch sizes,
limits and hazards,

- `CreditsSaved`: `NoneIsNoState => (Spec => []AllCredited)`;
- `ProvidersLeftAlone`: `NoneIsNoState => (Spec => []Polite)`.

`NoneIsNoState` says that the constant `None` is not a record of the shape of a
state; as the constant is only there to mark that there is no state, any model
value will do.

Credits. A sync adds an image to the folder and its credit to the state in memory in one
step, but the credit counts only on disk, and the folder changes meanwhile. The
invariant `IInv` follows the credit: what the folder holds is credited in memory, or on
disk while no process has the state in memory (`CreditKept`); the two copies agree
in their credits unless the state is dirty (`CleanIsSaved`, needed because
`persistState` writes nothing that did not change); and pruning keeps what is owed,
as the origins a sync knows always include what is in the folder (`OriginsKnown`).

Requests. `PInv` has one part for the services and one for the lines. Of each service,
a process was never told to wait longer than its gate stays closed (`Webs`); every
operator of `Providers` preserves this, whichever requests are lost, from
`fetchProviderJSON` (`FetchedStays`) through the policies of the nine providers and the
museum search to `ResolutionStays`. Of each line, the entry in memory, and the
saved one for the next process, keeps it from its provider for as long as its last
answer and its refusals in a row ask (`Holds`). The entry also counts the failures of
a closed gate, which are no refusals, so the proof needs that the backoff grows with
the failures (`BackoffGrows`). Without a process only what was saved counts
(`SavedCounts`), and a state file that was given up holds back nobody (`DiskHolds`).
The shape of a line's query is the named assumption `QueryAssumption`.

The policies are folds over the hits of a line. The library defines a fold as a
choice among the functions that are given by their values on smaller sets. The
lemmas `Folded` (there is such a function) and `Chain` (what holds of its first value,
and of each one if of the one before, holds of the last) take sets and functions in
place of operators and are proved from the well-founded order of the naturals, so
each fold's proof can cite them. `DoubledIs` finds the recursive function
`Doubled` in the same way.

Only model-checked:

- The liveness properties `RunEnds`, `Converges`, `TurnsOff`, `WindowHandled`, `Recovers`,
  `OperationEnds`, `RequestServed`, `ProcessEnds` and `Filled`, which need fairness and
  `ENABLED` and are out of the prover's reach.
- What providers return, as opposed to whom they ask: the assumptions
  `CatalogueIsResolved`, `GatesRefuse`, `PoliciesDiffer` and `MergeIsExact` of
  `MCSourcesLoader`, which TLC evaluates.

## 6. Plan

Every safety invariant and action property of the passing runs has a theorem. What
is left beside liveness is modelling: two acts of the owner in one behaviour of
`ArtworkCollection`, which the derivative renamed onto a name still on record
(`inventory.go:88`) needs, and the parts of section 7.

## 7. Not modelled

- Dry runs and dry-run cycles, which change nothing; of the assistant, the tools
  that only read.
- The legacy migration, which runs once before the record exists. Read with the
  models in mind: a legacy mapping is looked up by the TV's address
  (`migration_service.go:46`), and `removeMigratedRecord` (`state.go:190`) removes the
  old file after the new one is written. Its deferred form and the unscheduled
  wake cannot be reached in the program: the cycle policy always names a boundary,
  and `scheduledWake` turns the power into Preserve before either is looked at.
- The Select command: the cycle policy never enables it, and an interrupted one is
  left for the operator by design.
- The TV's identity check, the file of the pairing token, the capabilities of
  models, and the migration of the record's file name.
- Of `collection`: the checks of contents and metadata (an error there ends the
  operation as `Fails` does), and the single-file transaction of older releases.
- Of `sources`: the parsing of responses, the choice of renditions, the pacing of
  the Met's requests, `TrackDownload` (a request whose failure is logged), and the
  daily refresh times of two sources.
- Pixel, codec and astronomical arithmetic (`optimize`, `jpegenc`, `artwork`,
  `brightness`): floating point over large data, out of TLC's reach.
- `config` and the construction of components in `cmd`: parsing and wiring.
