# A TLA+ model of twine.rs

twine.rs is a Twine editor with a Rust core. A story lives in three places at once:
a document session in Rust (with undo, redo and a dirty flag), the React state of
the Electron renderer, and a project folder on disk that text editors and version
control write too. This directory models what keeps the three in step: the
document session, the way an edit reaches the disk and is acknowledged, the
watcher that turns the writes of other programs into changes the user reviews,
the journals behind which files and whole folders are replaced or deleted, and
the way the application quits.

All paths below are relative to the root of the repository.

## 1. Inventory

### Components, their state and what makes them correct

| Component | Code | State | Operations | What must hold |
|---|---|---|---|---|
| Document session | `crates/twine_core/src/lib.rs` (`ProjectSession`) | project, current and saved fingerprints, dirty fields, undo and redo stacks, byte account, revision, applied delta ids | story commands, undo, redo, `acknowledge_saved`, `ingest_external_delta`, assets, hydration | dirty exactly when the document differs from the accepted baseline; undo and redo apply to the document they were recorded over; a revision names one document; a merge never overwrites an unsaved edit silently; a delta is applied once |
| Native project session | `src/electron/main-process/project-folder.ts` | baseline, candidate and its delivery state, epochs, local-mutation depth, rescan flags, timers | watch, poll, scan, save, baseline refresh, resolve | a candidate under review is replaced by nothing but its answer; own writes are not reported as external; generations advance; a deferred poll runs later |
| Renderer saves | `src/core/project-host.tsx`, `src/store/persistence/electron-ipc/stories/` | the session's FIFO, receipts of failed saves, save status, queued acknowledgements | apply a patch batch, save incrementally or as a whole, materialize, retry, acknowledge | the disk ends with the texts of the last edits; what failed stays retryable; what is accepted as saved is on disk |
| External delta queue and review | `src/store/native-project-delta-queue.ts`, `src/store/project-session-sync.tsx` | per folder: items, paused, running drain; remembered ids; reviews | enqueue, drain, pause, resume, clear; use disk, keep app, later | FIFO per folder, drains never overlap, nothing cleared is begun, every delta is begun, cleared or held by its own folder's review |
| Refactor plans | `crates/twine_core/src/refactor.rs`, `src/core/refactor-runtime.ts` | plans with a revision and a runtime epoch | plan, apply, evict | a stale plan is never applied; the store stays bounded |
| Asset effects | `project-folder.ts`, `asset-effect-capabilities.ts` | effect tokens, an effect journal outside the folder | copy, rename, replace, delete and their inverses | effect and model commit together or not at all; a token is used once |
| Replacement and deletion of projects | `project-folder.ts` | journals, staged and retired folders | prepare, swap, commit, recover | a crash between any two steps leaves the old project or the new one |
| File compare-and-swap | `project-folder.ts` | single-file and batch journals, displaced files | check, write, commit, roll back, recover | a file another program wrote is never lost; recovery is idempotent |
| Quit coordination | `ipc.ts`, `persistence-quit-coordinator.ts`, `renderer-quit-quiescence.ts`, `project-host.tsx`, `editor-window.tsx` | the request and its nonce, drain state, the pending flushes, the admission of the project host, an editor's pending and failed texts | request, drain, reply, time out, cancel, exit | no quit with unsaved text, no renderer locked for ever, a user who keeps asking gets to quit |
| Web storage | `src/store/persistence/local-storage/` | stories in localStorage, replacement recovery record | save, replace, recover | a story is replaced as a whole or not at all |
| WASM client and worker | `src/core/wasm/` | pending requests, scan generations | query, cancel, restart | an answer is for the request and the revision that asked |
| Project library and hydration | `src/store/project-library-service.ts`, `state-loader.tsx` | hydration leases | open, hydrate, switch | late hydration never overwrites an edit |
| Preview windows | `story-preview-window-manager.ts` | windows with generations | open, reload, close | a command reaches the window it was meant for |
| Parsing, graph, search, export | `crates/twine_parse`, `twine_graph`, `twine_search`, `twine_export` | none of their own | pure functions | sequential algorithms |
| Windows, routes, library files, preferences | `src/routes`, `story-file.ts`, `scratch-file.ts` | presentation, small files | - | - |

### How they interact

An edit is a command to the Rust session, run in the WASM worker. Its result is a
patch batch; the project host publishes it to React and dispatches it to the
persistence middleware, which queues one save per batch in a FIFO per session. A
save is an IPC call to the main process: either the touched passages, compared with
the accepted baseline and swapped, or the whole story. When it returns, React gets a
save status; an effect of the app shell turns that status into
`acknowledge_saved(revision)`, and the Rust session accepts its document as saved
when the revision is still the current one.

In the other direction the native session scans the folder when the watcher, a timer
or a resolution asks it to. What differs from the baseline becomes a *candidate*, a
lease on the next generation. The renderer feeds it to the Rust session, which merges
it or reports conflicts; the user answers those (use disk, keep app, later). The
answer goes back to the native session, which moves its baseline.

### What is hard

* Every `await` of the main process is a point where the watcher, a timer, another
  save or an answer may run. Saves of one folder are not serialized there.
* The renderer's save status is a slot of its own, read by an effect React may run
  late; acknowledgements wait in a mutation queue; edits go on meanwhile.
* A save carries the texts of its own batch and an acknowledgement accepts the whole
  document: the two agree only as long as no save in between failed.
* Caches are patched instead of recomputed: fingerprints and dirty fields, the byte
  account of the history, the baseline after an incremental save.
* Files are exchanged with programs that take no lock; a crash may fall between any
  two steps of a journal.

`PROJECT.json` lists the places one by one under `hazards`, each with the properties
that would catch it going wrong, or the reason there is none yet.

## 2. The modules

### ProjectSession

One story and its passages; a *field* is an attribute of either, the unit the code
fingerprints. A fingerprint is the value it hashes. The session is single threaded,
so every action is a whole method.

| Model | Code (`crates/twine_core/src/lib.rs`) |
|---|---|
| `project` | `Project` |
| `current`, `saved`, `dirtyFields`, `dirty` | `current_fingerprints`, `saved_fingerprints`, `dirty_fields`, `dirty` |
| `undoStack`, `redoStack`, `historyBytes` | the two stacks and the byte account of `push_undo`, `clear_redo` |
| `revision` | `next_transaction_id` |
| `Commit` and the commands over it | `apply_with_history` and `apply_command` |
| `Undo`, `Redo`, `AcknowledgeSaved` | the methods of those names |
| `IngestExternalDelta` | `ingest_external_delta`, with `external_conflicts` and the field patterns |

A passage is identified with its name, so a link names a passage; a text is a set of
links and nothing else. Passages that come and go with a link are modelled. Deltas
of one story replace whole entities, as `ProjectDelta::between` does.

### NativeSession

Any number of files, savers and asset effects beside one session. A content is a
fresh version per edit, so equal contents are the same edit: this is what the
SHA-256 digests of the code decide. Functions without an `await` (a poll up to its
first one, `requestProjectSessionRescan`, `resumeProjectSessionRescan`,
`finishProjectSessionLocalMutation`) are operators from one session state to the
next; each stretch of code between two awaits is an action.

| Model | Code (`src/electron/main-process/project-folder.ts`) |
|---|---|
| `session` | `ProjectSessionState` |
| `DebouncedPoll`, `IntervalPoll`, `PollAfterResolution` | the three timers that end in `pollProjectSession` |
| `StartScan`, `ReadManifest`, `FinishScan` | `pollProjectSession` and `readProjectSessionDelta`, split at the read of the manifest |
| `BeginSave`, `RefuseSave` | `beginProjectSessionLocalMutation`, `reissueDeferredProjectSessionCandidate` |
| `WriteIncremental`, `FailIncremental`, `PatchBaseline`, `FinishIncremental` | `writeProjectFolderIncremental` |
| `WriteFull`, `ReadSnapshot`, `InstallSnapshot` | `writeProjectFolder`, `refreshProjectSessionBaseline`, `installAcceptedProjectBaseline` |
| `BeginAssetEffect` | `copyAssetToProject`, `renameProjectAsset`, `replaceProjectAsset`, as writers |
| `BeginKeepApp`, `BeginAcceptDisk`, `Dismiss` and their steps | `resolveProjectSessionConflicts` |

Other programs (`ExternalWrite`) and the renderer's edits (`AppEdit`) are the
environment. The watcher may report any path at any time, with or without a cause,
and need not report a change at all.

### DocumentSaves

One session of the renderer. An edit of an editor window waits for its save
(`barrier`) and is retried from a receipt when it failed; undo, redo and replace do
not wait; a structural change is saved as the whole story.

| Model | Code |
|---|---|
| `queue`, `StartSave`, `Dequeued` | `runSessionSave` and `queueSessionSave` in `save-middleware.ts` |
| `Apply` | `applySessionPatchBatch` in `project-host.tsx` |
| `PersistedEdit`, `PlainEdit`, `BroadEdit` | `applyStoryCommandPersisted`, `undoThroughWasm`, and the hints that ask for a whole-story save |
| `work`, `Materialize`, `RematerializeOnce`, `FailMaterialize` | `materializeStorySnapshotFromSession`, which retries once when the revision moved |
| `FallBackToFull` | the `full-save-required` answer in `save-story.ts` |
| `receipts`, `Registered`, `Cleared`, `RetryPersistence` | `failedPersistenceByTarget` and the functions around it |
| `status`, `NotifySaved` | the save status of `stories-context.tsx` and the effect of `app-shell.tsx` |
| `acks`, `Accepts`, `AcknowledgeSaved` | `acknowledgeSaved` of the host and `ProjectSession::acknowledge_saved` |

The main process is the disk here: a save writes what it was sent or fails, and every
refusal (an error, a candidate under review, a changed file) is one failure. An editor
window chains its commits, so it has one persisted save per passage in flight
(`AwaitsSave`). `failed` and `wrote` are history variables.

### DeltaQueue and DeltaChannel

The renderer's queue of external deltas. A queue object is created when a delta
arrives for a folder that has none, and retired when its session closes or its drain
runs dry; the identities of `Queue` are reused once nothing refers to them.

| Model | Code (`src/store/native-project-delta-queue.ts`, and `project-session-sync.tsx` for the stop) |
|---|---|
| `queues`, `roots`, `working` | the `RootQueue` objects, the map `roots`, and a drain that awaits `process` |
| `seen`, `Remember`, `ForgetRoot` | `seenOrder` with `seenIds` and `seenRoots`, `remember`, `forgetRoot` |
| `clearing`, `draining` | the map `clearing`, and the promises of `clearRoot` that have not settled |
| `Enqueue`, `Resume`, `ClearRoot` | `enqueue`, `resume`, `clearRoot` |
| `ScheduleDrain`, `ScheduleWaiting`, `waiting` | `scheduleDrain` and the callback it leaves with the clearing promise |
| `Drain`, `Looped`, `RootsAfter`, `Settle` | `drain`: its start, the head of its loop, its end, and what follows when `process` settles |
| `FinishClearing` | the `finally` callback in `clearRoot` |
| `stops`, `StopSession` | the cleanup of a folder's session, which stops the native side after `clearRoot`'s promise |

`process` is the environment: it continues, pauses or throws, when it likes.
`DeltaChannel` is the promise, in the words of
`docs/architecture/persistence-and-watching.md:68`: one FIFO processor per folder, which
a review holds. Dropping a channel takes effect at once, while the worker may still
be busy. `DeltaQueue!Channel` maps the current object of a folder to its channel, and
the one drain that runs for a folder, of the current object or of a retired one, to its
worker.

### SessionLifecycle

What surrounds that queue: the native session of one folder, from its start by a mount of
the renderer to the stop its cleanup sends, and what becomes of each delta in between. The
queue here is the channel of `DeltaChannel`, step by step (`UsesChannel`), so what
`DeltaQueue` implements is what this module builds on. Calls to the main process, its
answers and its notifications keep the order they were sent in (`calls`, `wire`).

| Model | Code (`src/store/project-session-sync.tsx`, and `ipc.ts`, `project-folder.ts` for the main process) |
|---|---|
| `native`, `pending`, `deferred`, `HandleStart`, `AnswerStart`, `HandleStop`, `HandleResolve` | `startProjectSession`, `stopProjectSession`, `resolveProjectSessionConflicts` and the listeners of a session |
| `MountFolder`, `UnmountFolder`, `CleanUp`, `StopDrained`, `SettleCleanup` | the effect of a folder and its cleanup |
| `PreviousSettled`, `StartSession`, `ReceiveStart`, `RecordStart`, `EndStart` | `startTask`, which waits for the cleanup before it, and the answer to its call |
| `ReceiveNote`, `RecordNote`, `buffered`, `records` | the notification of a delta, buffered while its session starts, and `recordExternalSession` |
| `IngestFails`, `IngestConflicts`, `Ingest`, `ReceiveAcknowledgement` | `process`: ingestion, the review it may begin, the acknowledgement tried three times |
| `Answer`, `AnswerIngests`, `ReceiveAnswer` | use disk, keep app and later |

`late`, `unmarked`, `stray` and `merged` are history variables; three of them name
departures of the code (section 5), which the properties except.

### ProjectFileSwap

How a save replaces source files that other programs may write at any moment: each file
through a claim (rename it away, compare it, link the staged file in its place), two files
behind a journal, and the recovery when the folder is next opened or saved. A path and the
inode it names are kept apart, because a hard link makes the target and the staged file
one inode.

| Model | Code (`src/electron/main-process/project-folder.ts`) |
|---|---|
| `BeginSave`, `WriteClaimJournal`, `ClaimOne`, `VerifyClaimOne`, `InstallOne`, `RestoreOne`, `FinishOne` | `compareAndSwapProjectFile` |
| `OpenStaged`, `WriteStaged`, `WritePrepared`, `Claim`, `VerifyClaim`, `Install`, `CheckInstalled`, `WriteCommitted` | `compareAndSwapProjectFiles` |
| `RecoverStaging`, `RecoverPrepared`, `RestoreClaim`, `VerifyRestored`, `FinishRollback`, `RecoverCommitted`, `RecoverSingleClaim`, `VerifyRecoveredClaim` | `recoverInterruptedProjectFileClaims` and what it calls, by the phase of the journal |
| `CleanUp`, `ClearJournal` | the removal of claims, staged files and the journal |

`Crash`, `WriteOver` and `Delete` are the environment, and `Fault` makes the call of the
current step fail. `Fault` at `WriteStaged` may leave a torn file.

### CohortChange, ProjectReplacement and ProjectDeletion

`CohortChange` is what both transactions promise: the folders of a cohort change together,
in one step that nothing splits or takes back, and a caller that is told "committed" or
"restored" is told the truth. `ProjectReplacement` (an import that replaces several
projects) and `ProjectDeletion` (one folder) implement it. The refinement mapping `kept`
is the crux: which revision *will* be there once everything is settled. For a replacement
it is the new one from the write of the cohort's decision on, which any member's journal
carries; for a deletion it is decided by the journal's phase and, once there is no
journal, by what is on disk.

| Model | Code (`src/electron/main-process/project-folder.ts`, `ipc.ts`) |
|---|---|
| `Begin`, `CopyRoot` ... `WriteInstalled`, `Register` | `beginProjectReplacement`, each rename and journal write a step |
| `Decide`, `MarkCommitted`, `Finalize`, `EndCommit` | `commitProjectReplacements` |
| `Rollback`, `Restore`, `MoveBackupBack`, `RestoreStaging` | `rollbackProjectReplacement` |
| `LookForRoot`, `MoveAside`, `Trash` | the quarantine and the disposal of a root |
| `StartRecovery`, `RecoverMember`, `DecisionRecovered`, `RecoverJournal` | `recoverProjectReplacementTransactions` |
| `Begin`, `Forget`, `VerifyRoot`, `Stage`, `WriteStaged`, `AbortUnstaged` | `beginProjectFolderDeletion` |
| `Commit`, `Decide`, `Finalize`, `Look`, `MoveAside`, `Trash` | `commitProjectFolderDeletion` and the disposal |
| `Rollback`, `Restore`, `Relist`, `Abandon` | the two ways a deletion is rolled back: by the renderer, and because its window went |
| `StartRecovery`, `LoadStories` | `recoverProjectDeletionTransactions`, then the loading of the library |

A tree is compared as a whole, as the manifests do. `Crash`, `Edit` and `Fault` strike at
any step. The constant `RollsBackDecided` of `ProjectReplacement` says whether a rollback
may be asked for a member of a cohort that is decided: the code allows it (section 5), and
with it the refinement is false, so the passing run sets it to FALSE.

### QuitCoordination

The main process, the renderer's quit coordinator, the project host and the editor
windows, from `before-quit` to the exit or to the renderer that is open again.

| Model | Code |
|---|---|
| `Quit`, `ReceiveReply`, `Timeout`, `Abort`, `Exit`, `ExitFails` | `before-quit` and the quit request in `src/electron/main-process/ipc.ts` |
| `BeginDrain`, `Quiesced`, `Drained`, `Reopened`, `Cancelled` | `persistence-quit-coordinator.ts`, over `renderer-quit-quiescence.ts` and the drain of `project-host.tsx` |
| `Type`, `TimerCommits`, `Dispatch`, `Save`, `FailSave`, `NextCommit`, `Flushed` | the text buffer of `editor-window.tsx`, with its debounce, its chain of commits and its flush |
| `EditDirectly`, `DispatchDirect`, `SaveDirect`, `FailDirect` | an edit whose save nobody waits for |

A request and a cancel carry a nonce, and messages may be read long after they were sent.
`LoseRenderer` and `Reload` take the renderer's memory away.

Operators and actions named `Name_Change` are variants of `Name` with a plausible bug;
they are used by no specification, only to see that the properties notice it.

## 3. The runs

| Run | Question | Bounds |
|---|---|---|
| `core_session` | Do undo, redo, eviction and merges keep the history applicable and accounted for, the dirty fields exact, the start passage resolvable, and unsaved edits untouched by automatic merges? | two passages, two texts (one links to the other passage), deltas of one change, three revisions above the first, two entries and seven bytes of history |
| `native_lease` | Is a candidate replaced by nothing but its answer, are the app's writes never reported back, and is every external change in the end resolved? | one file, two saves, three versions, answers keepApp and acceptDisk |
| `native_assets` | What remains of this beside asset effects, refused saves and reviews that are put off? | one asset and one effect at a time, one save that writes none of the watched files, two versions |
| `saves_settle` | When no save is refused, does the disk end with the newest texts and the document clean? | two passages, two texts, four edits of all three kinds |
| `saves_retry` | When saves fail and are retried, is what failed retryable and nothing overwritten by an older text? | two passages, three texts, three edits, two failures, fallback to whole-story saves |
| `delta_queue` | Do the queue objects of a folder, retired and replaced, amount to one FIFO channel, does a stop wait for the running drain, is the memory of ids exact, and does nothing wait for ever? | two folders, two deltas of one and one of the other, three queue objects, two remembered ids |
| `lifecycle` | A folder mounted, mounted again and unmounted while its session starts, reports, merges and reviews: are the sessions kept apart, is nothing accepted that was not merged, is every delivered change resolved or shown, and does the native session follow the mount? | two mounts, three sessions, two deltas, one answer, three failing calls |
| `file_swap` | Saves of one and of two files, with crashes, a failing call and other programs: are no foreign bytes and no baseline lost, is a batch whole or undone, does the journal go? | two files, two crashes, one failing call, two foreign writes |
| `replacement` | Is a cohort of projects replaced in one step, is no revision lost that is still wanted, and does the app start again? | two projects, two crashes, one failing call, one foreign change |
| `replacement_decided` | Does the code refuse to roll a decided replacement back? It does not: section 5 | two projects, no failures |
| `deletion` | Is a folder deleted in one step, is only what the user deleted trashed, and do library, renderer and disk agree in the end? | two crashes, two failing calls, two foreign changes |
| `quit` | Does the app exit only with every text on disk, or open everything again, and does a user who keeps asking get to quit? | two editors, three edits, one failed save, one late drain, one lost renderer |

Why the bounds are enough. History: seven bytes hold one edit and not every pair, two
entries are exceeded by the third command, so both limits evict, and a redo stack is
cleared while it holds bytes. Merging: a delta of one change deletes a passage or
changes one, over a local edit made two revisions earlier; deltas of two changes and
commands outside the history are covered by the theorems only. Native session: two versions make a file differ from the
baseline and change again while a scan or a save is under way; one saver with two
attempts reaches a save during a scan, a scan during a save, and a refusal. In
`native_assets` the saver writes none of the watched files (`Path` is empty): it takes
the local mutation and reads the files again, which is all of a save that an asset can
notice. Two concurrent savers are left out of the runs on purpose: the renderer's FIFO
allows one save per folder, and section 6 says what happens otherwise. Saves: a materialization
fails on its second attempt only after two edits that follow the one it saves, which
four edits allow, and a receipt can be superseded twice with three texts. Delta queue:
three identities are a current object, a retired one still drained and another waiting
for it; two deltas of one folder can be reordered, and two remembered ids over two
folders make one folder's ids evict the other's. Lifecycle: two mounts are the old one
and the new one that waits for its cleanup, three sessions add the one that a hydration
opens before the first mount, and three failures are what a delta's acknowledgement gives
up after; its safety was also checked with three mounts and with three deltas. File swap:
the second crash falls into the recovery from the first, and two foreign writes put back
what they took away. Replacement: with two projects one is decided or disposed of while
the other is not, and the second crash falls into the recovery. Deletion: the same, and
the two foreign changes can hit two of the three places. Quit: two editors are one that is
flushed and one that still commits, and with three edits an editor types behind a commit in
flight that is behind another.

Deadlock is not checked: an idle editor may stop, and the bounded runs stop at their
bounds.

### Fairness

`NativeSession!FairSpec`: whatever awaits the disk is answered (`ReadManifest`,
`FinishScan`, the steps of a job), the interval timer keeps firing, and the user
answers a review that is shown, because the review is modal to saving. The watcher
owes nothing: it may miss every event.

`DocumentSaves!FairSpec`: the promise chain of a save goes on, React runs its effects
and the host its mutation queue. Nobody is obliged to edit, to retry or to undo, and
no answer of the disk is owed but that of the save in flight.

`DeltaQueue!FairSpec`: `process` settles, and a settled promise runs its callbacks.
Nobody is obliged to deliver a delta, to answer a review or to close a folder: a paused
folder may stay paused, which `NothingStuck` allows for that folder only.

`SessionLifecycle!LifecycleFairness`: each process handles the messages it
got, promise chains go on, and a call is answered, with an error perhaps. Nobody owes a mount, an external
change or an answer to a review.

`ProjectFileSwap`, `ProjectReplacement` and `ProjectDeletion`: the process goes on with
the work it began, and a process that is down or refused to start is started again (a
user does that); crashes are bounded, so one start lives long enough to finish.

`QuitCoordination!Fairness`: the renderer and the main process handle their messages,
commits and saves go on, and a lost renderer is loaded again. The user need not ask to
quit, nor a timeout happen; `QuitsInTheEnd` is about a user who keeps asking.

## 4. What is proved

The eight proof modules hold for every value of the constants that meets the named
assumptions of the modules: any number of passages, files, savers, versions, texts,
edits, folders, deltas, queue objects, mounts, sessions, editors, crashes and failing
calls.

`ProjectSessionProofs` has the inductive invariant `TypeOK /\ DirtyExact`: to see that
the dirty fields stay exact one needs that the fingerprint cache equals the document,
and to see that patching the touched fields is enough, that a history delta covers
every field in which its documents differ (`TouchedCovers`) and that replaying one side
of it changes no other. From it follow `TypeCorrect`, `DirtyCorrect`,
`RevisionsNameContent` and `MergesKeepLocalEdits`; `DeltasAppliedOnce` adds that ids
are remembered only after they were looked up. `HistoryBytesExact` is about folds: what is
added to a fold over a stack, taken off its end or evicted at its front changes the bytes by
just that (`StackBytes`). For `HistoryLeadsBack` the invariant has the documents a stack
leads back through, one for each number of entries undone (`Leads`, `UndoChain`): a new
entry or an undone one only shifts them, and an eviction drops the oldest. The prover cannot
instantiate the library's induction theorems, which take an operator; a fold has its value by the least number for which it would not (`LeastNumber`,
from the well-foundedness of `<` on the numbers). `HistoryLeadsBack` and
`StartPassageStays` assume that every command is recorded (`RecordModes = {TRUE}`, as the
commands of the editors are, and as in the run): a command outside the history changes the
document under the stacks.

`NativeSessionProofs` proves `TypeCorrect`, with the strengthening that every job
belongs to the right actor (`JobsOwned`) and that the depth counts the saves in flight
(`DepthCounts`), and `LeaseGeneration`, with asset effects and put-off reviews included.
The other four theorems assume that no asset effect runs and that no review is put
off (`AssetPath = {}`, `"dismiss" \notin Resolutions`), without which they are false
(section 5). Their inductive invariant `Leased` says why the lease works: while a
candidate is pending it is under review, no scan and no save runs (`QuietUnderReview`),
the only job is a resolution of that very candidate, and its refresh is the newest one
(`ResolvesPending`), and its id is fresh (`FreshIds`). `LeaseHeldThroughReview`,
`ResolvedLeaseReleased` and `GenerationsInOrder` follow, for any number of savers.
`OwnWritesStayOwn` needs besides that one save is in flight at most (`OneSave`): the
renderer's FIFO sees to that, and section 6 says what two saves do. Its invariant `OwnInv`
says of every file what it may hold. It is the version of another program, or what the
baseline has, unless the job in flight wrote it and has not brought the baseline up to date
(`BaselineAccounts`); so for the files a refresh is about to install (`SnapshotAccounts`),
which no newer refresh overtakes (`SaveRefreshNewest`), and for those of the candidate that
an answer makes the baseline (`CandidateAccounts`); and a scan that nothing overtook looks
at the current baseline while no save runs, so that what it found changed is the work of
another program, even when it was changed again before it is read (`ScanAccounts`).

`DocumentSavesProofs` proves `TypeCorrect` for all three kinds of edit, with the
strengthening that a save somebody waits for has the text of every passage it is about
(`BarrierTexts`), which is where a receipt takes its text from. `NewestTextOnDisk`,
`FailedTextNotLost` and `AcceptedTextOnDisk` assume that every edit waits for its save
(`Mutations \subseteq {"persisted"}`): a save nobody waits for leaves stale receipts
behind (section 5). Their inductive invariant `SavedInv` says why the FIFO is enough: every queued save carries the
document's text of its one passage and no two save the same passage (`QueueOfTexts`),
nothing written, refused or acknowledged so far is as new as a queued edit
(`RevisionsInOrder`), a receipt holds the text its passage has now, unless an edit of it
is queued (`ReceiptsOfTexts`, `FailedTextRetryable`), a fallback to the whole story
writes newest texts or ones a queued edit will replace (`WorkOfTexts`), and a passage
whose last save did not fail is on disk or queued (`DiskOfTexts`).
`NewestOfMixedOnDisk` and `AcceptedOfMixedOnDisk` are about edits of every kind, with any
number of queued saves of one passage. They assume that no receipt can be retried
(`NoReceipts`: nobody waits, whichever saves fail or fall back, or no save is refused and
none falls back), since a stale one brings back an old text. Here only the last queued save
of a passage need carry its newest text (`QueueEndsNewest`), a call in progress may write an
older one if a later save follows (`CallEndsNewest`), and the FIFO keeps the revisions in
order (`SavesInOrder`), so that an accepted revision leaves nothing queued.

`SessionSyncProofs` proves, of the queue, the invariant `QueueInv` and from it
`OneDrainPerFolder`, `StopsAfterDrain` and the refinement `QueuesImplementChannel`. The code keeps no list of
drains, so the invariant says where one can be: a drain runs for the current object of a
folder that waits for no clearing, or for the retired object which the folder's entry in
`clearing` names (`WorkersAttached`); that entry names an object whose promise is
pending (`ClearingRetired`), and so does the stop of a folder being cleared
(`StopsWait`). Two drains of one folder would contradict the first. For the refinement
each action is one step of the channel or a stutter; the action that gives a delta to
`process` is the case distinction of the proof, since one call may accept, begin and
delete the queue object. `MemoryIsExact` is about sequences: what a folder remembers and
what was enqueued for it are two ends of one sequence (`EndsAlike`), which appending to
both, evicting the oldest id and dropping the ids of a folder, a fold, all keep.

The second half of `SessionSyncProofs` is about `SessionLifecycle`, whose names are
distinct from those of `DeltaQueue` so that one module can be about both. It proves the
invariant `LifecycleInv` and from it `SessionsStayApart`, `ReviewsHoldFolders`,
`AcceptedWasMerged`, `MergesBeforeStop` and the refinement `LifecycleUsesChannel`, for any
number of mounts, sessions, changes, answers and failing calls. Three parts say who may
still act. A mount has one start and one stop under way at most, the queue and the answer
of the user one call each, and what is under way is waited for (`Messages`); the mounts
take turns: one begins when all before it have settled (`Turns`), the rule of `startTask`
that keeps the stop of an old mount from reaching the session of a new one. From these the
session a mount has started runs and is heard until the mount's own stop (`SessionRuns`),
so that what is queued is of the active session or `late` (`OwnSessionOnly`). The delta
that `MergesBeforeStop` is hardest for is one whose queue was dropped while it was
processed: its session still runs, because the cleanup that dropped it waits for it and
every later cleanup waits with it (`DrainHolds`). `AcceptsMerged` follows an acceptance
through the calls, the retries and the answers, and `Reviewed` says that there is one
review at a time, which is the answer's, until an answer outlives its session. For the
refinement each step is a step of the channel of `DeltaChannel` or a stutter; with
`QueuesImplementChannel` the two halves meet in that abstract specification.

`ProjectDeletionProofs` proves the invariant `IInv` and from it `TypeCorrect`,
`VersionsKept`, `SettlesOrLocks` and the refinement `DeletionIsRemoval`. The safety of the
folder rests on there being one copy of it (`OneCopy`): once it is in the trash no place
holds a copy, so that no new deletion begins (`Whereabouts`), and while the journal may be
undone the copy is at the root or staged (`Journal`). The refinement says that `Deleted`,
which is computed from the journal, the disk and the library, never becomes false again
and is what the renderer is told: a worker that restores runs only while the deletion is
undecided, one that disposes only after the journal says so, and then the root is gone
and unlisted (`Decision`, `Settlement`). These two are claimed up to the step at which a
window goes while its commit runs (`abandoned`), where the code starts a rollback that
races the commit (`ipc.ts:722`); the other parts hold beyond it. Each step leaves the
decision alone, takes it, or tells it.

`QuitCoordinationProofs` proves the invariant `IInv` and from it `TypeCorrect`,
`ExitsWithText`, `PreparedStaysQuiet` and `OpenTakesText`. Its argument follows the text.
For each editor, no commit and no kept text is newer than what was typed, and what was
typed last is newer than every commit until it is dispatched (`CommitsBehind`); a text kept
after a failure is the newest, or a newer one has still to be dispatched (`KeptIsNewest`);
and the newest text waits for its dispatch, or is kept, or is the last one in the chain of
commits, or is on disk, an overtaken editor excepted (`NewestSomewhere`). While the
renderer drains, the quiescence waits for every commit in progress and the host for every
admitted one (`FlushInv`), so that a renderer that is prepared has nothing pending, kept or
chained (`PreparedIsQuiet`) and the newest text can only be on disk. That it is still
prepared when the app exits needs the nonces: no message is newer than the last request,
and while the main process waits, flushes or has exited, that request was not cancelled and
a yes to it comes from a renderer that has not opened since (`Asking`).

`ProjectFileSwapProofs` proves the invariant `IInv` and from it `TypeCorrect`, `BytesKept`,
`NoMixLeft` and `WantedRevisionsKept`, for any number of files, crashes, failing calls and
edits. For each file the invariant says what its inodes can hold and which paths may name
them (`Shape`), what the journal's phase says of it (`Journalled`: in a prepared batch the
old revision is the file or its claim, in a committed one the file is never the old
revision), and at which step of a save, a rollback or a cleanup it is in which state
(`SavingOne`, `SavingBatch`, `Undoing`). `Kept` is stronger than `ForeignBytesKept`: the
foreign bytes are never left in the staged file alone, which is why the cleanup may remove
it unseen. `Control` ties the step to the phase of the journal and its files to the batch.
One lemma per effect of a step gives its effect on the disk, then on each part.

`ProjectReplacementProofs` proves the invariant `IInv` and from it `TypeCorrect`,
`NoRevisionLost`, `SettledOrLockedAlways` and the refinement `ReplacementIsCohortChange`,
for any number of projects, crashes, failing calls and edits. They assume that a member of
a decision is not rolled back (`~RollsBackDecided`), without which they are false (section
5); `OnlyRollbackUndoesDecided` says that this is the only way: neither an import that fails
nor a recovery restores a decided member. For each project the invariant says what the
journal and the decision imply for the folders (`OnDisk`: an undoable replacement still has
the old tree at the root or as the backup, a decided one the new tree at the root), which
journal each step finds (`Begins`, `Undoes`, `Ends`), that a root is moved aside to a free
place (`Aside`), and who may work on it (`Roles`: an undo runs only on an undoable
replacement, recovery visits the members of a decision first, an undoable project is locked
while the app is up). `Cohorts` adds that a commit in progress is about the members of the
decision. What another program changed survives because a tree is verified after it was
moved aside and only then disposed of. For the refinement each step leaves what is kept
alone, is the decision, or tells the renderer.

### What is only model-checked

Every safety and action property that a passing run checks has a theorem whose assumptions
the run's constants meet. What is left to TLC:

* Liveness (`ExternalChangesSettle`, `EventuallyClean`, `NothingStuck`,
  `DeliveredSettles`, `SessionFollowsMount`, `JournalSettles`, `StartsInTheEnd`,
  `ReopenedOrExited`, `QuitsInTheEnd`): fairness and ENABLED are out of the prover's reach.

What the theorems assume away breaks the property, and no run claims it either: commands
outside the history for `HistoryConsistent` and `StartPassageExists`; asset effects, reviews
put off and a second save for `OwnWritesNotDelivered`; receipts retried beside plain or broad
edits for `IdleOnDisk` and `AcknowledgedOnDisk`; the rollback of a decided member for the
replacement (section 5).

## 5. Where the code departs from what it says

| Run | What happens |
|---|---|
| `replacement_decided` | A rollback looks at the journal of its own project only, so a member of a cohort that is already decided is rolled back when its window is destroyed during the commit or the import's error path asks for it. `project-folder.ts:7203` says "A committed project replacement cannot be rolled back." |

The modules keep, as properties that no run claims, what else the code, its documents or
its tests say and the code does not do. Adding one to a `.cfg` shows a counterexample. The
properties of the runs state what remains true.

| Property | What happens |
|---|---|
| `ProjectSession!OverlappingChangesEnterReview` | An external deletion of the passage that an unsaved edit made the start passage moves the start passage without review (`lib.rs:8525`; `docs/architecture/persistence-and-watching.md:74`). `AutoMergeKeepsLocalEdits` makes that exception. |
| `NativeSession!AwaitingCandidateKept`, with `AssetPath` and `AssetEffects` as in `native_assets` | An asset effect refreshes the baseline without regard to the candidate under review: the candidate is dropped and the change it held accepted unseen (`project-folder.ts:5892`; `:55` of the same document). `native_lease` runs without asset effects. |
| `NativeSession!NoUnseenOverwrite` | What another program writes between an incremental save and the re-read of its files becomes the accepted baseline, so the next save overwrites it unseen (`project-folder.ts:9782`; `:23`). |
| `DocumentSaves!AcknowledgedRevisionOnDisk` | The save of one passage fails, that of another succeeds, and its acknowledgement marks both clean (`lib.rs:5281`; `:12`). `AcknowledgedOnDisk` excludes the passages whose last save failed. |
| `DocumentSaves!SupersededReceiptCleared`, with plain edits | A receipt survives an undo that reached the disk; committing the unchanged text again writes the undone text back (`project-host.tsx:2596`; `project-host.test.ts:2461`). `saves_retry` allows only edits that wait for their save. |
| `ProjectFileSwap!StagedWriteFailureRollsBack` | A write of a staged file that fails half-way leaves a file its cleanup does not take for its own, so the save ends refused and the journal stays (tests at `project-folder.test.ts:3866` and `:2366`). `JournalSettles` excepts torn staged files. |
| `ProjectDeletion!CommittedStaysDeleted` | The rollback of a window that went while its commit was running acts on the journal it read before the decision and undoes it (`project-folder.ts:7846`). The variable `abandoned` marks this case in `ImplementsRemoval`, `SettledOrLocked` and `StartsInTheEnd`. |
| `QuitCoordination!FlushesAdmitted` | A flush that waits for an earlier commit may reach the host after it stopped admitting, so the text is refused (`story-edit-route.test.tsx:632`). The quit then fails and everything opens again: `ExitKeepsText` holds. |
| `QuitCoordination!NewerTextKept` | A flush of a failed older text behind a newer commit in flight overwrites the newer text on disk (`editor-window.tsx:478`). The variable `overtaken` marks it. |

`SessionLifecycle` marks four more by its history variables: a notification is queued after
its session was closed, because it is compared with the active session before an `await`
(`project-session-sync.tsx:624`, `late`); an answer outlives the session of its review
(`:706`, `stray`); an older start that ends hides that a newer one is under way (`:205`,
`unmarked`); and an acknowledgement that failed three times leaves the folder held without a
review that could resume it (`:437`), which `DeliveredSettles` excepts.

Two smaller ones: a save refused because of a put-off candidate delivers that candidate
again while a scan may be in flight, and the scan then replaces it (`LeaseHeld` leaves
reissued candidates out). A scan of hinted paths forgets a put-off candidate, which the next
reconciliation delivers once more.

## 6. What is not modelled

`PROJECT.json` gives the status and the reason for every component. In the modelled ones:

* Document session: the asset inventory and its history, several stories in one project,
  hydration and replacement of the document, scripts and stylesheets (they are saved as
  passages are).
* Native session: recovery candidates, read errors of a scan, the passage mapping of
  single-file projects. The main process does not serialize the saves of one folder
  (`src/electron/main-process/ipc.ts`): two that overlap leave a baseline without the files
  of the first, which are then reported as external. Only the renderer's FIFO prevents it.
* Saves: grouped receipts of a refactor, stories outside a session, the whole-story save
  that Keep App Version makes of stories whose passages have no text.
* Lifecycle: several folders in one lifecycle, the order reviews are shown in, the
  processing of a delta whose root no story names any more, recovery deltas, the asset
  inventory of a start.
* File swap: the probe for hard links, batches of more than two files, a program that
  writes between the check and the removal of a cleanup (one step here), recoveries that
  overlap saves.
* Replacement: journals of version 1, two commits at once, and the app's own later saves
  to a folder whose journal a failed disposal left behind, after which the next start
  refuses (`own` excepts it).
* Deletion: journals of version 1, folders the library does not list, a renderer that
  reloads while the process is up.
* Quit: editors that open or close during a drain and the flush of one that unmounts, the
  drain of the refactor lifecycle, the shutdown of previews, a renderer that never comes
  back.

Of the components without a module, parsing, layout, search and export are sequential
algorithms over text, and windows and routes are presentation; together they are most of
the lines of the repository. They keep no state that two actors share.

## 7. Plan

1. The documents, saves, native sessions, queues, lifecycle, journals and quitting: done.
2. `SavesUnderLease`: `DocumentSaves` over `NativeSession`, for an external change merged
   between two queued saves (`project-session-sync.tsx:525`), and for overlapping saves.
3. Asset effect tokens, hydration leases, the plan store of refactors, and the generations
   of preview windows and scans.
4. Theorems: the refinement of the composed module of item 2.
