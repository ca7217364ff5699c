# abp in TLA+

Specifications of `abp`, the ADB-based Android backup and restore tool: what its
threads, processes, files, device and browser do to one another, checked with TLC on
small instances and proved with TLAPS for instances of every size.

Source paths are given from the repository root; line numbers refer to the commit
the specifications were written from.

## The system

| Part | Source | State it keeps | Operations | What is hard about it |
|---|---|---|---|---|
| GUI job runner | `src/gui/GuiServer.cpp` 211-387 | one mutex, one thread, `running_`, `state_`, `cancelling_`, the log | start, cancel, dismiss, snapshot, join, finish | request threads, the worker, the main thread and a signal handler; a join under the lock; a process-global cancel flag |
| GUI application and routes | `src/gui/GuiServer.cpp` | the runner, the explorer | one handler per route, delayed shutdown, exit | what may still run when `run()` returns |
| HTTP server | `src/gui/HttpServer.cpp` | listening socket, `stopping_` | listen, serveForever, stop, ranges | detached request threads outliving the loop; inline service when threads run out |
| Backup explorer | `src/backup/BackupExplorer.cpp` | map of opened archives, cache directory | openArchive, media, destructor | concurrent decompression, staleness, removal of the cache |
| Child processes | `src/util/Process.cpp` | the cancel flag; per call: pipes, child, CancelWatch | run, runToFile, runFromFile, requestCancel, clearCancel | pipe deadlock, short writes, hang-ups, SIGTERM ignored, forks from several threads |
| Backup run | `src/backup/BackupManager.cpp` 317-507, `RootBackend.cpp`, `StandardBackend.cpp` | the manifest in memory, the backup directory | stages, per-package captures, manifest | cancel between any two steps, failing steps, kill and rerun into the same directory |
| Restore run | `src/backup/BackupManager.cpp` 509-658, the backends | the device, the summary | installs, verify, extract, chown, legacy restore | damaged files, two archives per app, cancel in between, a truthful summary |
| ADB client | `src/adb/AdbClient.cpp` | the pinned serial | one method per adb command | failures that read as empty answers |
| Manifest, integrity, store | `src/backup/Manifest.cpp`, `ArchiveIntegrity.cpp`, `BackupStore.cpp` | `manifest.json` | write, read, verify | torn writes, missing sums |
| Personal data | `src/backup/PersonalData.cpp` | `personal/` and its manifest entries | seven exports through adb's tools; imports and Wi-Fi networks of a restore | answers that break off, fallbacks after a part was read, attachments over an earlier run's, reruns and kills |
| Shared storage, SD cards, device-path captures | `src/backup/BackupManager.cpp` 134-227, 406-455, 593-595, the backends' `backupSharedStorage` and `restoreSharedStorage` | `shared_storage/`, `shared_storage.tar`, `filesystem/` and the manifest's entries for them | one pull per path, one push per entry | overlapping paths, names that collide, directories wiped before they are filled |
| Device paths | `src/util/DevicePaths.cpp` | none | normalize, classify, collapse | what covers what, by characters |
| Tar index | `src/backup/TarArchive.cpp` | the index of one archive | index, listChildren | metadata headers, files cut short, damaged or growing, numeric edges |
| JSON, SHA-256, strings | `src/util/*` | none | pure functions | - |
| Command line | `src/cli/Cli.cpp` | none | one command per run, SIGINT handler | first Ctrl-C cancels, second kills |
| Web interface | `src/gui/web/index.html` | the job panel, its log, the chain of polls | requests | calls that overlap and are answered in any order, other pages, reloads |

How they interact. The CLI or a GUI job calls `BackupManager`, which drives a
backend; the backends call `AdbClient`, which calls `Process`. Every `Process` call
reads the one process-global cancel flag, before it starts and at every poll. The
flag is set by the CLI's SIGINT handler, by the GUI's signal handler and by
`JobRunner::cancel`, and cleared by `JobRunner::start`, by the worker after its work
and by `GuiServer::run` at its end: it is the process's, so each of these may set or
clear it under somebody else's child. The GUI's request threads share the runner (under
its mutex), the explorer (under its own) and the server; the worker reports through
the logger's process-global sinks. The backup directory is what backups, restores,
`verify` and the explorer share, possibly in different processes.

What makes each part correct: one job at a time, no lost thread, a cancel that hits its job
and nothing else (job runner); no lock-up, no lost byte, a true verdict (child processes); a
manifest that describes what is on disk at every moment, and says so of what is missing
(backup); no half-restored app, no restored damage, a true summary (restore); every path
asked for in a tree of its own, once (device paths); what was archived and nothing else,
inside the file (tar index); the bytes of the archive as it is now, as far as its size and
second tell, and the ones that were asked for (explorer); one job's log, in order, and a
panel that comes to an end with its job (web interface).

## The modules

| Module | Models | Proved in |
|---|---|---|
| `SingleJob` | abstract: what the job runner promises a client | `JobRunner_proofs` (as the target) |
| `JobRunner` | the runner with all its threads, locks, flag, exit | `JobRunner_proofs` |
| `BackupDirectory` | abstract: what a backup directory promises a verify or a restore | `RestoreRun_proofs` (as the target) |
| `ChildRun` | one `Process::run` against its child | `ChildRun_proofs` |
| `BackupRun` | `runBackup` and both backends, run after run | `RestoreRun_proofs` |
| `RestoreRun` | extends `BackupRun` with `runRestore` | `RestoreRun_proofs` |
| `PersonalData` | the personal data exports and what a restore writes back of them, run after run | `PersonalData_proofs` |
| `DevicePaths` | the functions of `DevicePaths.cpp` (no state) | `DeviceCaptures_proofs` |
| `DeviceCaptures` | extends `DevicePaths`: shared storage, SD cards, device-path captures, run after run, and the restore of shared storage | `DeviceCaptures_proofs` |
| `TarIndex` | the walk of `TarArchive::index` over a file, and `listChildren` | `TarIndex_proofs` |
| `Explorer` | HTTP server, explorer, a backup rewriting the archive | `Explorer_proofs` |
| `JobPage` | a browser page following the server's job | `JobPage_proofs` |

Each `MC*` module gives a specification its constants; each `.cfg` is one run.

**JobRunner.** `mutex`, `thread`, `running`, `present`, `cancelling`, `id`, `state`,
`result` are the members of the class with their underscore dropped; `flag` is
`g_cancelRequested`; `sink` is whose worker installed the log sinks. `wpc` is where
each job's worker is: `Install`, `WorkCalls`/`WorkerPolls`/`WorkChildExits` (the work
as any number of adb children), `WorkEnds`, `Unsink`, `CheckCancel`, `ClearCancel`,
`Finish`, `ThreadExits` are the lines of the thread's body one by one, because others
act between them. `rpc` is what each request thread is doing. A critical section that
cannot block is one action; `start()` is two (`StartLocks`, `StartBegins`), with the
lock held in between, because it joins the previous worker there. `ShutDown` and
`StopperFires` are the two halves of `/api/shutdown`, `Interrupt` and `HandlerStops`
the two statements of the signal handler, which may run on any thread, `ServeReturns`
... `MainClears` the end of `GuiServer::run` up to its `clearCancel()`. The app is shared with
the requests under way, so its destructor, and with it `~JobRunner` and its `join()`, runs on
the main thread if none is left (`MainDestroys`) and else on the last request's thread
(`MainReleases`, `LastRequestDestroys`), which the process's exit may cut short
(`MainReturns`). From the end of the `InterruptGuard` on a signal kills (`SignalKills`).
Creating a thread always succeeds; log lines are left out. `KeepsContract` maps the state to
`SingleJob`: `number <- id`, `status <- state`, `asked <- cancelling`, `interrupted <-
interrupts > 0`, `shown <- present`, `closing <- Leaving`, `up <- Up`, where `Leaving` is from
`run()`'s `clearCancel()` on: the contract promises a cancelled job's end until then only,
because after it the code does not keep it (`AskedJobEnds`).

**ChildRun.** Data is counted in units. `Poll` fixes `revents`, then the streams are
served one by one (`WriteInput`, `ReadOutput`), as in `pumpIo`; the child, a
descendant that keeps its outputs, a sibling forked by another thread, a cancel and its
being taken back (`Cancel`, `ClearCancel`: the flag is set and cleared by other threads) act in
between. `Check` is `CancelWatch::check`, taken with `Poll` and with every turn
of `Reap`; it does nothing while the flag is down. `asked` is history: the flag has been set
during the call. The child is external: it reads, writes, complains on stderr, exits, hangs
(with its outputs open or closed), ignores SIGTERM or not.

**BackupRun.** `pc` walks through the stages of `runBackup`. An adb command is one step,
except those whose output file is truncated as they start: there a kill leaves a `Partial`
file. A checksum is the content it was taken of, and content is which package's which tree
in which run. `Query`, `List`, `PullApks` are the stages before the data; `StartData` asks
the device which packages `run-as` can read; `LookForTree`, `OpenArchive`, `EndTransfer` are
`captureTree` (and, without the first, `captureViaRunAs`); `StartLegacy`, `EndLegacy` the
whole-archive fallback; then the extra captures, `MarkUnreached`, the manifest's truncation
and its write, and the summary. A write through `writeTextFile` has three ends
(`EndManifest`): it fails and says so; it fails when the stream's destructor flushes it,
which nobody looks at, and the run goes on with a torn manifest; or it is whole. `Cancel`
and `Kill` may come at any step; `Begin` starts the next run into the same directory.
`skipped` and `troubled` are history variables: the packages a cancel kept from a requested
step, and those one of whose captures failed. `Accepted` is the check of `abp verify` and of
a restore. `KeepsItsWord` maps the state to `BackupDirectory`: `run <- runs`, `busy <- pc #
"idle"`, `of <- manifest.run`, `listed` the archives with a recorded sum and `passing` those
that match it, with what they hold. There a rerun may only `Spoil` what the old manifest
lists, must `Withdraw` that manifest before it may `Publish` its own, and publishes it with
every listed archive in place; a cancel, a failure and a kill are all an `End` or nothing.
An archive whose checksum had to be left out (`Unsummed`) is promised nothing. Nor is one
whose name is also another's: `Stem` gives the names as the code does, and `OwnName` says of
a package's tree that no other tree has its name. `KeepsItsWord` and `FreshManifestVerifies`
are about those archives, of whatever packages.

**RestoreRun.** From any directory the backups left (finished, cancelled, killed),
after any one file rotted or went missing (`Rot`, external). `device` says what each
package's trees hold and with whose ownership. `Verify` comes before `Stat`, `Extract`
and `Chown`, tree by tree; `RestoreLegacy` writes all legacy packages; `CountRestored`
computes the summary the way the code does. The bound of one run is a directory's
whole history here; reruns are `BackupRun`'s.

**PersonalData.** A backup is its seven exports and its manifest; what comes before and
after is `BackupRun`'s. `k` is the step of `exportPersonalData`, `pc` the next device call
or file operation of that step, `at` the index of its loop, and `rows`, `text`, `refs`,
`works` its local variables (the last listing, the document being put together, the
attachments it names, `attachmentsWork`). `Refuses` and `Answers` are the two ways
`runDeviceTool` returns: refused, or with whatever came before the tool ended, which may be
a prefix of the truth. `ReadVcards` and `BuildVcards` are the two sources of the contacts;
`NextPart` and `EndAttachment` are an attachment's file before and after its transfer;
`OpenDocument` and `FillDocument` are `recordExport`, with the file truncated in between and
the three ends of `writeTextFile`: a document cut short in its last flush (`CutShort`) is
checksummed as it is and recorded with the count of the whole. `entries` is the manifest in
memory, `disk`, `parts` and `manifest` what is in the directory and survives `Kill`.
`PushForImport`, `StartWifi` and `AddNetwork` are `restorePersonalData`; `imported` and
`joined` are the phone. A network is re-added (`Join`), refused or not expressible (`Miss`),
or taken by the phone in a call that then fails or is cut off by a cancel (`Lose`), which
the code counts as skipped and the history `unheard` keeps. `cut` (the kinds a tool broke
off for) and `troubles` are history variables. A row is a name, a document is its items with
the run that wrote it, and a checksum is the document it was taken of. A store of Wi-Fi
networks is read whole or not at all, since there the exit status is looked at. `Those` is
the filtering of a list, written as a recursive function so that it can be reasoned about.
`PersonalAssumption` says what is taken for granted of the phone: a part of an MMS is a row
of its own and belongs to a message, and a store of Wi-Fi networks has one configuration of
each.

**Explorer.** `Top`, `Accept`, `AcceptFails` are the accept loop, `Stop` and `CloseListener`
the two statements of `stop()`, `MainReleases` and `MainReturns` the end of
`GuiServer::run`. A request goes through `openArchive` statement by statement where others
may act in between (`StatSize`, `StatMtime`, `Lookup`, `NameCopy`, `UnzipBegins`,
`UnzipEnds`, `Index`, `Insert`), then `Respond`, `Send`, `Close`. `parseByteRange` is
translated as it stands; `OpenFile` is the branch for a file of the backup that is not in an
archive. The archive's content is which write left it (`ver`), whether all of it was there
(`whole`), and the second of that write (`mtime`): a backup's `Truncate` and `Fill` may
share a second with each other and with what was there before, and `Size` may give them one
size. `isGzip` reads the file: a gzipped archive just truncated is taken for a plain tar
(`TakeAsTar`), of which there is then no member (`Tarred`). `IndexFails` is `tar::index`
throwing on an archive cut inside a header. What is assumed: the clock does not go back; the
two clocks `mtimeOf` subtracts are read at one instant, so that it is the same for one state
of a file; gzip notices by its checksum that the archive changed while it read; a copy's
number is a name not in use.

**DevicePaths, DeviceCaptures.** A path is a sequence of pieces (`/`, blank, `..`, and bits
of names), so that `IsUnder`, `Normalize`, `Classify` and `CollapseRedundant` can be
translated as they treat characters: `/system` and `/system_ext` share a piece. The loops of
`normalize` and `collapseRedundant` are recursive functions (`Squeeze`, `InOrder`), so that
what they return can be proved; `Keep` is the loop over the sorted paths as a function of
the set of them, since a path's fate depends on the shorter ones only. `CapturesAssumption`
says of the device that what a path is in is there too. `Ask` and `Refuse` are the check of
the lists before anything else, `Begin` the run up to its packages; `SharedBegins` ...
`SharedFails` are the two backends' `backupSharedStorage`; `ArchivesShared` may fail to take
the archive's checksum (`summed`), and then a restore takes any file for it (`HasArchive`);
`Collect` adds the SD cards and collapses; `PassOver`, `PullBegins` (the name,
`remove_all`), `Pulls` and `PullFails` are the loop of `captureFilesystem`; `WriteManifest`
ends a run, with a write that may fail unseen. `RestoreBegins`, `PushEntry`, `PushEnds` and
`Extracts` are the restore. A tree on the host is the path and the run it came from and how
much of it is there; `troubled` is the history of the paths a step failed for. `Segments`
and `Within`, in the properties, are the reference definition: paths as lists of names.
`Wanted` is what a run is to pull: the paths asked for and the SD cards.

**TarIndex.** A file is a sequence of blocks and a length in bytes; `Init` takes an archive
and cuts it anywhere, damages one header, or neither, and `Grow` lets a backup append while
the walk is on (the length found at the opening, `fileSize`, stays). Each turn of the loop is
one action: `EndOfFile`, `ShortHeader`, `EndOfArchive`, `BadHeader`, `CutShort`, `Metadata`,
`BadMetadata`, `GlobalHeader`, `PaxCutShort`, `Member`. `longName`, `longLink` and `pax` are the
overrides carried to the next member. Sizes and offsets are of `Word` values, so that
`fileSize - dataOffset` may wrap as in the code; a block is two bytes. `ListChildren` is
the folder listing derived from an index.

What may lie on disk is what tar writes (`WrittenByTar`, external): an archive is given with
its `members` and its `parts`, a part being the headers that announce a long name, a long link
target or pax records, then the member's own header, then its data. The constants' assumption
says of each part where the next one begins and which member it records (`PartIsSound`): the
name, link and size of the member are those a header before its own announces, or else those
of its own header (`Recorded`), and a name may be written with `./` or slashes around it
(`Spells`). None of it says how `index()` reads: no override is carried, nothing is cleaned.
TLC checks the assumption on every archive of the run.

**JobPage.** The server is `JobRunner` reduced to what `snapshot` says; `calls` are the
page's requests in flight, `Serve` the server's handlers (start and cancel in two steps,
since they answer with a snapshot taken after), `Receive` the page's continuation after the
`await`, `Lose` a call that fails on the way. `polling` is `state.polling` and `strays` counts the
timeouts it no longer names. `Tick` is the timer, `Click` and `Reload` the user. One page is
enough: other pages act on this one through the server only, and `Elsewhere` does to the
server what they can. A log line is its job and its place; `LinesFrom` are those of one
answer, `FirstLoad` the call a page makes as it is loaded.

Every module with state has `TypeOK`. It is proved for all of them, after TLC had checked
it; the runs spend their time on the other properties.

## The runs

TLC, two workers, each within four minutes.

| Run | Instance | Distinct states | Shows |
|---|---|---|---|
| `MCJobRunner` | 2 request threads, 2 jobs, 1 signal | 560 thousand | every interleaving, the runner's destruction included, keeps one job at a time, joins every thread, never deadlocks, keeps a cancel visible to its job until the server leaves, and implements `SingleJob` with its liveness |
| `MCBackupRun` | 2 packages, 2 runs, root/standard, 1 extra capture, writes that fail unseen | 850 thousand | the runs implement `BackupDirectory`, so the manifest is true of the directory at every moment; failures and cancels are marked; a cancelled run ends |
| `MCRestoreRun` | 2 packages, 1 backup, 1 restore, 5 option sets | 1.1 million | no half restore, no damage restored, true summary of a success, round trip |
| `MCPersonalData` | 2 backups, 1 restore, 2 failures (seen, unseen or a lost reply), 3 contacts read 2 at a time, 3 MMS parts, 3 Wi-Fi stores | 18 million | what a manifest lists is whole, once, and counted right, but for an unseen failure; attachments resolve; a restore imports what was recorded and counts what the phone took and answered for |
| `MCChildRun` | 3 units through pipes of 1, 2 units of stderr, a cancel taken back or not | 190 thousand | nothing lost or locked up, true verdict, the call returns |
| `MCDeviceCaptures` | 220 lists of paths, 7 requests, 2 runs, 1 restore, 1 failing step, an SD card, a sum that cannot be taken | 1.3 million | what is pulled is minimal and each in its own tree; a success has every path; shared storage is called restored only if it is |
| `MCTarIndex` | 15 forms of a member, up to 2 in a row, cut at every byte, 3 wrong sizes or a wrong checksum in any header, 1 growth | 1.3 million | the index lists what was archived, inside the file, and the folders add up |
| `MCJobPage` | 2 calls in flight, 2 clicks, 1 lost call, 2 jobs of 2 lines | 1.2 million | the log reads in order whatever overlaps, and a running panel ends |
| `MCExplorer` | 2 requests, 2 writes of the archive in 1 to 3 seconds, the second back to the first size, 4 `Range` headers, files of 0 and 2 bytes | 8.4 million (symmetric) | an index of no earlier second, unmixed bytes, the cache outlives its readers, honest ranges |

Why these bounds are enough to mean something. Two request threads and two jobs give a start
racing a finish, a cancel racing a start, a start after the join, and a worker of one job
beside the next; the proofs remove these bounds, of the safety properties. Two backup runs
give every mixture of an old manifest with new files; a third run overwrites what the second
already may have. The two packages of the backup differ in what they hold, and one is
debuggable, so that root, run-as and legacy captures occur in one run. A pipe smaller than
the data makes every write short and both pipes full at once. Two requests are enough for
every pair of steps of `openArchive` to be interleaved, or for the second to meet the cache
the first has filled, and two writes for a truncation and its end, both within a second or
not, around any of those steps. The ranges are no header, a suffix shorter and one longer
than the file and an open end, of a file with bytes and one without; `AnswersAreHonest`
proves the rest. Of the personal data, two failures are what it takes for a batch to fail and
its fallback to break off, or for a rerun to go wrong over what a first run left; one of the
three contacts has no key and one no name, so that the two sources differ, one network has
no command, and the newest Wi-Fi store is not there. The phone is rooted and new enough for
Wi-Fi to be both exported and re-added. The lists of device paths are all those of up to two
of twelve spellings (a parent, its child, a neighbour with a longer name, doubled and
trailing slashes, blanks, `..`, the root, a pseudo filesystem) and of three of four, and the
default list; captures are run for the seven whose trees or names meet. Two members are what
it takes for an override, a padding or a wrong size to shift the next one, and the sizes of
a damaged header lie below, above and just under the wrap. Two slots are a poll overlapping
anything else, and the two clicks and the lost call may hit either.

Where a system may really stop, deadlock is not checked: a backup, a child or the
server ends, and the bounds on runs and connections end the rest. `JobRunner` is
checked for deadlock, with `Exited` as its stuttering end.

### Statements the code does not keep

Three are runs of the project that TLC finds violated.

| Run | Statement | What happens |
|---|---|---|
| `MCJobRunner_NoStuckCancel` | comment at `GuiServer.cpp:298`: leaving the flag set would make every later adb call refuse to run | a cancel accepted between the worker's `clearCancel()` and `finish()` is left set; start requests probe adb before `start()` would clear it, so the GUI needs a restart |
| `MCRestoreRun_Counts` | comment at `BackupManager.cpp:628`: restored means something was written back | a cancelled restore counts packages it never reached |
| `MCDeviceCaptures_SharedComesBack` | comment at `BackupManager.cpp:370`, `CHANGELOG.md:208`: photos are backed up even when there are no apps | a restore of such a backup ends for want of a package before it reaches shared storage |

Eight more are stated in the modules; each has a `.cfg` of its own here with which TLC shows it
violated.

| `.cfg` | Property | Statement | What happens |
|---|---|---|---|
| `MCJobRunner_AskedJobEnds` | `AskedJobEnds` | `docs/GUI.md:150`: `POST /api/job/cancel` cancels the running job | a request past its probe starts a job after `joinJob()`; its cancel is accepted, wiped by `run()`'s `clearCancel()` (`GuiServer.cpp:1069`), and `~JobRunner` (239) waits for the job |
| `MCBackupRun_SameName` | `EveryListedVerifies` | `docs/MANIFEST.md:13`, `README.md:79`: each archive has its file, checksummed and verified | of packages `foo` and `foo.de` the one's device-protected archive is the other's archive; a fresh backup that succeeded does not verify |
| `MCBackupRun_LostManifest` | `SuccessHasItsManifest` | comment at `BackupManager.cpp:467`: a failure to write the manifest fails the run | a write that fails in the stream's destructor (`FsUtil.cpp:59-62`) is not noticed: success without a manifest |
| `MCBackupRun_FailedProbe` | `NothingMeansNothing` | `docs/MANIFEST.md:123`: no data and no error means there was nothing to capture | a `[ -d ]` probe that could not be run reads as no |
| `MCPersonalData_LostFlush` | `RecordedIsWritten` | comment at `PersonalData.cpp:103`: the content is written and recorded | the same flush: a truncated export is checksummed and listed with its full count |
| `MCPersonalData_LostReply` | `SkippedIsMissing` | `PersonalData.h:92`: skipped networks are those that could not be re-added | a network the phone took in a call that was then cut off is counted as skipped |
| `MCChildRun_TakenBack` | `TermThenKill` | `docs/ARCHITECTURE.md:173`: SIGTERM, then SIGKILL after a grace period | another thread clears the flag within the grace period (`GuiServer.cpp:273, 300`); `CancelWatch::check` returns early (`Process.cpp:33`), and a child that ignores SIGTERM is waited for without bound |
| `MCExplorer_SameSecond` | `ListingIsFresh` | comment at `BackupExplorer.cpp:98`: a rewritten archive is re-read rather than served stale | writes that share a second and a size: an index of the old, or of the half-written, archive is served for the new |

Others are stated without one; naming them in a `.cfg` shows them.

- `NoJobLeftBehind` (`JobRunner`; `CHANGELOG.md:176`, Ctrl-C leaves no job behind): a request
  past its probe starts a job after `joinJob()`, and the process ends before the destructor has
  joined it: because the last request, on whose thread that is, does not keep the process
  going, or because a second signal kills.
- `FailedIsSkipped` (`PersonalData`; comment at `PersonalData.cpp:32`): a tool whose connection
  is lost in the middle of its answer is taken at its word; a shorter export is listed by a
  backup that succeeds.
- `LogHasNoGap` (`JobPage`): a poll that asks for what comes after the last line of one job is
  answered from there on with the log of the next.

Also met on the way, not stated: a rerun killed in the middle leaves the old manifest
vouching for what has no checksum (a device path's directory that now holds another path's
tree, a part of a newer `shared_storage/`, or of a `shared_storage.tar` whose checksum could
not be taken, that a restore then pushes or extracts and reports restored; that a missing
checksum accepts any file is what `ArchiveIntegrity.h:15-24` says it does); shared storage
that was pulled in part is recorded without a mark; a path whose `[ -e ]` probe failed is
taken to be absent; a path that ends with a blank once its last separator is off (`"/proc
/"`) is accepted, collapsed to one that the loop's own check, which trims it again, may
refuse, and then passed over with a log line; an archive cut inside a header or its end mark
is an error, and everything read before it is not shown; a file that has grown past the size
it was opened with makes `fileSize - dataOffset` wrap (`TarArchive.cpp:136`), and then any
size passes.

## Fairness

- `JobRunner`: threads that can run do run (weak fairness of each worker's, request's and
  the main thread's next step), the signal handler goes on, and a child that was sent
  SIGKILL is reaped. Nothing makes a client ask, a signal arrive, or a child exit by itself,
  which is why `AskedJobEnds` fails for a job whose cancel was wiped. The grace period ends:
  `CancelWatch::check` is polled every 200 ms.
- `BackupRun`, `RestoreRun`: steps that do not wait for the device happen; steps that do are
  only assumed to end once the flag is set, since the child is then being signalled until it
  dies. A backup waiting for a confirmation on the phone may wait for ever.
- `ChildRun`: the parent runs; a child that does not hang does its work; fork is followed by
  exec; strong fairness of the checks that advance the `CancelWatch` is the clock passing.
  Nothing is assumed of hung children, of descendants that keep the streams, or of a cancel
  being left alone, and the properties say what follows: a call waits for nothing but these,
  and `CancelReturns` is for a cancel that nobody takes back.
- `JobPage`: timers fire, calls are served, answers (or failures) arrive, and the running
  job finishes. Nothing makes a user click or another page act.
- `Explorer`, `PersonalData`, `TarIndex` and `DeviceCaptures` have safety properties only.

## What is proved

`JobRunner_proofs` proves, for every finite set of request threads and all bounds, of `Spec`
(no fairness needed): `TypeCorrect`, `OneJobAtATime`, `JoinNeverDeadlocks`,
`NoThreadIsLost`, `SinkIsOwned`, `CancelIsNotWiped`, and `ImplementsContract`, which says
that every behaviour of the threads satisfies the safety part of `SingleJob`. What
`CancelIsNotWiped` leaves out, `Leaving`, is where `run()`'s own `clearCancel()` has been:
there the code does wipe a cancel, as `AskedJobEnds` shows. The assumptions are
`BoundsAssumption` (the request set is finite, the bounds are naturals) and `FreeAssumption`
(nobody is called `Free`).

None of the properties is inductive by itself. `IInv` adds what the code relies on
without saying it: the live worker is the current job's and `running_` says so
(`LiveIsCurrent`); the lock is held across steps only by a request in `start()`, and
then no job runs (`LockIsInStart`), which is why the worker being joined is past its
last use of the lock; later jobs have no thread yet (`LaterJobsAreUnborn`); `thread_` was
created, `join()` keeps its handle only while main or the destructor waits, and once the last
request's thread has it there is no other and no request left (`HandleIsBorn`); only a request
that runs adb has a child; a set flag or a "cancelled" verdict goes back to a request
or a signal (`CancelWasAsked`), which is what the contract's `End("cancelled")` asks for.
`NumbersSuffice` is about the bound: starts under way never run past the last job
number. There is one lemma per action, each with the conjuncts it disturbs as steps
of their own; `NextKeepsIInv` puts them together.

`ChildRun_proofs`, for any amount of input and stderr and any capacity of the pipes
(`ChildAssumption`): `TypeCorrect`, `NoOutputIsLost`, `NoInputIsCut`, `VerdictIsTrue`. The
invariant counts every unit where it is (`UnitsAddUp`: read by the child, on its way, or
read by the parent); an output is closed only when it is drained and its writer gone
(`ClosedIsDrained`), the input only when all of it is written or its reader gone
(`ClosedIsWritten`), and a signal goes back to a cancel during the call, though it may have been
taken back since (`KillWasAsked`, of the history `asked`).

`RestoreRun_proofs` begins with the backup. For any packages, device, options and number of runs
(`BackupAssumption`: `pm` lists a package once, the legacy archive's name is nobody's):
`TypeCorrect`, `AcceptedArchivesAreOwn`, `SuccessIsWhole`, `TroublesAreMarked`,
`EmptyEntriesWereReached`. `IInv` adds: a recorded sum is of that package's tree in that
run, in memory and in the manifest (`SumsAreOwn`, `ManifestIsOwn`), so a file that matches
it is that tree whatever happened to the directory since; the run's own manifest is
there only after its writing, the manifest on disk is torn while it is being written, and after
it is one or the other (`RunOrder`); a trouble is in the entry already or, for a first
tree, in `failed` until the second is done (`TroubleInHand`); the APK stage, which may write
an empty error, has only untroubled packages ahead (`ApksAhead`); after `MarkUnreached` no
entry is empty, clean and skipped (`MarksAreMade`). `FreshManifestsVerify` has a second
invariant on top, that the archives in memory's sums are on disk and the trees still to
come have no sum yet: of the archives with `OwnName`, since a name of its own is one that no
other capture of the run writes. For the others the code does not keep it
(`EveryListedVerifies`), and the theorem does not suppose that there are none.
`ImplementsBackupDirectory` rests on both invariants, step by
step: a capture writes its own run's content or none, neither of which a manifest of
another run recorded (`WritingSpoils`); `EndManifest` finds the manifest torn
and the disk as the sums in memory say, and publishes it or leaves it torn; every other step is
an end of the run or leaves the directory alone.

It goes on with the restore. For any packages, directory, damage and number of restores
(`BackupAssumption`, `RestoreAssumption`: the option sets are of their type and there is
one): `RestoreTypeCorrect`, `DamagedAreUntouched`, `NoHalvesAreCounted`, `SuccessIsTrue`,
`RoundTripHolds`. Three invariants hold together. `IInv` is the backup's. `LInv` is what a
restore relies on of a manifest, proved through every step of a backup: a package left to
the legacy archive has no archive of its own and there is a legacy archive, a captured one
lists at least one tree. `RInv` says of the restore under way that the package in hand
passed the check of both archives before its first tree is touched (`HandFits`); that its
first tree is extracted before its second is taken up (`TreesInHand`), so that every other
selected package is whole, as it was, or in error (`WholeOrOld`); that what was extracted is
what the sum was taken of (`DeviceIsSummed`); that whatever was written counts, and, without
a cancel, whatever was due was written or failed (`WroteIsCounted`, `ApksDone`, `DataDone`),
which is what makes the summary true. The proofs inherit the model's assumption that no file
changes between its check and its extraction.

`TarIndex_proofs`, for every set of well-formed archives, every damage and every cut
(`ArchivesAssumption`): `TypeCorrect`, `SlicesStayInside`, `WhatWasArchivedIsListed` and
`FoldersAreTheirTotals`. The
comparison of a size with
what is left of the file (line 136) subtracts, so it is sound as long as the header was
read from inside a file that has not grown; the invariant carries that, for every entry
so far, together with what a damaged or cut file still is: blocks that `Sound` describes,
with a pending pax size that is a word.

`WhatWasArchivedIsListed` is about the undamaged archives, cut anywhere or growing, and has
the invariant `FromTar`: the next read is at a header of some part or at the end mark, all
members before that part are listed and nothing else is, and what is pending is exactly what
the headers of this part before the read have said (`Says`). So at a member's own header the
walk's `NameSaid`, `LinkSaid` and `SizeSaid` are what is recorded (`SaidAtTheMember`), cleaned
it is the member's name (`SpelledIsClean`), and the next header is the next part's. Where the
walk stops, every member not listed lies behind the read (`MembersAreBehind`, by induction from
the end mark back, with a well-foundedness theorem of the library) or has the size that ran
past the end (`RestIsPastEnd`). The data of a member is never read, so a block in it that looks
like a header or like zeros changes nothing. TLC finds `FromTar` invariant on the run's archives.

`FoldersAreTheirTotals` is about `listChildren`, for a list of any entries. The two folds of the
model, the listing's over the entries and the total's over the children, are first shown to be
what they look like: `OneByOne` gives the children after each entry, `TotalIs` a sum in
which any child may be taken first (`SumSplit`), both by induction on how many there are. Then
the names: what is below a folder is its child or below its child (`ChildOrDeeper`), what is
below its child is below it through the same child (`ThroughTheChild`), and a child that is no
directory has its path for itself (`Alone`). The invariant of the loop (`OneMoreAddsUp`) relates
a folder's child to what opening that child shows after the same number of entries: its size
is the other's total, and there is no child only while that total is 0. Besides `IInv` it needs
that nothing but a file has a size (`OnlyFilesAreSized`). The property supposes names that
are distinct and, as the model spells them, plain (`NamesArePlain`): no slash at the end, and two
segments never without a slash between them. Every index the run lists has plain names; the
code would show a link called `a/` as an empty folder `a`.

`Explorer_proofs`, for any number of requests, connections, writes and bytes and any sizes,
however many writes share a size or a second (`ExplorerAssumption`: the bounds are naturals,
the requests finite, the headers pairs of numbers or blanks): `RangesAreHonest` (what
`applyRange` answers for every header and every length), `TypeCorrect`,
`ListingsAreCurrent`, `MembersAreWhole`, `CacheOutlivesItsReaders`, `AnswersAreHonest`. The
strengthening: every content on its way into the cache or in it is, for each request, a
state of the archive the request has seen since it came in, or none later than those
(`Past`); what a request answers from is of a second it has seen (`Seen`). Of what it finds
in the cache this follows from both sides: it is `Past`, and no older than the second in its
key (`CacheIsSound`), which the request has just seen. A copy's name belongs to one request
until it is in the cache; and there are always enough names, by counting.

`JobPage_proofs`, for any number of jobs, lines, calls in flight, clicks and lost calls
(`PageAssumption`): `TypeCorrect` and `LogsReadInOrder`. The strengthening `ShownIsBehind`
says that what is on screen is of the panel's job and comes before `logShown`, line by line.
Nothing is needed of the answers still on their way, however old: `applyJob` compares
what it receives with `logShown` and the page's job, and that is enough.

`PersonalData_proofs`, for any phone, any number of backups, restores and failures
(`PersonalAssumption`): `TypeCorrect`, `ExportsAreWhole`, `AttachmentsAreThere`,
`ImportsAreRecorded`, `NetworksAddUp`. `IInv` adds, to the four properties themselves: where a
run is and what its local variables hold there (`PlacesFit`); that what has been read of a
kind is, step by step, all the phone holds of it unless a tool broke off (`TextIsWhole`: for
the vCards, the keyed contacts among those of the batches so far; for the settings, the
namespaces that answered); that each attachment named has its file, and, while nothing
failed, each file met is named (`RefsResolve`); that an export in the manifest in memory
is still the document on disk (`EntriesAreTrue`), which holds because each kind is recorded
once and only in its own step; and that the networks counted are the turns of the loop
(`RestoreAddsUp`). A document cut short in a flush nobody looks at is on disk as it was summed,
and nothing more is claimed of it; a network whose reply was lost is `unheard`, and not among
those counted as re-added. The provers have no induction, so what `Those` returns is proved
from the library's theorem that the naturals are well-founded (`NatSet`): `ThoseKeeps` says
which items are kept, in which order, and how many, `KeepsIsUnique` that this determines the
list, and `ThoseConcat` that filtering the batches gives the filtered whole.

`DeviceCaptures_proofs`, for any lists of paths, any device and any number of backups,
failures and restores (`CapturesAssumption`): `TypeCorrect`, `RestoredSharedIsWhole`,
`CapturesHaveTheirTrees`, `SuccessLeavesNothingOut` and `CollapseKeepsTheTopmost`. What is
recorded of shared storage is on disk from its capture on
(`SharedFits`), so it still is when the manifest is written (`SharedIsOwn`), and a restore
has pushed or has still to push all entries of it unless one failed, or extracts the archive
that was summed (`RestoreFits`); an archive without a sum is the recorded one only while no later
run has begun. The
captures in memory each have a directory with their tree, named by a name that is taken,
and the pull in progress has another (`CapturesFit`): the name `uniqueName` comes up with is
free because one more suffix is tried than names are taken (`UniqueNameIsFree`, by the
pigeonhole principle). That needs the numerals of two numbers to differ. TLA+ leaves `ToString`
open to the provers, so `CapturesHaveTheirTrees` has this as its hypothesis
(`NumeralsDiffer`); nothing else depends on it.

Its second part is about the paths. The library's theorems on recursive definitions and on
induction take an operator, so what a recursive function returns is obtained by hand: from the
well-foundedness of the naturals (`NatSet`) that a set of numbers closed under successor has
them all, from that that the `CHOOSE` behind a recursive function finds one (`Recursion`) and
that a set of lists closed under `Append` has every list (`ListSet`). With these, piece by
piece: what `normalize` returns (`SqueezeIs`, `NormalizeIs`) and that a second time
changes nothing (`NormalizeOfNormal`); that the names of a path survive it
(`SegmentsOfNormalized`) and spell it (`JoinOfSegments`); and so the fact the component rests on,
that `isUnder`, which compares characters and looks at one separator, says the same as a
comparison of names (`UnderIffWithin`). Of `collapseRedundant`: keeping a path that no kept
shorter one covers is keeping those that none at all covers (`KeepIs`), every path is under such a
one (`SomeIsTopmost`), and the second loop returns them once each in the caller's order
(`InOrderIs`), whence `CollapseIs` and `CollapseCovers`. `CollapseKeepsTheTopmost` is this for
every list that `Ask` lets through.

`SuccessLeavesNothingOut` has the invariant `PathsInv`: every path asked for that the device
holds is under one the loop goes through, or under one that a step failed for (`TodoFits`);
each path the loop goes through was asked for; and those it is past are in a capture, in
shared storage, in trouble or not on the device (`Handled`). If a path is on the device, so
is the one it is collapsed into (`AncestorsPresent`), so a success has it, if its manifest
did not fail unseen. The hypothesis is `NoBlankEnds`: no path of the device begins or ends
with a blank. Without it the theorem would be false: a directory called `proc` and a blank
is asked for as `"/proc /"` and passed over as told above. The run's device fits it, as TLC
checks.

`TypeCorrect` adds where the loop is: it never runs past its list, the name of a pull is taken
before it begins and there are at most as many names as turns (`MemoryTyped`), and a tree on
disk is always of a run that has begun (`DiskTyped`).

The leaves are kept small enough for a slow machine: every proof module also proves with
the provers' time cut to less than a third (`tlapm --stretch 0.3 M_proofs.tla`). Where a
built-in theory would drown the goal, the term has a name of its own that is not expanded
(`Chained` for a concatenation, `RootRecorded` for an entry after a capture).

Only model-checked: all liveness (the proof system has no rule for it here) and the
violations. Every invariant of a passing run is a theorem.

## What is not modelled

The formats of the personal data documents, the raw copy of the Wi-Fi file, file modes and
the participants of an MMS (`AttachmentsResolve` speaks of the end of a run only:
attachments have no checksum, so a rerun killed in the middle may leave one truncated under
an old `mms.json` that still verifies); parsing and printing of any kind (adb's output,
JSON, HTTP headers, command lines, the digits of a tar number and the text of a pax record);
times, sort order and sizes on display; the wording of `explainVerdict`; a failing thread
creation; errors of `poll()` and `waitpid()` other than `EINTR`, which end the loop early
(`Process.cpp:268, 340-343`); whose file descriptor a closed listener's number may become;
log lines but for their place on the page; the other views of the web interface, which show
what the server answers and keep nothing across calls; a file that changes while a restore
reads it; two `abp` processes writing into one directory at the same moment.

## Plan

Done in this order, most important first: the job runner with its contract and proofs;
the backup run; the restore run; the child process; the server and explorer; the
personal data; device paths and captures; the tar index; the browser's page; the proofs
for the child process, the tar index, the explorer, the backup run and the restore run,
the browser's page, the personal data and the device captures; the abstract backup
directory and its refinement.

Next: liveness of the server on a smaller instance (every accepted connection is closed,
`serveForever` returns after `stop()`); a failing thread creation in `start()`.
