# GladLog in TLA+

GladLog is a desktop application that follows World of Warcraft's combat log,
cuts arena matches out of it, stores them, records video next to them and
analyses them. This directory holds TLA+ models of the parts whose correctness
depends on order, crashes and concurrency, the TLC configurations that check
them, and proofs of the results that matter most.

Contents: [1 The system](#1-the-system), [2 The plan](#2-the-plan),
[3 Modules and code](#3-modules-and-code), [4 Runs](#4-runs),
[5 Findings](#5-findings), [6 Proofs](#6-proofs),
[7 Limits](#7-limits-of-the-models), [8 Running it](#8-running-it).

## 1 The system

Two operating-system processes do the work. The *main process* (Electron) owns
the match store, the recorder, the settings and the windows. The *log worker*
(a utility process) tails the combat log and finds matches. The worker talks to
main over a message channel; both write to the same data directory: the worker
saves `checkpoints.json` and writes staging directories, main turns staging
directories into match directories.

| Component | State | Operations | Talks to | Hard behaviour | What makes it correct |
|---|---|---|---|---|---|
| Segmenter (`parser/src/l2/segmenter.ts`) | IDLE / IN_MATCH / IN_SHUFFLE, the open segment, completed shuffle rounds | `push`, `end`, `hasOpenSegment` | callbacks to the facade | orphan END, double START, a START of another bracket inside a shuffle, input that ends inside a match | segments partition the lines between their brackets, rounds in order, `lineIndex` names the record's own raw line, open and close alternate |
| Facade (`parser/src/api.ts`) | the segmenter, listeners | `push`, `end`, `on` | pipeline, importer | exceptions while a match is built | as above; one bad match does not stop the log |
| Tail reader (`worker/tailReader.ts`) | offset, carry bytes, first-line checksum | `readTail` | file system | the game appends and replaces the file between stat, checksum, open and reads | each complete line of each generation is handed over exactly once, no spurious rotation |
| Pipeline (`worker/pipeline.ts`) | a parser, a tail, a checkpoint | `processFlush`, `closeOpenSegment` | reader, parser, store | rotation in the middle of a match | the checkpoint stays outside every match |
| Watcher (`worker/watcher.ts`) | dirty set, timers | `drain`, events of `fs.watch` | runtime | writes while a drain is running, a flush that throws | a change that was noticed is flushed |
| Runtime (`worker/runtime.ts`, `checkpoints.ts`) | pipelines, checkpoint registry | `configure`, `flushFile`, save | store (staging), main (messages) | a crash between reading, staging, posting and saving | nothing before a saved checkpoint is lost |
| Worker host (`main/workerHost.ts`, `crashPolicy.ts`) | child handle, crash count, quarantine, timers | `start`, `stop`, respawn | worker | crash loops, stop racing respawn | a poisonous file is quarantined, a stopped host stays stopped |
| Message handler (`main/workerMessageHandler.ts`) | none | one case per message | store, recorder, renderer | a match that is posted twice | a match is announced as live at most once |
| Match store (`main/matchStore.ts`, `shared/atomicWrite.ts`) | directories, `_index.ndjson`, in-memory index, caches | `init`, `store`, `stageMatch`, `commitStaged`, `rebuildIndex`, reads | worker (staging), importer, IPC | two processes writing one directory tree, crashes between system calls | every whole directory is in the index, one directory per id, a stored match stays |
| Log import (`main/importLogs.ts`) | a stream and a parser per file | `importLogFiles` | store | runs next to a live worker on the same log | idempotent |
| Recorder (`main/recorder.ts`, `obsClient.ts`) | bypass mode: connection, recording state, timers; managed mode: game up, in match, owed split, four timers, the promise chain | segment open/close, connect, stop, game up/down, timers | OBS, recordings store | late answers, timeouts, quiet log | it knows its own recording, ends it, and leaves the user's alone; no chunk grows for ever |
| Managed OBS (`main/managedObsBackend.ts`) | connection, active, current chunk, split waiter | start, split, stop, events | recorder, OBS | a late answer to an earlier split, a start that overlaps the game's end | the index says what is recorded; OBS does not go on when the game is down |
| Recordings store (`main/recordingsStore.ts`) | `recordings.ndjson`, `metaBuffer` | `openChunk`, `closeChunk`, `add`, `associate`, `prune` | recorder, message handler | row and metadata arrive in either order; a file that cannot be deleted | a match gets the recording that shows it; nothing is deleted without a reason or forgotten before it is gone |
| Lifecycle, updater (`main/index.ts`, `quitLifecycle.ts`, `updater.ts`) | phase, pending update | quit, install | everything | quit while shutting down | the app ends, once, and one installer starts |
| Process watch (`main/wowProcessWatch.ts`) | last known state | poll tick | managed OBS | ticks that overlap | no event out of order |
| AI analysis (`main/analysis.ts`) | generations, running entries, deep dives in flight, slotted cache documents | `run`, `deepen`, `cancel` | network, store, renderer | calls in flight for minutes, superseded and never aborted | a superseded call writes nothing, no other is lost, a slot holds one analysis |
| Settings, IPC, learning, renderer | values | setters, request handlers | all | little | |
| Analysis engine, parser-compat | none | pure functions over a match | | input space | tested, not modelled |
| Log pipeline (`packages/log-pipeline`) | its own tail state | flush | | as the tail reader | not modelled |
| eval, corpus-tools | | offline scripts | | | not modelled |

The path of a match, which the core of this project is about:

    game --append--> log file --readTail--> tail --push--> segmenter --match-->
      stageMatch (worker, disk) --message--> commitStaged (main, rename) --> index

and beside it the *checkpoint*, which says where a new worker starts to read.
The hazards of the whole code base, with their lines and the properties that
cover them, are listed in `PROJECT.json`.

## 2 The plan

Ordered by what is lost when it goes wrong.

1. `SegmenterOps`, `Segmenter`: the segmentation rules as operators, then as a
   state machine against a declarative reading of the log. *Done; proved.*
2. `TailReader`: `readTail`, one system call per step, against the game. *Done;
   proved.*
3. `Ingest`: log, worker, channel, store and import with crashes. Uses
   `SegmenterOps`; abstracts `TailReader` to one step and the store's
   operations to one step each. *Done.*
4. `AtomicStore`, `MatchStore`: `stageMatch`, `commitStaged`, `store`, `init`
   system call by system call, with crashes between any two, calls that fail and
   damaged directories, shown to implement the atomic store. *Done; proved.*
5. `WorkerHost`: crash policy, quarantine, the respawn timer against `stop` and
   settings changes. *Done; safety proved.*
6. `Recorder`: the bypass mode: segment signals, OBS answers and timeouts, the
   safety valve. *Done; state invariants proved.*
7. `ManagedRecorder`: the managed mode of `recorder.ts` over
   `managedObsBackend.ts`. *Done; safety proved.*
8. `RecordingsStore`: what both modes write into the index, association and
   pruning. *Done; safety proved.*
9. `QuitLifecycle` with the updater. *Done; safety proved.*
10. `AnalysisRun`: runs, deep dives and cancels over one cache. *Done; proved.*

Left for later: the documents of a stored match (`get`, `reparse`, the LRU
cache, the slim heal, `rebuildIndex`, all with awaits in them) against commits;
the renderer's batch queue over `AnalysisRun`; the second tail reader of the log
pipeline; the game process watch; the composition of `Ingest` with
`AtomicStore`.

Abstract specifications worth stating: a *ledger* of matches (a match is seen,
then stored or lost with a dying process, once) that `Ingest` implements; the
atomic store that `MatchStore` implements (`AtomicStore`, done).

Bounds: one or two files, the shortest logs that hold a match, a shuffle and a
shuffle of two rounds, one fault of each kind at a time, so that every pair of
faults of different kinds meets.

Theorems, in order: type correctness and line alignment of `Segmenter`; the
invariants of `Ingest` (checkpoint outside a match, nothing before a checkpoint
unaccounted for, stored once, stored whole) from one inductive
invariant that says what each reader of a log knows; the invariants of
`MatchStore` and that it implements `AtomicStore`; the safety properties of
`QuitLifecycle`, `Recorder`, `WorkerHost` and `AnalysisRun`; that `Segmenter`
delivers what the declarative reading says; that `TailReader` hands over the
file's lines; the safety properties of `ManagedRecorder`. All of these are done.

## 3 Modules and code

### SegmenterOps, Segmenter

A *parser value* is the Segmenter object: `state`, `current` (currentSegment)
and `rounds` (the completed rounds of a shuffle). `Push` is `push` for one line
and `EndOfInput` is `end`; each returns the new parser and the sequence of
callbacks the call made. `StartLine`, `EndLine`, `OtherLine` are the three arms
of `push`. A line is its kind and its position: zone, bracket, rating and
timestamps are carried by the code and never tested, except that a SHUFFLE
bracket starts a shuffle, hence the two START kinds.

`Segmenter` feeds a parser one line at a time (`PushLine`) and may end the
input (`End`), with the log and, for each line of it, the callbacks of that call
(`emitted`) as history. `MatchesReference` compares what was delivered with a
reading of the log that has no state machine: a match is a START with an END
after it and only other lines between.

### TailReader

A file is a sequence of bytes, each a line feed or not, that the game extends
(`GameWrites`) or replaces by a new generation (`GameRotates`). `readTail` is
the sequence `Stat`, `CheckRotation`, `Open`, `ReadChunk`..., `Finish`: the
game can act between any two. `Save` is the checkpoint of `processFlush`,
`Restart` a new worker that starts from any saved one. A byte's value stands
for what the line is; the checksum of a line is the line. The specification is
`ReaderSpec` (with `ReaderInit`, `ReaderNext`), because the proofs about the
reader share a module with those about the segmenter it feeds.

### Ingest

| Variable | Code |
|---|---|
| `logs` | the files, with the parser of a perfect reader as history |
| `pipe` | `pipelines`: parser, tail (`gen`, `offset`), checkpoint |
| `registry`, `saved` | the checkpoint registry and `checkpoints.json` |
| `wpc`, `agenda`, `batch`, `reading` | where the worker is: the loop of `configure` or `onFlush`, and the flush in progress |
| `dirty` | the watcher's set |
| `queue` | the channel |
| `import` | `importLogFiles` in main |
| `mainUp`, `index`, `dirs`, `orphans` | main, its index, match directories, staging directories without an owner |
| `dropped`, `announced` | history |

`Configure` is `configure` up to the first flush, `ConfigureBlind` its early
return, `StartFlush` / `FlushLine` / `EndFlush` are `flushFile` and
`processFlush` (one step per line, because the parser's callbacks stage and
post inside the loop), `SaveCheckpoints` / `SaveFails` the save at the end of
the round, `Drain` the watcher's timer. `Emit` is `emitFromPipeline` with its
fallback to the full document. `Commit`, `CommitFails` are the message handler,
`ImportStart` / `ImportLine` / `ImportEnd` the streaming import, `WorkerCrash`,
`MainCrash`, `MainStart` the faults and `init`. A worker that dies may take the
last messages it posted with it (`WorkerCrash`, `LostAfter`): of a process that is
killed, those that main has not received are gone, and its checkpoint may be
saved already. `dropped` are the matches lost like that, or with main, or in a
commit that failed; `announced` is the sequence of live announcements, so that a
second one would show; `cutShort` is what an import delivered when its log ended
inside a segment. A match's id is the place where
its first segment starts: in the code, the hash of that segment's raw lines, so
two readings of one shuffle have one id even when one of them is truncated.

### AtomicStore, MatchStore

`AtomicStore` is what users of the store may rely on: a match is on disk as a
whole or not at all, nothing but damage from outside makes a whole match less,
and the library of a running application starts with all that is whole and
loses nothing.

`MatchStore` keeps what the file system has (`dirs`, `stages`, `indexFile`) and
where the two processes are between system calls.

| Action | Code |
|---|---|
| `InitRead`, `InitSweep`, `InitRecover`, `InitFinish` | `init()`: the index file, the staging directories of earlier runs, directories the index lacks, entries without directory and the rewrite |
| `RewriteRetries` | `renameWithRetrySync`: the target removed before the second try |
| `Import`, `Receive`, `StoreBegin`, `StoreWrite` | `store()` from the import or for a full document, `writeStagedFiles` call by call |
| `CommitBegin`, `CommitRemove`, `CommitRename`, `CommitList` | `commitStaged`: dedup, `rmSync` file by file in any order, the rename, the index |
| `Stage`, `StageWrite`, `StagePost`, `StageFails` | `stageMatch` in the worker, with the fallback of `emitFromPipeline` |
| `StoreWriteFails`, `CommitFails` | a call that throws; the exception leaves the message handler and the message is gone |
| `MainCrash`, `WorkerCrash`, `WorkerStart`, `Damage` | the environment; a crash may cut an append short |

Staging directories are named by match, process and a number; process and
number together are one number here, used once, and `.tmp-<id>` is number 0.
A `meta.json` that is "other" is JSON without an id: `commitStaged` takes it for
intact, `stageMatch` and `init` do not.

### WorkerHost

The host's fields (`config`, `crash`, `lastCurrent`, `stopping`), main's
quarantine list and the pending respawn timers, over a worker cut down to what
the host can observe: it is configured, scans the logs in the order of their
names, posts a status before each flush and a match when one is complete, and
dies in the flush that reads the fatal line of a bad log. `Exit` and `Restart`
are the exit handler with `nextCrashRecord` (`NextCrashRecord`, `SameSpot`,
`Guilty`), `Respawn` its timer, `StartMonitoring` the settings path in
`index.ts`. Offsets are counted in units larger than the tolerance of the crash
policy, so "same spot" is equality. `Kill` and `Lose` are deaths and lost
messages that no log is to blame for.

### QuitLifecycle

`phase` and `thenQuit` are the lifecycle handler (`thenQuit`: the chain in
flight is `finish()` and not the bare `cleanup()` of `shutdown()`); `update`,
`installs`, `installing`, `watchdog` are the update service; `feed`,
`downloaded`, `handed`, `quitSoon` are electron-updater as the comments of
`updater.ts` quote it: called a second time it refuses and resets its own flag,
and when the flag is not set it installs at exit. `AskToQuit` is the user's quit
or the last window closing, `BeforeQuit` the two listeners of `before-quit`,
`Settled` the end of the race in `cleanup()` with all that runs before the next
event, `HandOver` the rest of `install()`. Guard `Turn` keeps other events out
while a continuation is due. The specification is `QuitSpec`, because its proofs
share a module with the recorder's.

### Recorder

`svc` is the closure of `createRecorderService` in the bypass mode: `connected`,
`recording`, `weStarted` (weStartedRecording), `client` (the object in the
variable and what became of its socket), `valve` (safetyTimer) and the job at
the head of the promise chain, with the request it awaits (`at`). `queue` is the
rest of the chain, `obs` what OBS really records and a request that its sender
no longer waits for, `hist` history.

The code between two awaits is an operator from one `svc` to the next, named
for its function: `EnsureConnected`, `Reconciled` (reconcileWithReality),
`Collect` and `AfterStop` (closeOrphanRecording before and after its request),
`DoClose`, `OnClosed`, `Started`. Each action is one answer: `ConnectAnswered`,
`StatusAnswered`, `StartAnswered`, `StartRefused` ("already active"),
`StopAnswered`, and their failures, where an error and the 15 s timeout of
`withTimeout` are one step with three outcomes: OBS never got the request,
carried it out, or will (`LateRequest`). `TestConnection` runs off the chain,
between any two steps.

Assumed of the outside: OBS takes requests in turn; obs-websocket-js reports a
connection that was refused as closed, too; a signal to open comes only while
recording is enabled and the mode is bypass. The index rows and `lastError` are
left out.

### ManagedRecorder

The managed mode: OBS records as long as the game runs, in chunks (files), and
every chunk has a row in the index. `chain` is `managedChain`, the job at its
head is suspended at `pc`; the synchronous code between two awaits is one
action. The state of `recorder.ts` (`running`, `status`, `inMatch`, `owed`,
`timers`) and that of `managedObsBackend.ts` (`connected`, `active`, `current`,
the split `waiter` with the file it `expected`, `stale`) are in one module,
because the races are between them.

| Action | Code |
|---|---|
| `WowUp`, `WowDown`, `SegmentOpen`, `SegmentClose`, `Stop` | the signals and `stop()`, up to the job they queue, in any order: `stop()` comes from the assembly's teardown, which stops the watch first, or from the quit, which does not, so the game and its matches go on |
| `IdleFires`, `MaxFires`, `StuckFires`, `RetryFires` | the four timers |
| `StartAtOnce`, `StartAsks`, `StartWaited` | `attemptManagedStart` and `startContinuous`; `StartScans` is its scan of the directory |
| `SplitUnconnected`, `SplitAsks`, `SplitWaitExpires`, `Split` | `managedSplit`, `splitChunk` and its end |
| `StopAsks`, `DownUnconnected`, `StopContinuousEnds` | `onWowDown`'s job and the StopRecord of `stop()`: `stopContinuous` |
| `StopAtOnce`, `Disconnected`, `ProcessStopped` | the rest of `stop()`'s job: no StopRecord when the game is down already, the awaited disconnect in `shutdown`, the awaited `managedProcessStop` and what follows it |
| `NoBackend` | a split that runs after the teardown took the backend away |
| `StartedEvent`, `ChangedEvent` | `openFirstChunk`, `handleChunkSplitEvent` and the subscriber in the recorder |
| `ObsHandles`, `ObsSwitches`, `CallTimesOut` | OBS, in order: it answers, refuses, stays silent, changes file later |

`asked` are the requests OBS has not handled: one that timed out is handled all
the same. `hears`: the socket delivers events, to listeners and a subscriber that
stay attached until the disconnect and the process stop are over, also while
`stop()` waits for them; so a late event still opens a row and arms timers. `gone`:
the process has ended. `unclaimed` and `unstopped` are history.

### RecordingsStore

The index of recordings with both ways of filling it, over a clock:
`FirstChunk`, `Cut`, `IdleCut`, `StopContinuous`, `ObsDies` (managed) and
`DoClose`, `CloseFails` (bypass); `HearOpen`, `HearMeta`, `HearClose` are the
signals of a match, heard any time after the start or the end they tell of.
Operators stand for the store's functions: `Associate` and `AssociateAll` (with
`Candidates`, `Overlap`, `Hits`) for `associate`, `Prune` with its gates
`Reclaimed`, `KeptForCount`, `KeptOrphans` and `KeptForBytes` for `prune`. The
store is synchronous, so each call is one step. `owner` is history: the
recording a match was given to last. Not first: `metaBuffer` is never emptied,
so in bypass mode a match whose recording was pruned is associated again when
the next one closes (`recorder.ts:824`), and gets it if that one began within
`TOLERANCE_MS` of the match's end. It then counts for `recordingKeepCount` in
the place of a newer match. With larger bounds (`MaxTime` 9, three matches) TLC
shows that `DeletedForAReason` would be false of the first owner; of the last it
is proved.

### AnalysisRun

`op` has one record for each call of `run()` and `deepen()`; its `pc` names the
await the call is suspended at. `gens`, `running`, `meta`, `deepening` are the
maps of `analysis.ts`, `doc` the slotted cache document of each match.
`ClearRunning`, `Reaped` (`reapGeneration`), `IsCurrent`, `Merged`
(`writeMerged`) keep the names of the code. `RunStart` / `RunAtOnce`,
`RunRetry`, `RunReview`, `RunFinish`, `RunStale`, `RunThrow` are the pieces of
`run()`, the `Dive...` actions those of `deepen()`, `CancelOne` and `CancelAll`
are `cancel()`. Nothing is aborted: a superseded call goes on to its next await
and finds there that its generation is over. `superseded` and `orphaned` are
history: calls that a later call overtook, and calls that were in flight when
their generation entry was reclaimed.

## 4 Runs

| Run | Checks | Bounds | Shows |
|---|---|---|---|
| `segmenter` | LineIndexAlignment, MatchesReference, OpenCloseAlternate | 7 lines of 4 kinds or `end()` | every log up to 7 lines; a shuffle of two rounds with a line in each needs 6 |
| `tail_reader` | ReadsTheFile, NoSpuriousCut | 7 bytes, 3 generations, chunks of 2 | lines shorter and longer than a chunk, carries over several reads, two rotations, restarts |
| `ingest_crash` | CheckpointOutsideMatch, CheckpointedMatchAccounted, StoredWhole, StoredOnce | 1 log, 4 lines, one crash of each process, one import, one failure | every pair of faults of different kinds, on shuffles of two rounds too; the last messages of a dying worker lost before and after the checkpoint is saved; an import that ends inside a shuffle |
| `ingest_live` | CheckpointedMatchAccounted, NoticedMatchStored | 1 log, 2 generations of 2 lines, one worker crash, one failure, fairness | an open match or shuffle across a rotation; liveness |
| `match_store` | WholeIsListed, QueuedIsWhole, StoreIsAtomic | 2 matches, 2 stagings, 1 import, 2 crashes, 1 failing call, 1 damage | one match staged twice, an import and a staging of one match, a crash in the recovery from a crash |
| `worker_host` | HealthyNotQuarantined, WorkerHasLatestConfig, AtMostOneAfterStop, BadIsQuarantined, HealthyIsRead | 2 logs: a bad one of 2 units, a good one of 1, 2 configurations, 1 innocent death, 1 lost message, fairness | attribution of deaths, quarantine across settings changes, stop against the timer; crash loops end |
| `quit` | NothingBeforeCleanup, OneInstaller, CleanupEndsOrTells | 2 checks, 2 clicks; quits and answers of OBS unbounded; fairness | every order of quit, restart, settling, handover and watchdog; a hanging OBS does not hold up the end |
| `recorder` | LeavesUsersRecording, KnownDebt, ConnectedNotDead, CloseEnds, ChainMoves, RecordingEnds | 2 waiting jobs beside the timers', 1 overwritten timer; faults, users and tests unbounded; fairness | who owns a recording, through disconnects, late answers and the user; closes end it; the chain never hangs |
| `managed` | RowsAreTrue, ChunkIsTimed, DownStopsObs, ChainMoves | 3 files, 2 starts of the game or openings of matches, 2 jobs on the chain, 2 requests not handled; fairness | late answers and late files against splits, the game's end and every stage of `stop()`; a game that ends between `stop()` and its job; no chunk without a timer |
| `recordings` | HeardMatchIsClaimed, DeletedForAReason, IndexedUntilGone | 4 instants, 3 files, 2 matches, a limit of 1 match and 2 units of size, 1 orphan kept, a grace of 1 | row before and after metadata, every gate of the retention, a file that is being played |
| `recordings_lobby` | MatchHasItsVideo (violated) | the same | the finding |
| `analysis` | SupersededIsSilent, LatestIsDelivered, RunningIsTrue, QuietLeavesNothing, SlotIsOneAnalysis | 2 matches, 3 runs, 2 deep dives, 2 slots, `cancel` below generation 2 | two calls superseded in a row, a dive over a run and a run over a dive, a reclaim under a zombie |

Each module with several variables has a `TypeOK` (`ReaderTypeOK`,
`QuitTypeOK`, `RecordingsTypeOK`). No run checks it: it is proved for every module.

Four lines suffice in `Ingest` because its new matter is where a crash falls:
the shortest match has two lines, the shortest two-round shuffle three, so there
is room for a checkpoint before, inside and after it, for a reading of it that
misses a round, and for a second match behind a first one. Longer logs add
only repetitions of the segmenter, which `segmenter` and the proofs cover.

*Deadlock* is not checked where the bounds let the game, the user and the
faults run out.

*Fairness* (`FairSpec` of `Ingest`). Weak fairness on the steps of a flush and
of the save: they are the body of a synchronous loop. On `Drain`: the watcher's
interval timer and its quiet timer call it again as long as a file is dirty. On
`Commit`: the message channel of a process that runs. On `Configure` only from
"down": the host respawns a dead worker after a delay and configures it. None
on the game, on the user's settings changes or import, or on the restart of the
application; so nothing is claimed of a worker that could not list the
directory (`ConfigureBlind`).

`FairSpec` of `WorkerHost`: weak fairness on the worker's loop and on reading its
next configuration, on the host's event handlers and on its timer, all of which
a running process executes; none on the game, the user, `stop` or the faults.

`FairSpec` of `QuitLifecycle`: weak fairness on timers (the cap of the cleanup
race, the watchdog), on continuations and on an exit that was let through; none
on OBS, the update feed or the user. Two checks and two clicks give a check
that makes the state ready again after the first click; the proofs have no such
bound.

`FairSpec` of `Recorder`: weak fairness on the start of the next job (the chain
is a chain of promises), on the timeout of the request a job waits for
(`withTimeout`, around every call) and on the safety timer. None on OBS, which
may leave everything unanswered, nor on the signals. Two waiting jobs give every
pair of open, close, stop and safety behind a running one; the number of socket
losses, late answers and connection tests is not bounded.

`FairSpec` of `ManagedRecorder`: weak fairness on `JobStep`, the jobs' own steps:
every call is raced with a timeout (`CallTimesOut`), the waits for the first
chunk and for a split's file have one too, and the chain goes on after a job
that threw. None on OBS, the game, the log or the user. Three files give a
chunk, the one a split opens, and the one a late split opens after it.
Two jobs on the chain give `stop()` and the game's end behind each other, either
way round, and one of them behind any other job.

`RecordingsStore` and `AnalysisRun` are checked for safety only. In
`RecordingsStore` three files are the recording before a match, its own and the
next; the limits are the smallest that some file can pass and some file can
fail. The three properties also hold with one more instant, a grace of two and a
size limit of three (1 million states). In `AnalysisRun` three runs are a
superseded one, the one that superseded it and a later one; runs, matches and
slots are symmetric. The proofs of section 6 have none of these bounds.

Two matches suffice in `MatchStore`: the operations on different matches meet
only in the index file and in main's attention; two crashes give a crash in the
start after a crash. The proofs of section 6 do without these bounds.

Every property is paired in `PROJECT.json` with a small change of a definition,
of the kind a slip in the code would be, that breaks it. These variants stand
next to the definition they vary, with a comment "Mutant of".

## 5 Findings

`recordings_lobby`. `recordingsStore.ts:226-227` says of the candidates for a
match that "the one COVERING MORE of the match's time window wins", and lines
103-105 that a recording without `stoppedAt` has an overlap of null so that the
caller falls back to the closest start instead of "wrongly sorting it last".
`associate` sorts by `a.overlap ?? -1` (line 283), which puts a recording that
is still written behind every other candidate, those of overlap 0 included. The
worker posts a match before the close of its segment, so the match's own
recording is open at that moment; if a recording of the lobby, cut at the
match's first instant, ended within the tolerance and carries no match, it gets
the match. The recording that shows the match stays an orphan, and `prune`
deletes it after the grace. `HeardMatchIsClaimed` shows that such a match always
has *some* recording.

Other places where the code does less than a comment near it says. They came up
while modelling; the properties name each as an exception, so that what
remains is checked:

- *A match is lost between checkpoint and commit.* The worker posts a staged
  match and saves the checkpoint past it without an answer from main. If the
  application ends in between, `init()` removes the staging directory
  (`matchStore.ts:675-681`) and nobody reads the match again; `runtime.ts:111`
  says "so a match is never dropped". The same if the worker alone dies after the
  save and its last message with it: main stays up, respawns it
  (`workerHost.ts:59-67`), and it starts behind the match.
  `CheckpointedMatchAccounted` shows that these two and a commit that throws are
  the only ways.
- *An import of the live log* in the middle of a solo shuffle stores the finished
  rounds under the id of the whole shuffle, which is then dropped as a
  duplicate (`importLogs.ts:28` calls the import "naturally idempotent").
  `StoredWhole` excepts what an import of a log that ended inside a segment
  delivered (`cutShort`), and shows that nothing else stores less than a whole
  match.
- *A quit that is held back* while the cleanup belongs to the updater's
  `shutdown()` is not asked again (`quitLifecycle.ts:4-11`): the updater counts
  on `quitAndInstall` to do it. `CleanupEndsOrTells` has the error state as the
  other outcome.
- *An orphan whose stop failed* gets no other shot: `closeOrphanRecording` gives
  up `weStartedRecording` in its `finally` (`recorder.ts:642-645`, 677), and the
  fallback acts only while it is set (line 898). `KnownDebt` and `CloseEnds`
  show that this is the only way to lose track of a known recording.
- *Generations begin again after a reclaim.* `cancel` empties the running entry
  of a run in flight, a later call of the match ends and reclaims the
  generation entry (`analysis.ts:603-616`), the next run gets the old number, and
  the cancelled call takes itself for the latest. `orphaned` is this case, the
  exception in three properties.
- *A superseded run whose call throws* returns from the `catch` at
  `analysis.ts:1031` without `clearRunning`, and the match stays "analyzing", the
  leak the comment at 564-569 excludes. It is the exception "threw" of
  `RunningIsTrue` and `QuietLeavesNothing`.
- *A deep dive on a result that is no longer active* merges its findings into the
  slot of another run (`analysis.ts:1150`): `fresh` in `SlotIsOneAnalysis`.
- *Status without evidence.* `recorder.ts:281-289` calls the managed status
  evidence-based; `probe()` is ready once the socket is up, also when StartRecord
  was refused (589-613). `ManagedRecorder` keeps what the code does, and no
  property is about it.
- *Late splits.* A split whose file changes after the wait leaves the row of the
  old chunk open; so does one whose call fails after its event came, and the
  next split of the same file after one whose call failed when the wait was over
  (its debt in `staleExpectedClosingPaths` is never paid). These are `unclaimed`
  in `RowsAreTrue`, and so is a chunk that is current when `stop()` closes the
  socket or ends OBS: one that began while the disconnect was awaited, or one of
  a game that ended between `stop()` and its job, which then sends no StopRecord
  (`recorder.ts:1103`). A later `prune` reclaims such a row
  (`recordingsStore.ts:403-419`), as `RecordingsStore` has it.
- An idle split that was queued before a match began runs inside it; the comment
  at `recorder.ts:841-846` speaks of the timer only.

## 6 Proofs

`SegmenterOpsProofs` has the lemmas about the operators: from a well-formed
parser (`ParserOK`: typed, and what is open agrees with the state) every call
returns a well-formed parser, typed callbacks, and at most one delivery.

`SegmenterProofs` proves, for logs of any length, `TypeCorrect`,
`LineIndexAlignmentHolds`, `MatchesReferenceHolds` and
`OpenCloseAlternateHolds`. Alignment is not inductive as checked: it speaks of
delivered segments, and a step delivers the open one, so the invariant also says
it of the open segment and of the rounds kept by the parser (`Sound`). For
`MatchesReference` the induction needs what the parser holds in terms of the log:
`Tracks` relates it to the STARTs since the last break and to the rounds among
them, as the declarative reading finds them: whether there are any decides the
state; the open segment begins at the latest; the rounds kept are in order and
each ends right before the next begins. `PushTracks` carries it over a line,
`ReferenceNow` says that what the declarative reading gains with one line is the
bundle that ends there, and `NowDelivers` puts the two together: a call delivers
exactly that bundle. `OpenCloseAlternate` follows from `CallSignals`: a
call makes one signal at most, and it is the one that leads from the parser's
state before it to the one after.

The same module proves the reader in front of it: `ReaderTypeCorrect` and, on
the hypothesis that the head of a file that can be read can be opened too
(`HeadMayFail = FALSE`, section 7), `ReadsTheFileHolds` and
`NoSpuriousCutHolds`, for files of any length, any chunk size and any number of
replacements and restarts. `NoSpuriousCut` speaks only of a first generation of
which a line was read (an offset above 0): elsewhere a checksum taken of an
unfinished first line does make the next call report a replacement that was
none. The invariant comes in two layers. `Shape` needs no hypothesis: the file
is a beginning of its generation (`IsFile`), offsets stand between lines and a
carry begins with a line (`Boundary`), whatever generation its bytes are from.
`Content` adds whose bytes they are, in the terms of the log: a checksum that is
not null belongs to one generation; if that is the one on disk, then the
checkpoint and the offset are inside the file (`PositionOK`), the carry is what
follows the offset there (`StateOK`, `CarryOf`), and the lines handed over since
the checkpoint are those between the two (`HandedOK`). The same is required of
the state of a call in progress, which the call compares with the file only
once, in `CheckRotation`; `CheckKeepsContent` is the step where each way a
replacement can fall into a call is met. `CompleteLines` is defined through the
set of newlines, so that the lines of a file are compared position by position
(`NewlinesAt`, `LinesAt`, `LinesJoin`) and no induction over the file is needed.

`IngestProofs` proves, for any set of files and any bounds, that `IInv` is
inductive (`InductiveInvariant`) and from it `TypeCorrect`,
`CheckpointOutsideMatchHolds`, `CheckpointedMatchAccountedHolds`,
`StoredOnceHolds`, `StoredWholeHolds` and `MatchesApartHolds`. The only assumption is
`IngestAssumption`, on the types of the bounds. `CheckpointedMatchAccounted`
is not inductive: it speaks of `checkpoints.json`, which is copied from the
registry, whose entries were copied from pipelines, whose positions come out of
a flush that may still be running. So one predicate is required of each of
these places: `Upto` says that whoever holds a position of the generation on
disk with some parser has exactly the parser a reader of those lines is in, and
that every match complete in them is accounted for (stored, in the channel, or
dropped: with main, with the last messages of a dying worker, or by a commit that
failed). The parts of `IInv` are

- `LogsOK`: the history of each log is what `Push` makes of its lines;
- `SavedOK`, `RegistryOK`: `Upto` with an idle parser, which is what "the
  checkpoint is outside every match" amounts to;
- `PipesOK`: `Upto` for a pipeline's checkpoint, and for its position unless
  the pipeline is being flushed;
- `ReadingOK`: during a flush, `Upto` for the line reached, and the lines in
  hand are the ones that follow it in the log, if that log is still on disk;
- `ImportOK`, and `IndexMatchesDisk`: main's index is what is on disk. That
  holds by the store's operations being atomic here, and is a help for the
  proof, no result; `WholeIsListed` of `MatchStore` is.

The argument for a step has two halves. The step's own place moves by
`UptoLine` or `UptoStart`; every other place keeps its `Upto` because logs only
grow (`UptoGrows`) and what is accounted for stays so. The second half is one
lemma for all actions. A crash keeps accounts, too (`CrashAccounts`): what it
takes out of the channel is stored, or dropped, or not yet behind a saved
checkpoint. `Once` adds for `StoredOnce` that only stored matches were announced,
each once. `WholeInv` adds for `StoredWhole` that whatever is stored or posted of
the log on disk is among the matches a perfect reader of it delivers (`KnownOK`)
or was cut short by an import. `MatchesApart`: no two matches of a log
have one id, from the rules of the segmenter. A flush delivers nothing
else because `IInv` says that its parser is the perfect reader's.

`MatchStoreProofs` proves, for any set of matches and any number of stagings,
imports, crashes, failures and damages, `TypeCorrect`, `MetaImpliesWholeHolds`,
`WholeIsListedHolds`, `QueuedIsWholeHolds` and, as a refinement,
`StoreIsAtomicHolds`. Its assumption is `MatchStoreAssumption`, on the types of
the bounds. The inductive invariant adds to the checked ones where each staging
directory is: `QueueOK` (a posted one is complete, posted once, and neither
written by the worker nor being committed), `MainOK` (what main commits is
complete and not the worker's; what it removes does not name its match; no
worker and no message before init is done), `WorkerOK` and `ListOK`. The heart
of it is `CommitBeginStep`: a commit that is not a duplicate meets a directory
that does not name the match, because one that does is whole, hence in the
index, hence held. From there the refinement is one lemma per action: the rename
is `Put`, the removals are `Clear` or nothing, the index is `List`, the end of
init is `Load`, and all the rest is not seen.

`RecorderProofs` proves `TypeCorrect`, `KnownDebtHolds`,
`LeavesUsersRecordingHolds` and `ConnectedNotDeadHolds`, for any queue and any
number of stray timers. The invariant adds two facts. `Waiting`: the service
records only what it started, no dead client passes for a connection, and a
StopRecord is out only for a recording that gladlog started. `Belief`: what
gladlog takes for its own is its own or has ended behind its back, and what is
its own it takes for its own. Each operator for the code between two requests
gets a lemma that it establishes `Waiting` and what it does to the ownership.

`ManagedRecorderProofs` proves `TypeCorrect`, `RowsAreTrueHolds`,
`ChunkIsTimedHolds` and `DownStopsObsHolds` for any number of files, signals,
jobs and late requests, from `BoundsAssumption` alone. The inductive invariant
is made of `Flags` (the Boolean variables, which Zenon has to handle) and
`Safe`, whose parts follow a file from OBS to the index. `ObsOK`: events on the
wire tell of files in the order they begin. `BackOK`: the backend lags behind
OBS. `CallOK`: the request that the job in progress waits for is the last one
OBS was asked, so the answer it gets is the answer to it. `TimedOK`: while OBS
lives, a chunk that no timer cuts is cut by a job on the chain. `ChainOK`: a
start is on the chain only while the game is up, its end is queued behind it, or
`stop()` was called, whose job is on the chain until OBS is gone. `StopOK`: as
long as OBS records or was asked to, a stop, or the end of the process, is still
to come. `EndOK`: chunks are heard of only while the socket is open, and once
OBS is gone nothing is recorded, asked or on its way; that `managedProcessStop`
ends OBS is an assumption (section 7). The hard part is a request that timed out
and is handled all the same: `Around` is what may change around the job
meanwhile, and `AnswerFits` what an answer "ok" may be relied on for.

The same module as the recorder's, `RecorderProofs`, holds those of the end of
the application, for any number of checks and clicks: `QuitTypeCorrect`,
`NothingBeforeCleanupHolds` and `OneInstallerHolds`. The invariant adds that before
the one call of `install()` has gone on, electron-updater has not been called
(`InstallerInv`): that is what the latch is for.

The third part of `RecorderProofs` is about the index of recordings:
`RecordingsTypeCorrect`, `HeardMatchIsClaimedHolds`, `IndexedUntilGoneHolds` and
`DeletedForAReasonHolds`, for any clock, files, matches and limits, from
`BoundsAssumption` alone. Two invariants carry it. `RecordingsInv`: a match that
is over began, and is not over in the future (`MatchesOver`), files get their
numbers in the order they begin (`FilesBegun`), the file being written has begun
and its row is not closed (`CurrentOpen`), and a match of the buffer that an
open or a closed row may show has a recording (`Claimed`); the last is what the
two ways into the index, row first and metadata first, have to keep up, and the
lemmas on `Associate` show how one claim leaves the others alone.
`RetentionInv`: rows are of files that began, a closed row of one that is over
(`RowsOfFiles`); the matches of a row have the file for their owner (`OwnRows`);
a file begins before it ends (`FilesTimed`); owners began (`OwnersBegun`); in
bypass mode the file being written has no row and no match (`BypassOpen`). What
`prune` keeps is defined by chains of sets, one file at a time; the lemmas show
that such a chain exists and that every file on it that is dropped was dropped
for its reason (`CountReason`, `BytesReason`), by an induction on the set of
file numbers where the claim holds.

`WorkerHostProofs` proves `TypeCorrect`, `AtMostOneAfterStopHolds`,
`WorkerHasLatestConfigHolds` and `HealthyNotQuarantinedHolds` for any logs (a set
of positive numbers: the scan goes in their order), any set of bad ones and any
number of deaths, losses and settings changes. The invariant has three parts of
its own. `StopOK`: there is one worker or one pending respawn, never both.
`ConfigOK`: the last configuration on its way to a worker is the host's.
`AttributionOK` is the argument of the crash policy: every death held against a
healthy log has a fault of its own (a death no log is to blame for, or a lost
message), and so has one that is about to be held against it. `Blames` says which
log that will be once the host has read what is left in the channel. It is
inductive because a flush is announced before it begins. Checked first on an
instance with two innocent deaths (1.7 million states).

`AnalysisRunProofs` proves `TypeCorrect`, `SupersededIsSilentHolds`,
`LatestIsDeliveredHolds`, `RunningIsTrueHolds`, `QuietLeavesNothingHolds` and
`SlotIsOneAnalysisHolds`, for any sets of matches, runs, dives and slots. The
assumptions are that runs and dives are different things and that "none" is
neither of them. The heart is `NumbersOK`: a call in flight whose entry was never
reclaimed has a number up to the present one, and the present one exactly when
nothing superseded it. It needs to know under whom an entry is reclaimed:
`DivesOK` (a dive in flight is in `deepening`, so never a dive), `OwnersOK` (a run
that is not superseded owns the running entry, so never such a run), hence
`OrphansOK`: a superseded run, whose match is *haunted* from then on. The other
parts follow the data: `HandedOK` (the result a dive was handed is the active one
until something supersedes the dive) and `WrittenOK` give `SlotIsOneAnalysis`.
The proof has one lemma for each action and part. The theorems have the
exemptions the properties have, all of them cases the code meets (section 5):
nothing is claimed of a superseded call that survived a reclaim, of a match
with such a call (`LatestIsDelivered`, `SlotIsOneAnalysis`), of the entries a
superseded run leaves behind when its call throws (`RunningIsTrue`,
`QuietLeavesNothing`), or of a dive that was not fresh when it began
(`SlotIsOneAnalysis`).

Model-checked only: all liveness: `NoticedMatchStored`, `BadIsQuarantined`,
`HealthyIsRead`, `CleanupEndsOrTells`, `CloseEnds`, `RecordingEnds` and the two
`ChainMoves`, since liveness under fairness and ENABLED are outside the prover.
The library's induction theorems cannot be instantiated either (they take an
operator); where a proof needs an induction over data, it is made on a set of
numbers, by its least element (`CountThirds`, for instance).

## 7 Limits of the models

- Lines that are blank or do not decode never reach the segmenter and are left
  out. Building a match from its segments (`l3`) may throw; the code reports
  `BUILD_FAILED` and goes on, and so is left out.
- `TailReader` assumes that within one `readTail` call the file is replaced at
  most once, and by a file whose first line is already complete (the guard of
  `GameRotates`). Without it, lines of one generation can be kept under a null
  checksum or that of another: the code does not defend against it.
- `TailReader` has the constant `HeadMayFail`: the head of the file cannot be
  opened for the checksum while stat and the read succeed. The run sets it
  FALSE; with TRUE both properties fail. For `ReadsTheFile`: the checksum stays null
  while the first two bytes of a file are read into the carry; the file is
  replaced, the next call takes the checksum of the new one and reports no
  replacement (a null checksum never does), and the old bytes stay in the carry
  in front of the new ones. The theorems have the same hypothesis.
- Between the scan of `configure` and the start of `fs.watch` a write raises no
  event, and there is no periodic rescan. `Ingest` has the gap
  (`Notify` does nothing while `wpc` is "scan"), and `NoticedMatchStored`
  claims nothing for such a write.
- In `Ingest` the store's operations are atomic; `MatchStore` splits them, and
  `AtomicStore` is what remains of them for an observer. The two are not
  composed.
- `MatchStore` takes system calls for atomic and ordered: what a power failure
  leaves of calls that returned is not modelled (the code calls no fsync).
  Removing a staging directory is one step; its remains are never read. When
  a stored match is committed again because its `meta.json` was damaged from
  outside, and the application ends between `rmSync` and the rename, the staged
  copy is the only one, and `init()` sweeps it: `StoreIsAtomic` allows it,
  because a damaged match is not whole.
- `WorkerHost` has a store that accepts every match. With one that refuses,
  a match posted anew before each death clears the crash count each time, and
  `BadIsQuarantined` does not hold; listed as a hazard.
- `Recorder` takes open and close signals in any order; the quiet valve of the
  worker, which is one of their sources, is not modelled. A recording OBS
  started on a request whose answer was lost ("silent") is nobody's: gladlog has
  no evidence that it is its own, and leaves it alone.
- `CloseEnds` makes three exceptions that the code has. A request of the closing
  job failed. A connection test took the client away while the job was
  reconnecting: `testConnection` drops a client whenever `connected` is FALSE,
  and it is until the connect is answered. `recording` was set without a client
  (`Stranded`): a replaced socket closes while StartRecord is out, a test drops
  the client, then the answer arrives.
- `LeavesUsersRecording` excuses one case: gladlog's recording ended without its
  knowledge (the user stopped it, OBS crashed, a StopRecord whose answer was
  lost), the user then started one of their own, and the next close takes it for
  gladlog's. `weStartedRecording` knows of ownership only, not of "this video",
  as the comment on it says (`recorder.ts:249-250`).
- A timer that was overwritten in `safetyTimer` (OBS restarts, a crashed worker
  leaves its match without a close, the next match starts a recording) can end
  the later recording early; `StrayFires` has the step, and no property forbids
  it.
- `ManagedRecorder` has no clock: every timer may fire as soon as it is armed,
  every timeout may run out at once. The chapter mark (no effect on the state),
  the once-a-minute probe and `lastError` are left out. A refused answer and a
  silent OBS are told apart only where the code does. `stop()` comes once, and there
  is one OBS process: its start again by a later assembly is not modelled. After
  `stop()` a split finds the backend (the quit leaves it there) or finds it taken
  away (the assembly's teardown), whichever. `managedProcessStop`, which asks OBS to
  close and then kills its process tree, is assumed to end it; if the kill failed,
  an OBS whose game ended between `stop()` and its job would go on recording, for
  no StopRecord is sent.
- `RecordingsStore` has matches that follow one another and one recording at a
  time. Rows of an older format, torn lines, files deleted from outside, the
  report of unindexed files and restarts of the application are left out. In
  bypass mode only signals, not the safety valve, end a recording.
- `AnalysisRun` has results, not texts. Window analyses (one request each behind
  an idempotency guard), the coach chat and the findings flags are left out. The
  cache file is one per match and language (`analysis.ts:687`, 1076-1079); `doc` is the
  one of the language in use, and a dive begun under another `aiLanguage` merges
  into a document it did not begin from: it counts as not fresh. A
  write of the cache document is atomic, as `readFileSync` and `writeFileSync`
  without an await between them are for one process.
- The documents of a stored match are not modelled: `get` and its LRU cache over
  awaits (`matchStore.ts:950`), the slim heal, `reparse` and `rebuildIndex`
  (777). The first is a cache of immutable directories; the last writes back
  metas it read before an await, runs once after an update, and is listed as a
  hazard without a property.
- Not modelled for good: the analysis engine and parser-compat (some 145,000 lines
  of pure heuristics and tables over one parsed match), the evaluation harness
  and corpus tools (offline scripts), line decoding (pure functions of a line).
  They are most of the repository's lines, and they have no state, no order
  and no concurrency: what they compute is a matter of game knowledge, with an
  input space beyond model checking, and their reference is their test corpus.
  That is why the modules here cover a small share of the lines, though most of
  the desktop application's own control. Also left out: the renderer's views, the
  OBS installer and configuration writers, settings and IPC (single setters and
  request handlers), the learning ledger, the game process watch (its signals
  come in any order in `ManagedRecorder`), the stand-alone log pipeline.

## 8 Running it

    tlc -config Segmenter.cfg Segmenter.tla
    tlc -config TailReader.cfg TailReader.tla
    tlc -config IngestCrash.cfg Ingest.tla            (and IngestLive.cfg)
    tlc -config MatchStore.cfg MatchStore.tla
    tlc -config WorkerHost.cfg WorkerHost.tla
    tlc -config QuitLifecycle.cfg QuitLifecycle.tla
    tlc -config Recorder.cfg Recorder.tla
    tlc -config ManagedRecorder.cfg ManagedRecorder.tla
    tlc -config RecordingsStore.cfg RecordingsStore.tla   (and RecordingsLobby.cfg)
    tlc -config AnalysisRun.cfg MCAnalysisRun.tla

    tlapm SegmenterOpsProofs.tla      tlapm RecorderProofs.tla
    tlapm SegmenterProofs.tla         tlapm ManagedRecorderProofs.tla
    tlapm IngestProofs.tla            tlapm WorkerHostProofs.tla
    tlapm MatchStoreProofs.tla        tlapm AnalysisRunProofs.tla
