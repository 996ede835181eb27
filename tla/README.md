# A TLA+ verification of the ACC live-telemetry module

The repository is a Rust library that records telemetry of the racing game ACC
(Assetto Corsa Competizione) into `.acctlm2` files (older ones are `.acctlm`) and, at
the same time or from a recorded file, computes dashboard values from the same frames. This directory holds TLA+ modules
translated from `src/src/`, the TLC configurations that check them on small
instances, and TLAPS proofs of many of their safety properties for every instance.
`PROJECT.json` maps each definition to the lines it stands for; paths below are
relative to `src/src/` of the repository.

## 1. The system

    caller thread(s)                    recording-holder thread             dashboard thread
    RecordingController  --stop_tx(1)-> run_recording_holder
      status_rx          <-status_tx--    run_recording_loop (engine)
      outcome_rx (16)    <-outcome_tx-      TelemetryDistributor -frame(1)-> DashboardService::run
      session_metadata   <-- Mutex ---      BinaryTelemetryWriterV2             ComputeContext
      add/remove/replace ---------------- dash_cmd_tx(16) -------------------->  subscriptions
                                          session-best callback -cmd----------->  sink --> display

A replay has a holder of its own, which runs `run_replay_loop` over a file in place of
the game. The command line's raw parser writes V1 files, a converter makes V2 files of them.

| Component (source) | State | Operations | Correct when |
|---|---|---|---|
| Controller and holder (`recording/controller.rs`, `status.rs`) | stop token, published metadata, item list, thread handles | start, stop, Drop, add/remove/replace/list items, report of a session | stop leaves no thread and no open file; each file is accounted for; metadata precedes its RecordingStarted |
| Engine (`recording/engine.rs`) | writer, last status, lap counters | one tick: stop, status, metadata, create, sample, flush, finish | no frame while Paused; a session that ends is finished; each lap is seen once |
| Latest-value channel (`dashboard/sink.rs`) | slot, minimum generation, counters, notification, handle counts | send, try_recv, recv_timeout, clear, advance, clone, drop | nothing lost or stale, every pending frame has a wake-up, every frame counted once |
| Dashboard service (`dashboard/service.rs`) | subscriptions, next-due ticks, generation, order of items | select over frames and commands, subscribe, unsubscribe, replace_all, process_frame | a delivered frame belongs to one generation and its item set; replace is atomic |
| Distributor (`distributor.rs`) | one capacity-1 sender per consumer | distribute | a slow dashboard never blocks the recording |
| Compute registry and items (`compute/registry.rs`, `items.rs`) | one slot for laps of files, one for the session's best, sector histories, search indices | resolve, replace_reference, compute | an item is given its own source's lap; its value is that of the file whatever was dropped or remembered |
| V2 writer / reader (`writer_v2.rs`, `reader_v2.rs`) | row group in memory, footer, offsets | write_frame, flush, finish / open, recover, read laps | the row groups hold each frame once; a reader is given whole row groups or refused; the lap index is exact |
| V1 writer / reader (`writer.rs`, `reader.rs`, `format.rs`) | frames in memory, index entries / rebuilt index | write_frame, flush, finish / open, scan, read clusters, ranges, laps | chunks hold each frame once, the index is theirs; a reader is given whole groups or refused |
| Outcomes (`recording/outcome.rs`) | lap index in the file | aggregate laps, extract a lap, append index | laps partition the recording and have their own times and values |
| Converter (`bin/acctlm-to-acctlm2.rs`) | none | read V1, write V2, compare | a file it takes keeps every frame and field |
| File naming (`recording/file_naming.rs`) | none | template, first free name | no recording overwrites another |
| Items, formats, shared memory, track maps, CLI | mostly none | arithmetic, byte layout, I/O | see section 13 |

What is hard to test in this code, with its line and the property for it, is the
`hazards` list of `PROJECT.json`. The groups: `stop()` against every point of the
holder's loop; the notification and the mutex of the latest-value channel; errors
half way through a session; full and abandoned channels; subscription changes
against frames in flight; a crash between two row groups or chunks; schedules and memories
on frames that were dropped; tables of columns kept by hand in six places.

## 2. Modules and plan

| Module | Composes / abstracts | State |
|---|---|---|
| `RecordingService` | implements `SessionLedger` | checked, proved with the refinement |
| `LatestValueChannel` | implements `LatestValueRegister` | checked, proved with the refinement |
| `DashboardService` | controller commands, service loop and sink; implements `DashboardFeed` | checked, proved with the refinement |
| `SessionBest` | lap detection, tracker, callback, command queue, registry | checked, proved |
| `RowGroupFile`, `RowGroupReader` | V2 writer, crash, recovery and reads; implements `FrameLog` | checked, proved with the refinement and the reads |
| `ChunkFile`, `ChunkReader` | V1 writer, crash, recovery, reads, laps; implements `FrameLog` | checked, proved with the refinement, the reads and the laps |
| `TelemetryColumns`, `ChunkColumns`, `GroupColumns`, `MetadataBlock` | the tables of both formats | checked, proved for any number of rows; metadata proved |
| `FileConverter` | the last three rows, and the conversion | checked, the conversion proved |
| `ComputeItems` | the calculated items, as operators | checked with the next |
| `ReplayDashboard` | replay loop, frame channel, schedule, registry, items, stop | checked, proved |

`*_proofs` hold the theorems, `MC*` the values of constants that a `.cfg` cannot write,
`SequenceLemmas` what the proofs need of sequences. Of a component with a reader or a
converter the proofs are in the module of the topmost one: `RowGroupReader_proofs` has those of
`RowGroupFile`, `FileConverter_proofs` those of `ChunkFile`, `ChunkReader`, `MetadataBlock` and
the tables of columns. What is left: the car-coordinate and distance items; column codecs.

## 3. RecordingService

One behaviour is the life of one `RecordingController`. Three threads: `controller`
(stop, Drop), `holder` (the control point of the recording-holder thread, which runs
both the holder's loop and the engine it calls) and `dashboard`. A step of the holder
is one region between two accesses to what other threads see, or one fallible call.

| Variable | Code |
|---|---|
| `stop_ch` | `bounded(1)` stop channel: 0 or 1 token |
| `writer`, `last_status`, `resumed`, `reason` | locals of `run_recording_loop` |
| `created`, `file`, `frames` | the files on disk: absent, open, finished (has a footer), unfinished |
| `session_meta` | `Arc<Mutex<Option<SessionMetadata>>>`, as the number of the session |
| `status_ch`, `outcome_ch`, `outcome_rx` | the two channels to the caller and whether it keeps the second |
| `announced`, `verdict`, `received` | history: the status offered last, what was said of each file, the outcome read last |

Actions follow the code in order: `HolderStart`, `Connect`, `Open`, `Retry`,
`ReportError` (`run_recording_holder`); `Tick`, `StatusError`, `StatusOk`,
`SessionInfo`, `CreateFile`, `Resume`, `Sample`, `Flush`, `Finish`
(`run_recording_loop`); `ParseOutcome`, `AnnounceStopping`, `SendOutcome`
(`handle_recording_result`, `send_outcome`); `Stop`, `JoinHolder`, `JoinDashboard`,
`DropController`; `DashboardExit`; and the caller's receives. What the game answers
(present or not, Off, Live or Pause, a frame or none) is chosen freely. `MayFail` says
which calls may return an error.

`SessionLedger` is what the owner is promised: each session is created after the one
before it was settled, records, pauses, is closed and gets one verdict; the service
does not go down with a session unsettled.

Runs:

| Run | Bounds | What it shows |
|---|---|---|
| `recording_safety` | 2 files, 2 frames, both channels of capacity 1, every call may fail | a file is never left open or unaccounted for (`ClosedFilesAccounted`), `StopIsGraceful`, `MetadataBeforeStarted`, outcomes are read once and in order (`OutcomesInOrder`), `NoFrameWhilePaused`, `ImplementsLedger`; `stop()` returns unless `finish` failed under it (`StopReturnsUnlessFinishFails`) |
| `recording_stop_hangs` | 1 file, `finish` may fail | finding 1 |

Two files let a session be settled while the next one runs; capacity one makes "full" a
common case. The code's own
capacity is 16 for outcomes; the caller chooses the other. The proofs hold for all.

## 4. LatestValueChannel

| Variable | Code |
|---|---|
| `slot`, `floor` | `slot` and `generation_floor`, behind the mutex |
| `published`, `overwritten`, `received`, `cleared`, `stale` | the five counters |
| `token` | the notification channel, `bounded(1)` |
| `sender`, `receiver` | where each handle is in its call; the handles that are alive are the reference counts, the receivers that wait are the condition variable |
| `accepted`, `view`, `advanced` | history: the newest values accepted, what the display has put together, the newest generation the service advanced to |

Sends split where the code leaves the mutex: `SendCheck` (the receiver count is read
before), `Publish` (the locked region with its `try_send` of the notification),
`NotifyOne`. Dropping the last sender is `DropSender`, `SignalDisconnect`, `NotifyAll`,
which the code does without the mutex. Receivers select and `try_recv`, poll, or
`recv_timeout` (`CheckAndWait`, `StartWait`, `WaitEnds`, `Expire`); `ClearPending`
and `Advance` are the service's control operations. The constants choose what the
display does: `Selectors` and `Waiters`, `DrainOnWake` (call `try_recv` until it is
empty), `Polls` and `Clears`.

`LatestValueRegister` is the promise: a register that holds, for the current
generation, the newest value of every item, and a display that catches up with it.
Merging sparse patches in the slot is invisible to it.

| Run | Bounds | What it shows |
|---|---|---|
| `latest_safety` | 2 senders, a selector and a waiter, 3 sends, 2 generations, 2 items, everything allowed | `FramesConserved`, `NothingLost`, `PendingIsSignalled`, `NoStaleDelivery`, `ImplementsRegister` |
| `latest_selector` | a display that drains at each wake-up | `PendingServed`, `DisconnectObserved` |
| `latest_disconnect_lost` | a display that calls `try_recv` once per notification | `SelectorsAreTold` (finding 2) |

Three sends are what a patch, its merge and a frame of another generation need; two
generations give old, current and new. Senders, and items, are interchangeable, so the
safety run uses their symmetry; the liveness runs use none.

## 5. DashboardService

The callers of `add_`, `remove_` and `replace_dashboard_items`, the thread that feeds
frames, the service thread and the display. A step is one access to a channel or to the
controller's list, so the list and the command of one call are two steps.

| Variable | Code |
|---|---|
| `caller`, `calls` | who is inside which method of the controller, with the argument and the answer |
| `listed` | `dashboard_items` of the controller (a mutex) |
| `source` | whether the recording or the replay still feeds frames |
| `cmd_ch`, `frame_ch` | the command queue (16), the distributor's channel (1) |
| `service`, `answer` | control point of `DashboardService::run` and the acknowledgement still to send |
| `subs`, `gen` | `subscriptions`, `subscription_generation` |
| `sink` | the latest-value slot, or the legacy channel |
| `inforce`, `known`, `view`, `slipped` | history: the items of each generation, the newest one acknowledged, the frame shown last, a command lost or given up |

`AddItem`/`RemoveItem` then `SendChange`; `Replace`, `ReplaceReturns`, `ReplaceFails`;
`Distribute`, `SendReference` (session best), `StopFeeding`; `ProcessFrame`,
`TakeCommand` with `Subscribe`, `Unsubscribe` and `ReplaceItems`, `Acknowledge`,
`ServiceExit`; `Show`. Which subscribed items a frame holds is free: schedules and item
arithmetic are abstracted. The latest-value sink is the register that section 4 shows
it to be, with this one sender. `DashboardFeed` is the promise to the program that
shows the values: one set of items per generation, frames of one generation each, never
backwards, never older than what was acknowledged.

| Run | Bounds | What it shows |
|---|---|---|
| `dashboard_safety` | 2 callers, 3 items of which 2 are registered, 2 calls, queue of 2, late answers | `AnswersAreTrue`, `ImplementsFeed` |
| `dashboard_answered` | 1 caller, 3 calls, no timeout | `ListInStep` (the list is what the service has once its queue is served), `ReplaceIsAnswered` |

Two calls are a replacement and whatever races it; the unregistered item makes a
replacement refused and an addition ignored; with a queue of two a third command (a
reference from the recording) fills it. Callers, and registered items, are
interchangeable and the safety runs use it; the liveness run uses no symmetry.

## 6. SessionBest

The delta items compare with the best lap of the session. A lap is known by a number of
its own and a list of frames by the laps they were sampled in, so that a wrong lap can be
told from a right one whatever `completed_laps` says.

| Variable | Code |
|---|---|
| `game` | what the next frame shows: lap, `completed_laps`, `is_valid_lap`, `i_last_time` |
| `engine` | `last_completed_laps`, `lap_completed_count`, `current_lap_frames`, `current_lap_is_valid` |
| `tracker` | `best_lap_time_ms` |
| `cmd_ch`, `reference` | the command queue, `session_best` of the registry |
| `session`, `time`, `log`, `lost`, `mixed` | history: sessions recorded, times of laps, frames sampled, a best that did not fit, a session of the game that began under the recording |

`Cut`, `CrossLine` and `NewGameSession` are the game; `BeginSession`, `EndSession` and
`Sample` the holder with the engine and the callback (`Considered`, `LapCompleted`);
`OtherCommand` and `TakeCommand` the queue and the service. `CrossLine` assumes that no lap
goes by without a sample, since the engine polls at least once a second.

| Run | Bounds | What it shows |
|---|---|---|
| `session_best` | 5 laps, 2 recordings, times 0 (none), 1, 2, queue of 2 | `TrackerIsBest`, `ReferencesAreLaps`, `BestIsInstalled`, `ReferencesImprove` |

Four laps give a first best and a better one (the first is partial, the last completes the
third), five one of them in each recording. `BestIsInstalled` and `ReferencesImprove` speak of
one session: the reference of the last one stays in force until a lap of the new one is
best (finding 4). A game session that begins while the game stays
live is allowed; `TrackerIsBest` and `ReferencesAreLaps` do not hold after it, because the
engine takes the lap that was left for the beginning of the next.

## 7. RowGroupFile and RowGroupReader

A recording file as a stream of units (header with schema and metadata, row groups,
footer) that the writer hands to its `BufWriter`, and as the prefix of that stream that
has reached the file, usually cut inside a unit. A crash needs no action: every state is a
file that a crash can leave, and the invariants say what a reader finds in it.

| Variable | Code |
|---|---|
| `pc`, `caller` | which call the writer is in, and which one flushes a row group |
| `buffer`, `skip`, `laps`, `current`, `groups_written` | fields of `BinaryTelemetryWriterV2` |
| `stream`, `ondisk`, `cut` | units written, how many are whole in the file, how much of the next one is |
| `footer_at`, `footer_offset` | the local of `finish` and the field of the file's header |
| `written` | history: the frames given to `write_frame` |

`WriteFrame` (with `CountLap` and `FlushRowGroup`), `Flush`, `Finish` (with
`WriteFooter`), then `WriteOut` for bytes that reach the file and the returns `Created`,
`RowGroupWritten`, `FooterWritten`, `PatchHeader`; `WriteFails` at each of them, after
which the code drops the writer. Ticks count up by one from `FirstTick`, as the engine
numbers frames. A row group holds for every access group the frame each row was taken
from; numbers, codecs and checksums are left out. `Opens`, `Scanned` and `HasFooter` are
`parse_file_content` at that moment; `RowGroupReader` adds `ReadAll`, `ReadRange` (skip
index, headers, filter on ticks) and `ReadLap`. A read is answered with rows or with an error:
`read_all_frames` refuses a file without a row group (`MetaMissing`), a read of a range one that no
row group overlaps, because then there is no FrameMeta column (`reader_v2.rs:898-902`), and
`read_lap_frames` a lap without an entry.

`FrameLog` is the promise: a log of which a prefix is in the file, never a shorter one
than before; a reader is refused or given that prefix; a sealed log is open to everyone.

| Run | Bounds | What it shows |
|---|---|---|
| `rowgroup_file` | 5 frames, 2 laps in any order, row groups of 2, 2 access groups | `RowGroupsHoldFrames`, `LapIndexExact`, `ReadsThePrefix`, `PartsAreRead` (ranges and laps), `ImplementsLog` |

`ReadsThePrefix` says refused or given the prefix, and an error where the prefix is empty.
`PartsAreRead` has every range, also those that begin behind the last frame on disk, for which it
wants the error and for no other. A file cut inside its last row group is
refused (finding 5).

Five frames make three row groups, the last one short, laps that end inside and at the
edge of a row group, and a lap that comes back. A finished or failed writer stops, so
deadlock is not checked.

## 8. The V1 format, its reader, the laps and the converter

`ChunkFile` is the V1 counterpart of section 7. The writer has no `BufWriter`: frames wait
in `frames`, `FlushAllClusters` makes one chunk for each cluster of samples of them, and
`WritePiece`, `WriteUnit` write one unit after another, each cut at one of the places where
a reader tells the difference (`Cuts`). `Dies` is the crash, or a failing write, at any of
them. `finish` ends with `PatchHeader`. `AppendLaps` writes a LAPS block behind a file
nobody writes, and may die too.

`ChunkReader` opens that file as it is: `Opens`, `Entries` from the index or `ScanChunks`
from the chunks; `ReadAll` and `ReadRange` of a cluster, `FramesColumn`
(`read_all_frames`, which fills short clusters with zeros), `LapIndex`, `LapColumn`;
`AggregateLaps`, `ExtractLap`, `ExtractAll` and `LapsToAppend` of `recording/outcome.rs`. A
row stands for the frame it was taken from.

What a row holds is the matter of the tables. `TelemetryColumns` has the fields of the nine
samples and the raw catalogue, `ChunkColumns` the V1 encoders and decoders, with the offsets
that each computes for itself, `GroupColumns` the V2 schema, `extract_column_values` and
`build_*` of the reader, `MetadataBlock` the one encoder and the two decoders of the metadata.
A value is known by the name of its field and the place in it, so a value that is read from
the wrong column, offset, width or lane is another value. `FileConverter` puts them together.

| Run | Bounds | What it shows |
|---|---|---|
| `chunk_file` | 4 frames in chunks of 2, 3 clusters, 2 samples, one LAPS block | the file: `ChunksHoldFrames`, `IndexIsTrue`, `ImplementsLog`; a reader: `ReadsRecording`; laps: `LapsPartition`, `OutcomesAreTrue`, `ExtractsAlign`; tables: `FieldsAreReadBack`; `ConversionKeepsFrames` |
| `conversion_lossy` | the same | `ConversionIsLossless` (finding 3) |

Three clusters are the ones the code treats differently (controls decide the number of
frames, session the laps, timing their times); the other six are read like timing. Four frames
make a second group of chunks and up to three laps; the two samples lie on both sides of the
line and differ in validity and lap time. The tables are constants, all nine clusters and every
field of them are in the check. Some states are left to the text: `Damaged`, a LAPS block behind a
unit that is cut (finding 6), and the laps of an unfinished file, whose LAPS block is never read.
A finished file is never written again, so deadlock is not checked.

## 9. ReplayDashboard and ComputeItems

A replay: the loop over the frames of a file, the capacity-one channel, the dashboard service
with its schedule and the registry's two slots, the items with what they remember, and the
controller that replaces subscriptions and stops. Section 5 has commands, generations and the
sink in detail; here is what a frame is computed into.

| Variable | Code |
|---|---|
| `file`, `engine`, `now` | the source's frames, the loop, the frames read; the clock counts polls |
| `caller`, `changes` | `stop()` and its two joins; replacements so far |
| `frame_ch`, `cmd_ch`, `service` | the two channels and `DashboardService::run` |
| `config`, `due` | `subscriptions`; `next_due` of each interval's bucket |
| `session`, `life` | `session_best`, `life_best_source` of the registry |
| `items` | `SectorState`, `SectorBestState`, the lap and the index of the two delta items |
| `sent` | the frame computed last with its values |
| `watched`, `since`, `served`, `switched` | history: the frame watched last and the one that showed each crossing, the schedule's begin, the last period computed, whether a lap was replaced |

`PlayFrame`, `EndReplay` (`run_replay_loop`), `ReplaceItems`, `Stop`, `JoinHolder`,
`JoinDashboard` (controller), `ProcessFrame` with `DueItems`, `Computed`, `Resolved` and `Loaded`,
`TakeCommand`, `ServiceExit`. The callback of a completed lap may send a better lap or not
(section 6 says when). `ComputeItems` has the arithmetic: positions are tenths of a lap,
times milliseconds, rounding to ten is kept; floating point is replaced by exact fractions.

| Run | Bounds | What it shows |
|---|---|---|
| `replay_dashboard` | 4 files of 5 frames over 2 or 3 laps, 4 sets of subscriptions with intervals 0, 2 and 3, 4 reference laps and one that does not load, queue of 1, one replacement | `PeriodsAreServed`, `SectorsAreTrue`, `DeltasAreTrue`, `ReplayEnds` |

Five frames are two periods of two polls and a lap change with a sector before and behind it;
the files differ in where the car stays in a sector, from where on the lap is invalid, and in sector
times, one of them missing. The laps begin with or without the end of the lap before, and differ
in length; two of them are laps of the session, and one may replace the other. `SectorsAreTrue`
judges a sector by the last frame of the lap it was driven in, which the code need not have seen.
Four names say what is excluded: `watched.gap`, a whole sector between two computed
frames, whose time then goes to the wrong sector; `Misjudged`, the last sectors of laps that were
seen in a frame of the next lap with the other validity, and `Spoiled`, those of a lap that turned
invalid later, both of which may be among the best times or not (finding 9: the files have all
kinds); and `switched`, after which a delta may be
missing (not wrong) until the lap ends (finding 7).

## 10. Fairness

`RecordingService`: the operating system schedules the holder, the dashboard thread and
a caller that is inside `stop()`; nothing promises that `stop()` is called or that the
caller reads its channels. Weak fairness of the whole thread is enough, because each
thread has one enabled step after another. `LatestValueChannel`: a call that was begun
goes on (`Publish`, `NotifyOne`, the two wake-ups of a last drop), a selector takes a
notification that is there and then calls `try_recv`, and a waiter calls
`recv_timeout` again. Nobody has to send, poll, clear or drop. `DashboardService`: a
caller inside a call goes on, and the service thread runs; `TakeCommand` has strong
fairness because crossbeam's `select!` picks at random among the ready channels, so
frames that keep coming cannot starve a command for ever. Nobody has to call.
`ReplayDashboard`: the replay thread and the service thread run, and a caller in `stop()` joins.
Its fairness is weak fairness of `EngineStep` and `ServiceStep` written out with the conditions
under which they are enabled, because to compute ENABLED is to compute a frame.

## 11. What is proved

All proofs are checked by TLAPS for every value of the constants, from the named
assumptions only: `BoundsAssumption` and `MayFailAssumption` (positive bounds, a set of
known calls), `ChannelAssumption` (selectors and waiters are different handles),
`DashboardAssumption` (finitely many items, positive capacities), and those named below.

`RecordingService_proofs`. `TypeCorrect` needs `WriterShape` (the open file is the last
one created; the writer is set exactly at the control points between create and finish).
`FilesAccounted` needs `VerdictShape`, which says at each control point which verdicts
are still missing: at most that of the last file, and only while it is recorded,
reported or given up. `GracefulStop` adds `JoinShape` (what the controller has joined has
ended). `MetadataFirst` rests on `MetaShape`, `OutcomeOrder` on `OutcomeShape` (the queue
is increasing, between `received` and the session being settled) and
`PausedMeansSuspended` on `PauseShape` (Paused stands only in states whose next frame
needs a Running). `KeepsTheLedger` is the refinement of `SessionLedger`: what finishes a file or
fails while one is open maps to `Close`, what settles its outcome to `Conclude`, and a step that
touches neither files, verdicts nor frames (`LedgerQuiet`) to a stutter or `GoDown`; `LedgerShape` (only the last file can
be unfinished and without a verdict) is what makes a verdict the one the ledger expects.

`LatestValueChannel_proofs`. The type invariant is split into `Control`, `Counters` and
`Data`, each step into those that leave the data alone and the four kinds of `DataSteps`.
`FramesAreConserved` is inductive with it. `NothingIsLost` needs `Current` (the pending
frame belongs to the generation of the floor, which is at least `advanced`);
`PendingHasAWakeUp` is inductive; `NothingStale` follows from `Current`. `IsARegister` is
the refinement: `Publish` maps to `Write` or `Renew`, taking a frame to `Deliver`
(`TakeDelivers`, by `NothingLost`), discarding to `Discard` or `Renew`, everything else to
a stutter; `Stamped` (stamps never exceed the count of published frames) is what makes a
write newer.

`DashboardService_proofs`. Steps are split into those that leave subscriptions, sink and
histories alone and those of the feed. `TruthfulAnswers` needs where an answer comes
from: `CallShape` (a call number belongs to one caller), `AskedShape` (a queued
replacement whose caller still waits carries that caller's items) and `PromisedShape`
(the answer about to be sent has its items in `inforce`). `ShowsOneGeneration`, under
`LatestSink`, rests on `Fresh`: the pending frame belongs to `gen`, its items are
subscribed, and what was shown or acknowledged is not newer. `ListIsServed`, under `OneCaller`,
follows what the service will have once its queue is served: `Served`, which the last command
for each item decides. `ListShape` says how the controller's list differs from it at each point of
a call, `RefusedShape` that a replacement is refused exactly when one of its items is unknown,
`ItemShape` that the other commands name one item. Taking a command from the front leaves `Served`
as it is (`TakenEffect`); one that is put behind makes it `After(Served, command)`.

`SessionBest_proofs`. Two invariants that do not need each other. `Queue`: the references
are ordered by session and then by falling time, and none of this session is faster than
the tracker; it gives `InstallsTheBest` and `OnlyBetterReferences`. `LapInv`: while a
session is recorded one lap is being collected (`Collecting`), whose number, validity and
position the engine's four variables reflect; `Completes` says what becomes of it when
the count goes up, and `TracksTheBest` follows. `InstallsLaps` adds that a reference is a
lap that is over, whose time no longer changes. `BestAssumption`: times are naturals,
bounds positive.

`RowGroupReader_proofs`. Row groups and lap entries are described by operators on arbitrary
streams, frames and entries, so that what a call does to them is a lemma without a step
(`PushKeeps`, `FlushKeeps`; `SameLapKeeps`, `NextLapKeeps`, `CloseKeeps`). `FramesAreHeld`
needs `Held` and `Rest`: until the footer is there, what the row groups do not hold is in
the buffer. `LapsAreExact` needs `OpenLap`: the open lap begins where the entries end and
reaches the last frame, which is what makes the last entry's computed end right.
`FileIsLog` adds `ShapeInv`: where in a call the file is whole, that the footer is the
last unit and behind every frame, and that the header points nowhere before
`PatchHeader`. `WriteFrame` maps to `Accept`, `WriteOut` to `Persist`, `PatchHeader` to
`Seal`, all else stutters. `FileAssumption`: the ticks' group is a group, laps are
integers, the rest are naturals. The reads rest on `ReadInv`: the skip index has one entry for
each group of each row group and no other (`Indexed`), and where the header points to a footer
the file is whole (`Footed`). For `PrefixAlwaysRead` and `PartsAlwaysRead` a read is then a
concatenation, over the row groups of the durable prefix, of the part of each that the question
takes (`FlattenWindow`), and nothing is missing exactly where that is empty (`NothingMissing`,
`BehindTheFile`); for the laps, over the stints of the lap index (`FlattenBlocks`).

`FileConverter_proofs`. Over `FileSpec`, which appends any laps. `TrueChunks` needs `Waiting` (the
frames in memory are the last ones written) and `Ticked`, so that a chunk's first tick says
where its rows are; a unit that is cut still holds the rows of the whole one. `TrueIndex` needs
`Shape`: what is still to be written in each call, so that only `flush_all_clusters` writes
chunks, and while it does the header points nowhere. `ChunkAssumption`: chunks have a row,
there is a cluster, and no cluster is listed twice.
`FileIsALog` adds `Layout` (before the index there are the header and whole chunks) and `Reach`
(how far the controls chunks go, which only grows): the durable prefix of the log is the greatest
tick of a whole controls chunk, and an unfinished file that `scan_chunks` indexes again has it too.
`ReadsTheRecording` needs each cluster by itself. `LanesInv`: there is a length for each cluster
such that its chunks in the index, in their order, are the frames up to it (`Lane`, `Listed`); no
cluster is ahead of the controls or more than a chunk behind (`Lag`); between flushes all are even.
So what a cut file lacks in a cluster is at the end, where the reader puts zeros (`PaddedIs`).
`ConversionIsFaithful` follows, because the converter compares every cluster's length with that of
the controls. `SpecIsFile`: `append_lap_index` is a step of `FileSpec`, which may append any
well-formed laps. `LapsInv` says which laps: behind the footer, each LAPS block has those of the
recording. `LapsArePartition` and `TrueOutcomes` follow from what `build_lap_index` computes for any
recording (`LapIs`: the n-th entry goes from the n-th lap start to the frame before the next);
`ExtractsInStep` from looking up ticks in a cluster that reaches at least as far (`OwnIs`, `UpTo`).
`MetadataSurvives` is about `MetadataBlock` and any metadata that its counts can hold: `LaidOut`
says where each piece of an encoded block is, which is where the decoder, piece by piece, looks.
`FloatsAreLost` reads the same block with the V2 decoder: it looks for the front where it is, and
takes eight bytes where a float has four.
`FieldsSurvive` is about the tables, for any number of rows where TLC has two. Of V1, `TablesAgree`:
in each cluster the fields, the columns written, their ids and sizes and the ids the decoder asks
for are one list, place by place. Since no id is there twice, `find_column` comes to that place, and
the offset computed from the sizes is the sum of what was pushed, for any number of frames
(`ChunksGiveBack`). Of V2, `AllRowsAgree`: each `build_*` takes a field from the column of its own id
and takes as many values of a row as the field has lanes. The reader computes that share from the
number of values and of rows, which gives the lanes back for any number of rows but none
(`Share`, `RowsGiveBack`). That no other field has this column is that ids and names belong to
one cluster each (`OneOwner`, `NamesApart`), and with that every catalogue item finds its own field
(`ItemsFound`).

`ReplayDashboard_proofs`. `ServesPeriods` rests on `IsBehind`: each bucket's `next_due` is the
end of the period behind the one computed last, `since + d * (served + 1)`. `DueOnce` and
`DueNext` are the two facts of division that make `next_due` neither drift nor catch up.
`ReplayAssumption`: intervals are naturals. `TrueSectors` rests on `SectorInv`: frames are seen in
order (`Order`), both sector items have seen the sector of the frame watched last (`Watched`), and
without a gap the best times are the least of the crossings that the code accepts (`Accepted`) and
the previous sector is the last crossing's. `WellJudged` says that these are the sectors of laps
that were valid so far, but for the misjudged ones. `FilesAssumption`: the game's time of the last
sector changes with the sector only.
`TrueDeltas` has a hypothesis, `GoForward`: behind its start a reference lap has two samples or
more, its positions rise and its times do not fall, and the two ways to find that start agree. The
theorem is about such laps because `DeltasAreTrue` is: a car that stands is at one place for longer.
TLC evaluates `GoForward` for the laps of the run. For one lap and one frame it is shown that the
search ends at the sample passed last from wherever it begins (`FoundOne`, `SearchIs`), also where
the two delta items restart it differently (`LifeDeltaIs`, `SessionDeltaIs`); that the fold over
the samples keeps all of them (`PointsAre`); and that a rounded interpolation stays between its two
points (`InterpolatedIs`; `Between` is the arithmetic). `DeltaInv` carries this through the service:
the slots hold laps of their kind, and an index is one of the lap it searches until the lap is
replaced. `ReplayAssumption`: the source of a life item is a path, which is neither empty nor the
name for the session's best.
`NothingIsPredicted` needs only that keys are those of the catalogue: none is the bare name of a delta.

`SequenceLemmas`. The library's induction theorems take an operator, which the provers cannot
instantiate; here induction is over a set. `LeastNat`, a set of naturals that is not empty has a
least element, follows from the well-foundedness of strict inclusion on finite sets, applied to the
intervals `1..n`; `AllNat` (a set with 0 that is closed under successor is `Nat`) from it. With
that `FlattenSeq` is the concatenation its definition promises (`FlattenIs`) and what is put together
from adjacent windows is one window (`FlattenWindow`, `FlattenBlocks`); filters of the numbers up to
`n` enumerate a set in order (`FilterEnumerates`).

## 12. What is only model-checked, and the findings

Liveness (`StopReturnsUnlessFinishFails`, `PendingServed`, `DisconnectObserved`,
`ReplaceIsAnswered`, `ReplayEnds`) is outside the prover. Every safety and action property and all
five refinements that the passing runs check are theorems.

1. `recording_stop_hangs`: `stop()` never returns when `finish()` of the manual stop
   fails, because the token was consumed first (`recording/engine.rs:143-147`).
2. `latest_disconnect_lost`: one `try_recv` per notification, as documented, can miss
   the disconnect for ever (`dashboard/sink.rs:190`, `:234`).
3. `conversion_lossy`: a file that was converted "losslessly" is read back with five of
   six time texts empty (`reader_v2.rs:705-709`) and with wrong metadata behind `max_rpm`, because
   `decode_metadata_v2` reads floats of eight bytes where four were written
   (`reader_v2.rs:79-81`, `writer.rs:356-358`). The converter compares six other fields.
   `NothingIsLossless` and `FloatsAreLost` are the theorems: no recording with a frame and no
   metadata with a torque come through.

Met while modelling, and without a run of their own:

4. A second session starts with the best lap of the first, because only the tracker is
   reset (`recording/controller.rs:537`, against `compute/items.rs:454-457`).
5. A V2 file cut inside its last row group does not open (`reader_v2.rs:1488`), although
   `v2-acctlm2-format-spec.md:75-76` says that interrupted recordings are recovered by a scan.
6. `append_lap_index` on a V1 file that was never finished puts its block behind a chunk that may
   be cut, and the reader may take the bytes of the block for the rest of the chunk
   (`recording/outcome.rs:420`, `reader.rs:1030-1034`); the laps it adds there are never read.
7. A delta item keeps its index when its reference lap is replaced by a shorter one; the
   index then lies behind the end and the item has no value until the lap ends
   (`compute/items.rs:312-330`, `:532-561`).
8. The two predictions are never computed in the service: values are kept under `calc:...`
   (`dashboard/service.rs:515`) and looked up without the prefix (`compute/items.rs:790-795`),
   against the comment at `dashboard/service.rs:505` that items are sorted so that one finds the
   results it depends on. `NothingIsPredicted` is the theorem: no frame, whatever is subscribed, has
   a prediction in it.
9. The sector that ends an invalid lap counts as a best one, and the one that ends a valid lap
   before an invalid one does not, because validity is read from the first frame behind the line
   (`compute/items.rs:228-233`); the sectors of a lap before it turned invalid count all the same.
   `compute/items.rs:91-94` says "across all valid laps". `SectorsAreTrue` excludes both cases by
   name. And what the sector items remember survives sessions and
   subscriptions, against "in the session" (`compute/items.rs:91-94`).
10. `aggregate_laps` gives a lap the time of the lap before when an unfinished V1 file ends before
    the timing chunk with the crossing (`recording/outcome.rs:190-215`). In a finished file it is
    the lap's own (`LapTimesAreOwn`).
11. V1 metadata with an empty raw page loses its session type (`writer.rs:357-364`,
    `reader.rs:858-974`).
12. `read_item_frames` of a V2 file refuses elements of arrays and two raw items of the catalogue
    whose column has another name in `path_to_column_id` (`reader_v2.rs:1626-1770`).
13. With two callers in `dashboard_answered.cfg` `ListInStep` fails: the list is changed and the
    command sent in two steps, and the two stay different (`recording/controller.rs:322-329`,
    against the comment at `:408`). With `LatestSink = FALSE` in `dashboard_safety.cfg`
    `ImplementsFeed` fails: frames of the old generation stay in the legacy channel and are
    shown after the acknowledgement (`dashboard/sink.rs:47`, against `controller.rs:355`).

Smaller disagreements, visible in the modules: the first Live after a pause at connect time sends a
Running as well (`recording/engine.rs:199-203` against
`docs/module_live_telemetry/api/recording.md:166`); the service loop ends when either of
its channels closes, not both (`dashboard/service.rs:409`), and `stop()` relies on it; the
samples that `scan_chunks` counts are of nine clusters, `recording/outcome.rs:49` takes them for one.

## 13. What is not modelled, and why

Column codecs, compression and checksums (`encode_v2.rs`, parts of `format*.rs`) work on bits, and
shared memory, its decoding and track geometry on bytes or floating-point numbers; TLC cannot
evaluate them usefully. In `ComputeItems` fractions of integers stand for floats, so rounding errors
are not seen; the car coordinates, the distance and the three hidden items
(`compute/items.rs:1562-1588`) are left out. A file's state after the machine, not the process, has
crashed is not modelled: nothing calls `sync_all`. Two services that choose the same free file
name (`recording/file_naming.rs:89`) are not modelled, nor is what a replay's speed, the
statistics, warnings and messages say. Request validation and the command line, but for the raw
parser as the process that writes a V1 file, hold no state that another part depends on.
