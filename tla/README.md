# traceloom-go: a verification of the trace log

traceloom-go records timelines. An application starts a `Trace`, records named events in it,
and several processes append those events as JSON lines to one directory of size-limited,
dated shards. This directory holds TLA+ models of that code, the configurations that check
them with TLC, and proofs that TLAPS checks. Every definition is translated from the Go
source; `PROJECT.json` maps each one to its lines.

## The system

| Component | State | Operations | Hard behaviour | What makes it correct |
|---|---|---|---|---|
| JSONL writer (`jsonl_writer.go`) | handle, current date and size, `retentionAppliedTo`, `directoryReady`, `closed`, a one-slot gate | `Write`, `Flush`, `Close`; inside `Write`: directory check, rotation, retention, append, repair | several processes on one directory; torn writes; crashes; a removed directory; midnight | acknowledged events are in the log, rejected ones are not; shards stay bounded, dated, in order; `Close` is terminal; every call returns |
| File locks (`filelock*.go`) | the kernel's advisory locks | attempt, retry, time out, unlock | a holder that dies or never unlocks | no lock is stranded, every wait ends |
| Trace (`trace.go`, `metrics.go`) | mutex, `sequence`, `startedAt`, dropped-event counter | `EventContext`, `FlushContext`, `OnError` | failures under concurrency, a handler that calls back | a gap is exactly a dropped event; the log of a trace is in sequence |
| Tracer (`tracer.go`, `writer.go`) | shared writer and metrics | `Start`, `Flush`, `Close` | `Close` during events | as above, across traces |
| Clock (`clock.go`) | none | wall and monotonic time | steps of the wall clock | elapsed times do not go back |
| Sanitizer (`sanitizer.go`) | one traversal's budgets and visited set | `Sanitize` | cycles, hostile nesting, truncated keys that collide | bounded output, no secret, no lost key |
| Configuration (`configuration.go`) | immutable after `NewConfiguration` | options, validation, clamping | order of options | `maxRecordBytes <= maxFileBytes`, all positive |
| Trace IDs (`trace_id.go`) | none | generate, sanitize | none | an accepted ID is valid |
| Timeline reader (`internal/eventtracecli`) | the lines read so far | read, filter, sort, print | unreadable and overlong lines, clock steps | every readable event of the trace is shown |

A `Trace` calls the `Writer` while it holds its own mutex; a `JSONLFileWriter` runs one call
at a time behind its gate, a channel of capacity one; writers of different processes meet
only in the file system: the lock on `.traceloom.lock` while one of them rotates, the lock
on a shard while one of them appends. `OnError` is a callback that runs under the mutex of
the trace.

## Modules

```
LogDirectory     the file system: shards, names, advisory locks
   ^
ShardWriter      JSONLFileWriter and the file locks     -- implements -->  EventLog
   ^        ^
MCShardWriter  ShardWriterProofs                    TraceTimeline   Trace, Tracer, metrics
                  ^          ^                       ^           ^
     ShardLockProofs  ShardEventProofs          MCTraceTimeline  TraceTimelineProofs
                             ^
                      ShardOrderProofs
                             ^
                       ShardLogProofs

TimelineReader   the command `eventtrace show`   <-- MCTimelineReader, TimelineReaderProofs

Configuration    NewConfiguration and its options
   ^
Sanitizer        Sanitize under that configuration      <-- MCSanitizer, SanitizerProofs
```

**LogDirectory** keeps what the kernel keeps. A shard is an inode: a writer that opened one
keeps it when the name is removed or the directory goes. The bytes of a shard are extents,
one per append: a whole record, a fragment of one, or the newline that closes a fragment.
So sizes, order, torn lines and glued lines are all there, and no characters. Its
definitions mostly stand for system calls and are marked external; `Highest`, `Named`,
`Names`, `NamedSize` and `Extend` are `discoverShardIndex`, `shardPath`, `parseShardName`,
`fileSize` and `writeAll`. Foreign files in the directory are not modelled:
`parseShardName` skips them.

**ShardWriter** is `Write`, `Flush` and `Close`. A call is a sequence of steps; between two
of them any other call, process or fault may come. `pc[c]` names the place in the code:

| `pc` | Code | Actions |
|---|---|---|
| `gate` | `acquireGate` | `AcquireGate`, `AbandonGate` |
| `admitted` | the closed check, `ensureDirectory`, bodies of `Flush` and `Close` | `RejectClosed`, `EnsureDirectory`, `DirectoryFails`, `FlushActive`, `CloseWriter` |
| `rotate`, `dirLock`, `dirWait` | `acquirePathLock` | `OpenLockFile`, `TryDirLock`, `LockRetry`, `LockTimeout`, `LockFails` |
| `discover`, `probe` | `rotate` | `Discover`, `ProbeFull`, `OpenShard`, `CreateShard`, `OpenFails` |
| `retain`, `sweep` | `applyRetention` | `ApplyRetention`, `SweepOne`, `SweepDone` |
| `dirUnlock` | the deferred unlock of `rotate` | `UnlockDirectory` |
| `shardLock`, `shardWait` | `acquireFileLock` on the shard | `TryShardLock`, `LockRetry`, `LockTimeout`, `LockFails` |
| `stat`, `append`, `restore`, `unlock` | the rest of the loop of `Write` | `StatShard`, `StatFails`, `Append`, `AppendFails`, `RestoreLineBoundary`, `UnlockShard` |

`Return` is what every return does: the deferred functions of `Write` reset
`directoryReady` after an error and release the gate. `acked` and `rejected` are history:
the events `Write` returned nil and an error for. The environment is `Crash` (a process
dies at any step, perhaps in the middle of an append, and starts again), `Midnight` and
`RemoveDirectory`. Every failure has a name in `Faults`, so that a run says which it allows.

**EventLog** is the promise of all writers together: an event is recorded at most once and
in the order of its trace, acknowledged only if it is recorded, rejected only if it is not,
and disappears only when it has expired. `ImplementsEventLog` maps the shards to it: the
recorded events are what a reader can read from the linked shards (`Readable`), which are the
whole lines and the fragments that lack nothing but their newline. A line that its call is
about to cut off again, under the lock of its shard, does not count yet; a process that dies
there has recorded it. Whether a line is glued to the one before it is left to `LinesIntact`.

**TraceTimeline** is `Trace`, `Tracer` and `metrics` over a writer that appends or fails.
`Start` gives a trace its identity: an ID that a request brought along is continued when the
configuration trusts it and becomes the parent of a new ID otherwise; what
`SanitizeTraceID` rejects is as if nothing had come. The ID may be that of a trace started
here or a foreign one. The traces a goroutine is inside of
form a stack, because `OnError` runs under the mutex and may call a trace again. A step of
`EventContext` is one place in the code: `Lock`, `Stamp` (number and elapsed time),
`WriteEvent` or `WriteFails`, `CountDropped`, `HandlerReturns`, `Unlock`.

**Configuration** is `NewConfiguration`: options replace one value each (`With`), the result
is validated (`Reject`) or clamped (`Build`) and never changes again. `LimitsNested` is
what the writer and the sanitizer take for granted; it is `SizeAssumption` of ShardWriter.

**Sanitizer** runs under whatever configuration was built. A payload is a heap of
containers with possible cycles; everything `normalize` turns into one value without
recursion is a leaf. Go's recursion becomes a stack of frames, one for each container
`normalize` is inside of, so that a step is one turn of a loop of the code:

| Code | Actions |
|---|---|
| `Sanitize` | `Sanitize` (the root is never too deep and starts the budget) |
| `normalize` on a value | `RenderLeaf`, `MaxDepthExceeded`, `MarshalValue`, `CircularReference`, `MarshalMap`, `Dereference`, `EnterContainer` |
| the loops of `normalizeStringMap`, `normalizeStruct`, `normalizeSlice` | `NextEntry`, `OmitRest` |
| their ends, with the deferred `delete(seen)` | `Leave`, `LeaveRoot` |

A key is a word with a number of underscores in front, and a word has its bytes.
`NormalizeKey` does the arithmetic of `normalizeKey`: a key over `maxKeyBytes` becomes the
runes that fit in front of a suffix of 17 bytes (`TruncateUTF8`), the separator and a digest.
A key of the application may be spelled like that too. `Assigned` is `assign` after
`normalizeKey`: a key that looks like a marker, or like an escaped marker, gets one more
underscore. A node has a `reference`, the type and address that `referenceOf` gives, and
`seen` is a set of references: a slice and one that it begins with share theirs. What a
marshaler or a map without string keys is encoded to is a tree of maps and lists of any depth
(`Decoded`).

**TimelineReader** is the command: `List` and `ListFails` are `logFiles`, `Open`,
`OpenFails`, `Scan`, `ReadFails` and `EndOfFile` the loops of `findEvents`, `Earlier` its
comparison, `Show` the end of `Run`, and `Timeline`, `Delta` and `TotalDuration` what
`printTimeline` prints. `todo` are the listed files the outer loop has not left; it is at
the one that comes first (`Turn`). Sorting is stated by its result: the place of an event in
the `Timeline` is one more than the number of events that are `Earlier` (`Place`). The
program it reads from is abstract and keeps recording: each trace appends in sequence and
never goes back to an earlier shard (`AppendOrder` and `LogInSequence` of the other
modules), an event may be over the eight megabytes the command reads of a line
(`RecordLong`), shards expire, lines are torn, files become unreadable, and the wall clock
may be set back. `listed` remembers what was on disk at the listing.

**ShardWriterProofs**, **ShardLockProofs**, **ShardEventProofs**, **ShardLogProofs** and
**ShardOrderProofs** hold the theorems about the writer, **TraceTimelineProofs**,
**SanitizerProofs** and **TimelineReaderProofs** those about the trace, the sanitizer and
the command. The MC modules give names to the model values; **MCSanitizer** also lists the
payloads.

Where a property has a mutant, a definition next to the mutated one in the module, it is the
plausible mistake that the property would find.

## Runs

| Run | Instance | Properties |
|---|---|---|
| `writer_rotation` | 2 processes, 2 events each of 2 or 3 bytes, shards of 4 bytes; 2 of: torn append, crash | `TypeOK`; `ShardBounded`, `AckedRecorded`, `AppendOrder`, `RejectedNotRecorded`, and the refinement `ImplementsEventLog` |
| `writer_gate` | 3 goroutines of 2 writers: one writes and flushes, one writes and closes the same writer, one writes to another; one torn append or failed unlock, truncation may be refused | `ClosedHoldsNoShard`, `LinesIntact`; `EveryCallReturns` under `FairSpec` |
| `writer_retention` | 3 callers of 2 writers, two of which share one; 3 dates, retention of 1 day, 1 crash | `ShardDates`, `SweepIsComplete`, `NoGapsBetweenShards`, and the refinement `ImplementsEventLog` |
| `writer_faults` | 2 processes, 3 dates, every fault but a refused truncation, one of them, records longer than a shard | `NoStrandedLock`, `ShardBounded` |
| `trace_events` | 2 goroutines, 2 traces, 3 events, IDs of these traces and a foreign one, failing writes, `Close` | `TypeOK`, `GapAccounting`, `DroppedCountIsExact`, `LogInSequence`; `EventReturns` under `FairSpec` |
| `reader_timeline` | 2 shards, 2 traces of 2 events, clocks with 2 readings, 1 torn or overlong line or refusal of the disk, any number of expiries and clock steps | `TypeOK`, `NothingMissed`, `TimelineInSequence` |
| `sanitizer` | up to two options before `NewConfiguration`, then one payload of up to 4 containers of all kinds | `TypeOK`, `LimitsNested`, `OnlyAncestorsAreCircular`, `EntriesAccounted`, `MarkersGenuine`, `PayloadBounded`, `OmittedForAReason`, `NoSecretVisited`; `SanitizeReturns` under `FairSpec` |

The bounds, and why they reach the interesting cases. A shard of 4 bytes is filled by one
line of 3 and may be filled exactly by two of 2, so every event decides between staying and
rotating; two events of each of two processes give up to four shards (`MaxInode`), and a
process that finds its shard filled by the other. Line 3 and a retry give fragments that
leave room, fragments that fill the shard, and lines that lack only their newline. Two
faults are needed for the deepest case of `writer_rotation`: a torn append and a crash
before its repair. A refused truncation is no fault of its own, since it is the rule of a
platform or comes with the torn append. Three dates are the fewest in which retention of one
day removes something while a second date is still kept. Two shards are the fewest that are
read in another order than they were written in, one damaged line is enough to hide what
follows it, and two clock readings give events that share a timestamp and events that do
not. In `sanitizer` the root and two containers of any kind are enough for a cycle, for a
value that two siblings share, for a slice inside of one that begins with it, for a value
that only a secret key leads to, and for depth beyond `maxDepth`; the fourth is what a
decoded container holds. Two options reach budgets of 3 entries, arrays cut after 1, a
`maxDepth` of 2, and keys of 32 bytes, each beside one other of these or beside the
defaults, which no payload of this size exhausts; `maxFileBytes` of 40 is the case in which
both clamps apply. The keys are one marker under 1, 2 and 19 underscores, the last exactly
as long as a key may be; two of 40 bytes that begin alike, one of them secret; one that
spells what the first of these is shortened to; a default secret and an ordinary one. So a
key is escaped over the limit, and two keys of one map collide, in the runs. That any number
of options in any order keeps the limits nested is proved. `Operations` says which methods a
caller calls. `MaxSequence` bounds the events of a caller, `MaxFaults` the faults,
`MaxGeneration` the removals of the directory, `MaxDay` the dates; each is a guard of one
action. Runs with two like processes use their symmetry. Deadlock is not checked: when the
bounds are used up and all calls have returned, nothing is left to do.

`writer_gate`, `trace_events` and `sanitizer` assume fairness. A goroutine that is not
waiting goes on (weak fairness of `CallerStep`, `Work`): the Go scheduler is preemptive. The
gate is served strongly fairly, because blocked senders of a channel queue in order; so is
the mutex, because `sync.Mutex` hands itself over to the first waiter after a millisecond. A
wait for a file lock ends (`LockTimeout`): `boundedLockContext` gives a context without a
deadline ten seconds. There is no fairness on the file lock itself: a process may never get
it, and then its call fails instead of hanging. `Normalize` is weakly fair: `Sanitize` runs
in the goroutine of its caller and waits for nobody. `EventReturns` holds for handlers that
record nothing (`MaxDepth = 1`).

### Where the code and its documents disagree

These runs each end in a behaviour that violates one statement of the repository.

| Run | Statement | What happens |
|---|---|---|
| `unlock_failure` | a failed write leaves a gap (README, `trace.go`) | the line is written, unlocking fails, `Write` returns an error: the event is counted as dropped and is in the log |
| `repair_failure` | a torn write no longer corrupts the record after it (CHANGELOG) | truncation is refused and the newline fails too, its error is ignored, and the next record continues the fragment |
| `torn_line` | a failed write leaves a gap, and of a fragment closed with a newline the reader loses the record (README, comment) | an append dies before its newline, truncation is refused, and the newline of the repair completes the line of a rejected event |
| `removed_directory` | a directory that disappears at runtime is recreated (comment, test, CHANGELOG) | appends to an unlinked shard succeed, so the cached check is never dropped and events are acknowledged into a file without a name |
| `trace_reentrant_handler` | tracing does not break the host application (README) | an `OnError` that records in the same trace waits for the mutex its own goroutine holds |

The passing runs reach others, which the properties except by name and no run of its own shows:

| Statement | What happens | Property |
|---|---|---|
| "The CLI streams arbitrarily long JSONL records" (README.md:308) | a record of more than eight megabytes, and all behind it in its shard, is counted as one malformed line and not shown (command.go:147) | `NothingMissed` |
| the mapping of keys "stays collision-free" (sanitizer.go:380, README.md:196) | a key that spells the shortened form of another one of its object takes its place, or loses its own | `EntriesAccounted` |
| `[CIRCULAR_REFERENCE]` marks what "refers back to itself" (README.md:202) | `a[1] = a[:1]` is replaced, since a slice and its prefix have one type and address, although it is in no cycle | `OnlyAncestorsAreCircular` |
| `maxKeyBytes` is the limit for one payload key (configuration.go:196) | a key spelled like a marker is one byte longer after its escape | `PayloadBounded` |
| `maxDepth` is the limit of nesting (README.md:203) | the map that counts what a list omitted is one level deeper | `PayloadBounded` |
| `WithMaxRecordBytes` is the byte limit for one encoded record (configuration.go:202) | the degraded record is not compared with the limit (jsonl_writer.go:338) and may be longer than a shard; `writer_faults` has such records | none |

## Proofs

`ShardWriterProofs` proves, for any number of processes, callers, shards, dates, removals
and faults, from the assumptions named in `LogDirectory` and `ShardWriter` only:

* **`TypeCorrect`**, `Spec => []TypeOK`. `TypeOK` is not inductive: `shardLock` needs an
  open handle, and whether the handle is open is a matter of where the call is. `TypeInv`
  adds `CallOK` for every call: past the gate it fills the gate of its writer, past the
  directory check it is a write, and where it is about to use the shard (also at `dirUnlock`
  after a rotation that did not fail) its writer has a handle. The first conjunct gives
  `GateExclusion`: two calls past their gates belong to different writers. All that a step
  may do to another call goes through that lemma.
* **`ShardsStayBounded`**, `Spec => []ShardBounded`. The bound holds because the size
  `StatShard` reads is still the size when the line is appended. `BoundInv` says so: a call
  at `stat` or later has the lock of its shard; at `append` it remembers the size the shard
  has, and the line fits; at `restore` the shard has grown by less than the line, and if it
  was empty it holds this event only; a handle is an inode that exists already; and every
  extent ends within its shard, so that an empty shard has none. `OtherCallBound` shows
  that a step of one call disturbs none of this for another, since their locks differ;
  `ExtendBound` and `TruncateBound` say what appends and repairs do to the bound.

There is one lemma per action (or group of like actions), each proved from `ReturnStep` and
`ContinueStep` for types and from `QuietStep` and `LockedStep` for the bound. `BoundInv` was
checked with TLC on the instances of `writer_rotation` and `writer_faults` before it was
proved.

`ShardLockProofs` builds on `TypeInv`:

* **`LocksHaveHolders`**, `Spec => []NoStrandedLock`, and **`CloseIsTerminal`**,
  `Spec => []ClosedHoldsNoShard`. `LockInv` adds `ReleasedInv` to the two: from `Discover`
  until the directory is unlocked the writer of the call has no shard locked. Without it a
  step that opens another shard could leave the lock on the old one behind. `LockStep` says
  what a step of a call has to show for all of it: that the locks it keeps or takes belong
  to the handle and the lock file it goes on with.

`ShardEventProofs` builds on `BoundInv`, of which it needs that two calls that append have
different shards (`OwnShard`):

* **`EventsKeepTheirDate`**, `Spec => []ShardDates`: a call past the rotation has a handle
  of the date of its event, since nobody else moves a writer between gate and return. An
  event is in flight under a number that its caller never had before, and the record of an
  event in flight exists only when its own call has written the whole line (`Written`).
* **`AcknowledgedStays`**, `Spec => []AckedRecorded` unless the directory is removed, which
  `removed_directory` shows to be necessary. The record is there when its call returns;
  afterwards appends and repairs keep it, since at `restore` every record ends within the
  size that is truncated to (`CallRecords`), and a shard loses its name only when its date
  has expired (`Anchored`), which never ends (`CallStale`).

`EventStep` says what a step of a call has to show for all of them. `EventInv` was checked
with TLC on all four instances of the writer before it was proved.

`ShardLogProofs` builds on `EventInv` and on `FragmentInv` of `ShardOrderProofs`:

* **`WritersImplementTheLog`**, `Spec => ImplementsEventLog` if no unlock fails, every torn
  line can be cut off and nobody removes the directory. Every step of the writers maps to a
  step of `EventLog` or to a stutter: `Append` to `Record`, a return to `Acknowledge` or
  `Reject`, a removal by the sweep to `Expire`, `Midnight` to `NextDay`. A crash before the
  repair of a line that lacks only its newline maps to `Record` too, since nobody will cut
  that line off any more; all else changes nothing the log knows of. The proof needs that an
  event in flight was submitted at most a day ago (`SubmittedInv`), so that its shard cannot
  expire between append and acknowledgement (`ActiveLinked`), and that a number belongs to
  one event (`NumberInv`), so that nothing is recorded twice.

`ShardOrderProofs` builds on `BoundInv` and `EventInv` too. Each theorem has an invariant of
its own, which TLC checked first:

* **`TracesKeepTheirOrder`**, `Spec => []AppendOrder`, without a hypothesis on the faults.
  An order of records is not inductive: a step that appends must know that no shard with an
  earlier record of the trace comes behind its own. `OrderInv` says that the handle of a
  writer is the last of its date among the shards that hold a record of one of its callers
  (`LastHandle`), that a call probing for a shard is not before any of these either
  (`LastProbe`), and that two linked shards have different names (`UniqueNames`).
* **`RetentionIsComplete`**, `Spec => []SweepIsComplete` if neither listing the directory nor
  removing a shard fails. Both are needed: `applyRetention` marks the date as swept before it
  sweeps, so a failure leaves shards behind for the day. `SweepInv` says of every writer
  that what had expired on the date it has swept for is gone or still among the names its
  own sweep is to remove (`Swept`), and that its handle belongs to that date unless the sweep
  is still to come (`SweptForActive`); the date of an event in flight is today or yesterday.
* **`ShardsHaveNoGaps`**, `Spec => []NoGapsBetweenShards` if no append fails and nobody
  removes the directory. A probe may see a fragment that the repair then takes back, and the
  next shard follows an empty one. `GapInv` says that every shard of a date that is kept
  follows one that holds something, and that a call probing an index has seen all before it
  filled; sizes only grow, so what was seen stays true.
* **`RejectedStaysOut`**, `Spec => []RejectedNotRecorded` if no unlock fails and every torn
  line can be cut off, which `unlock_failure` and `torn_line` show to be necessary. A call
  whose line was written returns nil unless its unlock fails; a fragment that lacks only its
  newline belongs to a call at `restore`, which will cut it off, or to an event whose process
  died, which is never rejected.
* **`LinesStayIntact`**, `Spec => []LinesIntact` unless the newline that should close a
  fragment fails too, which `repair_failure` shows to be necessary. `FragmentInv` follows
  each fragment from the append that tore it to its repair: its call is still at `restore`
  and will take it back, or a newline closes it, or its process died and its event is never
  rejected (`Abandoned`). The boundary a repair goes back to is never the end of another
  fragment (`RepairOK`).

`TraceTimelineProofs` proves, for any number of traces, goroutines and events, handlers
nested to any depth and any clock that does not go back, from `TraceAssumption` and
`EventAssumption`: `TypeCorrect`, **`LogStaysInSequence`**, **`GapsAreAccountedFor`** and
**`DropsAreCounted`**. The invariant has two layers:

* `ControlInv` says who holds which mutex: a goroutine has the mutex of every trace it is
  inside of, except of the last while it still waits for it, so no trace is twice in its
  stack. `OneWriter` follows: two goroutines past `Lock` are in different traces. It also
  says that the event being written has the number the trace gave last.
* `NumberInv` is about the numbers, and holds without `TrustIncomingTraceID` only: the
  event being written comes after all of its trace that were recorded or lost (`Newest`),
  the log is ordered, no number is both in the log and lost, and each number up to
  `sequence` is in the log, lost or being written (`Complete`). `LogInSequence` alone is not
  inductive, since a step that records an event must know that it is the newest.

`DropsAreCounted` needs beside it only that the goroutines about to count are as many as the
lost events the counter lacks, by cardinality.

`SanitizerProofs` proves, for any options, any keys and any payload that is `WellFormed`,
from the assumptions named in `Configuration` and `Sanitizer`:

* **`LimitsStayNested`**, `Spec => []LimitsNested`, from `ConfigInv`: the configuration is
  the clamped form of values that were valid.
* **`CyclesAreCut`**, **`SecretsStayHidden`**, **`PayloadStaysBounded`** and `TypeCorrect`.
  `CyclesAreCut` shows `OnlyAncestorsAreCircular`, which is inductive with the shape of the
  stack: `Leave` may forget a reference because it is on the stack once. A reference is a
  type and an address, so what is proved is that a replaced value is inside of one with its
  reference, not that it is in a cycle. The length of a name is computed: `TruncateUTF8`
  leaves room for the suffix, because `minMaxKeyBytes` is more than its 17 bytes, and the
  escape adds one byte. For the budget
  the invariant adds that what was written and what is left make up `maxPayloadNodes`
  (`BudgetInv`) and, for the nesting, that of two containers with entries the inner one is
  deeper (`DepthInv`), so that their depths map them one to one into `1 .. maxDepth`. For
  the secrets it says of every set of nodes that is closed under all entries but secret
  ones that what was visited, the stack and the next call are all in it (`PublicInv`);
  `SecretIsSensitive` shows that `IsSensitive`, under the configuration that was built,
  finds every key that the options call secret.

Each step of a traversal goes through one of `ReplaceStep`, `EnterStep` and `LeaveStep`:
the last frame changes, a frame is added, the last one is taken away.

Beside that stands a second invariant, `AccountInv`, for what becomes of the entries:

* **`NoEntryIsLost`**, `Spec => []EntriesAccounted`, **`MarkersAreGenuine`** and
  **`OmissionsAreJustified`**. `EntriesAccounted` counts and `MarkersGenuine` speaks of names
  only; neither knows which entries gave a container its names. `Accounted` does: there is a
  set of entries that are done, the names are exactly theirs (with `_omitted_items` in a map
  that lost some), and those still to come, the one `normalize` was called for and the
  omitted ones make up the rest. `SlotNames` says that different entries have different names
  and none of them is a marker, because `NormalizeKey` is injective on the keys of a
  container that is not `Ambiguous` (a digest belongs to one key, and no other key spells the
  shortened form) and `Assigned` moves a marker out of the way of the marker that is already
  escaped. `Justified` adds that the loop over a list has left its first `m` items
  behind, `m` at most `maxArrayItems`, so that a list cut for its length has exactly as many.

`TimelineReaderProofs` proves, for any number of shards, traces and events, any program that
records while the command runs, and any damage, from the assumptions of `TimelineReader`:

* **`ListedEventsAreShown`**, `Spec => []NothingMissed`. `NothingMissed` compares what was
  listed with what was found at the end; `ReaderInv` says it of every moment: a shard that
  is still there has only grown since it was listed (`ListedInv`), every wanted line of the
  listing that the command is past (`Behind`) is among the events found, each event once
  (`FoundInv`), and the lines counted as malformed are at most those damaged, at least those
  listed and torn or overlong (`CountInv`, by cardinality).
* **`TimelineIsInSequence`**, `Spec => []TimelineInSequence`. `LogInv` says that of two events
  of a trace the later one has the later times, unless the wall clock was set back. From it
  `Earlier` is a strict total order of the events found, so their places are all different
  and, by counting, all taken (`PlaceIsTaken`): `Timeline` is the sorted permutation that
  `sort.SliceStable` returns, and no recursion is needed to say so.
* `TypeCorrect`, of which the bound on `malformed` needs that no damaged line is counted twice.

Every safety property of the runs that hold is proved. Only model-checked is liveness
(`EveryCallReturns`, `EventReturns`, `SanitizeReturns`), which depends on fairness and
`ENABLED` and is beyond the prover.

## Abstractions

* A caller of `ShardWriter` has one call in flight: it stands for a trace, which holds its
  mutex during `Write`. Several traces of a process are several callers of one writer.
* A record is its length. `encodeLine` decides between the record and a degraded one of any
  length. Encoding happens before the gate and touches no state.
* `Stat` and `OpenFile` of a probed shard are one step. Between them other processes may
  append (they do not need the directory lock), but the size is only stored in
  `currentSize`, which `Write` reads again under the shard lock before it uses it.
* `ReadDir` is atomic. Removal of a shard and of each name in a sweep are separate steps.
* `flock` and `LockFileEx` are one kind of lock. Closing a handle or dying releases it;
  a failed unlock leaves it. Whether a handle that kept its lock after a failed unlock gets
  it again (`flock`) or waits for itself (`LockFileEx`) is left open: `TryShardLock` may do
  either.
* Whether an open append handle can be truncated depends on the platform (never on Windows).
  `RestoreLineBoundary` may refuse whenever `Faults` says so, on every platform the same.
* A call does not see two midnights (`Midnight`): lock waits are bounded, days are long.
* After a crash a caller goes on with fresh sequence numbers, where the program would have
  a new trace: only identity and order of events matter.
* The writer of `TraceTimeline` either records an event or leaves nothing. The exception,
  a failed unlock, is the subject of `unlock_failure`.
* The wait for the mutex of a trace knows nothing of the context, here as in the code: an
  `EventContext` whose context is done fails, if it does, in the writer (`MayFail`).
* `GenerateTraceID` never repeats an ID and `SanitizeTraceID` either keeps an ID or rejects
  it. With `TrustIncomingTraceID` two traces may share an ID and then their numbers; the
  properties of timelines are about configurations without it.
* The digests of the long keys of one payload, eight bytes of SHA-256, do not collide
  (`DigestAssumption`). That a key spells the shortened form of another one is not excluded.
* Two fields of a struct with one JSON name are not modelled, and neither is the walk of
  `json.Marshal` over what is behind a marshaler or a map without string keys: it gives a
  tree (`Decoded`), in one step.
* Pointers, and the values behind marshalers and maps without string keys, are no entries:
  they are bounded by the visited set and not by the budget, so the stack is longer than
  `maxDepth` by them. The maps `_truncated` and `_binary` that stand for one value are
  leaves, although they are maps one level deeper than it.
* The reader sees one date, whose shards have one-digit indices (`Before`), and records that
  have an `elapsed_ms`. An append is whole or torn for good: a line that is being written
  while it is read would be counted as torn.
* What makes a line overlong is not modelled: `RecordLong` may append one at any time.
* Events that are recorded while the command reads are shown or not, depending on the file
  they go to; a later event may be shown without an earlier one. Nothing promises more, and
  `NothingMissed` only speaks of what was there at the listing.
* After the wall clock was set back the timeline is not in sequence and "Total duration" is
  the elapsed time of the line with the latest timestamp; `TimelineInSequence` excludes it.
* A flush does not change anything another call sees: durability against a loss of power is
  not modelled, and so neither is `fsync`.

## Not modelled, and the plan

Left out, with the reason:

* The text of strings (truncation at `maxStringBytes`, base64 of bytes, UTF-8 repair), of
  errors and of markers: one value in, one value out, no state.
* File modes, and the `recover` of `Sanitize` itself, which replaces the whole payload by
  `_encoding_error` when something panics outside of a marshaler. A payload that the
  application changes while `Sanitize` reads it is a data race of the application.
* `fsync` and loss of power; foreign files in the directory.
* The clock of retention: `applyRetention` takes its cutoff from `time.Now`, the events
  their date from the configured `Clock`. `today` is both.
* A fragment that a crash left is not repaired by the next process. `LinesIntact` names
  exactly the fragments whose writer survived. `writer_retention` takes no torn appends: a
  probe that races with one sees a size that the repair takes back, and then a shard may
  follow an empty one, harmlessly.
* The package documentation, the examples and the benchmarks, which call the library and
  hold none of its state.

Plan, in this order:

1. The composition of `TimelineReader` with `ShardWriter`, in place of its abstract
   recorder, to say that every acknowledged event is shown.
2. The composition of `TraceTimeline` with `ShardWriter`, which replaces the abstract writer.
3. Proofs about these compositions: that what the writer promises is what the reader and
   the trace assume.
