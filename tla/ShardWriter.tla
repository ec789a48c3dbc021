---------------------------- MODULE ShardWriter -----------------------------
(***************************************************************************)
(* JSONLFileWriter (jsonl_writer.go) with its file locks (filelock*.go):   *)
(* several processes, each with a writer of its own, append events to the  *)
(* shards of one directory, and the goroutines of a process share its      *)
(* writer behind a one-slot gate.                                          *)
(*                                                                         *)
(* A call is a sequence of steps between which other calls and processes   *)
(* run; what one step does is one system call with the Go code around it.  *)
(* A Trace holds its mutex across Write, so a caller stands for a trace    *)
(* and has one call in flight.                                             *)
(***************************************************************************)
EXTENDS LogDirectory

CONSTANTS
    WriterOf,        \* the writer a caller calls
    MaxFileBytes,    \* configuration.maxFileBytes
    MaxRecordBytes,  \* configuration.maxRecordBytes
    DegradedBytes,   \* the length of a degraded record
    RecordSizes,     \* the lengths events encode to
    RetentionDays,   \* configuration.retentionDays, 0 keeps every shard
    Operations,      \* bound: the methods that a caller calls
    Faults,          \* the failures the environment may inject, by name
    MaxFaults,       \* bound: how many of them a behaviour has
    MaxSequence      \* bound: the events of a caller

ASSUME CallerAssumption == WriterOf \in [Caller -> Writer]
ASSUME SizeAssumption ==
    /\ MaxFileBytes \in Nat \ {0}
    /\ MaxRecordBytes \in 1 .. MaxFileBytes
    /\ DegradedBytes \in Nat \ {0}
    /\ RecordSizes \subseteq Nat \ {0}
ASSUME EnvironmentAssumption ==
    /\ RetentionDays \in Nat
    /\ MaxFaults \in Nat
    /\ MaxSequence \in Nat

VARIABLES
    writer,      \* the fields of each JSONLFileWriter
    gate,        \* the call that fills the gate of a writer
    pc,          \* where a call is
    request,     \* what a call was asked
    progress,    \* the locals of a call
    sequence,    \* the events a caller has submitted
    today,       \* the UTC date
    faults,      \* the failures so far
    acked,       \* the events Write returned nil for
    rejected     \* the events Write returned an error for

callVars == <<pc, request, progress>>
vars == <<dirVars, writer, gate, callVars, sequence, today, faults, acked, rejected>>

W(c) == WriterOf[c]

NewWriter ==
    [handle |-> None, currentDate |-> None, currentSize |-> 0,
     retentionAppliedTo |-> None, directoryReady |-> FALSE, closed |-> FALSE]

NoRequest == [op |-> "none", event |-> None]
NoProgress == [index |-> 0, stale |-> {}, lockFile |-> 0, failed |-> FALSE]

(* Where a call holds the gate, the directory lock, the shard lock. *)
Rotating == {"discover", "probe", "retain", "sweep", "dirUnlock"}
Appending == {"stat", "append", "restore", "unlock"}
Admitted == {"admitted", "rotate", "dirLock", "dirWait", "shardLock", "shardWait"}
                \cup Rotating \cup Appending
Writing == Admitted \ {"admitted"}

WriterState ==
    [handle : Inode \cup {None}, currentDate : Day \cup {None}, currentSize : Nat,
     retentionAppliedTo : Day \cup {None}, directoryReady : BOOLEAN, closed : BOOLEAN]
WriteRequest == [op : {"write"}, event : Event]
OtherRequest == [op : {"none", "flush", "close"}, event : {None}]
Progress ==
    [index : Nat, stale : SUBSET (Day \X Nat), lockFile : Generation, failed : BOOLEAN]

TypeOK ==
    /\ DirTypeOK
    /\ writer \in [Writer -> WriterState]
    /\ gate \in [Writer -> Caller \cup {None}]
    /\ pc \in [Caller -> {"idle", "gate"} \cup Admitted]
    /\ request \in [Caller -> WriteRequest \cup OtherRequest]
    /\ progress \in [Caller -> Progress]
    /\ sequence \in [Caller -> 0 .. MaxSequence]
    /\ today \in Day
    /\ faults \in 0 .. MaxFaults
    /\ acked \subseteq Event
    /\ rejected \subseteq Event

Init ==
    /\ DirInit
    /\ writer = [w \in Writer |-> NewWriter]
    /\ gate = [w \in Writer |-> None]
    /\ pc = [c \in Caller |-> "idle"]
    /\ request = [c \in Caller |-> NoRequest]
    /\ progress = [c \in Caller |-> NoProgress]
    /\ sequence = [c \in Caller |-> 0]
    /\ today = 0
    /\ faults = 0
    /\ acked = {}
    /\ rejected = {}

-----------------------------------------------------------------------------
(* Helpers.                                                                *)

Fails(f) == f \in Faults /\ faults < MaxFaults /\ faults' = faults + 1

(* The operation fails because of the state, or because a fault is injected. *)
FailsIf(condition, f) == \/ condition /\ UNCHANGED faults
                         \/ Fails(f)

Goto(c, l) == pc' = [pc EXCEPT ![c] = l]

Handle(c) == writer[W(c)].handle
Line(c) == request[c].event.bytes
Date(c) == request[c].event.date

(* A record over the limit is replaced by a degraded one, of whatever size. *)
EncodeLine(n) == IF n > MaxRecordBytes THEN DegradedBytes ELSE n

CloseHandle(state) == [state EXCEPT !.handle = None, !.currentDate = None, !.currentSize = 0]

(* Mutant of NeedsRotation: forgets that the date may have changed. *)
RotatesOnce(state, d) == state.handle = None

NeedsRotation(state, d) == state.handle = None \/ state.currentDate # d

Full(size, n) == size > 0 /\ size + n > MaxFileBytes

(* The call returns: the deferred functions of Write drop the cached       *)
(* directory check after an error and release the gate.                    *)
Return(c, state, ok) ==
    /\ Goto(c, "idle")
    /\ request' = [request EXCEPT ![c] = NoRequest]
    /\ progress' = [progress EXCEPT ![c] = NoProgress]
    /\ gate' = [gate EXCEPT ![W(c)] = None]
    /\ writer' = [writer EXCEPT ![W(c)] =
                    IF ok \/ request[c].op # "write" THEN state
                    ELSE [state EXCEPT !.directoryReady = FALSE]]
    /\ acked' = IF ok /\ request[c].op = "write" THEN acked \cup {request[c].event} ELSE acked
    /\ rejected' = IF ~ok /\ request[c].op = "write"
                   THEN rejected \cup {request[c].event} ELSE rejected
    /\ UNCHANGED <<sequence, today>>

(* The call goes on at l with the given writer state and locals. *)
Continue(c, l, state, locals) ==
    /\ Goto(c, l)
    /\ writer' = [writer EXCEPT ![W(c)] = state]
    /\ progress' = [progress EXCEPT ![c] = locals]
    /\ UNCHANGED <<gate, request, sequence, today, acked, rejected>>

Same(c) == writer[W(c)]
Locals(c) == progress[c]

-----------------------------------------------------------------------------
(* The gate.                                                               *)

Call(c, op, event) ==
    /\ op \in Operations[c]
    /\ pc[c] = "idle"
    /\ Goto(c, "gate")
    /\ request' = [request EXCEPT ![c] = [op |-> op, event |-> event]]
    /\ UNCHANGED <<dirVars, writer, gate, progress, today, faults, acked, rejected>>

Submit(c, n) ==
    /\ sequence[c] < MaxSequence
    /\ sequence' = [sequence EXCEPT ![c] = @ + 1]
    /\ Call(c, "write", [caller |-> c, sequence |-> sequence[c] + 1,
                         date |-> today, bytes |-> EncodeLine(n)])

CallFlush(c) == Call(c, "flush", None) /\ UNCHANGED sequence
CallClose(c) == Call(c, "close", None) /\ UNCHANGED sequence

AcquireGate(c) ==
    /\ pc[c] = "gate"
    /\ gate[W(c)] = None
    /\ gate' = [gate EXCEPT ![W(c)] = c]
    /\ Goto(c, "admitted")
    /\ UNCHANGED <<dirVars, writer, request, progress, sequence, today, faults, acked, rejected>>

(* ctx is done first.  Close waits with a background context. *)
AbandonGate(c) ==
    /\ pc[c] = "gate"
    /\ request[c].op # "close"
    /\ Goto(c, "idle")
    /\ request' = [request EXCEPT ![c] = NoRequest]
    /\ rejected' = IF request[c].op = "write" THEN rejected \cup {request[c].event} ELSE rejected
    /\ UNCHANGED <<dirVars, writer, gate, progress, sequence, today, faults, acked>>

-----------------------------------------------------------------------------
(* Flush and Close.                                                        *)

(* A flush of a closed writer or a failed fsync is an error, one without   *)
(* an active shard is not; none of them changes the writer.                *)
FlushActive(c) ==
    /\ pc[c] = "admitted"
    /\ request[c].op = "flush"
    /\ Return(c, Same(c), TRUE)
    /\ UNCHANGED <<dirVars, faults>>

CloseWriter(c) ==
    /\ pc[c] = "admitted"
    /\ request[c].op = "close"
    /\ IF Same(c).closed
       THEN Return(c, Same(c), TRUE) /\ UNCHANGED flock
       ELSE /\ Return(c, [CloseHandle(Same(c)) EXCEPT !.closed = TRUE], TRUE)
            /\ flock' = LocksReleasedBy(W(c))
    /\ UNCHANGED <<file, fresh, linked, dirLock, directory, generation, faults>>

-----------------------------------------------------------------------------
(* Write, before the lock on a shard.                                      *)

RejectClosed(c) ==
    /\ pc[c] = "admitted"
    /\ request[c].op = "write"
    /\ Same(c).closed
    /\ Return(c, Same(c), FALSE)
    /\ UNCHANGED <<dirVars, faults>>

(* Mutant of EnsureDirectory: writes whether or not the writer is closed. *)
EnsureDirectoryWhenClosed(c) ==
    /\ pc[c] = "admitted"
    /\ request[c].op = "write"
    /\ directory' = (directory \/ ~Same(c).directoryReady)
    /\ Continue(c, IF NeedsRotation(Same(c), Date(c)) THEN "rotate" ELSE "shardLock",
                [Same(c) EXCEPT !.directoryReady = TRUE], Locals(c))
    /\ UNCHANGED <<file, fresh, linked, flock, dirLock, generation, faults>>

(* The directory is looked at only when the last look is not cached, and   *)
(* made when it is missing.                                                *)
EnsureDirectory(c) ==
    /\ pc[c] = "admitted"
    /\ request[c].op = "write"
    /\ ~Same(c).closed
    /\ directory' = (directory \/ ~Same(c).directoryReady)
    /\ Continue(c, IF NeedsRotation(Same(c), Date(c)) THEN "rotate" ELSE "shardLock",
                [Same(c) EXCEPT !.directoryReady = TRUE], Locals(c))
    /\ UNCHANGED <<file, fresh, linked, flock, dirLock, generation, faults>>

(* Stat or MkdirAll fails, or Chmod does after the directory was made. *)
DirectoryFails(c) ==
    /\ pc[c] = "admitted"
    /\ request[c].op = "write"
    /\ ~Same(c).closed
    /\ ~Same(c).directoryReady
    /\ Fails("directory")
    /\ directory' \in {directory, TRUE}
    /\ Return(c, Same(c), FALSE)
    /\ UNCHANGED <<file, fresh, linked, flock, dirLock, generation>>

-----------------------------------------------------------------------------
(* acquireFileLock: one attempt that does not block, then a short wait     *)
(* until the next or until the context, which is always bounded, is done.  *)

OpenLockFile(c) ==
    /\ pc[c] = "rotate"
    /\ \/ /\ directory
          /\ Continue(c, "dirLock", Same(c), [Locals(c) EXCEPT !.lockFile = generation])
          /\ UNCHANGED faults
       \/ /\ FailsIf(~directory, "open")
          /\ Return(c, Same(c), FALSE)
    /\ UNCHANGED dirVars

TryDirLock(c) ==
    /\ pc[c] = "dirLock"
    /\ IF dirLock[Locals(c).lockFile] = None
       THEN /\ dirLock' = [dirLock EXCEPT ![Locals(c).lockFile] = c]
            /\ Continue(c, "discover", Same(c), Locals(c))
       ELSE /\ Continue(c, "dirWait", Same(c), Locals(c))
            /\ UNCHANGED dirLock
    /\ UNCHANGED <<file, fresh, linked, flock, directory, generation, faults>>

(* A lock that the same handle still holds, after an unlock that failed,   *)
(* is granted again by flock and refused by LockFileEx.                    *)
TryShardLock(c) ==
    /\ pc[c] = "shardLock"
    /\ \/ /\ flock[Handle(c)] \in {None, W(c)}
          /\ flock' = [flock EXCEPT ![Handle(c)] = W(c)]
          /\ Continue(c, "stat", Same(c), Locals(c))
       \/ /\ flock[Handle(c)] # None
          /\ Continue(c, "shardWait", Same(c), Locals(c))
          /\ UNCHANGED flock
    /\ UNCHANGED <<file, fresh, linked, dirLock, directory, generation, faults>>

LockRetry(c) ==
    /\ \/ pc[c] = "dirWait" /\ Continue(c, "dirLock", Same(c), Locals(c))
       \/ pc[c] = "shardWait" /\ Continue(c, "shardLock", Same(c), Locals(c))
    /\ UNCHANGED <<dirVars, faults>>

(* Mutant of LockTimeout: only the wait for the directory lock is bounded. *)
DirLockTimeout(c) ==
    /\ pc[c] = "dirWait"
    /\ Return(c, Same(c), FALSE)
    /\ UNCHANGED <<dirVars, faults>>

LockTimeout(c) ==
    /\ pc[c] \in {"dirWait", "shardWait"}
    /\ Return(c, Same(c), FALSE)
    /\ UNCHANGED <<dirVars, faults>>

(* The lock call fails for another reason than a holder. *)
LockFails(c) ==
    /\ pc[c] \in {"dirLock", "shardLock"}
    /\ Fails("lock")
    /\ Return(c, Same(c), FALSE)
    /\ UNCHANGED dirVars

-----------------------------------------------------------------------------
(* rotate: find or create the shard for a date, under the directory lock.  *)

(* Mutant of RotationFails: an early return that leaves the lock file open. *)
RotationReturns(c, state) == Return(c, state, FALSE)

RotationFails(c, state) == Continue(c, "dirUnlock", state, [Locals(c) EXCEPT !.failed = TRUE])

(* The previous shard is closed, then the directory is listed; either may  *)
(* fail, and the handle is gone in every case.                             *)
Discover(c) ==
    /\ pc[c] = "discover"
    /\ flock' = LocksReleasedBy(W(c))
    /\ \/ /\ directory
          /\ \E highest \in Highest(Date(c)) :
                Continue(c, "probe", CloseHandle(Same(c)),
                         [Locals(c) EXCEPT !.index = highest])
          /\ UNCHANGED faults
       \/ /\ FailsIf(~directory, "readdir")
          /\ RotationFails(c, CloseHandle(Same(c)))
    /\ UNCHANGED <<file, fresh, linked, dirLock, directory, generation>>

(* Mutant of Opened: the date and the size swapped. *)
OpenedSwapped(c, i, size) ==
    [Same(c) EXCEPT !.handle = i, !.currentDate = size, !.currentSize = Date(c)]

Opened(c, i, size) ==
    [Same(c) EXCEPT !.handle = i, !.currentDate = Date(c), !.currentSize = size]

ProbeFull(c) ==
    /\ pc[c] = "probe"
    /\ Full(NamedSize(Date(c), Locals(c).index), Line(c))
    /\ Continue(c, "probe", Same(c), [Locals(c) EXCEPT !.index = @ + 1])
    /\ UNCHANGED <<dirVars, faults>>

OpenShard(c) ==
    /\ pc[c] = "probe"
    /\ ~Full(NamedSize(Date(c), Locals(c).index), Line(c))
    /\ \E i \in Named(Date(c), Locals(c).index) :
          Continue(c, "retain", Opened(c, i, file[i].size), Locals(c))
    /\ UNCHANGED <<dirVars, faults>>

CreateShard(c) ==
    /\ pc[c] = "probe"
    /\ Named(Date(c), Locals(c).index) = {}
    /\ directory
    /\ fresh \in Inode
    /\ Create(Date(c), Locals(c).index)
    /\ \/ Continue(c, "retain", Opened(c, fresh, 0), Locals(c)) /\ UNCHANGED faults
       \/ Fails("chmod") /\ RotationFails(c, Same(c))
    /\ UNCHANGED <<flock, dirLock, directory, generation>>

(* Neither the name nor its directory can be opened: it is gone, there is  *)
(* no inode left, or the file system refuses.                              *)
OpenFails(c) ==
    /\ pc[c] = "probe"
    /\ FailsIf(Named(Date(c), Locals(c).index) = {} /\ (~directory \/ fresh \notin Inode), "open")
    /\ RotationFails(c, Same(c))
    /\ UNCHANGED dirVars

(* Mutant of Expirable: an off-by-one in the cutoff. *)
ExpirableOnCutoff(date) == date <= today - RetentionDays

(* The cutoff is a number of days before today, not before the event. *)
Expirable(date) == date < today - RetentionDays

(* Mutant of SweepIsDue: a sweep at startup and never again. *)
SweepIsFirst(state, d) == RetentionDays > 0 /\ state.retentionAppliedTo = None

SweepIsDue(state, d) == RetentionDays > 0 /\ state.retentionAppliedTo # d

(* The date is marked as swept before the sweep. *)
ApplyRetention(c) ==
    /\ pc[c] = "retain"
    /\ LET swept == [Same(c) EXCEPT !.retentionAppliedTo = Date(c)]
           old == {name \in Names : Expirable(name[1])}
       IN  IF ~SweepIsDue(Same(c), Date(c))
           THEN Continue(c, "dirUnlock", Same(c), Locals(c)) /\ UNCHANGED faults
           ELSE \/ /\ directory
                   /\ Continue(c, "sweep", swept, [Locals(c) EXCEPT !.stale = old])
                   /\ UNCHANGED faults
                \/ /\ FailsIf(~directory, "readdir")
                   /\ RotationFails(c, CloseHandle(swept))
    /\ UNCHANGED dirVars

(* One shard goes at a time; one that is gone already is no error. *)
SweepOne(c) ==
    /\ pc[c] = "sweep"
    /\ \E name \in Locals(c).stale :
          \/ /\ linked' = linked \ Named(name[1], name[2])
             /\ Continue(c, "sweep", Same(c), [Locals(c) EXCEPT !.stale = @ \ {name}])
             /\ UNCHANGED faults
          \/ /\ Fails("remove")
             /\ RotationFails(c, CloseHandle(Same(c)))
             /\ UNCHANGED linked
    /\ UNCHANGED <<file, fresh, flock, dirLock, directory, generation>>

SweepDone(c) ==
    /\ pc[c] = "sweep"
    /\ Locals(c).stale = {}
    /\ Continue(c, "dirUnlock", Same(c), Locals(c))
    /\ UNCHANGED <<dirVars, faults>>

(* The lock file is closed, which releases its lock whatever unlock said. *)
UnlockDirectory(c) ==
    /\ pc[c] = "dirUnlock"
    /\ dirLock' = [dirLock EXCEPT ![Locals(c).lockFile] = None]
    /\ IF Locals(c).failed
       THEN Return(c, Same(c), FALSE)
       ELSE Continue(c, "shardLock", Same(c), NoProgress)
    /\ UNCHANGED <<file, fresh, linked, flock, directory, generation, faults>>

-----------------------------------------------------------------------------
(* Write, under the lock on the active shard.                              *)

Unlock(c) == flock' = [flock EXCEPT ![Handle(c)] = None]

(* Mutant of StatShard: trusts the size it remembers. *)
RecallSize(c) ==
    /\ pc[c] = "stat"
    /\ \/ /\ ~Full(Same(c).currentSize, Line(c))
          /\ Continue(c, "append", Same(c), Locals(c))
          /\ UNCHANGED flock
       \/ /\ Full(Same(c).currentSize, Line(c))
          /\ Unlock(c)
          /\ Continue(c, "rotate", Same(c), Locals(c))
    /\ UNCHANGED <<file, fresh, linked, dirLock, directory, generation, faults>>

StatShard(c) ==
    /\ pc[c] = "stat"
    /\ LET size == file[Handle(c)].size
           sized == [Same(c) EXCEPT !.currentSize = size]
       IN  \/ /\ ~Full(size, Line(c))
              /\ Continue(c, "append", sized, Locals(c))
              /\ UNCHANGED <<flock, faults>>
           \/ /\ Full(size, Line(c))
              /\ \/ Unlock(c) /\ Continue(c, "rotate", sized, Locals(c)) /\ UNCHANGED faults
                 \/ Fails("unlock") /\ Return(c, sized, FALSE) /\ UNCHANGED flock
    /\ UNCHANGED <<file, fresh, linked, dirLock, directory, generation>>

(* The error of the unlock is dropped: it may leave the lock behind. *)
StatFails(c) ==
    /\ pc[c] = "stat"
    /\ Fails("stat")
    /\ Unlock(c) \/ ("unlock" \in Faults /\ UNCHANGED flock)
    /\ Return(c, Same(c), FALSE)
    /\ UNCHANGED <<file, fresh, linked, dirLock, directory, generation>>

Append(c) ==
    /\ pc[c] = "append"
    /\ Extend(Handle(c), request[c].event, "record", Line(c))
    /\ Continue(c, "unlock", Same(c), Locals(c))
    /\ UNCHANGED <<fresh, linked, flock, dirLock, directory, generation, faults>>

(* Mutant of AppendFails: an error although the whole line was written. *)
AppendFailsLate(c) ==
    /\ pc[c] = "append"
    /\ Fails("append")
    /\ Extend(Handle(c), request[c].event, "record", Line(c))
    /\ Continue(c, "unlock", Same(c), [Locals(c) EXCEPT !.failed = TRUE])
    /\ UNCHANGED <<fresh, linked, flock, dirLock, directory, generation>>

(* Not a byte is written, or some but not all of the line. *)
AppendFails(c) ==
    /\ pc[c] = "append"
    /\ Fails("append")
    /\ LET failed == [Locals(c) EXCEPT !.failed = TRUE]
       IN  \/ Continue(c, "unlock", Same(c), failed) /\ UNCHANGED file
           \/ /\ \E n \in 1 .. Line(c) - 1 :
                    Extend(Handle(c), request[c].event, "fragment", n)
              /\ Continue(c, "restore", Same(c), failed)
    /\ UNCHANGED <<fresh, linked, flock, dirLock, directory, generation>>

(* Mutants of RestoreLineBoundary: empties the shard, leaves the fragment. *)
EmptyTheShard(c) ==
    /\ pc[c] = "restore"
    /\ Truncate(Handle(c), 0)
    /\ Continue(c, "unlock", Same(c), Locals(c))
    /\ UNCHANGED <<fresh, linked, flock, dirLock, directory, generation, faults>>

LeaveTheFragment(c) ==
    /\ pc[c] = "restore"
    /\ Continue(c, "unlock", Same(c), Locals(c))
    /\ UNCHANGED <<dirVars, faults>>

(* restoreLineBoundary: truncate the fragment away, or close it with a     *)
(* newline where the handle cannot be truncated, and ignore it when even   *)
(* that fails.  Neither counts as another fault: no handle of the platform *)
(* can be truncated, or the device that refused the append refuses this.   *)
RestoreLineBoundary(c) ==
    /\ pc[c] = "restore"
    /\ \/ Truncate(Handle(c), Same(c).currentSize) /\ UNCHANGED faults
       \/ /\ "truncate" \in Faults
          /\ Extend(Handle(c), request[c].event, "newline", 1)
          /\ UNCHANGED faults
       \/ "repair" \in Faults /\ UNCHANGED <<file, faults>>
    /\ Continue(c, "unlock", Same(c), Locals(c))
    /\ UNCHANGED <<fresh, linked, flock, dirLock, directory, generation>>

(* A failed unlock fails the call whether or not the line was written, and *)
(* leaves the lock with the handle.                                        *)
UnlockShard(c) ==
    /\ pc[c] = "unlock"
    /\ \/ /\ Unlock(c)
          /\ Return(c, IF Locals(c).failed THEN Same(c)
                       ELSE [Same(c) EXCEPT !.currentSize = @ + Line(c)], ~Locals(c).failed)
          /\ UNCHANGED faults
       \/ Fails("unlock") /\ Return(c, Same(c), FALSE) /\ UNCHANGED flock
    /\ UNCHANGED <<file, fresh, linked, dirLock, directory, generation>>

-----------------------------------------------------------------------------
(* The environment.                                                        *)

(* The process of w dies, perhaps in the middle of an append, and starts   *)
(* again with a new writer.  The kernel releases its locks.  Its callers   *)
(* go on numbering where they were only so that events stay distinct.      *)
Crash(w) ==
    /\ Fails("crash")
    /\ LET own == {c \in Caller : W(c) = w}
       IN  /\ \/ UNCHANGED file
              \/ \E c \in own :
                    /\ pc[c] = "append"
                    /\ \E n \in 1 .. Line(c) - 1 :
                          Extend(Handle(c), request[c].event, "fragment", n)
           /\ dirLock' = [g \in Generation |-> IF dirLock[g] \in own THEN None ELSE dirLock[g]]
           /\ pc' = [c \in Caller |-> IF c \in own THEN "idle" ELSE pc[c]]
           /\ request' = [c \in Caller |-> IF c \in own THEN NoRequest ELSE request[c]]
           /\ progress' = [c \in Caller |-> IF c \in own THEN NoProgress ELSE progress[c]]
    /\ flock' = LocksReleasedBy(w)
    /\ writer' = [writer EXCEPT ![w] = NewWriter]
    /\ gate' = [gate EXCEPT ![w] = None]
    /\ UNCHANGED <<fresh, linked, directory, generation, sequence, today, acked, rejected>>

(* No call lasts a whole day, so none sees two midnights. *)
Midnight ==
    /\ today < MaxDay
    /\ \A c \in Caller : request[c].op = "write" => Date(c) = today
    /\ today' = today + 1
    /\ UNCHANGED <<dirVars, writer, gate, callVars, sequence, faults, acked, rejected>>

(* Somebody removes or moves the directory under the running writers. *)
RemoveDirectory ==
    /\ Fails("rmdir")
    /\ directory
    /\ generation < MaxGeneration
    /\ generation' = generation + 1
    /\ directory' = FALSE
    /\ linked' = {}
    /\ UNCHANGED <<file, fresh, flock, dirLock, writer, gate, callVars, sequence, today,
                   acked, rejected>>

-----------------------------------------------------------------------------
CallerStep(c) ==
    \/ FlushActive(c) \/ CloseWriter(c)
    \/ RejectClosed(c) \/ EnsureDirectory(c) \/ DirectoryFails(c)
    \/ OpenLockFile(c) \/ TryDirLock(c) \/ TryShardLock(c) \/ LockRetry(c) \/ LockFails(c)
    \/ Discover(c) \/ ProbeFull(c) \/ OpenShard(c) \/ CreateShard(c) \/ OpenFails(c)
    \/ ApplyRetention(c) \/ SweepOne(c) \/ SweepDone(c) \/ UnlockDirectory(c)
    \/ StatShard(c) \/ StatFails(c) \/ Append(c) \/ AppendFails(c)
    \/ RestoreLineBoundary(c) \/ UnlockShard(c)

Next ==
    \/ \E c \in Caller :
          \/ \E n \in RecordSizes : Submit(c, n)
          \/ CallFlush(c) \/ CallClose(c)
          \/ AcquireGate(c) \/ AbandonGate(c) \/ LockTimeout(c)
          \/ CallerStep(c)
    \/ \E w \in Writer : Crash(w)
    \/ Midnight
    \/ RemoveDirectory

Spec == Init /\ [][Next]_vars

-----------------------------------------------------------------------------
(* Safety.                                                                 *)

Records(i) == {x \in file[i].data : x.kind = "record"}

(* A fragment that lacks nothing but the newline is whole JSON: a reader   *)
(* takes it for a record at the end of a shard or before a newline.  That  *)
(* a line may also be appended right behind it is for LinesIntact to tell. *)
LacksNewline(x) == x.kind = "fragment" /\ x.end - x.start = x.ev.bytes - 1
Readable(i) == Records(i) \cup {x \in file[i].data : LacksNewline(x)}

(* A shard grows past maxFileBytes only to hold one line that would not    *)
(* fit in any shard, whoever else appends between the look at the size     *)
(* and the append (Write, the full check under the shard lock).            *)
ShardBounded ==
    \A i \in Inode : file[i].size > MaxFileBytes =>
        \A x, y \in file[i].data : x.ev = y.ev

(* An event Write returned nil for is in a shard of its date that still is *)
(* in the directory, until retention may expire the date: no rotation,     *)
(* repair, sweep or crash of any process takes it away.                    *)
AckedRecorded ==
    \A e \in acked : RetentionDays = 0 \/ e.date >= today - RetentionDays =>
        \E i \in linked : /\ file[i].date = e.date
                          /\ \E x \in Records(i) : x.ev = e

(* An event Write returned an error for, which the trace counts as dropped *)
(* and whose sequence number is a gap to a reader, is not readable in any  *)
(* shard, not even from a line that only lost its newline.                 *)
RejectedNotRecorded ==
    \A i \in Inode : \A x \in Readable(i) : x.ev \notin rejected

(* The record after a line that died half-way starts a line of its own:    *)
(* what restoreLineBoundary is for.  A fragment that a crash left behind   *)
(* has nobody to repair it; its event was neither acknowledged nor         *)
(* rejected.                                                               *)
LinesIntact ==
    \A i \in Inode : \A x, y \in file[i].data :
        x.kind = "fragment" /\ y.kind = "record" /\ x.end = y.start => x.ev \notin rejected

(* Read shard by shard in the order of their indices, the lines one trace  *)
(* recorded on one date come in the order of their sequence numbers, also  *)
(* when its process rotated or started again in between.                   *)
AppendOrder ==
    \A i, j \in linked : file[i].date = file[j].date =>
        \A x \in Records(i), y \in Records(j) :
            x.ev.caller = y.ev.caller /\ x.ev.sequence < y.ev.sequence =>
                \/ file[i].index < file[j].index
                \/ i = j /\ x.end <= y.start

(* Every line is in a shard of its own UTC date, whoever of the callers of *)
(* a writer moved it to another date meanwhile.                            *)
ShardDates ==
    \A i \in Inode : \A x \in file[i].data : x.ev.date = file[i].date

(* Shards of a date are numbered without gaps, and a shard is begun only   *)
(* when the one before it holds something.                                 *)
NoGapsBetweenShards ==
    \A i \in linked :
        file[i].index > 0 /\ (RetentionDays = 0 \/ file[i].date >= today - RetentionDays) =>
            \E j \in Named(file[i].date, file[i].index - 1) : file[j].size > 0

(* Close is terminal: once a writer is closed none of its calls, not even  *)
(* one that waited at the gate meanwhile, opens or locks a shard again.    *)
ClosedHoldsNoShard ==
    \A w \in Writer : writer[w].closed =>
        /\ writer[w].handle = None
        /\ \A i \in Inode : flock[i] # w
        /\ \A c \in Caller : W(c) = w => pc[c] \notin Writing

(* No lock is stranded: a shard is locked only through the active handle   *)
(* of a writer, so that the next rotation, Close or death releases it, and *)
(* the directory only by a call that is rotating.                          *)
NoStrandedLock ==
    /\ \A i \in Inode : flock[i] # None => writer[flock[i]].handle = i
    /\ \A g \in Generation : dirLock[g] # None =>
          pc[dirLock[g]] \in Rotating /\ progress[dirLock[g]].lockFile = g

(* Once a writer is active on a date, the shards that had expired by then  *)
(* are gone: retention runs on the first rotation into each date and       *)
(* finishes before the writer appends.                                     *)
SweepIsComplete ==
    \A c \in Caller : pc[c] \in Appending =>
        \A i \in linked : RetentionDays > 0 => file[i].date >= Date(c) - RetentionDays

-----------------------------------------------------------------------------
(* The writers implement the event log.                                    *)

(* The log holds what can be read from the directory, but for a line that  *)
(* its call is still taking back under the lock on the shard.              *)
UnderRepair == {request[c].event : c \in {d \in Caller : pc[d] = "restore"}}
Recorded == {x.ev : x \in UNION {Readable(i) : i \in linked}} \ UnderRepair
Submittable ==
    [caller : Caller, sequence : 1 .. MaxSequence, date : Day,
     bytes : {EncodeLine(n) : n \in RecordSizes}]

Log == INSTANCE EventLog WITH LogEvent <- Submittable, Retention <- RetentionDays,
                              recorded <- Recorded

(* Every step of the writers and their environment is a step of the event  *)
(* log or leaves it as it is.                                              *)
ImplementsEventLog == Log!LogSpec

-----------------------------------------------------------------------------
(* What documents and comments say, and the code does not do.              *)

(* "a directory that disappears at runtime is still recreated": an event   *)
(* submitted after the directory was removed, of a trace with k events by  *)
(* then, is acknowledged only with a directory.                            *)
RemovedDirectoryComesBack ==
    \A c \in Caller : \A k \in 0 .. MaxSequence :
        []((generation = MaxGeneration /\ sequence[c] = k /\ pc[c] = "idle") =>
            [](\A e \in acked : e.caller = c /\ e.sequence > k => directory))

-----------------------------------------------------------------------------
(* Liveness.                                                               *)

(* A goroutine that is not waiting goes on.  The gate is a channel, which  *)
(* serves its senders in order.  A lock wait ends: acquireFileLock bounds  *)
(* the context it is given, and looks at it after every attempt.           *)
Fairness ==
    \A c \in Caller : WF_vars(CallerStep(c)) /\ SF_vars(AcquireGate(c)) /\ SF_vars(LockTimeout(c))

FairSpec == Spec /\ Fairness

(* Every call of Write, Flush and Close returns, even when another process *)
(* never gives up a lock.                                                  *)
EveryCallReturns == \A c \in Caller : pc[c] # "idle" ~> pc[c] = "idle"

=============================================================================
