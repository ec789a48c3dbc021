-------------------------- MODULE ShardOrderProofs --------------------------
(***************************************************************************)
(* The shards of the JSONL writer and what is in them: a trace never goes  *)
(* back to an earlier shard, retention leaves nothing that had expired,    *)
(* shards follow each other without gaps, and a torn line neither runs     *)
(* into the next one nor can be read after its event was rejected.         *)
(*                                                                         *)
(* Each of the four parts has an inductive invariant of its own beside     *)
(* BoundInv and EventInv.                                                  *)
(***************************************************************************)
EXTENDS ShardEventProofs

-----------------------------------------------------------------------------
(* What the steps of a call have in common.                                *)

(* The step changes no shard, begins no repair and ends no append. *)
Quiet(c) ==
    /\ Alone(c) /\ SameShards
    /\ directory => directory'
    /\ pc[c] \in Admitted \ {"restore"} /\ pc'[c] \notin {"restore", "unlock"}
    /\ \A e \in rejected' :
          e \in rejected \/ (InFlight(c) /\ ~InFlight(c)' /\ e = request[c].event)

(* It neither opens a shard, nor looks for one, nor sweeps. *)
SameActive(c, state) ==
    /\ \/ state.handle = None
       \/ state.handle = Handle(c) /\ state.currentDate = Same(c).currentDate
    /\ state.retentionAppliedTo = Same(c).retentionAppliedTo

Searching == {"probe", "retain", "sweep"}

Modest(c) ==
    /\ Quiet(c)
    /\ SameActive(c, writer'[W(c)])
    /\ pc[c] \notin {"retain", "sweep"} /\ pc'[c] \notin Searching

LEMMA ReturnModest ==
  ASSUME BoundInv, NEW c \in Caller, pc[c] \in Admitted \ {"retain", "sweep", "restore"},
         NEW state \in WriterState, NEW ok \in BOOLEAN, Return(c, state, ok),
         SameActive(c, state), SameShards, directory => directory'
  PROVE  Modest(c)
<1>1. /\ Alone(c) /\ pc'[c] = "idle" /\ request'[c] = NoRequest
      /\ writer'[W(c)].handle = state.handle /\ writer'[W(c)].currentDate = state.currentDate
  BY ReturnAlone DEF BoundInv
<1>2. \/ writer'[W(c)] = state
      \/ writer'[W(c)] = [state EXCEPT !.directoryReady = FALSE]
  BY WriterOfCaller DEF Return, BoundInv, TypeInv, TypeOK
<1>3. writer'[W(c)].retentionAppliedTo = state.retentionAppliedTo
  BY <1>2 DEF WriterState
<1>4. \A e \in rejected' :
         e \in rejected \/ (InFlight(c) /\ ~InFlight(c)' /\ e = request[c].event)
  BY <1>1 DEF Return, InFlight, NoRequest
<1> QED
  BY <1>1, <1>3, <1>4 DEF Modest, Quiet, SameActive, Searching

LEMMA ContinueQuiet ==
  ASSUME BoundInv, NEW c \in Caller, pc[c] \in Admitted \ {"restore"},
         NEW l, NEW state, NEW locals, Continue(c, l, state, locals),
         l \notin {"restore", "unlock"}, SameShards, directory => directory'
  PROVE  /\ Quiet(c) /\ pc'[c] = l /\ writer'[W(c)] = state /\ progress'[c] = locals
         /\ request' = request
BY ContinueAlone DEF BoundInv, Quiet

LEMMA ContinueModest ==
  ASSUME BoundInv, NEW c \in Caller, pc[c] \in Admitted \ {"retain", "sweep", "restore"},
         NEW l, NEW state, NEW locals, Continue(c, l, state, locals),
         l \notin Searching \cup {"restore", "unlock"}, SameActive(c, state),
         SameShards, directory => directory'
  PROVE  Modest(c)
BY ContinueQuiet DEF Modest

LEMMA SameIsActive ==
  ASSUME TypeInv, NEW c \in Caller
  PROVE  Same(c) \in WriterState /\ SameActive(c, Same(c))
BY AdmittedFacts DEF SameActive, Same, Handle

(* The steps before the rotation, and those that give up. *)
LEMMA EarlyModest ==
  ASSUME BoundInv, NEW c \in Caller,
         \/ FlushActive(c) \/ CloseWriter(c) \/ RejectClosed(c) \/ EnsureDirectory(c)
         \/ DirectoryFails(c) \/ OpenLockFile(c) \/ TryDirLock(c) \/ TryShardLock(c)
         \/ LockRetry(c) \/ LockTimeout(c) \/ LockFails(c)
  PROVE  Modest(c)
<1>1. /\ pc[c] \in Admitted \ {"retain", "sweep", "restore"}
      /\ SameShards /\ (directory => directory')
  <2>1. /\ pc[c] \in Admitted \ {"retain", "sweep", "restore"}
        /\ SameShards
    BY DEF FlushActive, CloseWriter, RejectClosed, EnsureDirectory, DirectoryFails, OpenLockFile,
           TryDirLock, TryShardLock, LockRetry, LockTimeout, LockFails, SameShards, dirVars,
           Admitted
  <2>2. \/ directory' = directory
        \/ directory' = (directory \/ ~Same(c).directoryReady)
        \/ directory' \in {directory, TRUE}
    BY DEF FlushActive, CloseWriter, RejectClosed, EnsureDirectory, DirectoryFails, OpenLockFile,
           TryDirLock, TryShardLock, LockRetry, LockTimeout, LockFails, dirVars
  <2>3. directory => directory'
    BY <2>2, Zenon
  <2> QED
    BY <2>1, <2>3
<1>2. Same(c) \in WriterState /\ SameActive(c, Same(c))
  BY SameIsActive DEF BoundInv
<1>3. ASSUME NEW ok \in BOOLEAN, Return(c, Same(c), ok) PROVE Modest(c)
  BY <1>1, <1>2, <1>3, ReturnModest
<1>4. ASSUME NEW l \in {"rotate", "dirLock", "discover", "dirWait", "stat", "shardWait", "shardLock"},
             NEW locals, Continue(c, l, Same(c), locals)
      PROVE  Modest(c)
  BY <1>1, <1>2, <1>4, ContinueModest DEF Searching
<1>5. CASE FlushActive(c) \/ RejectClosed(c) \/ DirectoryFails(c) \/ LockTimeout(c) \/ LockFails(c)
  BY <1>3, <1>5 DEF FlushActive, RejectClosed, DirectoryFails, LockTimeout, LockFails
<1>6. CASE CloseWriter(c)
  <2> DEFINE closed == [CloseHandle(Same(c)) EXCEPT !.closed = TRUE]
  <2>1. closed \in WriterState
    BY <1>2, ClosedState, ClosedForGood
  <2>2. SameActive(c, closed)
    BY <1>2 DEF CloseHandle, WriterState, SameActive
  <2>3. Return(c, Same(c), TRUE) \/ Return(c, closed, TRUE)
    BY <1>6 DEF CloseWriter
  <2> HIDE DEF closed
  <2> QED
    BY <1>1, <1>3, <2>1, <2>2, <2>3, ReturnModest
<1>7. CASE EnsureDirectory(c)
  <2> DEFINE ready == [Same(c) EXCEPT !.directoryReady = TRUE]
  <2>1. SameActive(c, ready)
    BY <1>2 DEF WriterState, SameActive
  <2>2. \E l \in {"rotate", "shardLock"} : Continue(c, l, ready, Locals(c))
    BY <1>7 DEF EnsureDirectory
  <2> HIDE DEF ready
  <2> QED
    BY <1>1, <2>1, <2>2, ContinueModest DEF Searching
<1>8. CASE OpenLockFile(c)
  BY <1>3, <1>4, <1>8 DEF OpenLockFile
<1>9. CASE TryDirLock(c) \/ TryShardLock(c) \/ LockRetry(c)
  BY <1>4, <1>9 DEF TryDirLock, TryShardLock, LockRetry
<1> QED
  BY <1>5, <1>6, <1>7, <1>8, <1>9

(* The steps after the rotation, and a probe that finds nothing to open. *)
LEMMA LateModest ==
  ASSUME BoundInv, NEW c \in Caller,
         \/ OpenFails(c) \/ UnlockDirectory(c)
         \/ StatShard(c) \/ StatFails(c) \/ UnlockShard(c)
  PROVE  Modest(c)
<1> DEFINE sized == [Same(c) EXCEPT !.currentSize = file[Handle(c)].size]
           grown == [Same(c) EXCEPT !.currentSize = @ + Line(c)]
<1>1. /\ pc[c] \in Admitted \ {"retain", "sweep", "restore"}
      /\ SameShards /\ directory' = directory
  BY DEF OpenFails, UnlockDirectory, StatShard, StatFails, UnlockShard, SameShards, dirVars,
         Admitted, Rotating, Appending
<1>2. Same(c) \in WriterState /\ SameActive(c, Same(c))
  BY SameIsActive DEF BoundInv
<1>3. pc[c] \in Appending =>
         /\ sized \in WriterState /\ SameActive(c, sized)
         /\ grown \in WriterState /\ SameActive(c, grown)
  <2> SUFFICES ASSUME pc[c] \in Appending
               PROVE  /\ sized \in WriterState /\ SameActive(c, sized)
                      /\ grown \in WriterState /\ SameActive(c, grown)
    OBVIOUS
  <2>1. file[Handle(c)].size \in Nat /\ Same(c).currentSize + Line(c) \in Nat
    BY AppendingFacts
  <2> QED
    BY <1>2, <2>1 DEF WriterState, SameActive
<1> HIDE DEF sized, grown
<1>4. ASSUME NEW state \in {Same(c), sized, grown}, NEW ok \in BOOLEAN, Return(c, state, ok),
             state = Same(c) \/ pc[c] \in Appending
      PROVE  Modest(c)
  BY <1>1, <1>2, <1>3, <1>4, ReturnModest
<1>5. ASSUME NEW state \in {Same(c), sized}, NEW l \in {"dirUnlock", "shardLock", "append", "rotate"},
             NEW locals, Continue(c, l, state, locals), state = Same(c) \/ pc[c] \in Appending
      PROVE  Modest(c)
  BY <1>1, <1>2, <1>3, <1>5, ContinueModest DEF Searching
<1>6. CASE OpenFails(c) \/ UnlockDirectory(c)
  BY <1>4, <1>5, <1>6 DEF OpenFails, RotationFails, UnlockDirectory
<1>7. CASE StatShard(c) \/ StatFails(c)
  BY <1>4, <1>5, <1>7 DEF StatShard, StatFails, sized, Appending
<1>8. CASE UnlockShard(c)
  <2>1. pc[c] \in Appending /\ Locals(c).failed \in BOOLEAN
    BY <1>8, AdmittedFacts DEF UnlockShard, Appending, BoundInv, Progress
  <2>2. PICK state \in {Same(c), grown}, ok \in BOOLEAN : Return(c, state, ok)
    BY <1>8, <2>1 DEF UnlockShard, grown
  <2> QED
    BY <1>4, <2>1, <2>2
<1> QED
  BY <1>6, <1>7, <1>8

(* The shards keep their names and records, or lose their names. *)
ShardsKept ==
    /\ linked' \subseteq linked
    /\ \A i \in linked : /\ Records(i)' = Records(i)
                         /\ file'[i].date = file[i].date /\ file'[i].index = file[i].index

LEMMA SameShardsKept ==
  ASSUME SameShards
  PROVE  ShardsKept
BY DEF SameShards, ShardsKept, Records

(* An append, and a truncation. *)
LEMMA ExtendShard ==
  ASSUME TypeInv, NEW i \in Inode, NEW e, NEW kind, NEW n, Extend(i, e, kind, n)
  PROVE  /\ \A j \in Inode \ {i} : file'[j] = file[j]
         /\ file'[i].date = file[i].date /\ file'[i].index = file[i].index
         /\ file'[i].size = file[i].size + n
         /\ \E x : /\ x.ev = e /\ x.kind = kind
                   /\ x.start = file[i].size /\ x.end = file[i].size + n
                   /\ file'[i].data = file[i].data \cup {x}
<1> DEFINE last == [ev |-> e, kind |-> kind,
                    start |-> file[i].size, end |-> file[i].size + n]
<1>1. /\ last.ev = e /\ last.kind = kind
      /\ last.start = file[i].size /\ last.end = file[i].size + n
  OBVIOUS
<1>2. file' = [file EXCEPT ![i] = Holds(file[i], file[i].size + n, file[i].data \cup {last})]
  BY DEF Extend
<1> HIDE DEF last
<1>3. /\ \A j \in Inode \ {i} : file'[j] = file[j]
      /\ file'[i].date = file[i].date /\ file'[i].index = file[i].index
      /\ file'[i].size = file[i].size + n
      /\ file'[i].data = file[i].data \cup {last}
  BY <1>2 DEF Holds, TypeInv, TypeOK, DirTypeOK
<1> QED
  BY <1>1, <1>3

LEMMA TruncateShard ==
  ASSUME TypeInv, NEW i \in Inode, NEW n, Truncate(i, n)
  PROVE  /\ \A j \in Inode \ {i} : file'[j] = file[j]
         /\ file'[i].date = file[i].date /\ file'[i].index = file[i].index
         /\ file'[i].size = n
         /\ file'[i].data = {x \in file[i].data : x.end <= n}
BY DEF Truncate, Holds, TypeInv, TypeOK, DirTypeOK

(* A step that leaves the records alone, whatever else it does to a shard. *)
LEMMA FailedAppendKept ==
  ASSUME BoundInv, EventInv, NEW c \in Caller, AppendFails(c) \/ RestoreLineBoundary(c)
  PROVE  ShardsKept
<1>1. pc[c] \in {"append", "restore"} /\ pc[c] \in Appending /\ UNCHANGED linked
  BY DEF AppendFails, RestoreLineBoundary, Appending
<1>2. PICK i \in Inode : i = Handle(c)
  BY <1>1, AppendingFacts
<1>3. \A j \in Inode : Records(j)' = Records(j) /\ file'[j].date = file[j].date
  <2>1. CASE AppendFails(c)
    BY <1>1, <2>1, NoRecord DEF AppendFails, Records
  <2>2. CASE RestoreLineBoundary(c)
    BY <2>2, RestoreRecords
  <2> QED
    BY <2>1, <2>2
<1>4. \A j \in Inode : file'[j].index = file[j].index
  <2>1. ASSUME NEW kind, NEW n, Extend(Handle(c), request[c].event, kind, n)
        PROVE  \A j \in Inode : file'[j].index = file[j].index
    BY <1>2, <2>1, ExtendShard DEF BoundInv
  <2>2. CASE Truncate(Handle(c), Same(c).currentSize)
    BY <1>2, <2>2, TruncateShard DEF BoundInv
  <2> QED
    BY <2>1, <2>2 DEF AppendFails, RestoreLineBoundary
<1>5. linked \subseteq Inode
  BY LinkedShard DEF BoundInv, TypeInv
<1> QED
  BY <1>1, <1>3, <1>4, <1>5 DEF ShardsKept

LEMMA CrashKept ==
  ASSUME BoundInv, EventInv, NEW w \in Writer, Crash(w)
  PROVE  ShardsKept
<1>1. linked' = linked /\ linked \subseteq Inode
  BY LinkedShard DEF Crash, BoundInv, TypeInv
<1>2. CASE UNCHANGED file
  BY <1>1, <1>2 DEF ShardsKept, Records
<1>3. ASSUME NEW c \in Caller, pc[c] = "append", NEW n,
             Extend(Handle(c), request[c].event, "fragment", n)
      PROVE  ShardsKept
  <2>1. Handle(c) \in Inode
    BY <1>3, AppendingFacts DEF Appending
  <2>2. \A j \in Inode : /\ Records(j)' = Records(j)
                         /\ file'[j].date = file[j].date /\ file'[j].index = file[j].index
    BY <1>3, <2>1, NoRecord, ExtendShard DEF BoundInv
  <2> QED
    BY <1>1, <2>2 DEF ShardsKept
<1> QED
  BY <1>2, <1>3 DEF Crash

-----------------------------------------------------------------------------
(* A trace never goes back.  The shard that a writer has open is the last  *)
(* of its date that holds a record of one of its callers, and a probe      *)
(* begins no earlier.                                                      *)

Serves(w, i) == \E x \in Records(i) : W(x.ev.caller) = w

LastHandle(w) ==
    writer[w].handle \in linked =>
        \A i \in linked :
            file[i].date = file[writer[w].handle].date /\ Serves(w, i) =>
                file[i].index <= file[writer[w].handle].index

LastProbe(c) ==
    pc[c] = "probe" =>
        \A i \in linked :
            file[i].date = Date(c) /\ Serves(W(c), i) => file[i].index <= progress[c].index

UniqueNames ==
    \A i, j \in linked :
        file[i].date = file[j].date /\ file[i].index = file[j].index => i = j

OrderInv ==
    /\ \A w \in Writer : LastHandle(w)
    /\ \A c \in Caller : LastProbe(c)
    /\ UniqueNames
    /\ AppendOrder

LEMMA OrderKept ==
  ASSUME OrderInv, ShardsKept,
         \A w \in Writer : LastHandle(w)', \A c \in Caller : LastProbe(c)'
  PROVE  OrderInv'
<1>1. UniqueNames'
  BY DEF OrderInv, ShardsKept, UniqueNames
<1>2. AppendOrder'
  <2> SUFFICES ASSUME NEW i \in linked', NEW j \in linked', file'[i].date = file'[j].date,
                      NEW x \in Records(i)', NEW y \in Records(j)',
                      x.ev.caller = y.ev.caller, x.ev.sequence < y.ev.sequence
               PROVE  file'[i].index < file'[j].index \/ (i = j /\ x.end <= y.start)
    BY DEF AppendOrder
  <2> QED
    BY DEF OrderInv, ShardsKept, AppendOrder
<1> QED
  BY <1>1, <1>2 DEF OrderInv

LEMMA UnlinkedNone ==
  ASSUME BoundInv
  PROVE  None \notin linked
<1>1. \A i \in linked : i \in Int
  BY LinkedShard, BoundAssumption DEF Inode, BoundInv, TypeInv
<1> QED
  BY <1>1, NoneAssumption

LEMMA LastHandleKept ==
  ASSUME BoundInv, OrderInv, ShardsKept, NEW w \in Writer,
         writer'[w].handle = None \/ writer'[w].handle = writer[w].handle
  PROVE  LastHandle(w)'
<1>1. linked' \subseteq linked /\ None \notin linked
  BY UnlinkedNone DEF ShardsKept
<1>2. \A i \in linked : Serves(w, i)' <=> Serves(w, i)
  BY DEF Serves, ShardsKept
<1> QED
  BY <1>1, <1>2 DEF OrderInv, LastHandle, ShardsKept

LEMMA LastProbeKept ==
  ASSUME OrderInv, ShardsKept, NEW c \in Caller,
         pc'[c] = "probe" =>
            pc[c] = "probe" /\ progress'[c] = progress[c] /\ request'[c] = request[c]
  PROVE  LastProbe(c)'
BY DEF OrderInv, LastProbe, ShardsKept, Serves, Date

(* A step that does not open a shard or look for one. *)
LEMMA OrderStays ==
  ASSUME BoundInv, OrderInv, ShardsKept,
         \A w \in Writer : writer'[w].handle = None \/ writer'[w].handle = writer[w].handle,
         \A c \in Caller : pc'[c] = "probe" =>
            pc[c] = "probe" /\ progress'[c] = progress[c] /\ request'[c] = request[c]
  PROVE  OrderInv'
BY LastHandleKept, LastProbeKept, OrderKept

(* A step of a call only concerns its own writer. *)
LEMMA OrderOfCall ==
  ASSUME BoundInv, OrderInv, ShardsKept, NEW c \in Caller, Alone(c),
         LastHandle(W(c))', LastProbe(c)'
  PROVE  OrderInv'
<1>1. ASSUME NEW w \in Writer PROVE LastHandle(w)'
  BY LastHandleKept DEF Alone, Only
<1>2. ASSUME NEW d \in Caller PROVE LastProbe(d)'
  BY LastProbeKept DEF Alone, Only
<1> QED
  BY <1>1, <1>2, OrderKept

LEMMA QuietOrder ==
  ASSUME BoundInv, OrderInv, NEW c \in Caller, Quiet(c), pc'[c] # "probe",
         writer'[W(c)].handle = None \/ writer'[W(c)].handle = Handle(c)
  PROVE  OrderInv'
<1>1. ShardsKept /\ Alone(c)
  BY SameShardsKept DEF Quiet
<1>2. LastHandle(W(c))'
  BY <1>1, WriterOfCaller, LastHandleKept DEF Handle
<1>3. LastProbe(c)'
  BY DEF LastProbe
<1> QED
  BY <1>1, <1>2, <1>3, OrderOfCall

LEMMA DiscoverOrder ==
  ASSUME BoundInv, OrderInv, NEW c \in Caller, Discover(c)
  PROVE  OrderInv'
<1> DEFINE state == CloseHandle(Same(c))
<1>1. state.handle = None
  BY AdmittedFacts DEF CloseHandle, BoundInv, WriterState
<1>2. /\ pc[c] \in Admitted \ {"restore"} /\ SameShards /\ (directory => directory')
      /\ Locals(c) \in Progress
  BY AdmittedFacts DEF Discover, Admitted, Rotating, SameShards, BoundInv
<1> HIDE DEF state
<1>3. ASSUME NEW highest \in Highest(Date(c)),
             Continue(c, "probe", state, [Locals(c) EXCEPT !.index = highest])
      PROVE  OrderInv'
  <2>1. /\ Quiet(c) /\ writer'[W(c)] = state
        /\ progress'[c] = [Locals(c) EXCEPT !.index = highest] /\ request' = request
    BY <1>2, <1>3, ContinueQuiet
  <2>2. ShardsKept /\ Alone(c) /\ progress'[c].index = highest /\ Date(c)' = Date(c)
    BY <1>2, <2>1, SameShardsKept DEF Quiet, Progress, Date
  <2>3. \A i \in linked : file[i].date = Date(c) => file[i].index <= highest
    BY DEF Highest, Indices
  <2>4. LastProbe(c)'
    BY <2>2, <2>3 DEF LastProbe, ShardsKept
  <2>5. LastHandle(W(c))'
    BY <1>1, <2>1, <2>2, WriterOfCaller, LastHandleKept
  <2> QED
    BY <2>2, <2>4, <2>5, OrderOfCall
<1>4. ASSUME NEW locals, Continue(c, "dirUnlock", state, locals) PROVE OrderInv'
  <2>1. Quiet(c) /\ writer'[W(c)] = state /\ pc'[c] = "dirUnlock"
    BY <1>2, <1>4, ContinueQuiet
  <2> QED
    BY <1>1, <2>1, QuietOrder
<1> QED
  BY <1>3, <1>4 DEF Discover, RotationFails, state

LEMMA ProbeFullOrder ==
  ASSUME BoundInv, OrderInv, NEW c \in Caller, ProbeFull(c)
  PROVE  OrderInv'
<1> DEFINE locals == [Locals(c) EXCEPT !.index = @ + 1]
<1>1. /\ pc[c] = "probe" /\ pc[c] \in Admitted \ {"restore"} /\ SameShards
      /\ directory' = directory /\ Continue(c, "probe", Same(c), locals)
  BY DEF ProbeFull, Admitted, Rotating, SameShards, dirVars
<1>2. locals.index = progress[c].index + 1 /\ progress[c].index \in Nat
  BY AdmittedFacts DEF Progress, BoundInv, Locals
<1> HIDE DEF locals
<1>3. Quiet(c) /\ writer'[W(c)] = Same(c) /\ progress'[c] = locals /\ request' = request
  BY <1>1, ContinueQuiet
<1>4. ShardsKept /\ Alone(c) /\ Date(c)' = Date(c)
  BY <1>3, SameShardsKept DEF Quiet, Date
<1>5. LastProbe(c)'
  <2>1. \A i \in linked : file[i].index \in Nat
    BY LinkedShard DEF BoundInv, TypeInv
  <2> QED
    BY <1>1, <1>2, <1>3, <1>4, <2>1 DEF OrderInv, LastProbe, ShardsKept, Serves
<1>6. LastHandle(W(c))'
  BY <1>3, <1>4, WriterOfCaller, LastHandleKept DEF Same
<1> QED
  BY <1>4, <1>5, <1>6, OrderOfCall

LEMMA OpenShardOrder ==
  ASSUME BoundInv, OrderInv, NEW c \in Caller, OpenShard(c)
  PROVE  OrderInv'
<1>1. /\ pc[c] = "probe" /\ pc[c] \in Admitted \ {"restore"} /\ SameShards
      /\ directory' = directory
  BY DEF OpenShard, Admitted, Rotating, SameShards, dirVars
<1>2. PICK i \in Named(Date(c), progress[c].index) :
         Continue(c, "retain", Opened(c, i, file[i].size), Locals(c))
  BY DEF OpenShard, Locals
<1>3. Opened(c, i, file[i].size).handle = i
  BY AdmittedFacts DEF Opened, BoundInv, WriterState
<1>4. Quiet(c) /\ writer'[W(c)].handle = i /\ pc'[c] = "retain"
  BY <1>1, <1>2, <1>3, ContinueQuiet
<1>5. ShardsKept /\ Alone(c)
  BY <1>4, SameShardsKept DEF Quiet
<1>6. i \in linked /\ file[i].date = Date(c) /\ file[i].index = progress[c].index
  BY <1>2 DEF Named
<1>7. LastHandle(W(c))'
  BY <1>1, <1>4, <1>5, <1>6 DEF OrderInv, LastProbe, LastHandle, ShardsKept, Serves
<1>8. LastProbe(c)'
  BY <1>4 DEF LastProbe
<1> QED
  BY <1>5, <1>7, <1>8, OrderOfCall

LEMMA RetentionQuiet ==
  ASSUME BoundInv, NEW c \in Caller, ApplyRetention(c) \/ SweepDone(c)
  PROVE  /\ Quiet(c) /\ pc'[c] # "probe"
         /\ writer'[W(c)].handle = None \/ writer'[W(c)].handle = Handle(c)
<1> DEFINE swept == [Same(c) EXCEPT !.retentionAppliedTo = Date(c)]
           closed == CloseHandle(swept)
<1>1. pc[c] \in Admitted \ {"restore"} /\ SameShards /\ directory' = directory
  BY DEF ApplyRetention, SweepDone, Admitted, Rotating, SameShards, dirVars
<1>2. Same(c).handle = Handle(c) /\ swept.handle = Handle(c) /\ closed.handle = None
  BY AdmittedFacts DEF BoundInv, WriterState, CloseHandle, Same, Handle
<1>3. \E state \in {Same(c), swept, closed} : \E l \in {"dirUnlock", "sweep"} : \E locals :
         Continue(c, l, state, locals)
  BY DEF ApplyRetention, SweepDone, RotationFails
<1> HIDE DEF swept, closed
<1> QED
  BY <1>1, <1>2, <1>3, ContinueQuiet

LEMMA SweepOrder ==
  ASSUME BoundInv, OrderInv, NEW c \in Caller, SweepOne(c)
  PROVE  OrderInv'
<1>1. ShardsKept
  BY DEF SweepOne, ShardsKept, Records
<1>2. \E state, locals, l : /\ Continue(c, l, state, locals) /\ l # "probe"
                            /\ state.handle = None \/ state.handle = Handle(c)
  <2>1. CloseHandle(Same(c)).handle = None /\ Same(c).handle = Handle(c)
    BY AdmittedFacts DEF BoundInv, WriterState, CloseHandle, Same, Handle
  <2> QED
    BY <2>1 DEF SweepOne, RotationFails
<1>3. /\ Alone(c) /\ pc'[c] # "probe"
      /\ writer'[W(c)].handle = None \/ writer'[W(c)].handle = Handle(c)
  BY <1>2, ContinueAlone DEF BoundInv
<1>4. LastHandle(W(c))' /\ LastProbe(c)'
  BY <1>1, <1>3, WriterOfCaller, LastHandleKept DEF Handle, LastProbe
<1> QED
  BY <1>1, <1>3, <1>4, OrderOfCall

LEMMA FailedAppendOrder ==
  ASSUME BoundInv, EventInv, OrderInv, NEW c \in Caller, AppendFails(c) \/ RestoreLineBoundary(c)
  PROVE  OrderInv'
<1>1. ShardsKept
  BY FailedAppendKept
<1>2. \E l, locals : Continue(c, l, Same(c), locals) /\ l # "probe"
  BY DEF AppendFails, RestoreLineBoundary
<1>3. Alone(c) /\ pc'[c] # "probe" /\ writer'[W(c)].handle = writer[W(c)].handle
  BY <1>2, ContinueAlone DEF BoundInv, Same
<1>4. LastHandle(W(c))' /\ LastProbe(c)'
  BY <1>1, <1>3, WriterOfCaller, LastHandleKept DEF LastProbe
<1> QED
  BY <1>1, <1>3, <1>4, OrderOfCall

(* The record that is appended comes after all that its trace has. *)
LEMMA AppendRecords ==
  ASSUME BoundInv, NEW c \in Caller, Append(c)
  PROVE  \E i \in Inode : \E x :
           /\ i = Handle(c) /\ x.ev = request[c].event
           /\ x.start = file[i].size /\ x.end = file[i].size + Line(c)
           /\ x.kind = "record" /\ file'[i].data = file[i].data \cup {x}
           /\ file'[i].size = file[i].size + Line(c)
           /\ Records(i)' = Records(i) \cup {x}
           /\ \A j \in Inode \ {i} : file'[j] = file[j] /\ Records(j)' = Records(j)
           /\ \A j \in Inode : file'[j].date = file[j].date /\ file'[j].index = file[j].index
<1>1. pc[c] \in Appending /\ Extend(Handle(c), request[c].event, "record", Line(c))
  BY DEF Append, Appending
<1>2. PICK i \in Inode : i = Handle(c)
  BY <1>1, AppendingFacts
<1>3. PICK x : /\ x.ev = request[c].event /\ x.kind = "record"
               /\ x.start = file[i].size /\ x.end = file[i].size + Line(c)
               /\ file'[i].data = file[i].data \cup {x}
  BY <1>1, <1>2, ExtendShard DEF BoundInv
<1>4. /\ \A j \in Inode \ {i} : file'[j] = file[j]
      /\ file'[i].date = file[i].date /\ file'[i].index = file[i].index
      /\ file'[i].size = file[i].size + Line(c)
  BY <1>1, <1>2, ExtendShard DEF BoundInv
<1>5. Records(i)' = Records(i) \cup {x} /\ \A j \in Inode \ {i} : Records(j)' = Records(j)
  BY <1>3, <1>4 DEF Records
<1> QED
  BY <1>2, <1>3, <1>4, <1>5

LEMMA AppendOrderStep ==
  ASSUME BoundInv, EventInv, OrderInv, NEW c \in Caller, Append(c)
  PROVE  OrderInv'
<1>1. /\ pc[c] \in Appending /\ pc[c] \in Admitted /\ UNCHANGED linked
      /\ Continue(c, "unlock", Same(c), Locals(c))
  BY DEF Append, Appending, Admitted
<1>2. /\ Alone(c) /\ pc'[c] = "unlock" /\ writer'[W(c)].handle = Handle(c)
      /\ writer'[W(c)] = writer[W(c)]
  BY <1>1, ContinueAlone DEF BoundInv, Same, Handle
<1>3. PICK i, x :
        /\ i \in Inode
        /\ i = Handle(c) /\ x.ev = request[c].event /\ x.start = file[i].size
        /\ Records(i)' = Records(i) \cup {x}
        /\ \A j \in Inode \ {i} : Records(j)' = Records(j)
        /\ \A j \in Inode : file'[j].date = file[j].date /\ file'[j].index = file[j].index
  BY AppendRecords
<1>4. linked \subseteq Inode /\ None \notin linked /\ \A j \in linked : file[j].index \in Nat
  BY LinkedShard, UnlinkedNone DEF BoundInv, TypeInv
<1>5. InFlight(c) /\ x.ev.caller = c /\ x.ev.sequence = sequence[c]
  <2>1. InFlight(c)
    BY <1>1, HandleFacts, WriteFacts DEF BoundInv, InFlight
  <2> QED
    BY <1>3, <2>1 DEF EventInv, CallInvariant, CallEvent
<1>6. \A w \in Writer, j \in linked : Serves(w, j)' => Serves(w, j) \/ (j = i /\ w = W(c))
  <2> SUFFICES ASSUME NEW w \in Writer, NEW j \in linked, NEW y \in Records(j)',
                      W(y.ev.caller) = w, ~(j = i /\ w = W(c))
               PROVE  y \in Records(j)
    BY DEF Serves, W
  <2> QED
    BY <1>3, <1>4, <1>5
<1>7. ASSUME NEW w \in Writer PROVE LastHandle(w)'
  <2>1. writer'[w].handle = writer[w].handle
    BY <1>2 DEF Alone, Only, Handle
  <2>2. LastHandle(w)
    BY DEF OrderInv
  <2>3. w = W(c) => writer[w].handle = i
    BY <1>3 DEF Handle
  <2> QED
    BY <1>1, <1>3, <1>4, <1>6, <2>1, <2>2, <2>3 DEF LastHandle
<1>8. ASSUME NEW d \in Caller PROVE LastProbe(d)'
  <2> SUFFICES ASSUME pc'[d] = "probe"
               PROVE  LastProbe(d)'
    BY DEF LastProbe
  <2>1. /\ d # c /\ pc[d] = "probe" /\ progress'[d] = progress[d] /\ request'[d] = request[d]
    BY <1>2 DEF Alone, Only
  <2>2. W(d) # W(c) /\ W(d) \in Writer
    BY <1>1, <2>1, GateExclusion, WriterOfCaller DEF BoundInv, TypeInv, Admitted, Rotating
  <2>3. \A j \in linked : Serves(W(d), j)' => Serves(W(d), j)
    BY <1>6, <2>2
  <2>4. LastProbe(d)
    BY DEF OrderInv
  <2> QED
    BY <1>1, <1>3, <1>4, <2>1, <2>3, <2>4 DEF LastProbe, Date, Serves, W
<1>9. UniqueNames'
  BY <1>1, <1>3, <1>4 DEF OrderInv, UniqueNames
<1>10. ASSUME NEW j \in linked, NEW k \in linked, file[j].date = file[k].date,
              NEW y \in Records(j)', NEW z \in Records(k)',
              y.ev.caller = z.ev.caller, y.ev.sequence < z.ev.sequence
       PROVE  file[j].index < file[k].index \/ (j = k /\ y.end <= z.start)
  <2>1. CASE y \in Records(j) /\ z \in Records(k)
    BY <1>10, <2>1 DEF OrderInv, AppendOrder
  <2>2. CASE y \in Records(j) /\ z \notin Records(k)
    <3>1. k = i /\ z = x
      BY <1>3, <1>4, <2>2
    <3>2. Serves(W(c), j)
      BY <1>5, <1>10, <2>2, <3>1 DEF Serves
    <3>3. file[j].index <= file[k].index
      BY <1>3, <1>10, <3>1, <3>2, WriterOfCaller DEF OrderInv, LastHandle, Handle
    <3>4. j = k => y.end <= z.start
      <4>1. y \in file[j].data /\ file[j].size \in Nat /\ j \in Inode
        BY <1>4, <2>2, LinkedShard DEF Records, BoundInv, TypeInv
      <4>2. y.end \in 1 .. file[j].size
        BY <4>1 DEF BoundInv, ExtentsWithin
      <4> QED
        BY <1>3, <3>1, <4>1, <4>2
    <3>5. file[j].index = file[k].index => j = k
      BY <1>10 DEF OrderInv, UniqueNames
    <3> QED
      BY <1>4, <3>3, <3>4, <3>5
  <2>3. CASE y \notin Records(j)
    <3>1. y = x
      BY <1>3, <1>4, <2>3
    <3>2. z # x
      BY <1>10, <3>1, <1>5 DEF BoundInv, TypeInv, TypeOK
    <3>3. z \in Records(k)
      BY <1>3, <1>4, <3>2
    <3>4. Known(z.ev)
      BY <1>4, <3>3 DEF EventInv, ShardRecords, Recordable
    <3>5. z.ev.sequence <= sequence[c] /\ sequence[c] < z.ev.sequence
      BY <1>5, <1>10, <3>1, <3>4 DEF Known
    <3>6. sequence[c] \in Nat /\ z.ev.sequence \in Nat
      BY <1>4, <3>3, EnvironmentAssumption
      DEF BoundInv, TypeInv, TypeOK, DirTypeOK, Records, Shard, Extent, Event
    <3> QED
      BY <3>5, <3>6
  <2> QED
    BY <2>1, <2>2, <2>3
<1>11. AppendOrder'
  BY <1>1, <1>3, <1>4, <1>10 DEF AppendOrder
<1> QED
  BY <1>7, <1>8, <1>9, <1>11 DEF OrderInv

(* A new shard has a name of its own and no record yet. *)
LEMMA CreateOrder ==
  ASSUME BoundInv, EventInv, OrderInv, NEW c \in Caller, CreateShard(c)
  PROVE  OrderInv'
<1> DEFINE opened == Opened(c, fresh, 0)
<1>1. /\ pc[c] = "probe" /\ fresh \in Inode /\ linked' = linked \cup {fresh}
      /\ Named(Date(c), progress[c].index) = {}
      /\ \E l, state, locals : /\ Continue(c, l, state, locals) /\ l # "probe"
                               /\ state = opened \/ state = Same(c)
  BY DEF CreateShard, Create, RotationFails, Locals
<1>2. opened.handle = fresh
  BY AdmittedFacts DEF Opened, BoundInv, WriterState
<1> HIDE DEF opened
<1>3. /\ Alone(c) /\ pc'[c] # "probe" /\ request' = request
      /\ writer'[W(c)].handle = fresh \/ writer'[W(c)].handle = Handle(c)
  BY <1>1, <1>2, ContinueAlone DEF BoundInv, Same, Handle
<1>4. /\ file'[fresh].date = Date(c) /\ file'[fresh].index = progress[c].index
      /\ \A i \in Inode \ {fresh} : file'[i] = file[i]
  BY <1>1 DEF CreateShard, Create, EmptyShard, BoundInv, TypeInv, TypeOK, DirTypeOK, Locals
<1>5. linked \subseteq Inode \ {fresh} /\ None \notin linked
  BY <1>1, LinkedShard, UnlinkedNone, BoundAssumption
  DEF BoundInv, TypeInv, TypeOK, DirTypeOK, Inode
<1>6. PICK new \in Inode : new = fresh
  BY <1>1
<1>7. Records(new)' = {} /\ \A i \in linked : Records(i)' = Records(i)
  BY <1>6, <1>5, CreateRecords
<1>8. \A w : ~Serves(w, new)' /\ \A i \in linked : Serves(w, i)' <=> Serves(w, i)
  BY <1>7 DEF Serves, W
<1>9. ASSUME NEW w \in Writer PROVE LastHandle(w)'
  <2>1. LastHandle(w)
    BY DEF OrderInv
  <2>2. CASE writer'[w].handle = writer[w].handle
    <3>1. writer[w].handle # fresh
      BY <1>1, NoneAssumption, BoundAssumption
      DEF BoundInv, HandleBound, TypeInv, TypeOK, DirTypeOK, WriterState, Inode
    <3> QED
      BY <1>1, <1>6, <1>4, <1>5, <1>8, <2>1, <2>2, <3>1 DEF LastHandle
  <2>3. CASE writer'[w].handle # writer[w].handle
    <3>1. w = W(c) /\ writer'[w].handle = fresh
      BY <1>3, <2>3 DEF Alone, Only, Handle
    <3>2. LastProbe(c)
      BY DEF OrderInv
    <3>3. \A i \in linked : file[i].date = Date(c) /\ Serves(w, i)
                              => file[i].index <= progress[c].index
      BY <1>1, <3>1, <3>2 DEF LastProbe
    <3> QED
      BY <1>1, <1>6, <1>4, <1>5, <1>8, <3>1, <3>3 DEF LastHandle
  <2> QED
    BY <2>2, <2>3
<1>10. ASSUME NEW d \in Caller PROVE LastProbe(d)'
  <2> SUFFICES ASSUME pc'[d] = "probe"
               PROVE  LastProbe(d)'
    BY DEF LastProbe
  <2>1. d # c /\ pc[d] = "probe" /\ progress'[d] = progress[d] /\ request'[d] = request[d]
    BY <1>3 DEF Alone, Only
  <2>2. LastProbe(d)
    BY DEF OrderInv
  <2> QED
    BY <1>1, <1>6, <1>4, <1>5, <1>8, <2>1, <2>2 DEF LastProbe, Date
<1>11. UniqueNames'
  BY <1>1, <1>4, <1>5 DEF OrderInv, UniqueNames, Named
<1>12. AppendOrder'
  <2> SUFFICES ASSUME NEW i \in linked', NEW j \in linked', file'[i].date = file'[j].date,
                      NEW x \in Records(i)', NEW y \in Records(j)',
                      x.ev.caller = y.ev.caller, x.ev.sequence < y.ev.sequence
               PROVE  file'[i].index < file'[j].index \/ (i = j /\ x.end <= y.start)
    BY DEF AppendOrder
  <2>1. i \in linked /\ j \in linked /\ x \in Records(i) /\ y \in Records(j)
    BY <1>6, <1>1, <1>7
  <2> QED
    BY <1>4, <1>5, <2>1 DEF OrderInv, AppendOrder
<1> QED
  BY <1>9, <1>10, <1>11, <1>12 DEF OrderInv

(* Calls outside of the gate, crashes and the environment. *)
LEMMA OutsideOrder ==
  ASSUME BoundInv, EventInv, OrderInv,
         \/ \E c \in Caller : \/ \E n \in RecordSizes : Submit(c, n)
                              \/ CallFlush(c) \/ CallClose(c) \/ AcquireGate(c) \/ AbandonGate(c)
         \/ \E w \in Writer : Crash(w)
         \/ Midnight \/ RemoveDirectory \/ UNCHANGED vars
  PROVE  OrderInv'
<1>1. ASSUME NEW c \in Caller,
             \/ \E n \in RecordSizes : Submit(c, n)
             \/ CallFlush(c) \/ CallClose(c) \/ AcquireGate(c) \/ AbandonGate(c)
      PROVE  OrderInv'
  <2>1. /\ SameShards /\ UNCHANGED <<writer, progress>>
        /\ pc'[c] # "probe"
        /\ \A d \in Caller \ {c} : pc'[d] = pc[d] /\ request'[d] = request[d]
    BY <1>1 DEF Submit, CallFlush, CallClose, Call, AcquireGate, AbandonGate, Goto, SameShards,
                dirVars, BoundInv, TypeInv, TypeOK
  <2> QED
    BY <2>1, SameShardsKept, OrderStays
<1>2. ASSUME NEW w \in Writer, Crash(w) PROVE OrderInv'
  <2>1. /\ \A v \in Writer : writer'[v].handle = None \/ writer'[v].handle = writer[v].handle
        /\ \A d \in Caller : pc'[d] = "probe" =>
              pc[d] = "probe" /\ progress'[d] = progress[d] /\ request'[d] = request[d]
    BY <1>2 DEF Crash, NewWriter, BoundInv, TypeInv, TypeOK
  <2> QED
    BY <1>2, <2>1, CrashKept, OrderStays
<1>3. CASE Midnight \/ RemoveDirectory \/ UNCHANGED vars
  <2>1. ShardsKept /\ UNCHANGED <<writer, pc, progress, request>>
    BY <1>3 DEF Midnight, RemoveDirectory, vars, dirVars, callVars, ShardsKept, Records
  <2> QED
    BY <2>1, OrderStays
<1> QED
  BY <1>1, <1>2, <1>3

LEMMA InitOrder == Init => OrderInv
BY NoneAssumption DEF Init, DirInit, NewWriter, OrderInv, LastHandle, LastProbe, UniqueNames,
                      AppendOrder

LEMMA NextOrder == BoundInv /\ EventInv /\ OrderInv /\ [Next]_vars => OrderInv'
<1> SUFFICES ASSUME BoundInv, EventInv, OrderInv, [Next]_vars PROVE OrderInv'
  OBVIOUS
<1>1. ASSUME NEW c \in Caller, Modest(c) PROVE OrderInv'
  BY <1>1, QuietOrder DEF Modest, SameActive, Searching
<1>2. ASSUME NEW c \in Caller, CallerStep(c) \/ LockTimeout(c) PROVE OrderInv'
  <2>1. CASE \/ FlushActive(c) \/ CloseWriter(c) \/ RejectClosed(c) \/ EnsureDirectory(c)
             \/ DirectoryFails(c) \/ OpenLockFile(c) \/ TryDirLock(c) \/ TryShardLock(c)
             \/ LockRetry(c) \/ LockTimeout(c) \/ LockFails(c)
    BY <1>1, <2>1, EarlyModest
  <2>2. CASE \/ OpenFails(c) \/ UnlockDirectory(c)
             \/ StatShard(c) \/ StatFails(c) \/ UnlockShard(c)
    BY <1>1, <2>2, LateModest
  <2>3. CASE Discover(c) \/ ProbeFull(c) \/ OpenShard(c) \/ CreateShard(c)
    BY <2>3, DiscoverOrder, ProbeFullOrder, OpenShardOrder, CreateOrder
  <2>4. CASE ApplyRetention(c) \/ SweepDone(c) \/ SweepOne(c)
    BY <2>4, RetentionQuiet, QuietOrder, SweepOrder
  <2>5. CASE Append(c) \/ AppendFails(c) \/ RestoreLineBoundary(c)
    BY <2>5, AppendOrderStep, FailedAppendOrder
  <2> QED
    BY <1>2, <2>1, <2>2, <2>3, <2>4, <2>5 DEF CallerStep
<1> QED
  BY <1>2, OutsideOrder DEF Next

(* Read shard by shard in the order of their indices, the lines that one   *)
(* trace recorded on one date come in the order of its numbers, through    *)
(* rotations, crashes and restarts, repairs, and other processes that      *)
(* rotate the same shards.                                                 *)
THEOREM TracesKeepTheirOrder == Spec => []AppendOrder
<1>1. OrderInv => AppendOrder
  BY DEF OrderInv
<1> QED
  BY <1>1, InitOrder, NextOrder, EventInvariant, PTL DEF Spec

-----------------------------------------------------------------------------
(* Retention leaves nothing that had expired.  A writer remembers the date *)
(* it swept for; what is older is gone since then, or about to go.  No     *)
(* other writer brings it back: a new shard is for an event that was       *)
(* submitted at most a day ago.                                            *)

(* The listing and the removals of a sweep succeed. *)
SweepsSucceed == "remove" \notin Faults /\ "readdir" \notin Faults

RecentDates == \A c \in Caller : InFlight(c) => Date(c) \in {today - 1, today}

DirectoryInv == ~directory => linked = {}

Name(i) == <<file[i].date, file[i].index>>

Swept(w) ==
    RetentionDays > 0 /\ writer[w].retentionAppliedTo # None =>
        /\ writer[w].retentionAppliedTo <= today
        /\ \A i \in linked :
              \/ file[i].date >= writer[w].retentionAppliedTo - RetentionDays
              \/ \E c \in Caller : W(c) = w /\ pc[c] = "sweep" /\ Name(i) \in progress[c].stale

(* The active shard was opened for the date that was swept for, unless its *)
(* sweep is still to come.                                                 *)
SweptForActive(w) ==
    RetentionDays > 0 /\ writer[w].handle # None =>
        \/ writer[w].retentionAppliedTo = writer[w].currentDate
        \/ \E c \in Caller : W(c) = w /\ pc[c] = "retain"

SweepInv ==
    /\ RecentDates
    /\ DirectoryInv
    /\ \A w \in Writer : Swept(w) /\ SweptForActive(w)

LEMMA SweptKept ==
  ASSUME SweepInv, ShardsKept, NEW w \in Writer,
         writer'[w].retentionAppliedTo = writer[w].retentionAppliedTo, today' = today,
         \A c \in Caller : W(c) = w /\ pc[c] = "sweep" =>
            pc'[c] = "sweep" /\ progress'[c] = progress[c]
  PROVE  Swept(w)'
<1>1. Swept(w)
  BY DEF SweepInv
<1>2. \A i \in linked' : i \in linked /\ Name(i)' = Name(i) /\ file'[i].date = file[i].date
  BY DEF ShardsKept, Name
<1> QED
  BY <1>1, <1>2 DEF Swept, W

LEMMA SweptForActiveKept ==
  ASSUME SweepInv, NEW w \in Writer,
         \/ writer'[w].handle = None
         \/ /\ writer'[w].handle = writer[w].handle
            /\ writer'[w].currentDate = writer[w].currentDate
            /\ writer'[w].retentionAppliedTo = writer[w].retentionAppliedTo,
         \A c \in Caller : W(c) = w /\ pc[c] = "retain" => pc'[c] = "retain"
  PROVE  SweptForActive(w)'
BY DEF SweepInv, SweptForActive, W

LEMMA RecentKept ==
  ASSUME RecentDates, NEW c \in Caller, Alone(c)
  PROVE  RecentDates'
BY DEF RecentDates, Alone, Only, InFlight, Date

(* A step of a call only concerns its own writer. *)
LEMMA SweepOfCall ==
  ASSUME SweepInv, ShardsKept, NEW c \in Caller, Alone(c), directory => directory',
         Swept(W(c))', SweptForActive(W(c))'
  PROVE  SweepInv'
<1>1. ASSUME NEW w \in Writer, w # W(c) PROVE Swept(w)' /\ SweptForActive(w)'
  <2>1. writer'[w] = writer[w] /\ today' = today
    BY <1>1 DEF Alone, Only
  <2>2. \A d \in Caller : W(d) = w => pc'[d] = pc[d] /\ progress'[d] = progress[d]
    BY <1>1 DEF Alone, Only
  <2> QED
    BY <2>1, <2>2, SweptKept, SweptForActiveKept
<1>2. DirectoryInv'
  BY DEF SweepInv, DirectoryInv, ShardsKept
<1> QED
  BY <1>1, <1>2, RecentKept DEF SweepInv

(* A step that neither opens a shard nor sweeps. *)
LEMMA SteadySweep ==
  ASSUME BoundInv, SweepInv, ShardsKept, NEW c \in Caller, Alone(c), directory => directory',
         pc[c] \in Admitted \ {"retain", "sweep"}, SameActive(c, writer'[W(c)])
  PROVE  SweepInv'
<1>1. \A d \in Caller : W(d) = W(c) /\ pc[d] \in {"retain", "sweep"} => d # c
  OBVIOUS
<1>2. \A d \in Caller : d # c => pc'[d] = pc[d] /\ progress'[d] = progress[d]
  BY DEF Alone, Only
<1>3. today' = today
  BY DEF Alone
<1>4. Swept(W(c))'
  BY <1>1, <1>2, <1>3, WriterOfCaller, SweptKept DEF SameActive, Same
<1>5. SweptForActive(W(c))'
  BY <1>1, <1>2, WriterOfCaller, SweptForActiveKept DEF SameActive, Same, Handle
<1> QED
  BY <1>4, <1>5, SweepOfCall

LEMMA DiscoverSweep ==
  ASSUME BoundInv, SweepInv, NEW c \in Caller, Discover(c) \/ ProbeFull(c)
  PROVE  SweepInv'
<1>1. pc[c] \in Admitted \ {"retain", "sweep", "restore"} /\ SameShards /\ directory' = directory
  BY DEF Discover, ProbeFull, Admitted, Rotating, SameShards, dirVars
<1>2. SameActive(c, Same(c)) /\ SameActive(c, CloseHandle(Same(c)))
  BY SameIsActive DEF BoundInv, CloseHandle, WriterState, SameActive
<1>3. \E state \in {Same(c), CloseHandle(Same(c))} : \E l \in {"probe", "dirUnlock"} :
         \E locals : Continue(c, l, state, locals)
  BY DEF Discover, ProbeFull, RotationFails
<1>4. Quiet(c) /\ SameActive(c, writer'[W(c)])
  BY <1>1, <1>2, <1>3, ContinueQuiet
<1> QED
  BY <1>1, <1>4, SameShardsKept, SteadySweep DEF Quiet

LEMMA AppendSweep ==
  ASSUME BoundInv, EventInv, SweepInv, NEW c \in Caller,
         Append(c) \/ AppendFails(c) \/ RestoreLineBoundary(c)
  PROVE  SweepInv'
<1>1. pc[c] \in Admitted \ {"retain", "sweep"} /\ directory' = directory
  BY DEF Append, AppendFails, RestoreLineBoundary, Admitted, Appending
<1>2. \E l, locals : Continue(c, l, Same(c), locals)
  BY DEF Append, AppendFails, RestoreLineBoundary
<1>3. Alone(c) /\ writer'[W(c)] = Same(c)
  BY <1>2, ContinueAlone DEF BoundInv
<1>4. \A w \in Writer : writer'[w] = writer[w]
  BY <1>3 DEF Alone, Only, Same
<1>5. \A d \in Caller : pc[d] \in {"retain", "sweep"} => pc'[d] = pc[d] /\ progress'[d] = progress[d]
  BY <1>1, <1>3 DEF Alone, Only
<1>6. CASE AppendFails(c) \/ RestoreLineBoundary(c)
  <2>1. SameActive(c, writer'[W(c)])
    BY <1>3, SameIsActive DEF BoundInv
  <2> QED
    BY <1>1, <1>3, <1>6, <2>1, FailedAppendKept, SteadySweep
<1>7. CASE Append(c)
  <2>1. linked' = linked /\ today' = today
    BY <1>3, <1>7 DEF Append, Alone
  <2>2. \A j \in Inode : file'[j].date = file[j].date /\ file'[j].index = file[j].index
    BY <1>7, AppendRecords
  <2>3. \A i \in linked : file'[i].date = file[i].date /\ Name(i)' = Name(i)
    BY <2>2, LinkedShard DEF Name, BoundInv, TypeInv
  <2>4. ASSUME NEW w \in Writer PROVE Swept(w)' /\ SweptForActive(w)'
    <3>1. Swept(w)
      BY DEF SweepInv
    <3>2. Swept(w)'
      BY <1>4, <1>5, <2>1, <2>3, <3>1 DEF Swept, W
    <3> QED
      BY <1>4, <1>5, <3>2, SweptForActiveKept
  <2> QED
    BY <1>1, <1>3, <2>1, <2>4, RecentKept DEF SweepInv, DirectoryInv
<1> QED
  BY <1>6, <1>7

LEMMA OpenShardSweep ==
  ASSUME BoundInv, SweepInv, NEW c \in Caller, OpenShard(c)
  PROVE  SweepInv'
<1>1. pc[c] = "probe" /\ pc[c] \in Admitted \ {"restore"} /\ SameShards /\ directory' = directory
  BY DEF OpenShard, Admitted, Rotating, SameShards, dirVars
<1>2. PICK i : Continue(c, "retain", Opened(c, i, file[i].size), Locals(c))
  BY DEF OpenShard
<1>3. Opened(c, i, file[i].size).retentionAppliedTo = Same(c).retentionAppliedTo
  BY AdmittedFacts DEF Opened, BoundInv, WriterState
<1>4. /\ Quiet(c) /\ pc'[c] = "retain"
      /\ writer'[W(c)].retentionAppliedTo = writer[W(c)].retentionAppliedTo
  BY <1>1, <1>2, <1>3, ContinueQuiet DEF Same
<1>5. ShardsKept /\ Alone(c) /\ today' = today
  BY <1>4, SameShardsKept DEF Quiet, Alone
<1>6. \A d \in Caller : pc[d] = "sweep" => pc'[d] = pc[d] /\ progress'[d] = progress[d]
  BY <1>1, <1>5 DEF Alone, Only
<1>7. Swept(W(c))'
  BY <1>4, <1>5, <1>6, WriterOfCaller, SweptKept
<1>8. SweptForActive(W(c))'
  BY <1>4 DEF SweptForActive, W
<1> QED
  BY <1>1, <1>5, <1>7, <1>8, SweepOfCall

(* The sweep that is due begins with every name that has expired.          *)
LEMMA RetentionSweep ==
  ASSUME BoundInv, EventInv, SweepInv, SweepsSucceed, NEW c \in Caller, ApplyRetention(c)
  PROVE  SweepInv'
<1> DEFINE swept == [Same(c) EXCEPT !.retentionAppliedTo = Date(c)]
           closed == CloseHandle(swept)
           old == {name \in Names : Expirable(name[1])}
           begun == [Locals(c) EXCEPT !.stale = old]
<1>1. /\ pc[c] = "retain" /\ pc[c] \in Writing /\ pc[c] \in Admitted \ {"restore"}
      /\ SameShards /\ directory' = directory
  BY DEF ApplyRetention, Admitted, Writing, Rotating, SameShards, dirVars
<1>2. /\ swept.handle = Handle(c) /\ swept.currentDate = Same(c).currentDate
      /\ swept.retentionAppliedTo = Date(c)
      /\ closed.handle = None /\ closed.retentionAppliedTo = Date(c) /\ begun.stale = old
      /\ \A i \in linked : Expirable(file[i].date) => Name(i) \in old
  BY AdmittedFacts DEF BoundInv, WriterState, CloseHandle, Same, Handle, Progress, Names, Name
<1>3. Same(c).currentDate = Date(c)
  BY <1>1 DEF EventInv, CallInvariant, CallDate, KeepsHandle, Holding
<1>4. /\ Date(c) \in Day /\ Date(c) # None /\ today \in Day /\ Date(c) \in {today - 1, today}
      /\ RetentionDays \in Nat /\ Day \subseteq Int
  BY <1>1, WriteFacts, EnvironmentAssumption, NoneAssumption, BoundAssumption
  DEF BoundInv, TypeInv, TypeOK, SweepInv, RecentDates, InFlight, Day
<1> HIDE DEF swept, closed, begun, old
<1>5. CASE ~SweepIsDue(Same(c), Date(c)) /\ Continue(c, "dirUnlock", Same(c), Locals(c))
  <2>1. Quiet(c) /\ pc'[c] = "dirUnlock" /\ writer'[W(c)] = Same(c)
    BY <1>1, <1>5, ContinueQuiet
  <2>2. ShardsKept /\ Alone(c) /\ today' = today
    BY <2>1, SameShardsKept DEF Quiet, Alone
  <2>3. \A d \in Caller : pc[d] = "sweep" => pc'[d] = "sweep" /\ progress'[d] = progress[d]
    BY <1>1, <2>2 DEF Alone, Only
  <2>4. Swept(W(c))'
    BY <2>1, <2>2, <2>3, WriterOfCaller, SweptKept DEF Same
  <2>5. SweptForActive(W(c))'
    BY <1>3, <1>5, <2>1 DEF SweptForActive, SweepIsDue, W
  <2> QED
    BY <1>1, <2>2, <2>4, <2>5, SweepOfCall
<1>6. CASE SweepIsDue(Same(c), Date(c)) /\ Continue(c, "sweep", swept, begun)
  <2>1. Quiet(c) /\ pc'[c] = "sweep" /\ writer'[W(c)] = swept /\ progress'[c] = begun
    BY <1>1, <1>6, ContinueQuiet
  <2>2. ShardsKept /\ Alone(c) /\ today' = today
    BY <2>1, SameShardsKept DEF Quiet, Alone
  <2>3. ASSUME NEW i \in linked'
        PROVE  \/ file'[i].date >= Date(c) - RetentionDays
               \/ Name(i)' \in begun.stale
    <3>1. i \in linked /\ file'[i] = file[i]
      BY <2>1, <2>3 DEF Quiet, SameShards
    <3>2. file[i].date \in Int
      BY <1>4, <3>1, LinkedShard DEF BoundInv, TypeInv
    <3>3. CASE Expirable(file[i].date)
      BY <1>2, <3>1, <3>3 DEF Name
    <3>4. CASE ~Expirable(file[i].date)
      BY <1>4, <3>1, <3>2, <3>4 DEF Expirable
    <3> QED
      BY <3>3, <3>4
  <2>4. Swept(W(c))'
    BY <1>2, <1>4, <2>1, <2>2, <2>3 DEF Swept, W
  <2>5. SweptForActive(W(c))'
    BY <1>2, <1>3, <2>1 DEF SweptForActive, W
  <2> QED
    BY <1>1, <2>2, <2>4, <2>5, SweepOfCall
<1>7. CASE ~directory /\ RotationFails(c, closed)
  <2>1. /\ Quiet(c) /\ writer'[W(c)] = closed
    BY <1>1, <1>7, ContinueQuiet DEF RotationFails
  <2>2. ShardsKept /\ Alone(c) /\ today' = today
    BY <2>1, SameShardsKept DEF Quiet, Alone
  <2>3. linked' = {}
    BY <1>7, <2>2 DEF SweepInv, DirectoryInv, ShardsKept
  <2>4. Swept(W(c))' /\ SweptForActive(W(c))'
    BY <1>2, <1>4, <2>1, <2>2, <2>3 DEF Swept, SweptForActive, W
  <2> QED
    BY <1>1, <2>2, <2>4, SweepOfCall
<1> QED
  BY <1>5, <1>6, <1>7 DEF ApplyRetention, FailsIf, Fails, SweepsSucceed, swept, closed, begun, old

LEMMA SweepOneSweep ==
  ASSUME BoundInv, EventInv, SweepInv, SweepsSucceed, NEW c \in Caller, SweepOne(c)
  PROVE  SweepInv'
<1>1. /\ pc[c] = "sweep" /\ pc[c] \in Admitted /\ directory' = directory /\ UNCHANGED file
  BY DEF SweepOne, Admitted, Rotating
<1>2. PICK name \in Locals(c).stale :
        /\ linked' = linked \ Named(name[1], name[2])
        /\ Continue(c, "sweep", Same(c), [Locals(c) EXCEPT !.stale = @ \ {name}])
  BY DEF SweepOne, Fails, SweepsSucceed
<1>3. /\ Alone(c) /\ pc'[c] = "sweep" /\ writer'[W(c)] = writer[W(c)] /\ today' = today
      /\ progress'[c].stale = progress[c].stale \ {name}
  BY <1>2, ContinueAlone, AdmittedFacts DEF BoundInv, Same, Locals, Alone, Progress
<1>4. ShardsKept /\ \A i \in linked' : i \in linked /\ Name(i)' = Name(i) /\ Name(i) # name
  BY <1>1, <1>2 DEF ShardsKept, Records, Named, Name
<1>5. Swept(W(c))
  BY WriterOfCaller DEF SweepInv
<1>6. \A d \in Caller : W(d) = W(c) /\ pc[d] = "sweep" => d = c
  BY <1>1, GateExclusion DEF BoundInv, TypeInv, Admitted, Rotating
<1>7. Swept(W(c))'
  BY <1>1, <1>3, <1>4, <1>5, <1>6 DEF Swept, W
<1>8. \A d \in Caller : pc[d] = "retain" => pc'[d] = "retain"
  BY <1>1, <1>3 DEF Alone, Only
<1>9. SweptForActive(W(c))'
  BY <1>3, <1>8, WriterOfCaller, SweptForActiveKept
<1> QED
  BY <1>1, <1>3, <1>4, <1>7, <1>9, SweepOfCall

LEMMA SweepDoneSweep ==
  ASSUME BoundInv, SweepInv, NEW c \in Caller, SweepDone(c)
  PROVE  SweepInv'
<1>1. /\ pc[c] = "sweep" /\ progress[c].stale = {} /\ pc[c] \in Admitted \ {"restore"}
      /\ SameShards /\ directory' = directory
      /\ Continue(c, "dirUnlock", Same(c), Locals(c))
  BY DEF SweepDone, Locals, Admitted, Rotating, SameShards, dirVars
<1>2. Quiet(c) /\ pc'[c] = "dirUnlock" /\ writer'[W(c)] = writer[W(c)]
  BY <1>1, ContinueQuiet DEF Same
<1>3. ShardsKept /\ Alone(c) /\ today' = today
  BY <1>2, SameShardsKept DEF Quiet, Alone
<1>4. \A i \in linked' : i \in linked /\ file'[i] = file[i]
  BY <1>2 DEF Quiet, SameShards
<1>5. \A d \in Caller : d # c => pc'[d] = pc[d] /\ progress'[d] = progress[d]
  BY <1>3 DEF Alone, Only
<1>6. Swept(W(c))'
  BY <1>1, <1>2, <1>3, <1>4, <1>5, WriterOfCaller DEF SweepInv, Swept, Name, W
<1>7. SweptForActive(W(c))'
  BY <1>1, <1>2, <1>5, WriterOfCaller, SweptForActiveKept
<1> QED
  BY <1>1, <1>3, <1>6, <1>7, SweepOfCall

(* A shard is created for an event that is at most a day old, and one day  *)
(* is the least that is kept.                                              *)
LEMMA CreateSweep ==
  ASSUME BoundInv, EventInv, SweepInv, NEW c \in Caller, CreateShard(c)
  PROVE  SweepInv'
<1> DEFINE opened == Opened(c, fresh, 0)
<1>1. /\ pc[c] = "probe" /\ pc[c] \in Writing /\ fresh \in Inode
      /\ linked' = linked \cup {fresh} /\ directory /\ directory' = directory
      /\ \E l, state, locals :
            /\ Continue(c, l, state, locals)
            /\ \/ state = opened /\ l = "retain"
               \/ state = Same(c) /\ l = "dirUnlock"
  BY DEF CreateShard, Create, RotationFails, Writing, Admitted, Rotating
<1>2. opened.retentionAppliedTo = Same(c).retentionAppliedTo
  BY AdmittedFacts DEF Opened, BoundInv, WriterState
<1> HIDE DEF opened
<1>3. /\ Alone(c) /\ today' = today
      /\ writer'[W(c)].retentionAppliedTo = writer[W(c)].retentionAppliedTo
      /\ pc'[c] = "retain" \/ writer'[W(c)] = writer[W(c)]
  BY <1>1, <1>2, ContinueAlone DEF BoundInv, Same, Alone
<1>4. /\ file'[fresh].date = Date(c)
      /\ \A i \in Inode \ {fresh} : file'[i] = file[i]
  BY <1>1 DEF CreateShard, Create, EmptyShard, BoundInv, TypeInv, TypeOK, DirTypeOK, Locals
<1>5. linked \subseteq Inode \ {fresh}
  BY <1>1, LinkedShard, BoundAssumption DEF BoundInv, TypeInv, TypeOK, DirTypeOK, Inode
<1>6. /\ Date(c) \in Day /\ today \in Day /\ Date(c) \in {today - 1, today}
      /\ RetentionDays \in Nat /\ Day \subseteq Int
  BY <1>1, WriteFacts, EnvironmentAssumption, BoundAssumption
  DEF BoundInv, TypeInv, TypeOK, SweepInv, RecentDates, InFlight, Day
<1>7. \A d \in Caller : pc[d] \in {"retain", "sweep"} => pc'[d] = pc[d] /\ progress'[d] = progress[d]
  BY <1>1, <1>3 DEF Alone, Only
<1>8. ASSUME NEW w \in Writer PROVE Swept(w)' /\ SweptForActive(w)'
  <2>1. writer'[w].retentionAppliedTo = writer[w].retentionAppliedTo
    BY <1>3 DEF Alone, Only
  <2>2. Swept(w)'
    <3> SUFFICES ASSUME RetentionDays > 0, writer[w].retentionAppliedTo # None
                 PROVE  Swept(w)'
      BY <2>1 DEF Swept
    <3>1. writer[w].retentionAppliedTo \in Day /\ writer[w].retentionAppliedTo <= today
      BY DEF BoundInv, TypeInv, TypeOK, WriterState, SweepInv, Swept
    <3>2. Date(c) >= writer[w].retentionAppliedTo - RetentionDays
      <4>1. writer[w].retentionAppliedTo \in Int /\ Date(c) \in Int /\ today \in Int
        BY <1>6, <3>1
      <4>2. Date(c) >= today - 1 /\ RetentionDays >= 1
        BY <1>6, <4>1
      <4> QED
        BY <1>6, <3>1, <4>1, <4>2
    <3>3. \A i \in linked : file'[i] = file[i] /\ Name(i)' = Name(i)
      BY <1>4, <1>5 DEF Name
    <3>4. Swept(w)
      BY DEF SweepInv
    <3> QED
      BY <1>1, <1>3, <1>4, <1>7, <2>1, <3>1, <3>2, <3>3, <3>4 DEF Swept, W
  <2>3. SweptForActive(w)'
    <3>1. CASE writer'[w] = writer[w]
      BY <1>7, <3>1, SweptForActiveKept
    <3>2. CASE writer'[w] # writer[w]
      <4>1. w = W(c) /\ pc'[c] = "retain"
        BY <1>3, <3>2 DEF Alone, Only
      <4> QED
        BY <4>1 DEF SweptForActive, W
    <3> QED
      BY <3>1, <3>2
  <2> QED
    BY <2>2, <2>3
<1>9. RecentDates' /\ DirectoryInv'
  BY <1>1, <1>3, RecentKept DEF SweepInv, DirectoryInv
<1> QED
  BY <1>8, <1>9 DEF SweepInv

LEMMA OutsideSweep ==
  ASSUME BoundInv, EventInv, SweepInv,
         \/ \E c \in Caller : \/ \E n \in RecordSizes : Submit(c, n)
                              \/ CallFlush(c) \/ CallClose(c) \/ AcquireGate(c) \/ AbandonGate(c)
         \/ \E w \in Writer : Crash(w)
         \/ Midnight \/ RemoveDirectory \/ UNCHANGED vars
  PROVE  SweepInv'
<1>1. ASSUME NEW c \in Caller,
             \/ \E n \in RecordSizes : Submit(c, n)
             \/ CallFlush(c) \/ CallClose(c) \/ AcquireGate(c) \/ AbandonGate(c)
      PROVE  SweepInv'
  <2>1. /\ SameShards /\ directory' = directory /\ UNCHANGED <<writer, progress, today>>
        /\ pc[c] \in {"idle", "gate"}
        /\ \A d \in Caller \ {c} : pc'[d] = pc[d] /\ request'[d] = request[d]
        /\ InFlight(c)' => request'[c] = request[c] \/ Date(c)' = today
    BY <1>1 DEF Submit, CallFlush, CallClose, Call, AcquireGate, AbandonGate, Goto, SameShards,
                dirVars, BoundInv, TypeInv, TypeOK, InFlight, NoRequest, Date
  <2>2. RecentDates'
    BY <2>1 DEF SweepInv, RecentDates, InFlight, Date
  <2>3. ShardsKept /\ DirectoryInv'
    BY <2>1, SameShardsKept DEF SweepInv, DirectoryInv, SameShards
  <2>4. \A d \in Caller : pc[d] \in {"retain", "sweep"} => pc'[d] = pc[d]
    BY <2>1
  <2> QED
    BY <2>1, <2>2, <2>3, <2>4, SweptKept, SweptForActiveKept DEF SweepInv
<1>2. ASSUME NEW w \in Writer, Crash(w) PROVE SweepInv'
  <2>1. /\ writer'[w].handle = None /\ writer'[w].retentionAppliedTo = None
        /\ \A v \in Writer \ {w} : writer'[v] = writer[v]
        /\ \A d \in Caller : W(d) # w =>
              pc'[d] = pc[d] /\ progress'[d] = progress[d] /\ request'[d] = request[d]
        /\ \A d \in Caller : InFlight(d)' => request'[d] = request[d]
        /\ UNCHANGED <<today, linked, directory>>
    BY <1>2 DEF Crash, NewWriter, NoRequest, InFlight, BoundInv, TypeInv, TypeOK
  <2>2. RecentDates' /\ DirectoryInv'
    BY <2>1 DEF SweepInv, RecentDates, DirectoryInv, InFlight, Date
  <2>3. ASSUME NEW v \in Writer PROVE Swept(v)' /\ SweptForActive(v)'
    <3>1. CASE v = w
      BY <2>1, <3>1 DEF Swept, SweptForActive
    <3>2. CASE v # w
      BY <1>2, <2>1, <3>2, CrashKept, SweptKept, SweptForActiveKept
    <3> QED
      BY <3>1, <3>2
  <2> QED
    BY <2>2, <2>3 DEF SweepInv
<1>3. CASE Midnight
  <2>1. /\ UNCHANGED <<file, linked, directory, writer, pc, progress, request>>
        /\ today' = today + 1 /\ today \in Int
        /\ \A c \in Caller : InFlight(c) => Date(c) = today
    BY <1>3, BoundAssumption
    DEF Midnight, dirVars, callVars, InFlight, BoundInv, TypeInv, TypeOK, Day
  <2>2. RecentDates' /\ DirectoryInv'
    BY <2>1 DEF SweepInv, RecentDates, DirectoryInv, InFlight, Date
  <2>3. ASSUME NEW w \in Writer PROVE Swept(w)' /\ SweptForActive(w)'
    <3>1. writer[w].retentionAppliedTo # None => writer[w].retentionAppliedTo \in Int
      BY BoundAssumption DEF BoundInv, TypeInv, TypeOK, WriterState, Day
    <3>2. Swept(w) /\ SweptForActive(w)
      BY DEF SweepInv
    <3>3. SweptForActive(w)'
      BY <2>1, <3>2 DEF SweptForActive, W
    <3>4. \A i \in linked : Name(i)' = Name(i)
      BY <2>1 DEF Name
    <3> QED
      BY <2>1, <3>1, <3>2, <3>3, <3>4 DEF Swept, W
  <2> QED
    BY <2>2, <2>3 DEF SweepInv
<1>4. CASE RemoveDirectory \/ UNCHANGED vars
  <2>1. /\ ShardsKept /\ UNCHANGED <<writer, pc, progress, request, today>>
        /\ linked' = {} \/ UNCHANGED <<linked, directory>>
    BY <1>4 DEF RemoveDirectory, vars, dirVars, callVars, ShardsKept, Records
  <2>2. RecentDates' /\ DirectoryInv'
    BY <2>1 DEF SweepInv, RecentDates, DirectoryInv, InFlight, Date
  <2> QED
    BY <2>1, <2>2, SweptKept, SweptForActiveKept DEF SweepInv
<1> QED
  BY <1>1, <1>2, <1>3, <1>4

LEMMA InitSweep == Init => SweepInv
BY DEF Init, DirInit, NewWriter, NoRequest, SweepInv, RecentDates, DirectoryInv, Swept,
       SweptForActive, InFlight

LEMMA NextSweep ==
  ASSUME SweepsSucceed
  PROVE  BoundInv /\ EventInv /\ SweepInv /\ [Next]_vars => SweepInv'
<1> SUFFICES ASSUME BoundInv, EventInv, SweepInv, [Next]_vars PROVE SweepInv'
  OBVIOUS
<1>1. ASSUME NEW c \in Caller, Modest(c) PROVE SweepInv'
  BY <1>1, SameShardsKept, SteadySweep DEF Modest, Quiet
<1>2. ASSUME NEW c \in Caller, CallerStep(c) \/ LockTimeout(c) PROVE SweepInv'
  <2>1. CASE \/ FlushActive(c) \/ CloseWriter(c) \/ RejectClosed(c) \/ EnsureDirectory(c)
             \/ DirectoryFails(c) \/ OpenLockFile(c) \/ TryDirLock(c) \/ TryShardLock(c)
             \/ LockRetry(c) \/ LockTimeout(c) \/ LockFails(c)
    BY <1>1, <2>1, EarlyModest
  <2>2. CASE \/ OpenFails(c) \/ UnlockDirectory(c)
             \/ StatShard(c) \/ StatFails(c) \/ UnlockShard(c)
    BY <1>1, <2>2, LateModest
  <2>3. CASE Discover(c) \/ ProbeFull(c) \/ OpenShard(c) \/ CreateShard(c)
    BY <2>3, DiscoverSweep, OpenShardSweep, CreateSweep
  <2>4. CASE ApplyRetention(c) \/ SweepDone(c) \/ SweepOne(c)
    BY <2>4, RetentionSweep, SweepDoneSweep, SweepOneSweep
  <2>5. CASE Append(c) \/ AppendFails(c) \/ RestoreLineBoundary(c)
    BY <2>5, AppendSweep
  <2> QED
    BY <1>2, <2>1, <2>2, <2>3, <2>4, <2>5 DEF CallerStep
<1> QED
  BY <1>2, OutsideSweep DEF Next

(* A call that appends holds the gate, so no sweep of its writer is under  *)
(* way: the shard it has open is of the date its writer swept for.         *)
LEMMA SweepBeforeAppend ==
  ASSUME BoundInv, EventInv, SweepInv
  PROVE  SweepIsComplete
<1> SUFFICES ASSUME NEW c \in Caller, pc[c] \in Appending, NEW i \in linked, RetentionDays > 0
             PROVE  file[i].date >= Date(c) - RetentionDays
  BY DEF SweepIsComplete
<1>1. pc[c] \in Admitted /\ writer[W(c)].handle # None /\ KeepsHandle(pc[c], progress[c])
  BY HandleFacts DEF BoundInv, Same, Locals
<1>2. \A d \in Caller : W(d) = W(c) => pc[d] \notin {"retain", "sweep"}
  <2> SUFFICES ASSUME NEW d \in Caller, W(d) = W(c), pc[d] \in {"retain", "sweep"}
               PROVE  FALSE
    OBVIOUS
  <2>1. pc[d] \in Admitted /\ d # c
    BY DEF Admitted, Rotating, Appending
  <2> QED
    BY <1>1, <2>1, GateExclusion DEF BoundInv, TypeInv
<1>3. writer[W(c)].currentDate = Date(c)
  BY <1>1 DEF EventInv, CallInvariant, CallDate, Same
<1>4. Date(c) # None
  BY <1>1, HandleFacts, WriteFacts, NoneAssumption, BoundAssumption DEF BoundInv, Day
<1>5. writer[W(c)].retentionAppliedTo = Date(c)
  BY <1>1, <1>2, <1>3, WriterOfCaller DEF SweepInv, SweptForActive
<1> QED
  BY <1>2, <1>4, <1>5, WriterOfCaller DEF SweepInv, Swept

(* Unless listing the directory or removing a shard fails, no call appends *)
(* while the directory still holds a shard that had expired on the date of *)
(* its event: not after a crash, a restart, a removed directory, or a day  *)
(* that another writer began.  A failure does leave shards behind, since   *)
(* the date is marked as swept before the sweep.                           *)
THEOREM RetentionIsComplete ==
  ASSUME "remove" \notin Faults, "readdir" \notin Faults
  PROVE  Spec => []SweepIsComplete
<1>1. BoundInv /\ EventInv /\ SweepInv => SweepIsComplete
  BY SweepBeforeAppend
<1>2. BoundInv /\ EventInv /\ SweepInv /\ [Next]_vars => SweepInv'
  BY NextSweep DEF SweepsSucceed
<1> QED
  BY <1>1, <1>2, InitSweep, EventInvariant, PTL DEF Spec

-----------------------------------------------------------------------------
(* Shards follow each other without gaps.  A shard is begun only behind    *)
(* one that is full, which keeps its bytes and, as long as its date does   *)
(* not expire, its name.                                                   *)

(* No append is repaired, which takes bytes away that a probe has seen,    *)
(* and nobody else removes shards.                                         *)
ShardsStay == "append" \notin Faults /\ "rmdir" \notin Faults

Kept(d) == RetentionDays = 0 \/ d >= today - RetentionDays

(* The shard k of date d has a place: the one before it holds something.   *)
Follows(d, k) == k > 0 /\ Kept(d) => \E j \in Named(d, k - 1) : file[j].size > 0

GapInv ==
    /\ \A c \in Caller : pc[c] # "restore"
    /\ \A i \in linked : Follows(file[i].date, file[i].index)
    /\ \A c \in Caller : pc[c] = "probe" => Follows(Date(c), progress[c].index)

(* The shards keep their names and grow. *)
Growing ==
    /\ today' \in {today, today + 1} /\ fresh' \in {fresh, fresh + 1}
    /\ \A i \in linked : /\ file'[i].date = file[i].date /\ file'[i].index = file[i].index
                         /\ file'[i].size >= file[i].size

(* A shard whose date has not expired stays where it is. *)
LEMMA StaysLinked ==
  ASSUME BoundInv, EventInv', Growing, "rmdir" \notin Faults,
         NEW i \in linked, NEW d \in Int, file[i].date = d, Kept(d)'
  PROVE  i \in linked'
<1>1. i \in Inode /\ i < fresh /\ i \in Int /\ fresh \in Int
  BY LinkedShard, BoundAssumption DEF BoundInv, TypeInv, TypeOK, DirTypeOK, Inode
<1>2. ~(i >= fresh')
  BY <1>1 DEF Growing
<1>3. today' \in Int /\ RetentionDays \in Nat
  BY EnvironmentAssumption DEF Growing, BoundInv, TypeInv, TypeOK, Day
<1>4. file'[i].date = d
  BY DEF Growing
<1>5. PICK t \in Int : t = today'
  BY <1>3
<1>6. RetentionDays = 0 \/ d >= t - RetentionDays
  BY <1>5 DEF Kept
<1>7. ~(RetentionDays > 0 /\ d < t - RetentionDays)
  BY <1>3, <1>6
<1>8. ~(RetentionDays > 0 /\ d < today' - RetentionDays)
  BY <1>5, <1>7
<1> QED
  BY <1>1, <1>2, <1>4, <1>8 DEF EventInv, Anchored, Expirable

LEMMA FollowsKept ==
  ASSUME BoundInv, BoundInv', EventInv', Growing, "rmdir" \notin Faults,
         NEW d \in Int, NEW k, Follows(d, k)
  PROVE  Follows(d, k)'
<1> SUFFICES ASSUME k > 0, Kept(d)'
             PROVE  \E j \in Named(d, k - 1)' : file'[j].size > 0
  BY DEF Follows
<1>1. Kept(d)
  <2>1. today \in Int /\ RetentionDays \in Nat
    BY EnvironmentAssumption DEF BoundInv, TypeInv, TypeOK, Day
  <2>2. RetentionDays = 0 \/ d >= today' - RetentionDays
    BY DEF Kept
  <2>3. today' = today \/ today' = today + 1
    BY DEF Growing
  <2> QED
    BY <2>1, <2>2, <2>3 DEF Kept
<1>2. PICK j \in Named(d, k - 1) : file[j].size > 0
  BY <1>1 DEF Follows
<1>3. j \in linked /\ file[j].date = d /\ file[j].index = k - 1
  BY <1>2 DEF Named
<1>4. j \in linked'
  BY <1>3, StaysLinked
<1>5. file'[j].size > 0
  <2>1. j \in Inode /\ file[j].size \in Nat
    BY <1>3, LinkedShard DEF BoundInv, TypeInv
  <2>2. file'[j].size \in Nat
    BY <2>1 DEF BoundInv, TypeInv, TypeOK, DirTypeOK, Shard
  <2>3. file'[j].size >= file[j].size
    BY <1>3 DEF Growing
  <2> QED
    BY <1>2, <2>1, <2>2, <2>3
<1> QED
  BY <1>3, <1>4, <1>5 DEF Named, Growing

(* A step that begins no shard, or begins one in its place.                *)
LEMMA GapStep ==
  ASSUME BoundInv, BoundInv', EventInv', GapInv, Growing, "rmdir" \notin Faults,
         \A i \in linked' : i \in linked \/ Follows(file[i].date, file[i].index)',
         \A c \in Caller : pc'[c] # "restore",
         \A c \in Caller : pc'[c] = "probe" =>
            \/ pc[c] = "probe" /\ request'[c] = request[c] /\ progress'[c] = progress[c]
            \/ Follows(Date(c), progress[c].index)'
  PROVE  GapInv'
<1>1. ASSUME NEW i \in linked' PROVE Follows(file[i].date, file[i].index)'
  <2>1. CASE i \in linked
    <3>1. PICK d, k : d \in Int /\ d = file[i].date /\ k = file[i].index
      BY <2>1, LinkedShard, BoundAssumption DEF BoundInv, TypeInv, Day
    <3>2. Follows(d, k)'
      BY <2>1, <3>1, FollowsKept DEF GapInv
    <3>3. file'[i].date = d /\ file'[i].index = k
      BY <2>1, <3>1 DEF Growing
    <3> QED
      BY <3>2, <3>3
  <2> QED
    BY <1>1, <2>1
<1>2. ASSUME NEW c \in Caller, pc'[c] = "probe" PROVE Follows(Date(c), progress[c].index)'
  <2>1. CASE pc[c] = "probe" /\ request'[c] = request[c] /\ progress'[c] = progress[c]
    <3>1. Date(c) \in Day
      BY <2>1, WriteFacts DEF BoundInv, Writing, Admitted, Rotating
    <3>2. PICK d, k : d \in Int /\ d = Date(c) /\ k = progress[c].index
      BY <3>1, BoundAssumption DEF Day
    <3>3. Follows(d, k)'
      BY <2>1, <3>2, FollowsKept DEF GapInv
    <3>4. Date(c)' = d /\ progress'[c].index = k
      BY <2>1, <3>2 DEF Date
    <3> QED
      BY <3>3, <3>4
  <2> QED
    BY <1>2, <2>1
<1> QED
  BY <1>1, <1>2 DEF GapInv

LEMMA SameShardsGrow ==
  ASSUME BoundInv, SameShards, today' \in {today, today + 1}
  PROVE  Growing
BY LinkedShard DEF SameShards, Growing, BoundInv, TypeInv

LEMMA QuietGap ==
  ASSUME BoundInv, BoundInv', EventInv', GapInv, "rmdir" \notin Faults, NEW c \in Caller, Quiet(c),
         pc'[c] = "probe" => Follows(Date(c), progress[c].index)'
  PROVE  GapInv'
<1>1. Alone(c) /\ SameShards /\ linked' = linked /\ pc'[c] # "restore"
  BY DEF Quiet, SameShards
<1>2. Growing
  BY <1>1, SameShardsGrow DEF Alone
<1>3. \A d \in Caller : d # c => pc'[d] = pc[d] /\ request'[d] = request[d] /\ progress'[d] = progress[d]
  BY <1>1 DEF Alone, Only
<1>4. \A d \in Caller : pc'[d] # "restore"
  BY <1>1, <1>3 DEF GapInv
<1>5. \A d \in Caller : pc'[d] = "probe" =>
         \/ pc[d] = "probe" /\ request'[d] = request[d] /\ progress'[d] = progress[d]
         \/ Follows(Date(d), progress[d].index)'
  BY <1>3
<1> QED
  BY <1>1, <1>2, <1>4, <1>5, GapStep

(* The last shard of the date is in its place, or there is none; and a     *)
(* probe that finds the shard full goes on behind it.                      *)
LEMMA ProbeGap ==
  ASSUME BoundInv, BoundInv', EventInv', GapInv, "rmdir" \notin Faults, NEW c \in Caller,
         Discover(c) \/ ProbeFull(c)
  PROVE  GapInv'
<1>1. /\ pc[c] \in Writing /\ pc[c] \in Admitted \ {"restore"}
      /\ SameShards /\ directory' = directory
  BY DEF Discover, ProbeFull, Admitted, Writing, Rotating, SameShards, dirVars
<1>2. Quiet(c) /\ Date(c)' = Date(c)
  <2>1. \E l \in {"probe", "dirUnlock"} : \E state, locals : Continue(c, l, state, locals)
    BY DEF Discover, ProbeFull, RotationFails
  <2> QED
    BY <1>1, <2>1, ContinueQuiet DEF Date
<1>3. Growing
  BY <1>1, <1>2, SameShardsGrow DEF Quiet, Alone
<1>4. PICK d \in Int : d = Date(c)
  BY <1>1, WriteFacts, BoundAssumption DEF BoundInv, Day
<1>5. ASSUME pc'[c] = "probe" PROVE Follows(d, progress'[c].index)
  <2>1. CASE Discover(c)
    <3>1. PICK highest \in Highest(d) : progress'[c] = [Locals(c) EXCEPT !.index = highest]
      BY <1>4, <1>5, <2>1, ContinueAlone DEF Discover, RotationFails, BoundInv
    <3>2. progress'[c].index = highest
      BY <3>1, AdmittedFacts DEF Progress, BoundInv
    <3>3. highest = 0 \/ \E i \in linked : file[i].date = d /\ file[i].index = highest
      BY DEF Highest, Indices
    <3>4. highest = 0 => Follows(d, highest)
      BY DEF Follows
    <3> QED
      BY <3>2, <3>3, <3>4 DEF GapInv
  <2>2. CASE ProbeFull(c)
    <3> DEFINE k == progress[c].index
    <3>1. /\ Full(NamedSize(d, k), Line(c)) /\ k \in Nat
          /\ progress'[c] = [Locals(c) EXCEPT !.index = @ + 1]
      BY <1>4, <2>2, ContinueAlone, AdmittedFacts DEF ProbeFull, BoundInv, Progress, Locals
    <3>2. progress'[c].index = k + 1
      BY <3>1, AdmittedFacts DEF Progress, BoundInv, Locals
    <3>3. NamedSize(d, k) > 0
      BY <3>1 DEF Full
    <3>4. Named(d, k) # {}
      BY <3>3 DEF NamedSize
    <3>5. \E j \in Named(d, k) : file[j].size > 0
      BY <3>3, <3>4 DEF NamedSize
    <3> HIDE DEF k
    <3>6. Named(d, (k + 1) - 1) = Named(d, k)
      BY <3>1
    <3> QED
      BY <3>2, <3>5, <3>6 DEF Follows
  <2> QED
    BY <2>1, <2>2
<1>6. ASSUME pc'[c] = "probe" PROVE Follows(Date(c), progress[c].index)'
  <2>1. PICK k : k = progress'[c].index
    OBVIOUS
  <2>2. Follows(d, k)'
    BY <1>3, <1>5, <1>6, <2>1, FollowsKept
  <2> QED
    BY <1>2, <1>4, <2>1, <2>2
<1> QED
  BY <1>2, <1>6, QuietGap

LEMMA SweepGap ==
  ASSUME BoundInv, BoundInv', EventInv', GapInv, "rmdir" \notin Faults, NEW c \in Caller, SweepOne(c)
  PROVE  GapInv'
<1>1. linked' \subseteq linked /\ UNCHANGED <<file, fresh>>
  BY DEF SweepOne
<1>2. \E l, state, locals : Continue(c, l, state, locals) /\ l \notin {"restore", "probe"}
  BY DEF SweepOne, RotationFails
<1>3. Alone(c) /\ pc'[c] \notin {"restore", "probe"}
  BY <1>2, ContinueAlone DEF BoundInv
<1>4. Growing
  BY <1>1, <1>3, LinkedShard DEF Growing, Alone, BoundInv, TypeInv
<1>5. \A d \in Caller : d # c => pc'[d] = pc[d] /\ request'[d] = request[d] /\ progress'[d] = progress[d]
  BY <1>3 DEF Alone, Only
<1>6. \A d \in Caller : pc'[d] # "restore"
  BY <1>3, <1>5 DEF GapInv
<1> QED
  BY <1>1, <1>3, <1>4, <1>5, <1>6, GapStep

LEMMA AppendGap ==
  ASSUME BoundInv, BoundInv', EventInv', GapInv, "rmdir" \notin Faults, NEW c \in Caller, Append(c)
  PROVE  GapInv'
<1>1. /\ pc[c] \in Appending /\ UNCHANGED <<linked, fresh>>
      /\ Continue(c, "unlock", Same(c), Locals(c))
  BY DEF Append, Appending
<1>2. Alone(c) /\ pc'[c] = "unlock"
  BY <1>1, ContinueAlone DEF BoundInv
<1>3. \A d \in Caller : d # c => pc'[d] = pc[d] /\ request'[d] = request[d] /\ progress'[d] = progress[d]
  BY <1>2 DEF Alone, Only
<1>4. Line(c) \in Nat
  BY <1>1, AppendingFacts
<1>5. ASSUME NEW j \in linked
      PROVE  /\ file'[j].date = file[j].date /\ file'[j].index = file[j].index
             /\ file'[j].size >= file[j].size
  <2>1. j \in Inode /\ file[j].size \in Nat
    BY LinkedShard DEF BoundInv, TypeInv
  <2>2. file'[j].size = file[j].size \/ file'[j].size = file[j].size + Line(c)
    BY <2>1, AppendRecords
  <2> QED
    BY <1>4, <2>1, <2>2, AppendRecords
<1>6. Growing
  BY <1>1, <1>2, <1>5 DEF Growing, Alone
<1>7. \A d \in Caller : pc'[d] # "restore"
  BY <1>2, <1>3 DEF GapInv
<1> QED
  BY <1>1, <1>2, <1>3, <1>6, <1>7, GapStep

LEMMA CreateGap ==
  ASSUME BoundInv, BoundInv', EventInv', GapInv, "rmdir" \notin Faults, NEW c \in Caller,
         CreateShard(c)
  PROVE  GapInv'
<1>1. /\ pc[c] = "probe" /\ pc[c] \in Writing /\ fresh \in Inode /\ fresh' = fresh + 1
      /\ linked' = linked \cup {fresh}
      /\ \E l, state, locals : Continue(c, l, state, locals) /\ l \notin {"restore", "probe"}
  BY DEF CreateShard, Create, RotationFails, Writing, Admitted, Rotating
<1>2. Alone(c) /\ pc'[c] \notin {"restore", "probe"}
  BY <1>1, ContinueAlone DEF BoundInv
<1>3. \A d \in Caller : d # c => pc'[d] = pc[d] /\ request'[d] = request[d] /\ progress'[d] = progress[d]
  BY <1>2 DEF Alone, Only
<1>4. /\ file'[fresh].date = Date(c) /\ file'[fresh].index = progress[c].index
      /\ \A i \in Inode \ {fresh} : file'[i] = file[i]
  BY <1>1 DEF CreateShard, Create, EmptyShard, BoundInv, TypeInv, TypeOK, DirTypeOK, Locals
<1>5. linked \subseteq Inode \ {fresh}
  BY <1>1, LinkedShard, BoundAssumption DEF BoundInv, TypeInv, TypeOK, DirTypeOK, Inode
<1>6. Growing
  BY <1>1, <1>2, <1>4, <1>5, LinkedShard DEF Growing, Alone, BoundInv, TypeInv
<1>7. PICK new \in Inode : new = fresh
  BY <1>1
<1>8. PICK d, k : d \in Int /\ d = Date(c) /\ k = progress[c].index
  BY <1>1, WriteFacts, BoundAssumption DEF BoundInv, Day
<1>9. Follows(d, k)'
  BY <1>1, <1>6, <1>8, FollowsKept DEF GapInv
<1>10. Follows(file[new].date, file[new].index)'
  BY <1>4, <1>7, <1>8, <1>9
<1>11. \A e \in Caller : pc'[e] # "restore"
  BY <1>2, <1>3 DEF GapInv
<1>12. \A i \in linked' : i \in linked \/ Follows(file[i].date, file[i].index)'
  BY <1>1, <1>7, <1>10
<1> QED
  BY <1>2, <1>3, <1>6, <1>11, <1>12, GapStep

(* A crash may leave a fragment, which makes the shard longer.             *)
LEMMA OutsideGap ==
  ASSUME BoundInv, BoundInv', EventInv', GapInv, "rmdir" \notin Faults,
         \/ \E c \in Caller : \/ \E n \in RecordSizes : Submit(c, n)
                              \/ CallFlush(c) \/ CallClose(c) \/ AcquireGate(c) \/ AbandonGate(c)
         \/ \E w \in Writer : Crash(w)
         \/ Midnight \/ RemoveDirectory \/ UNCHANGED vars
  PROVE  GapInv'
<1>1. ASSUME NEW c \in Caller,
             \/ \E n \in RecordSizes : Submit(c, n)
             \/ CallFlush(c) \/ CallClose(c) \/ AcquireGate(c) \/ AbandonGate(c)
      PROVE  GapInv'
  <2>1. /\ SameShards /\ linked' = linked /\ UNCHANGED <<progress, today>>
        /\ pc'[c] \notin {"restore", "probe"}
        /\ \A d \in Caller \ {c} : pc'[d] = pc[d] /\ request'[d] = request[d]
    BY <1>1 DEF Submit, CallFlush, CallClose, Call, AcquireGate, AbandonGate, Goto, SameShards,
                dirVars, BoundInv, TypeInv, TypeOK
  <2>2. \A d \in Caller : pc'[d] # "restore"
    BY <2>1 DEF GapInv
  <2> QED
    BY <2>1, <2>2, SameShardsGrow, GapStep
<1>2. ASSUME NEW w \in Writer, Crash(w) PROVE GapInv'
  <2>1. /\ UNCHANGED <<linked, fresh, today>>
        /\ \A d \in Caller :
              \/ pc'[d] = pc[d] /\ request'[d] = request[d] /\ progress'[d] = progress[d]
              \/ pc'[d] = "idle"
    BY <1>2 DEF Crash, BoundInv, TypeInv, TypeOK
  <2>2. ASSUME UNCHANGED file PROVE Growing
    BY <2>1, <2>2, SameShardsGrow DEF SameShards
  <2>3. ASSUME NEW c \in Caller, pc[c] = "append", NEW n \in 1 .. Line(c) - 1,
               Extend(Handle(c), request[c].event, "fragment", n)
        PROVE  Growing
    <3>1. Handle(c) \in Inode /\ Line(c) \in Nat
      BY <2>3, AppendingFacts DEF Appending
    <3>2. ASSUME NEW j \in linked
          PROVE  /\ file'[j].date = file[j].date /\ file'[j].index = file[j].index
                 /\ file'[j].size >= file[j].size
      <4>1. j \in Inode /\ file[j].size \in Nat
        BY LinkedShard DEF BoundInv, TypeInv
      <4>2. CASE j = Handle(c)
        BY <2>3, <3>1, <4>1, <4>2, ExtendShard DEF BoundInv
      <4>3. CASE j # Handle(c)
        <5>1. file'[j] = file[j]
          BY <2>3, <3>1, <4>1, <4>3, ExtendShard DEF BoundInv
        <5> QED
          BY <4>1, <5>1
      <4> QED
        BY <4>2, <4>3
    <3> QED
      BY <2>1, <3>2 DEF Growing
  <2>4. Growing
    <3>1. \/ UNCHANGED file
          \/ \E c \in Caller : /\ pc[c] = "append"
                              /\ \E n \in 1 .. Line(c) - 1 :
                                    Extend(Handle(c), request[c].event, "fragment", n)
      BY <1>2 DEF Crash
    <3> QED
      BY <2>2, <2>3, <3>1
  <2>5. \A d \in Caller : pc'[d] # "restore"
    BY <2>1 DEF GapInv
  <2>6. \A d \in Caller : pc'[d] = "probe" =>
          pc[d] = "probe" /\ request'[d] = request[d] /\ progress'[d] = progress[d]
    BY <2>1
  <2> QED
    BY <2>1, <2>4, <2>5, <2>6, GapStep
<1>3. CASE Midnight \/ RemoveDirectory \/ UNCHANGED vars
  <2>1. /\ SameShards /\ linked' = linked /\ UNCHANGED <<pc, request, progress>>
        /\ today' \in {today, today + 1}
    BY <1>3 DEF Midnight, RemoveDirectory, Fails, vars, dirVars, callVars, SameShards
  <2> QED
    BY <2>1, SameShardsGrow, GapStep DEF GapInv
<1> QED
  BY <1>1, <1>2, <1>3

LEMMA InitGap == Init => GapInv
BY DEF Init, DirInit, GapInv

LEMMA NextGap ==
  ASSUME ShardsStay
  PROVE  BoundInv /\ EventInv /\ GapInv /\ [Next]_vars => GapInv'
<1> SUFFICES ASSUME BoundInv, EventInv, GapInv, [Next]_vars PROVE GapInv'
  OBVIOUS
<1>1. BoundInv' /\ EventInv' /\ "rmdir" \notin Faults
  BY NextBound, NextEvents DEF ShardsStay
<1>2. ASSUME NEW c \in Caller, Quiet(c), pc'[c] # "probe" PROVE GapInv'
  BY <1>1, <1>2, QuietGap
<1>3. ASSUME NEW c \in Caller, CallerStep(c) \/ LockTimeout(c) PROVE GapInv'
  <2>1. CASE \/ FlushActive(c) \/ CloseWriter(c) \/ RejectClosed(c) \/ EnsureDirectory(c)
             \/ DirectoryFails(c) \/ OpenLockFile(c) \/ TryDirLock(c) \/ TryShardLock(c)
             \/ LockRetry(c) \/ LockTimeout(c) \/ LockFails(c)
    BY <1>2, <2>1, EarlyModest DEF Modest, Searching
  <2>2. CASE \/ OpenFails(c) \/ UnlockDirectory(c) \/ StatShard(c) \/ StatFails(c)
    BY <1>2, <2>2, LateModest DEF Modest, Searching
  <2>3. CASE Discover(c) \/ ProbeFull(c) \/ CreateShard(c)
    BY <1>1, <2>3, ProbeGap, CreateGap
  <2>4. CASE OpenShard(c)
    <3>1. /\ pc[c] \in Admitted \ {"restore"} /\ SameShards /\ directory' = directory
          /\ \E state, locals : Continue(c, "retain", state, locals)
      BY <2>4 DEF OpenShard, Admitted, Rotating, SameShards, dirVars
    <3> QED
      BY <1>2, <3>1, ContinueQuiet
  <2>5. CASE ApplyRetention(c) \/ SweepDone(c) \/ SweepOne(c)
    BY <1>1, <1>2, <2>5, RetentionQuiet, SweepGap
  <2>6. CASE Append(c)
    BY <1>1, <2>6, AppendGap
  <2>7. CASE AppendFails(c) \/ RestoreLineBoundary(c)
    BY <2>7 DEF AppendFails, RestoreLineBoundary, Fails, ShardsStay, GapInv
  <2>8. CASE UnlockShard(c)
    BY <1>2, <2>8, LateModest DEF Modest, Searching
  <2> QED
    BY <1>3, <2>1, <2>2, <2>3, <2>4, <2>5, <2>6, <2>7, <2>8 DEF CallerStep
<1> QED
  BY <1>1, <1>3, OutsideGap DEF Next

(* Unless an append fails or somebody removes the directory, the shards of *)
(* a date that is kept are numbered without gaps, and one is begun only    *)
(* behind one that holds something, whichever writers begin them.  A       *)
(* fragment that is truncated away may leave an empty shard in the middle. *)
THEOREM ShardsHaveNoGaps ==
  ASSUME "append" \notin Faults, "rmdir" \notin Faults
  PROVE  Spec => []NoGapsBetweenShards
<1>1. GapInv => NoGapsBetweenShards
  BY DEF GapInv, Follows, Kept, NoGapsBetweenShards
<1>2. BoundInv /\ EventInv /\ GapInv /\ [Next]_vars => GapInv'
  BY NextGap DEF ShardsStay
<1> QED
  BY <1>1, <1>2, InitGap, EventInvariant, PTL DEF Spec

-----------------------------------------------------------------------------
(* What becomes of a line that was torn.  A fragment whose writer is alive *)
(* is being repaired, or, where no handle can be truncated, has bytes      *)
(* behind it that begin no record; one that a crash left is of an event    *)
(* that nobody answers for.                                                *)

Fragments(i) == {x \in file[i].data : x.kind = "fragment"}

Requested(e) == \E c \in Caller : InFlight(c) /\ request[c].event = e
Abandoned(e) == e \notin rejected /\ ~Requested(e)

Closed(i, x) ==
    "truncate" \in Faults /\ x.end < file[i].size /\ \A y \in Records(i) : y.start # x.end

Repairing(c, i, x) ==
    /\ pc[c] = "restore" /\ Handle(c) = i
    /\ request[c].event = x.ev /\ x.end > Same(c).currentSize

Failing(c) == progress[c].failed /\ pc[c] \in {"restore", "unlock"}

FragmentOK(i, x) ==
    /\ Known(x.ev)
    /\ \A c \in Caller : InFlight(c) /\ request[c].event = x.ev => Failing(c)
    /\ Closed(i, x) \/ Abandoned(x.ev) \/ \E c \in Caller : Repairing(c, i, x)

(* The boundary that a repair restores is not the end of another fragment, *)
(* and behind it there is nothing but the fragment of the call.            *)
RepairOK(c) ==
    pc[c] = "restore" => \A x \in Fragments(Handle(c)) :
        /\ x.end # Same(c).currentSize \/ Abandoned(x.ev)
        /\ x.end > Same(c).currentSize => x.ev = request[c].event

FragmentInv ==
    /\ \A i \in Inode : \A x \in Fragments(i) : FragmentOK(i, x)
    /\ \A i \in Inode : \A y \in Records(i) : y.start <= y.end
    /\ \A c \in Caller : RepairOK(c)

(* The step submits nothing, and rejects only what a call was asked.       *)
Answering ==
    /\ \A c \in Caller : InFlight(c)' => InFlight(c) /\ request'[c] = request[c]
    /\ \A e \in rejected' : e \in rejected \/ Requested(e)
    /\ UNCHANGED sequence

LEMMA AbandonedKept ==
  ASSUME Answering, NEW e, Abandoned(e)
  PROVE  Abandoned(e)'
BY DEF Answering, Abandoned, Requested

LEMMA FragmentKept ==
  ASSUME FragmentInv, Answering,
         \A c \in Caller : Failing(c) /\ InFlight(c)' => Failing(c)',
         NEW i \in Inode, NEW x \in Fragments(i),
         Closed(i, x) => Closed(i, x)',
         \A c \in Caller : Repairing(c, i, x) =>
            Repairing(c, i, x)' \/ Closed(i, x)' \/ Abandoned(x.ev)'
  PROVE  FragmentOK(i, x)'
<1>1. FragmentOK(i, x)
  BY DEF FragmentInv
<1>2. Known(x.ev)' /\ \A c \in Caller : InFlight(c)' /\ request'[c].event = x.ev => Failing(c)'
  BY <1>1 DEF FragmentOK, Answering, Known
<1>3. Closed(i, x)' \/ Abandoned(x.ev)' \/ \E c \in Caller : Repairing(c, i, x)'
  BY <1>1, AbandonedKept DEF FragmentOK
<1> QED
  BY <1>2, <1>3 DEF FragmentOK

LEMMA RepairKept ==
  ASSUME Answering, NEW d \in Caller, RepairOK(d), pc[d] = "restore",
         Same(d)' = Same(d), request'[d] = request[d],
         Fragments(Handle(d))' = Fragments(Handle(d))
  PROVE  RepairOK(d)'
<1> SUFFICES ASSUME NEW x \in Fragments(Handle(d))
             PROVE  /\ x.end # Same(d)'.currentSize \/ Abandoned(x.ev)'
                    /\ x.end > Same(d)'.currentSize => x.ev = request'[d].event
  BY DEF RepairOK
<1>1. /\ x.end # Same(d).currentSize \/ Abandoned(x.ev)
      /\ x.end > Same(d).currentSize => x.ev = request[d].event
  BY DEF RepairOK
<1>2. x.end # Same(d)'.currentSize \/ Abandoned(x.ev)'
  BY <1>1, AbandonedKept
<1>3. x.end > Same(d)'.currentSize => x.ev = request'[d].event
  BY <1>1
<1> QED
  BY <1>2, <1>3

(* The repair of another call goes on undisturbed. *)
LEMMA OtherRepair ==
  ASSUME BoundInv, NEW c \in Caller, pc[c] \in Admitted, Alone(c),
         NEW d \in Caller, d # c, pc[d] = "restore" \/ pc'[d] = "restore"
  PROVE  /\ pc[d] = "restore" /\ pc'[d] = "restore" /\ W(d) # W(c)
         /\ request'[d] = request[d] /\ progress'[d] = progress[d]
         /\ Same(d)' = Same(d) /\ Handle(d)' = Handle(d)
<1>1. /\ pc[d] = "restore" /\ pc'[d] = "restore"
      /\ request'[d] = request[d] /\ progress'[d] = progress[d]
  BY DEF Alone, Only
<1>2. W(d) # W(c) /\ W(d) \in Writer
  BY <1>1, GateExclusion, WriterOfCaller DEF BoundInv, TypeInv, Admitted, Appending
<1>3. writer'[W(d)] = writer[W(d)]
  BY <1>2 DEF Alone, Only
<1> QED
  BY <1>1, <1>2, <1>3 DEF Same, Handle, W

LEMMA OtherRepairing ==
  ASSUME BoundInv, NEW c \in Caller, pc[c] \in Admitted, Alone(c),
         NEW d \in Caller, d # c, NEW i, NEW x, Repairing(d, i, x)
  PROVE  Repairing(d, i, x)'
BY OtherRepair DEF Repairing

(* The shards hold the same lines, but for a new one, which holds none. *)
SameLines ==
    \A i \in Inode : file'[i] = file[i] \/ (file[i].data = {} /\ file'[i].data = {})

(* A step that neither changes a shard nor begins or ends a repair. *)
LEMMA SteadyFragments ==
  ASSUME BoundInv, FragmentInv, NEW c \in Caller, pc[c] \in Admitted \ {"restore"},
         Alone(c), Answering, pc'[c] # "restore",
         pc[c] = "unlock" => request'[c].op # "write",
         SameLines
  PROVE  FragmentInv'
<1>1. ASSUME NEW i \in Inode
      PROVE  /\ Fragments(i)' = Fragments(i) /\ Records(i)' = Records(i)
             /\ Fragments(i) # {} => file'[i] = file[i]
  BY DEF SameLines, Fragments, Records
<1>2. ASSUME NEW d \in Caller, Failing(d), InFlight(d)' PROVE Failing(d)'
  <2>1. d # c
    BY <1>2 DEF Failing, InFlight
  <2> QED
    BY <1>2, <2>1 DEF Alone, Only, Failing
<1>3. ASSUME NEW i \in Inode, NEW x \in Fragments(i)' PROVE FragmentOK(i, x)'
  <2>1. x \in Fragments(i) /\ file'[i] = file[i] /\ Records(i)' = Records(i)
    BY <1>1, <1>3
  <2>2. Closed(i, x) => Closed(i, x)'
    BY <2>1 DEF Closed
  <2>3. \A d \in Caller : Repairing(d, i, x) => Repairing(d, i, x)'
    <3> SUFFICES ASSUME NEW d \in Caller, Repairing(d, i, x) PROVE Repairing(d, i, x)'
      OBVIOUS
    <3>1. d # c
      BY DEF Repairing
    <3> QED
      BY <3>1, OtherRepairing
  <2> QED
    BY <1>2, <2>1, <2>2, <2>3, FragmentKept
<1>4. ASSUME NEW d \in Caller PROVE RepairOK(d)'
  <2> SUFFICES ASSUME pc'[d] = "restore" PROVE RepairOK(d)'
    BY DEF RepairOK
  <2>1. d # c
    OBVIOUS
  <2>2. /\ pc[d] = "restore" /\ Same(d)' = Same(d) /\ Handle(d)' = Handle(d)
        /\ request'[d] = request[d]
    BY <2>1, OtherRepair
  <2>3. PICK i \in Inode : i = Handle(d)
    BY <2>2, AppendingFacts DEF Appending
  <2>4. Fragments(Handle(d))' = Fragments(Handle(d))
    BY <1>1, <2>2, <2>3 DEF Fragments
  <2> QED
    BY <2>2, <2>4, RepairKept DEF FragmentInv
<1>5. \A i \in Inode : \A y \in Records(i)' : y.start <= y.end
  BY <1>1 DEF FragmentInv
<1> QED
  BY <1>3, <1>4, <1>5 DEF FragmentInv

LEMMA CallAnswers ==
  ASSUME NEW c \in Caller, Alone(c),
         \A e \in rejected' : e \in rejected \/ (InFlight(c) /\ e = request[c].event)
  PROVE  Answering
<1>1. ASSUME NEW d \in Caller, InFlight(d)' PROVE InFlight(d) /\ request'[d] = request[d]
  BY <1>1 DEF Alone, Only, InFlight
<1> QED
  BY <1>1 DEF Answering, Requested, Alone

LEMMA QuietFragments ==
  ASSUME BoundInv, FragmentInv, NEW c \in Caller, Quiet(c),
         pc[c] = "unlock" => request'[c].op # "write"
  PROVE  FragmentInv'
<1>1. Answering
  BY CallAnswers DEF Quiet
<1>2. SameLines
  BY DEF Quiet, SameShards, SameLines
<1>3. Alone(c) /\ pc[c] \in Admitted \ {"restore"} /\ pc'[c] # "restore"
  BY DEF Quiet
<1> QED
  BY <1>1, <1>2, <1>3, SteadyFragments

(* What a call that appends knows: nobody else repairs its shard, and no   *)
(* fragment there ends where the next line begins unless it is abandoned.  *)
LEMMA AppendingFragments ==
  ASSUME BoundInv, FragmentInv, NEW c \in Caller, pc[c] = "append", NEW i \in Inode, i = Handle(c)
  PROVE  /\ Same(c).currentSize = file[i].size /\ file[i].size \in Nat
         /\ \A d \in Caller : \A x : ~Repairing(d, i, x)
         /\ \A x \in Fragments(i) : Closed(i, x) \/ Abandoned(x.ev)
<1>1. pc[c] \in Appending
  BY DEF Appending
<1>2. ASSUME NEW d \in Caller, NEW x, Repairing(d, i, x) PROVE FALSE
  <2>1. pc[d] \in Appending /\ d # c /\ Handle(d) = i
    BY <1>2 DEF Repairing, Appending
  <2> QED
    BY <1>1, <2>1, OwnShard
<1>3. Same(c).currentSize = file[i].size /\ file[i].size \in Nat
  BY <1>1, AppendingFacts DEF BoundInv, CallBound, SizeKnown
<1> QED
  BY <1>2, <1>3 DEF FragmentInv, FragmentOK

(* Until its append has failed, there is no fragment of the event of a call. *)
LEMMA NoFragmentYet ==
  ASSUME FragmentInv, NEW c \in Caller, InFlight(c), ~Failing(c),
         NEW i \in Inode, NEW x \in Fragments(i)
  PROVE  x.ev # request[c].event
BY DEF FragmentInv, FragmentOK

LEMMA FailingKept ==
  ASSUME FragmentInv, NEW c \in Caller, Alone(c), Failing(c) /\ InFlight(c)' => Failing(c)',
         NEW d \in Caller, Failing(d), InFlight(d)'
  PROVE  Failing(d)'
BY DEF Alone, Only, Failing

(* A repair elsewhere knows what it knew. *)
LEMMA OtherRepairOK ==
  ASSUME BoundInv, FragmentInv, Answering, NEW c \in Caller, pc[c] \in Appending, Alone(c),
         \A j \in Inode \ {Handle(c)} : file'[j] = file[j],
         NEW d \in Caller, d # c
  PROVE  RepairOK(d)'
<1> SUFFICES ASSUME pc'[d] = "restore" PROVE RepairOK(d)'
  BY DEF RepairOK
<1>1. /\ pc[d] = "restore" /\ Same(d)' = Same(d) /\ Handle(d)' = Handle(d)
      /\ request'[d] = request[d]
  BY HandleFacts, OtherRepair DEF BoundInv
<1>2. PICK i \in Inode : i = Handle(d)
  BY <1>1, AppendingFacts DEF Appending
<1>3. i # Handle(c)
  BY <1>1, <1>2, OwnShard DEF Appending
<1>4. Fragments(Handle(d))' = Fragments(Handle(d))
  BY <1>1, <1>2, <1>3 DEF Fragments
<1> QED
  BY <1>1, <1>4, RepairKept DEF FragmentInv

(* Nor does a fragment elsewhere change. *)
LEMMA OtherFragments ==
  ASSUME BoundInv, FragmentInv, Answering, NEW c \in Caller, pc[c] \in Appending, Alone(c),
         Failing(c) /\ InFlight(c)' => Failing(c)',
         \A j \in Inode \ {Handle(c)} : file'[j] = file[j],
         NEW i \in Inode, i # Handle(c), NEW x \in Fragments(i)'
  PROVE  FragmentOK(i, x)'
<1>1. x \in Fragments(i) /\ file'[i] = file[i] /\ Records(i)' = Records(i)
  BY DEF Fragments, Records
<1>2. Closed(i, x) => Closed(i, x)'
  BY <1>1 DEF Closed
<1>3. \A d \in Caller : Repairing(d, i, x) => Repairing(d, i, x)'
  <2> SUFFICES ASSUME NEW d \in Caller, Repairing(d, i, x) PROVE Repairing(d, i, x)'
    OBVIOUS
  <2>1. d # c /\ pc[c] \in Admitted
    BY HandleFacts DEF Repairing, BoundInv
  <2> QED
    BY <2>1, OtherRepairing
<1> QED
  BY <1>1, <1>2, <1>3, FailingKept, FragmentKept

(* The record begins where no fragment ends that could be rejected.        *)
LEMMA AppendFragments ==
  ASSUME BoundInv, EventInv, FragmentInv, NEW c \in Caller, Append(c)
  PROVE  FragmentInv'
<1>1. /\ pc[c] = "append" /\ pc[c] \in Appending /\ Continue(c, "unlock", Same(c), Locals(c))
  BY DEF Append, Appending
<1>2. Alone(c) /\ pc'[c] = "unlock" /\ rejected' = rejected /\ ~Failing(c)
  BY <1>1, ContinueAlone DEF BoundInv, Failing
<1>3. Answering
  BY <1>2, CallAnswers
<1>4. PICK i, z :
        /\ i \in Inode
        /\ i = Handle(c) /\ z.kind = "record"
        /\ z.start = file[i].size /\ z.end = file[i].size + Line(c)
        /\ file'[i].data = file[i].data \cup {z} /\ file'[i].size = file[i].size + Line(c)
        /\ Records(i)' = Records(i) \cup {z}
        /\ \A j \in Inode \ {i} : file'[j] = file[j] /\ Records(j)' = Records(j)
  BY AppendRecords
<1>5. file[i].size \in Nat /\ Line(c) \in Nat
  BY <1>1, <1>4, AppendingFacts
<1>6. ASSUME NEW j \in Inode, NEW x \in Fragments(j)' PROVE FragmentOK(j, x)'
  <2>1. CASE j # i
    BY <1>1, <1>2, <1>3, <1>4, <1>6, <2>1, OtherFragments
  <2>2. CASE j = i
    <3>1. x \in Fragments(i)
      BY <1>4, <1>6, <2>2 DEF Fragments
    <3>2. \A d \in Caller : ~Repairing(d, i, x)
      BY <1>1, <1>4, AppendingFragments
    <3>3. Closed(i, x) => Closed(i, x)'
      <4>1. x.end \in Nat
        BY <1>4, <3>1 DEF Fragments, BoundInv, ExtentsWithin
      <4> QED
        BY <1>4, <1>5, <4>1 DEF Closed
    <3> QED
      BY <1>2, <1>3, <2>2, <3>1, <3>2, <3>3, FailingKept, FragmentKept
  <2> QED
    BY <2>1, <2>2
<1>7. ASSUME NEW d \in Caller PROVE RepairOK(d)'
  <2>1. CASE d = c
    BY <1>2, <2>1 DEF RepairOK
  <2>2. CASE d # c
    BY <1>1, <1>2, <1>3, <1>4, <2>2, OtherRepairOK
  <2> QED
    BY <2>1, <2>2
<1>8. \A j \in Inode : \A y \in Records(j)' : y.start <= y.end
  BY <1>4, <1>5 DEF FragmentInv
<1> QED
  BY <1>6, <1>7, <1>8 DEF FragmentInv

(* The fragment of an append that failed is repaired by the same call.     *)
LEMMA AppendFailsFragments ==
  ASSUME BoundInv, EventInv, FragmentInv, NEW c \in Caller, AppendFails(c)
  PROVE  FragmentInv'
<1> DEFINE locals == [Locals(c) EXCEPT !.failed = TRUE]
<1>1. pc[c] = "append" /\ pc[c] \in Appending /\ pc[c] \in Admitted /\ InFlight(c)
  BY HandleFacts, WriteFacts DEF AppendFails, Appending, Admitted, BoundInv, InFlight
<1>2. locals.failed
  BY AdmittedFacts DEF BoundInv, Progress
<1>3. \/ Continue(c, "unlock", Same(c), locals) /\ UNCHANGED file
      \/ /\ \E n \in 1 .. Line(c) - 1 : Extend(Handle(c), request[c].event, "fragment", n)
         /\ Continue(c, "restore", Same(c), locals)
  BY DEF AppendFails
<1> HIDE DEF locals
<1>4. PICK l \in {"unlock", "restore"} : Continue(c, l, Same(c), locals)
  BY <1>3
<1>5. /\ Alone(c) /\ pc'[c] = l /\ progress'[c] = locals /\ request' = request
      /\ rejected' = rejected /\ writer'[W(c)] = writer[W(c)] /\ ~Failing(c) /\ Failing(c)'
  BY <1>1, <1>2, <1>4, ContinueAlone DEF BoundInv, Same, Failing
<1>6. Answering /\ Same(c)' = Same(c) /\ Handle(c)' = Handle(c)
  BY <1>5, CallAnswers DEF Same, Handle, W
<1>7. CASE UNCHANGED file /\ l = "unlock"
  <2>1. SameLines
    BY <1>7 DEF SameLines
  <2> QED
    BY <1>1, <1>5, <1>6, <1>7, <2>1, SteadyFragments
<1>8. ASSUME NEW n \in 1 .. Line(c) - 1,
             Extend(Handle(c), request[c].event, "fragment", n), l = "restore"
      PROVE  FragmentInv'
  <2>1. PICK i \in Inode : i = Handle(c)
    BY <1>1, AppendingFacts
  <2>2. PICK z : /\ z.ev = request[c].event /\ z.kind = "fragment"
                 /\ z.start = file[i].size /\ z.end = file[i].size + n
                 /\ file'[i].data = file[i].data \cup {z}
    BY <1>8, <2>1, ExtendShard DEF BoundInv
  <2>3. file'[i].size = file[i].size + n /\ \A j \in Inode \ {i} : file'[j] = file[j]
    BY <1>8, <2>1, ExtendShard DEF BoundInv
  <2>4. Records(i)' = Records(i) /\ \A j \in Inode \ {i} : Records(j)' = Records(j)
    BY <2>2, <2>3 DEF Records
  <2>5. /\ file[i].size \in Nat /\ n \in Nat \ {0} /\ Same(c).currentSize = file[i].size
        /\ \A d \in Caller : \A x : ~Repairing(d, i, x)
        /\ \A x \in Fragments(i) : Closed(i, x) \/ Abandoned(x.ev)
    BY <1>1, <2>1, AppendingFacts, AppendingFragments
  <2>6. ASSUME NEW x \in Fragments(i) PROVE FragmentOK(i, x)'
    <3>1. x.end \in Nat
      BY <2>6 DEF Fragments, BoundInv, ExtentsWithin
    <3>2. Closed(i, x) => Closed(i, x)'
      BY <2>3, <2>4, <2>5, <3>1 DEF Closed
    <3> QED
      BY <1>5, <1>6, <2>5, <3>2, FailingKept, FragmentKept
  <2>7. FragmentOK(i, z)'
    <3>1. Known(z.ev)' /\ \A d \in Caller : InFlight(d)' /\ request'[d].event = z.ev => d = c
      BY <1>1, <1>5, <2>2, OwnEvent DEF Known, Alone, InFlight, BoundInv
    <3>2. z.end > Same(c).currentSize
      BY <2>2, <2>5
    <3>3. Repairing(c, i, z)'
      BY <1>5, <1>6, <1>8, <2>1, <2>2, <3>2 DEF Repairing
    <3> QED
      BY <1>5, <3>1, <3>3 DEF FragmentOK
  <2>8. ASSUME NEW j \in Inode, NEW x \in Fragments(j)' PROVE FragmentOK(j, x)'
    <3>1. CASE j # i
      BY <1>1, <1>5, <1>6, <2>1, <2>3, <2>8, <3>1, OtherFragments
    <3>2. CASE j = i
      <4>1. x = z \/ x \in Fragments(i)
        BY <2>2, <2>8, <3>2 DEF Fragments
      <4> QED
        BY <2>6, <2>7, <3>2, <4>1
    <3> QED
      BY <3>1, <3>2
  <2>9. RepairOK(c)'
    <3>1. ASSUME NEW x \in Fragments(i)'
          PROVE  x.end > Same(c).currentSize => x.ev = request[c].event
      <4>1. CASE x = z
        BY <2>2, <4>1
      <4>2. CASE x # z
        <5>1. x \in file[i].data
          BY <2>2, <3>1, <4>2 DEF Fragments
        <5>2. x.end \in Nat /\ x.end <= file[i].size
          BY <5>1 DEF BoundInv, ExtentsWithin
        <5> QED
          BY <2>5, <5>2
      <4> QED
        BY <4>1, <4>2
    <3>2. \A x \in Fragments(i)' : x.end # Same(c).currentSize \/ Abandoned(x.ev)'
      <4> SUFFICES ASSUME NEW x \in Fragments(i)', ~Abandoned(x.ev)'
                   PROVE  x.end # Same(c).currentSize
        OBVIOUS
      <4>1. CASE x = z
        BY <2>2, <2>5, <4>1
      <4>2. CASE x # z
        <5>1. x \in Fragments(i) /\ ~Abandoned(x.ev)
          BY <1>6, <2>2, <4>2, AbandonedKept DEF Fragments
        <5>2. x.end \in Nat /\ x.end < file[i].size
          BY <2>5, <5>1 DEF Closed, Fragments, BoundInv, ExtentsWithin
        <5> QED
          BY <2>5, <5>2
      <4> QED
        BY <4>1, <4>2
    <3>3. Fragments(Handle(c))' = Fragments(i)'
      BY <1>6, <2>1 DEF Fragments
    <3> QED
      BY <1>5, <1>6, <3>1, <3>2, <3>3 DEF RepairOK
  <2>10. ASSUME NEW d \in Caller PROVE RepairOK(d)'
    BY <1>1, <1>5, <1>6, <2>1, <2>3, <2>9, OtherRepairOK
  <2>11. \A j \in Inode : \A y \in Records(j)' : y.start <= y.end
    BY <2>4 DEF FragmentInv
  <2> QED
    BY <2>8, <2>10, <2>11 DEF FragmentInv
<1> QED
  BY <1>3, <1>4, <1>5, <1>7, <1>8, ContinueAlone DEF BoundInv

(* The fragment is cut off, and no other one ends at the cut; or a newline *)
(* closes it, and the next record begins behind that.                      *)
LEMMA RestoreFragments ==
  ASSUME BoundInv, EventInv, FragmentInv, "repair" \notin Faults, NEW c \in Caller,
         RestoreLineBoundary(c)
  PROVE  FragmentInv'
<1>1. /\ pc[c] = "restore" /\ pc[c] \in Appending
      /\ Continue(c, "unlock", Same(c), Locals(c))
  BY DEF RestoreLineBoundary, Appending
<1>2. /\ Alone(c) /\ pc'[c] = "unlock" /\ rejected' = rejected
      /\ Failing(c) => Failing(c)'
  BY <1>1, ContinueAlone DEF BoundInv, Failing, Locals
<1>3. Answering
  BY <1>2, CallAnswers
<1>4. PICK i \in Inode : i = Handle(c)
  BY <1>1, AppendingFacts
<1>5. /\ \A j \in Inode \ {i} : file'[j] = file[j]
      /\ \A j \in Inode : Records(j)' = Records(j)
  BY <1>4, RestoreRecords
<1>6. \A d \in Caller : \A x : Repairing(d, i, x) => d = c
  BY <1>1, <1>4, OwnShard DEF Repairing, Appending
<1>7. /\ Same(c).currentSize \in Nat /\ file[i].size \in Nat
      /\ \A x \in file[i].data : x.start \in Nat /\ x.end \in Nat /\ x.end <= file[i].size
      /\ \A y \in Records(i) : y.start <= y.end /\ y.end <= Same(c).currentSize
  <2>1. \A x \in file[i].data : x.start \in Nat /\ x.end \in Nat
    BY DEF BoundInv, TypeInv, TypeOK, DirTypeOK, Shard, Extent
  <2>2. \A x \in file[i].data : x.end <= file[i].size
    BY <1>1, <1>4, AppendingFacts DEF BoundInv, ExtentsWithin
  <2>3. \A y \in Records(i) : y.start <= y.end /\ y.end <= Same(c).currentSize
    BY <1>1, <1>4 DEF FragmentInv, EventInv, CallInvariant, CallRecords
  <2> QED
    BY <1>1, <1>4, <2>1, <2>2, <2>3, AppendingFacts
<1>8. ASSUME NEW x \in Fragments(i)' PROVE FragmentOK(i, x)'
  <2>1. CASE Truncate(Handle(c), Same(c).currentSize)
    <3>1. /\ file'[i].size = Same(c).currentSize
          /\ file'[i].data = {y \in file[i].data : y.end <= Same(c).currentSize}
      BY <1>4, <2>1, TruncateShard DEF BoundInv
    <3>2. x \in Fragments(i) /\ x.end \in Nat /\ x.end <= Same(c).currentSize
      BY <1>7, <1>8, <3>1 DEF Fragments
    <3>3. \A d \in Caller : ~Repairing(d, i, x)
      BY <1>6, <1>7, <3>2 DEF Repairing
    <3>4. x.end # Same(c).currentSize \/ Abandoned(x.ev)
      BY <1>1, <1>4, <3>2 DEF FragmentInv, RepairOK
    <3>5. FragmentOK(i, x)
      BY <3>2 DEF FragmentInv
    <3>6. CASE Abandoned(x.ev)
      <4>1. Known(x.ev)' /\ \A d \in Caller : InFlight(d)' /\ request'[d].event = x.ev => Failing(d)'
        BY <1>2, <1>3, <3>5, FailingKept DEF FragmentOK, Answering, Known
      <4> QED
        BY <1>3, <3>6, <4>1, AbandonedKept DEF FragmentOK
    <3>7. CASE ~Abandoned(x.ev)
      <4>1. Closed(i, x)'
        BY <1>5, <1>7, <3>1, <3>2, <3>3, <3>4, <3>5, <3>7 DEF FragmentOK, Closed
      <4> QED
        BY <1>2, <1>3, <3>2, <4>1, FailingKept, FragmentKept
    <3> QED
      BY <3>6, <3>7
  <2>2. ASSUME "truncate" \in Faults, Extend(Handle(c), request[c].event, "newline", 1)
        PROVE  FragmentOK(i, x)'
    <3>1. /\ file'[i].size = file[i].size + 1
          /\ \E z : z.kind = "newline" /\ file'[i].data = file[i].data \cup {z}
      BY <1>4, <2>2, ExtendShard DEF BoundInv
    <3>2. x \in Fragments(i) /\ x.end \in Nat /\ x.end <= file[i].size
      BY <1>7, <1>8, <3>1 DEF Fragments
    <3>3. Closed(i, x) => Closed(i, x)'
      BY <1>5, <1>7, <3>1, <3>2 DEF Closed
    <3>4. \A d \in Caller : Repairing(d, i, x) => Closed(i, x)'
      <4> SUFFICES ASSUME x.end > Same(c).currentSize PROVE Closed(i, x)'
        BY <1>6 DEF Repairing
      <4>1. \A y \in Records(i) : y.start \in Nat /\ y.start <= Same(c).currentSize
        <5> SUFFICES ASSUME NEW y \in Records(i)
                     PROVE  y.start \in Nat /\ y.start <= Same(c).currentSize
          OBVIOUS
        <5>1. y \in file[i].data
          BY DEF Records
        <5> QED
          BY <1>7, <5>1
      <4>2. x.end < file'[i].size
        BY <1>7, <3>1, <3>2
      <4>3. \A y \in Records(i)' : y.start # x.end
        BY <1>5, <1>7, <3>2, <4>1
      <4> QED
        BY <2>2, <4>2, <4>3 DEF Closed
    <3> QED
      BY <1>2, <1>3, <3>2, <3>3, <3>4, FailingKept, FragmentKept
  <2> QED
    BY <2>1, <2>2 DEF RestoreLineBoundary
<1>9. ASSUME NEW j \in Inode, NEW x \in Fragments(j)' PROVE FragmentOK(j, x)'
  BY <1>1, <1>2, <1>3, <1>4, <1>5, <1>8, <1>9, OtherFragments
<1>10. ASSUME NEW d \in Caller PROVE RepairOK(d)'
  <2>1. CASE d = c
    BY <1>2, <2>1 DEF RepairOK
  <2>2. CASE d # c
    BY <1>1, <1>2, <1>3, <1>4, <1>5, <2>2, OtherRepairOK
  <2> QED
    BY <2>1, <2>2
<1>11. \A j \in Inode : \A y \in Records(j)' : y.start <= y.end
  BY <1>5 DEF FragmentInv
<1> QED
  BY <1>9, <1>10, <1>11 DEF FragmentInv

LEMMA RotationFragments ==
  ASSUME BoundInv, EventInv, FragmentInv, NEW c \in Caller,
         \/ Discover(c) \/ ProbeFull(c) \/ OpenShard(c) \/ CreateShard(c)
         \/ ApplyRetention(c) \/ SweepOne(c) \/ SweepDone(c)
  PROVE  FragmentInv'
<1>1. pc[c] \in Admitted \ {"restore"} /\ pc[c] # "unlock"
  BY DEF Discover, ProbeFull, OpenShard, CreateShard, ApplyRetention, SweepOne, SweepDone,
         Admitted, Rotating
<1>2. \E l \in {"probe", "retain", "sweep", "dirUnlock"} : \E state, locals :
         Continue(c, l, state, locals)
  BY DEF Discover, ProbeFull, OpenShard, CreateShard, ApplyRetention, SweepOne, SweepDone,
         RotationFails
<1>3. Alone(c) /\ pc'[c] # "restore" /\ rejected' = rejected
  BY <1>2, ContinueAlone DEF BoundInv
<1>4. Answering
  BY <1>3, CallAnswers
<1>5. SameLines
  <2>1. CASE CreateShard(c)
    <3>1. /\ file'[fresh].data = {} /\ fresh \in Inode
          /\ \A i \in Inode \ {fresh} : file'[i] = file[i]
      BY <2>1 DEF CreateShard, Create, EmptyShard, BoundInv, TypeInv, TypeOK, DirTypeOK
    <3>2. file[fresh].data = {}
      BY <3>1, BoundAssumption DEF EventInv, Anchored, Inode
    <3> QED
      BY <3>1, <3>2 DEF SameLines
  <2>2. CASE ~CreateShard(c)
    <3>1. UNCHANGED file
      BY <2>2 DEF Discover, ProbeFull, OpenShard, ApplyRetention, SweepOne, SweepDone, dirVars
    <3> QED
      BY <3>1 DEF SameLines
  <2> QED
    BY <2>1, <2>2
<1> QED
  BY <1>1, <1>3, <1>4, <1>5, SteadyFragments

(* A step outside of the gate, or of the environment, that changes no      *)
(* shard and leaves the calls past the gate alone.                         *)
LEMMA OutsideFragments ==
  ASSUME BoundInv, FragmentInv, UNCHANGED <<file, writer, progress>>,
         \A d \in Caller : pc[d] = "restore" <=> pc'[d] = "restore",
         \A d \in Caller : pc[d] \in {"restore", "unlock"} =>
            pc'[d] = pc[d] /\ request'[d] = request[d],
         \A e \in Event : Known(e) => Known(e)',
         \A d \in Caller : InFlight(d)' =>
            \/ InFlight(d) /\ request'[d] = request[d]
            \/ ~Known(request'[d].event),
         \A e \in rejected' : e \in rejected \/
            \E d \in Caller : InFlight(d) /\ ~Failing(d) /\ request[d].event = e
  PROVE  FragmentInv'
<1>1. \A i \in Inode : Fragments(i)' = Fragments(i) /\ Records(i)' = Records(i)
  BY DEF Fragments, Records
<1>2. \A d \in Caller : Failing(d) => Failing(d)'
  BY DEF Failing
<1>3. ASSUME NEW e, Known(e), Abandoned(e) PROVE Abandoned(e)'
  BY <1>3 DEF Abandoned, Requested
<1>4. ASSUME NEW i \in Inode, NEW x \in Fragments(i) PROVE FragmentOK(i, x)'
  <2>1. FragmentOK(i, x)
    BY DEF FragmentInv
  <2>2. Known(x.ev)' /\ \A d \in Caller : InFlight(d)' /\ request'[d].event = x.ev => Failing(d)'
    <3>1. x.ev \in Event
      BY DEF Fragments, BoundInv, TypeInv, TypeOK, DirTypeOK, Shard, Extent
    <3> QED
      BY <1>2, <2>1, <3>1 DEF FragmentOK
  <2>3. Closed(i, x) => Closed(i, x)'
    BY <1>1 DEF Closed
  <2>4. \A d \in Caller : Repairing(d, i, x) => Repairing(d, i, x)'
    BY DEF Repairing, Handle, Same, W
  <2> QED
    BY <1>3, <2>1, <2>2, <2>3, <2>4 DEF FragmentOK
<1>5. ASSUME NEW d \in Caller PROVE RepairOK(d)'
  <2> SUFFICES ASSUME pc'[d] = "restore", NEW x \in Fragments(Handle(d))'
               PROVE  /\ x.end # Same(d)'.currentSize \/ Abandoned(x.ev)'
                      /\ x.end > Same(d)'.currentSize => x.ev = request'[d].event
    BY DEF RepairOK
  <2>1. Same(d)' = Same(d) /\ Handle(d)' = Handle(d) /\ Fragments(Handle(d))' = Fragments(Handle(d))
    BY DEF Same, Handle, W, Fragments
  <2>2. pc[d] = "restore" /\ Handle(d) \in Inode /\ request'[d] = request[d]
    BY AppendingFacts DEF Appending
  <2>3. x \in Fragments(Handle(d)) /\ Known(x.ev)
    BY <2>1, <2>2 DEF FragmentInv, FragmentOK
  <2>4. /\ x.end # Same(d).currentSize \/ Abandoned(x.ev)
        /\ x.end > Same(d).currentSize => x.ev = request[d].event
    BY <2>2, <2>3 DEF FragmentInv, RepairOK
  <2> QED
    BY <1>3, <2>1, <2>2, <2>3, <2>4
<1>6. \A i \in Inode : \A y \in Records(i)' : y.start <= y.end
  BY <1>1 DEF FragmentInv
<1> QED
  BY <1>1, <1>4, <1>5, <1>6 DEF FragmentInv

(* An event that is new has no fragment yet. *)
LEMMA GateFragments ==
  ASSUME BoundInv, EventInv, FragmentInv,
         \/ \E c \in Caller : \/ \E n \in RecordSizes : Submit(c, n)
                              \/ CallFlush(c) \/ CallClose(c) \/ AcquireGate(c) \/ AbandonGate(c)
         \/ Midnight \/ RemoveDirectory \/ UNCHANGED vars
  PROVE  FragmentInv'
<1>1. ASSUME NEW c \in Caller,
             \/ \E n \in RecordSizes : Submit(c, n)
             \/ CallFlush(c) \/ CallClose(c) \/ AcquireGate(c) \/ AbandonGate(c)
      PROVE  FragmentInv'
  <2>1. /\ UNCHANGED <<file, writer, progress>>
        /\ pc[c] \in {"idle", "gate"} /\ pc'[c] \in {"idle", "gate", "admitted"}
        /\ \A d \in Caller \ {c} : pc'[d] = pc[d] /\ request'[d] = request[d]
    BY <1>1 DEF Submit, CallFlush, CallClose, Call, AcquireGate, AbandonGate, Goto, dirVars,
                BoundInv, TypeInv, TypeOK
  <2>2. sequence[c] \in Nat
    BY EnvironmentAssumption DEF BoundInv, TypeInv, TypeOK
  <2>3. \A e \in Event : Known(e) => Known(e)'
    <3>1. sequence' = sequence \/ sequence' = [sequence EXCEPT ![c] = sequence[c] + 1]
      BY <1>1 DEF Submit, CallFlush, CallClose, AcquireGate, AbandonGate
    <3> SUFFICES ASSUME NEW e \in Event, Known(e) PROVE Known(e)'
      OBVIOUS
    <3>2. e.caller \in Caller /\ e.sequence \in Nat /\ sequence[e.caller] \in Nat
      BY EnvironmentAssumption DEF Event, BoundInv, TypeInv, TypeOK
    <3>3. sequence'[e.caller] = sequence[e.caller] \/ sequence'[e.caller] = sequence[e.caller] + 1
      BY <3>1, <3>2 DEF BoundInv, TypeInv, TypeOK
    <3> QED
      BY <3>2, <3>3 DEF Known
  <2>4. InFlight(c)' => \/ InFlight(c) /\ request'[c] = request[c]
                        \/ ~Known(request'[c].event)
    <3>1. ASSUME NEW n \in RecordSizes, Submit(c, n) PROVE ~Known(request'[c].event)
      <4>1. request'[c].event.caller = c /\ request'[c].event.sequence = sequence[c] + 1
        BY <3>1 DEF Submit, Call, BoundInv, TypeInv, TypeOK
      <4> QED
        BY <2>2, <4>1 DEF Known
    <3>2. CASE CallFlush(c) \/ CallClose(c) \/ AcquireGate(c) \/ AbandonGate(c)
      BY <3>2 DEF CallFlush, CallClose, Call, AcquireGate, AbandonGate, InFlight, NoRequest,
                  BoundInv, TypeInv, TypeOK
    <3> QED
      BY <1>1, <3>1, <3>2
  <2>5. \A d \in Caller : InFlight(d)' => \/ InFlight(d) /\ request'[d] = request[d]
                                         \/ ~Known(request'[d].event)
    BY <2>1, <2>4 DEF InFlight
  <2>6. \A e \in rejected' : e \in rejected \/ (InFlight(c) /\ request[c].event = e)
    BY <1>1 DEF Submit, CallFlush, CallClose, Call, AcquireGate, AbandonGate, InFlight
  <2>7. ~Failing(c)
    BY <2>1 DEF Failing
  <2>8. \A e \in rejected' : e \in rejected \/
          \E d \in Caller : InFlight(d) /\ ~Failing(d) /\ request[d].event = e
    BY <2>6, <2>7
  <2>9. \A d \in Caller : /\ pc[d] = "restore" <=> pc'[d] = "restore"
                         /\ pc[d] \in {"restore", "unlock"} =>
                              pc'[d] = pc[d] /\ request'[d] = request[d]
    BY <2>1
  <2> QED
    BY <2>1, <2>3, <2>5, <2>8, <2>9, OutsideFragments
<1>2. CASE Midnight \/ RemoveDirectory \/ UNCHANGED vars
  <2>1. UNCHANGED <<file, writer, progress, pc, request, sequence, rejected>>
    BY <1>2 DEF Midnight, RemoveDirectory, vars, dirVars, callVars
  <2>2. /\ \A e \in Event : Known(e) => Known(e)'
        /\ \A d \in Caller : InFlight(d)' => InFlight(d) /\ request'[d] = request[d]
    BY <2>1 DEF Known, InFlight
  <2> QED
    BY <2>1, <2>2, OutsideFragments
<1> QED
  BY <1>1, <1>2

(* What a crash leaves unfinished is abandoned: nobody answers for it.     *)
LEMMA CrashFragments ==
  ASSUME BoundInv, EventInv, FragmentInv, NEW w \in Writer, Crash(w)
  PROVE  FragmentInv'
<1>1. /\ \A d \in Caller : W(d) = w => ~InFlight(d)' /\ pc'[d] = "idle"
      /\ \A d \in Caller : W(d) # w =>
            /\ pc'[d] = pc[d] /\ request'[d] = request[d] /\ progress'[d] = progress[d]
            /\ writer'[W(d)] = writer[W(d)]
      /\ UNCHANGED <<sequence, rejected>>
  BY WriterOfCaller DEF Crash, NoRequest, InFlight, BoundInv, TypeInv, TypeOK
<1>2. Answering
  BY <1>1 DEF Answering, InFlight
<1>3. \A d \in Caller : Failing(d) /\ InFlight(d)' => Failing(d)'
  BY <1>1 DEF Failing
<1>4. \A d \in Caller : W(d) # w => Same(d)' = Same(d) /\ Handle(d)' = Handle(d)
  BY <1>1 DEF Same, Handle, W
<1>5. ASSUME NEW d \in Caller, InFlight(d), W(d) = w, NEW e, request[d].event = e
      PROVE  Abandoned(e)'
  <2>1. e \notin rejected
    BY <1>5 DEF EventInv, RejectedEvent
  <2>2. \A b \in Caller : InFlight(b)' => request'[b].event # e
    BY <1>1, <1>2, <1>5, OwnEvent DEF Answering, BoundInv
  <2> QED
    BY <1>1, <2>1, <2>2 DEF Abandoned, Requested
<1>6. ASSUME NEW i \in Inode, NEW x \in Fragments(i), Records(i)' = Records(i),
             NEW n \in Nat, file'[i].size = file[i].size + n
      PROVE  FragmentOK(i, x)'
  <2>1. x.end \in Nat /\ file[i].size \in Nat
    BY DEF Fragments, BoundInv, TypeInv, TypeOK, DirTypeOK, Shard, Extent
  <2>2. Closed(i, x) => Closed(i, x)'
    BY <1>6, <2>1 DEF Closed
  <2>3. ASSUME NEW d \in Caller, Repairing(d, i, x)
        PROVE  Repairing(d, i, x)' \/ Abandoned(x.ev)'
    <3>1. CASE W(d) = w
      <4>1. InFlight(d) /\ request[d].event = x.ev
        BY <2>3, WriteFacts DEF Repairing, InFlight, BoundInv, Writing, Admitted, Appending
      <4> QED
        BY <1>5, <3>1, <4>1
    <3>2. CASE W(d) # w
      BY <1>1, <1>4, <2>3, <3>2 DEF Repairing
    <3> QED
      BY <3>1, <3>2
  <2> QED
    BY <1>2, <1>3, <2>2, <2>3, FragmentKept
<1>7. ASSUME NEW d \in Caller, pc'[d] = "restore",
             \A i \in Inode : i = Handle(d) => Fragments(i)' = Fragments(i)
      PROVE  RepairOK(d)'
  <2>1. /\ pc[d] = "restore" /\ Same(d)' = Same(d) /\ Handle(d)' = Handle(d)
        /\ request'[d] = request[d]
    BY <1>1, <1>4, <1>7
  <2>2. PICK i \in Inode : i = Handle(d)
    BY <2>1, AppendingFacts DEF Appending
  <2>3. Fragments(Handle(d))' = Fragments(i)'
    BY <2>1, <2>2 DEF Fragments
  <2>4. Fragments(Handle(d))' = Fragments(Handle(d))
    BY <1>7, <2>2, <2>3
  <2> QED
    BY <1>2, <2>1, <2>4, RepairKept DEF FragmentInv
<1>8. CASE UNCHANGED file
  <2>1. ASSUME NEW i \in Inode
        PROVE  /\ Fragments(i)' = Fragments(i) /\ Records(i)' = Records(i)
               /\ file'[i].size = file[i].size + 0
    BY <1>8 DEF Fragments, Records, BoundInv, TypeInv, TypeOK, DirTypeOK, Shard
  <2>2. ASSUME NEW i \in Inode, NEW x \in Fragments(i)' PROVE FragmentOK(i, x)'
    BY <1>6, <2>1, <2>2
  <2>3. \A d \in Caller : RepairOK(d)'
    BY <1>7, <2>1 DEF RepairOK
  <2>4. \A i \in Inode : \A y \in Records(i)' : y.start <= y.end
    BY <2>1 DEF FragmentInv
  <2> QED
    BY <2>2, <2>3, <2>4 DEF FragmentInv
<1>9. ASSUME NEW c \in Caller, W(c) = w, pc[c] = "append", NEW n \in 1 .. Line(c) - 1,
             Extend(Handle(c), request[c].event, "fragment", n)
      PROVE  FragmentInv'
  <2>1. pc[c] \in Appending /\ InFlight(c)
    BY <1>9, WriteFacts DEF Appending, InFlight, BoundInv, Writing, Admitted
  <2>2. PICK k \in Inode : k = Handle(c)
    BY <2>1, AppendingFacts
  <2>3. PICK z : /\ z.ev = request[c].event /\ z.kind = "fragment"
                 /\ file'[k].data = file[k].data \cup {z}
    BY <1>9, <2>2, ExtendShard DEF BoundInv
  <2>4. /\ file'[k].size = file[k].size + n /\ n \in Nat
        /\ \A j \in Inode \ {k} : file'[j] = file[j]
    BY <1>9, <2>1, <2>2, ExtendShard, AppendingFacts DEF BoundInv
  <2>5. \A j \in Inode : Records(j)' = Records(j)
    BY <2>3, <2>4 DEF Records
  <2>6. \A j \in Inode \ {k} : Fragments(j)' = Fragments(j)
    BY <2>4 DEF Fragments
  <2>7. Known(z.ev)' /\ Abandoned(z.ev)'
    BY <1>1, <1>5, <1>9, <2>1, <2>3, OwnEvent DEF Known, BoundInv
  <2>8. FragmentOK(k, z)'
    BY <2>7 DEF FragmentOK, Abandoned, Requested
  <2>9. ASSUME NEW i \in Inode, NEW x \in Fragments(i)' PROVE FragmentOK(i, x)'
    <3>1. CASE i = k /\ x = z
      BY <2>8, <3>1
    <3>2. CASE i = k /\ x # z
      <4>1. x \in Fragments(k)
        BY <2>3, <2>9, <3>2 DEF Fragments
      <4> QED
        BY <1>6, <2>4, <2>5, <3>2, <4>1
    <3>3. CASE i # k
      <4>1. x \in Fragments(i) /\ file'[i].size = file[i].size + 0
        BY <2>4, <2>6, <2>9, <3>3 DEF BoundInv, TypeInv, TypeOK, DirTypeOK, Shard
      <4> QED
        BY <1>6, <2>5, <4>1
    <3> QED
      BY <3>1, <3>2, <3>3
  <2>10. ASSUME NEW d \in Caller PROVE RepairOK(d)'
    <3> SUFFICES ASSUME pc'[d] = "restore" PROVE RepairOK(d)'
      BY DEF RepairOK
    <3>1. d # c /\ pc[d] \in Appending
      BY <1>1, <1>9 DEF Appending
    <3>2. Handle(d) # k
      BY <2>1, <2>2, <3>1, OwnShard
    <3> QED
      BY <1>7, <2>6, <3>2
  <2>11. \A i \in Inode : \A y \in Records(i)' : y.start <= y.end
    BY <2>5 DEF FragmentInv
  <2> QED
    BY <2>9, <2>10, <2>11 DEF FragmentInv
<1> QED
  BY <1>8, <1>9 DEF Crash

LEMMA InitFragments == Init => FragmentInv
BY DEF Init, DirInit, EmptyShard, FragmentInv, Fragments, Records, RepairOK

LEMMA NextFragments ==
  ASSUME "repair" \notin Faults
  PROVE  BoundInv /\ EventInv /\ FragmentInv /\ [Next]_vars => FragmentInv'
<1> SUFFICES ASSUME BoundInv, EventInv, FragmentInv, [Next]_vars PROVE FragmentInv'
  OBVIOUS
<1>1. ASSUME NEW c \in Caller, CallerStep(c) \/ LockTimeout(c) PROVE FragmentInv'
  <2>1. CASE \/ FlushActive(c) \/ CloseWriter(c) \/ RejectClosed(c) \/ EnsureDirectory(c)
             \/ DirectoryFails(c) \/ OpenLockFile(c) \/ TryDirLock(c) \/ TryShardLock(c)
             \/ LockRetry(c) \/ LockTimeout(c) \/ LockFails(c)
    <3>1. pc[c] # "unlock"
      BY <2>1 DEF FlushActive, CloseWriter, RejectClosed, EnsureDirectory, DirectoryFails,
                  OpenLockFile, TryDirLock, TryShardLock, LockRetry, LockTimeout, LockFails
    <3>2. Quiet(c)
      BY <2>1, EarlyModest DEF Modest
    <3> QED
      BY <3>1, <3>2, QuietFragments
  <2>2. CASE OpenFails(c) \/ UnlockDirectory(c) \/ StatShard(c) \/ StatFails(c) \/ UnlockShard(c)
    <3>1. Quiet(c)
      BY <2>2, LateModest DEF Modest
    <3>2. pc[c] = "unlock" => request'[c].op # "write"
      <4> SUFFICES ASSUME pc[c] = "unlock" PROVE request'[c].op # "write"
        OBVIOUS
      <4>1. \E state, ok : Return(c, state, ok)
        BY <2>2 DEF OpenFails, UnlockDirectory, StatShard, StatFails, UnlockShard
      <4> QED
        BY <4>1 DEF Return, NoRequest, BoundInv, TypeInv, TypeOK
    <3> QED
      BY <3>1, <3>2, QuietFragments
  <2>3. CASE \/ Discover(c) \/ ProbeFull(c) \/ OpenShard(c) \/ CreateShard(c)
             \/ ApplyRetention(c) \/ SweepOne(c) \/ SweepDone(c)
    BY <2>3, RotationFragments
  <2>4. CASE Append(c) \/ AppendFails(c) \/ RestoreLineBoundary(c)
    BY <2>4, AppendFragments, AppendFailsFragments, RestoreFragments
  <2> QED
    BY <1>1, <2>1, <2>2, <2>3, <2>4 DEF CallerStep
<1> QED
  BY <1>1, GateFragments, CrashFragments DEF Next

(* The event of a repair is still in flight, and nobody has rejected it.   *)
LEMMA RepairingEvent ==
  ASSUME BoundInv, EventInv, NEW c \in Caller, NEW i, NEW x, Repairing(c, i, x)
  PROVE  InFlight(c) /\ request[c].event = x.ev /\ x.ev \notin rejected
<1>1. InFlight(c) /\ request[c].event = x.ev
  BY WriteFacts DEF Repairing, InFlight, BoundInv, Writing, Admitted, Appending
<1> QED
  BY <1>1 DEF EventInv, RejectedEvent

(* A fragment is of an event in flight, or of one that was not rejected,   *)
(* where every torn line can be cut off.                                   *)
LEMMA UnansweredFragment ==
  ASSUME BoundInv, EventInv, FragmentInv, "truncate" \notin Faults,
         NEW i \in Inode, NEW x \in Fragments(i)
  PROVE  x.ev \notin rejected
<1>1. Abandoned(x.ev) \/ \E c \in Caller : Repairing(c, i, x)
  BY DEF FragmentInv, FragmentOK, Closed
<1>2. CASE Abandoned(x.ev)
  BY <1>2 DEF Abandoned
<1>3. ASSUME NEW c \in Caller, Repairing(c, i, x) PROVE x.ev \notin rejected
  BY <1>3, RepairingEvent
<1> QED
  BY <1>1, <1>2, <1>3

(* Unless the repair of a torn line fails too, no record starts where the  *)
(* fragment of a rejected event ends: the line that died half-way is cut   *)
(* off or closed before the lock on the shard is given up, whatever other  *)
(* processes append, tear or leave behind when they die.                   *)
THEOREM LinesStayIntact ==
  ASSUME "repair" \notin Faults
  PROVE  Spec => []LinesIntact
<1>1. BoundInv /\ EventInv /\ FragmentInv => LinesIntact
  <2> SUFFICES ASSUME BoundInv, EventInv, FragmentInv, NEW i \in Inode,
                      NEW x \in Fragments(i), NEW y \in Records(i), x.end = y.start
               PROVE  x.ev \notin rejected
    BY DEF LinesIntact, Fragments, Records
  <2>1. FragmentOK(i, x) /\ ~Closed(i, x)
    BY DEF FragmentInv, Closed
  <2>2. CASE Abandoned(x.ev)
    BY <2>2 DEF Abandoned
  <2>3. ASSUME NEW c \in Caller, Repairing(c, i, x) PROVE x.ev \notin rejected
    BY <2>3, RepairingEvent
  <2> QED
    BY <2>1, <2>2, <2>3 DEF FragmentOK
<1>2. BoundInv /\ EventInv /\ FragmentInv /\ [Next]_vars => FragmentInv'
  BY NextFragments
<1> QED
  BY <1>1, <1>2, InitFragments, EventInvariant, PTL DEF Spec

(* Unless an unlock fails, or a torn line cannot be cut off, an event that *)
(* Write returned an error for cannot be read from any shard: neither its  *)
(* line nor one that lost nothing but its newline is left, and the number  *)
(* that the trace counts as dropped never turns up.                        *)
THEOREM RejectedStaysOut ==
  ASSUME "unlock" \notin Faults, "truncate" \notin Faults, "repair" \notin Faults
  PROVE  Spec => []RejectedNotRecorded
<1>1. BoundInv /\ EventInv /\ FragmentInv => RejectedNotRecorded
  <2> SUFFICES ASSUME BoundInv, EventInv, FragmentInv, NEW i \in Inode, NEW x \in Readable(i)
               PROVE  x.ev \notin rejected
    BY DEF RejectedNotRecorded
  <2>1. CASE x \in Records(i)
    BY <2>1 DEF EventInv, ShardRecords, Recordable
  <2>2. CASE x \in Fragments(i)
    BY <2>2, UnansweredFragment
  <2> QED
    BY <2>1, <2>2 DEF Readable, LacksNewline, Fragments
<1>2. BoundInv /\ EventInv /\ FragmentInv /\ [Next]_vars => FragmentInv'
  BY NextFragments
<1> QED
  BY <1>1, <1>2, InitFragments, EventInvariant, PTL DEF Spec

=============================================================================
