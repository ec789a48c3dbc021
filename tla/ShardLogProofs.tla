--------------------------- MODULE ShardLogProofs ---------------------------
(***************************************************************************)
(* The writers implement the event log: every step of the writers and      *)
(* their environment records, acknowledges or rejects one event, lets      *)
(* events expire, or changes nothing that the log knows of.                *)
(*                                                                         *)
(* What can be read from the directory is in the log, a line that lost     *)
(* nothing but its newline too, unless its call is still taking it back.   *)
(* A process that dies meanwhile thereby records the event.                *)
(*                                                                         *)
(* Some of the faults break the promise and are excluded: an unlock that   *)
(* fails after the line was written, a repair that cannot cut a torn line  *)
(* off, and the removal of the directory.                                  *)
(***************************************************************************)
EXTENDS ShardOrderProofs

(* What a call was asked to write was submitted at most a day ago. *)
SubmittedInv ==
    \A c \in Caller : InFlight(c) =>
        request[c].event \in Submittable /\ request[c].event.date >= today - 1

(* A trace gives its number to one event only. *)
NumberInv ==
    \A i \in Inode : \A x \in Readable(i) : \A c \in Caller :
        InFlight(c) /\ x.ev.caller = c /\ x.ev.sequence = sequence[c] => x.ev = request[c].event

LogInv == BoundInv /\ EventInv /\ FragmentInv /\ SubmittedInv /\ NumberInv

Promised ==
    /\ "unlock" \notin Faults /\ "rmdir" \notin Faults
    /\ "truncate" \notin Faults /\ "repair" \notin Faults

Simulated == SubmittedInv' /\ NumberInv' /\ [Log!LogNext]_(Log!logVars)

LEMMA RecordedWhere ==
  \A e : e \in Recorded <=>
            e \notin UnderRepair /\ \E i \in linked : \E x \in Readable(i) : x.ev = e
BY DEF Recorded

LEMMA ReadableLine ==
  ASSUME BoundInv, EventInv, FragmentInv, NEW i \in Inode, NEW x \in Readable(i)
  PROVE  /\ x \in Records(i) \/ x \in Fragments(i)
         /\ x.ev \in Event /\ Known(x.ev) /\ x.ev.date = file[i].date
<1>1. /\ x \in Records(i) \/ x \in Fragments(i)
      /\ x \in file[i].data
  BY DEF Readable, Records, LacksNewline, Fragments
<1>2. x.ev \in Event
  BY <1>1 DEF BoundInv, TypeInv, TypeOK, DirTypeOK, Shard, Extent
<1>3. Known(x.ev)
  BY <1>1 DEF EventInv, ShardRecords, Recordable, FragmentInv, FragmentOK
<1> QED
  BY <1>1, <1>2, <1>3 DEF EventInv, ShardRecords

(* A call that neither begins nor ends a repair. *)
LEMMA SameRepairs ==
  ASSUME \A d \in Caller : /\ pc[d] = "restore" <=> pc'[d] = "restore"
                           /\ pc[d] = "restore" => request'[d] = request[d]
  PROVE  UnderRepair' = UnderRepair
BY DEF UnderRepair

-----------------------------------------------------------------------------
(* Steps that submit nothing.                                              *)

RequestsKept ==
    /\ \A c \in Caller : InFlight(c)' => InFlight(c) /\ request'[c] = request[c]
    /\ UNCHANGED <<sequence, today>>

LEMMA RequestsInv ==
  ASSUME SubmittedInv, NumberInv, RequestsKept,
         \A i \in Inode : \A x \in Readable(i)' : x \in Readable(i)
  PROVE  SubmittedInv' /\ NumberInv'
<1>1. SubmittedInv'
  BY DEF SubmittedInv, RequestsKept
<1>2. NumberInv'
  BY DEF NumberInv, RequestsKept
<1> QED
  BY <1>1, <1>2

LEMMA SilentStep ==
  ASSUME LogInv, RequestsKept, UNCHANGED <<linked, acked, rejected>>,
         UnderRepair' = UnderRepair, \A i \in Inode : Readable(i)' = Readable(i)
  PROVE  Simulated
<1>1. SubmittedInv' /\ NumberInv'
  BY RequestsInv DEF LogInv
<1>2. linked \subseteq Inode
  BY LinkedShard DEF LogInv, BoundInv, TypeInv
<1>3. Recorded' = Recorded
  BY <1>2 DEF Recorded
<1> QED
  BY <1>1, <1>3 DEF Simulated, Log!logVars, RequestsKept

LEMMA ReturnRequests ==
  ASSUME TypeInv, NEW c \in Caller, NEW state, NEW ok, Return(c, state, ok)
  PROVE  RequestsKept /\ request'[c].op # "write"
<1>1. request' = [request EXCEPT ![c] = NoRequest] /\ UNCHANGED <<sequence, today>>
  BY DEF Return
<1>2. request'[c] = NoRequest /\ \A d \in Caller \ {c} : request'[d] = request[d]
  BY <1>1 DEF TypeInv, TypeOK
<1> QED
  BY <1>1, <1>2 DEF RequestsKept, InFlight, NoRequest

(* The shard a call appends to is in the directory: it is too young to     *)
(* have expired.                                                           *)
LEMMA ActiveLinked ==
  ASSUME LogInv, Promised, NEW c \in Caller, pc[c] \in Appending
  PROVE  Handle(c) \in linked
<1>1. /\ file[Handle(c)].date = request[c].event.date
      /\ Handle(c) < fresh /\ Handle(c) \in Inode
  BY AppendedDate, AppendingFacts DEF LogInv
<1>2. InFlight(c)
  BY HandleFacts, WriteFacts DEF LogInv, BoundInv, InFlight
<1>3. request[c].event.date >= today - 1 /\ request[c].event.date \in Int
  BY <1>2, WriteFacts DEF LogInv, SubmittedInv, BoundInv, Date, Day, InFlight
<1>4. ~(RetentionDays > 0 /\ Expirable(file[Handle(c)].date))
  <2>1. today \in Int /\ RetentionDays \in Nat
    BY EnvironmentAssumption DEF LogInv, BoundInv, TypeInv, TypeOK, Day
  <2> QED
    BY <1>1, <1>3, <2>1 DEF Expirable
<1>5. ~(Handle(c) >= fresh)
  BY <1>1, BoundAssumption DEF LogInv, BoundInv, TypeInv, TypeOK, DirTypeOK, Inode
<1> QED
  BY <1>1, <1>4, <1>5 DEF LogInv, EventInv, Anchored, Promised

(* An event in flight was neither acknowledged nor rejected, and before    *)
(* its call wrote it there is no line of it but one that the call repairs. *)
LEMMA OpenEvent ==
  ASSUME LogInv, Promised, NEW c \in Caller, InFlight(c), ~Written(c)
  PROVE  /\ request[c].event \notin Recorded
         /\ request[c].event \notin acked
         /\ request[c].event \notin rejected
         /\ request[c].event \in Submittable
<1>1. \A d \in Caller : InFlight(d) /\ request[d].event = request[c].event => d = c
  BY OwnEvent DEF LogInv, BoundInv
<1>2. \A i \in Inode : \A x \in Records(i) : x.ev # request[c].event
  BY DEF LogInv, EventInv, ShardRecords, Recordable
<1>3. ASSUME NEW i \in Inode, NEW x \in Fragments(i), x.ev = request[c].event
      PROVE  request[c].event \in UnderRepair
  <2>1. ~Abandoned(x.ev)
    BY <1>3 DEF Abandoned, Requested
  <2>2. PICK d \in Caller : Repairing(d, i, x)
    BY <2>1 DEF LogInv, FragmentInv, FragmentOK, Closed, Promised
  <2> QED
    BY <1>3, <2>2 DEF Repairing, UnderRepair
<1>4. request[c].event \notin acked
  BY <1>2 DEF LogInv, EventInv, AckedEvent
<1>5. request[c].event \notin rejected
  BY DEF LogInv, EventInv, RejectedEvent
<1>6. \A i \in linked : i \in Inode
  BY LinkedShard DEF LogInv, BoundInv, TypeInv
<1>7. request[c].event \notin Recorded
  BY <1>2, <1>3, <1>6, RecordedWhere, ReadableLine DEF LogInv
<1> QED
  BY <1>4, <1>5, <1>7 DEF LogInv, SubmittedInv

(* A trace gives its numbers in order. *)
LEMMA LastNumber ==
  ASSUME LogInv, NEW c \in Caller, InFlight(c), request[c].event \notin Recorded,
         NEW f \in Recorded, f.caller = request[c].event.caller
  PROVE  f.sequence < request[c].event.sequence
<1>1. PICK j \in linked : \E y \in Readable(j) : y.ev = f
  BY RecordedWhere
<1>2. PICK y \in Readable(j) : y.ev = f
  BY <1>1
<1>3. j \in Inode
  BY LinkedShard DEF LogInv, BoundInv, TypeInv
<1>4. f \in Event /\ Known(f) /\ f # request[c].event
  BY <1>2, <1>3, ReadableLine DEF LogInv
<1>5. request[c].event.caller = c /\ request[c].event.sequence = sequence[c]
  BY DEF LogInv, EventInv, CallInvariant, CallEvent
<1>6. f.sequence <= sequence[c] /\ f.sequence # sequence[c]
  BY <1>2, <1>3, <1>4, <1>5 DEF Known, LogInv, NumberInv
<1>7. sequence[c] \in Nat /\ f.sequence \in Nat
  BY <1>4, EnvironmentAssumption DEF Event, LogInv, BoundInv, TypeInv, TypeOK
<1> QED
  BY <1>5, <1>6, <1>7

(* A step that adds or removes lines of one event in flight only, or ends  *)
(* its repair, records it or leaves the log as it is.                      *)
LEMMA OwnEventSimulated ==
  ASSUME LogInv, Promised, NEW c \in Caller, InFlight(c), ~Written(c), RequestsKept,
         UNCHANGED <<linked, acked, rejected>>, NEW e, e = request[c].event,
         \A i \in Inode : \A x \in Readable(i)' : x \in Readable(i) \/ x.ev = e,
         \A i \in Inode : \A x \in Readable(i) : x \in Readable(i)' \/ x.ev = e,
         \A f : f # e => (f \in UnderRepair' <=> f \in UnderRepair)
  PROVE  Simulated
<1>1. /\ e \notin Recorded /\ e \notin acked /\ e \notin rejected /\ e \in Submittable
  BY OpenEvent
<1>2. linked \subseteq Inode
  BY LinkedShard DEF LogInv, BoundInv, TypeInv
<1>3. \A f : f \in Recorded' <=>
            f \notin UnderRepair' /\ \E i \in linked : \E x \in Readable(i)' : x.ev = f
  BY DEF Recorded
<1>4. \A f : f # e => (f \in Recorded' <=> f \in Recorded)
  BY <1>2, <1>3, RecordedWhere
<1>5. SubmittedInv'
  BY DEF LogInv, SubmittedInv, RequestsKept
<1>6. NumberInv'
  <2> SUFFICES ASSUME NEW j \in Inode, NEW y \in Readable(j)', NEW d \in Caller, InFlight(d)',
                      y.ev.caller = d, y.ev.sequence = sequence[d]
               PROVE  y.ev = request'[d].event
    BY DEF NumberInv, RequestsKept
  <2>1. InFlight(d) /\ request'[d] = request[d]
    BY DEF RequestsKept
  <2>2. CASE y \in Readable(j)
    BY <2>1, <2>2 DEF LogInv, NumberInv
  <2>3. CASE y.ev = e
    BY <2>1, <2>3 DEF LogInv, EventInv, CallInvariant, CallEvent
  <2> QED
    BY <2>2, <2>3
<1>7. CASE e \notin Recorded'
  <2>1. \A f : f \in Recorded' <=> f \in Recorded
    BY <1>1, <1>4, <1>7
  <2>2. Recorded' \subseteq Recorded /\ Recorded \subseteq Recorded'
    BY <2>1
  <2> QED
    BY <1>5, <1>6, <2>2 DEF Simulated, Log!logVars, RequestsKept
<1>8. CASE e \in Recorded'
  <2>1. Recorded' = Recorded \cup {e}
    BY <1>4, <1>8
  <2>2. \A f \in Recorded : f.caller = e.caller => f.sequence < e.sequence
    BY <1>1, LastNumber
  <2>3. Log!Record(e)
    BY <1>1, <2>1, <2>2 DEF Log!Record, RequestsKept
  <2> QED
    BY <1>1, <1>5, <1>6, <2>3 DEF Simulated, Log!LogNext
<1> QED
  BY <1>7, <1>8

-----------------------------------------------------------------------------
(* The steps of a call.                                                    *)

LEMMA RejectSimulated ==
  ASSUME LogInv, Promised, NEW c \in Caller, InFlight(c), ~Written(c), RequestsKept,
         rejected' = rejected \cup {request[c].event}, UNCHANGED acked, SameShards,
         UnderRepair' = UnderRepair
  PROVE  Simulated
<1>1. Recorded' = Recorded /\ UNCHANGED today /\ \A i \in Inode : Readable(i)' = Readable(i)
  BY DEF SameShards, Recorded, Readable, Records, RequestsKept
<1>2. Log!Reject(request[c].event)
  BY <1>1, OpenEvent DEF Log!Reject
<1>3. Log!LogNext
  BY <1>2, OpenEvent DEF Log!LogNext
<1> QED
  BY <1>1, <1>3, RequestsInv DEF Simulated, LogInv

LEMMA AcknowledgeSimulated ==
  ASSUME LogInv, Promised, NEW c \in Caller, InFlight(c), Written(c), RequestsKept,
         acked' = acked \cup {request[c].event}, UNCHANGED rejected, SameShards,
         UnderRepair' = UnderRepair
  PROVE  Simulated
<1>1. Recorded' = Recorded /\ UNCHANGED today /\ \A i \in Inode : Readable(i)' = Readable(i)
  BY DEF SameShards, Recorded, Readable, Records, RequestsKept
<1>2. Handle(c) \in linked
  BY ActiveLinked DEF Written, Appending
<1>3. \E x \in Records(Handle(c)) : x.ev = request[c].event
  BY DEF LogInv, EventInv, CallInvariant, CallRecords
<1>4. request[c].event \in Recorded
  <2>1. \E x \in Readable(Handle(c)) : x.ev = request[c].event
    BY <1>3 DEF Readable
  <2>2. ASSUME NEW d \in Caller, pc[d] = "restore", request[d].event = request[c].event
        PROVE  FALSE
    <3>1. InFlight(d)
      BY <2>2, WriteFacts
      DEF InFlight, LogInv, BoundInv, Writing, Admitted, Appending
    <3>2. d = c
      BY <2>2, <3>1, OwnEvent DEF LogInv, BoundInv
    <3> QED
      BY <2>2, <3>2 DEF Written
  <2>3. request[c].event \notin UnderRepair
    BY <2>2 DEF UnderRepair
  <2> QED
    BY <1>2, <2>1, <2>3, RecordedWhere
<1>5. request[c].event \notin rejected /\ request[c].event \in Submittable
  BY DEF LogInv, EventInv, RejectedEvent, SubmittedInv
<1>6. Log!Acknowledge(request[c].event)
  BY <1>1, <1>4, <1>5 DEF Log!Acknowledge
<1>7. Log!LogNext
  BY <1>5, <1>6 DEF Log!LogNext
<1> QED
  BY <1>1, <1>7, RequestsInv DEF Simulated, LogInv

LEMMA ReturnSimulated ==
  ASSUME LogInv, Promised, NEW c \in Caller, pc[c] # "restore",
         NEW state, NEW ok \in BOOLEAN, Return(c, state, ok),
         InFlight(c) => (ok <=> Written(c)), SameShards
  PROVE  Simulated
<1>1. RequestsKept /\ UnderRepair' = UnderRepair
  <2>1. /\ pc'[c] = "idle" /\ \A d \in Caller \ {c} : pc'[d] = pc[d] /\ request'[d] = request[d]
    BY DEF Return, Goto, LogInv, BoundInv, TypeInv, TypeOK
  <2> QED
    BY <2>1, ReturnRequests, SameRepairs DEF LogInv, BoundInv
<1>2. CASE ~InFlight(c)
  <2>1. UNCHANGED <<linked, acked, rejected>> /\ \A i \in Inode : Readable(i)' = Readable(i)
    BY <1>2 DEF Return, InFlight, SameShards, Readable, Records
  <2> QED
    BY <1>1, <2>1, SilentStep
<1>3. CASE InFlight(c) /\ Written(c)
  <2>1. acked' = acked \cup {request[c].event} /\ UNCHANGED rejected
    BY <1>3 DEF Return, InFlight
  <2> QED
    BY <1>1, <1>3, <2>1, AcknowledgeSimulated
<1>4. CASE InFlight(c) /\ ~Written(c)
  <2>1. rejected' = rejected \cup {request[c].event} /\ UNCHANGED acked
    BY <1>4 DEF Return, InFlight
  <2> QED
    BY <1>1, <1>4, <2>1, RejectSimulated
<1> QED
  BY <1>2, <1>3, <1>4

LEMMA ContinueSimulated ==
  ASSUME LogInv, NEW c \in Caller, pc[c] # "restore", NEW l, l # "restore",
         NEW state, NEW locals, Continue(c, l, state, locals),
         UNCHANGED linked, \A i \in Inode : Readable(i)' = Readable(i)
  PROVE  Simulated
<1>1. /\ UNCHANGED <<request, sequence, today, acked, rejected>>
      /\ pc'[c] = l /\ \A d \in Caller \ {c} : pc'[d] = pc[d]
  BY DEF Continue, Goto, LogInv, BoundInv, TypeInv, TypeOK
<1>2. RequestsKept /\ UnderRepair' = UnderRepair
  BY <1>1, SameRepairs DEF RequestsKept, InFlight
<1> QED
  BY <1>1, <1>2, SilentStep

LEMMA QuietSimulated ==
  ASSUME LogInv, Promised, NEW c \in Caller,
         \/ FlushActive(c) \/ CloseWriter(c) \/ RejectClosed(c) \/ EnsureDirectory(c)
         \/ DirectoryFails(c) \/ OpenLockFile(c) \/ TryDirLock(c) \/ TryShardLock(c)
         \/ LockRetry(c) \/ LockTimeout(c) \/ LockFails(c) \/ Discover(c) \/ ProbeFull(c)
         \/ OpenShard(c) \/ OpenFails(c) \/ ApplyRetention(c) \/ SweepDone(c)
         \/ UnlockDirectory(c) \/ StatShard(c) \/ StatFails(c)
  PROVE  Simulated
<1>1. SameShards /\ ~Written(c) /\ pc[c] # "restore"
  BY DEF FlushActive, CloseWriter, RejectClosed, EnsureDirectory, DirectoryFails, OpenLockFile,
         TryDirLock, TryShardLock, LockRetry, LockTimeout, LockFails, Discover, ProbeFull,
         OpenShard, OpenFails, ApplyRetention, SweepDone, UnlockDirectory, StatShard, StatFails,
         SameShards, dirVars, Written
<1>2. UNCHANGED linked /\ \A i \in Inode : Readable(i)' = Readable(i)
  BY <1>1 DEF SameShards, Readable, Records
<1>3. ASSUME NEW state, NEW ok \in BOOLEAN, Return(c, state, ok), ok => ~InFlight(c)
      PROVE  Simulated
  BY <1>1, <1>3, ReturnSimulated
<1>4. ASSUME NEW l, l # "restore", NEW state, NEW locals, Continue(c, l, state, locals)
      PROVE  Simulated
  BY <1>1, <1>2, <1>4, ContinueSimulated
<1>5. CASE FlushActive(c) \/ CloseWriter(c)
  BY <1>3, <1>5 DEF FlushActive, CloseWriter, InFlight
<1>6. CASE RejectClosed(c) \/ DirectoryFails(c) \/ LockTimeout(c) \/ LockFails(c) \/ StatFails(c)
  BY <1>3, <1>6 DEF RejectClosed, DirectoryFails, LockTimeout, LockFails, StatFails
<1>7. CASE EnsureDirectory(c) \/ TryDirLock(c) \/ TryShardLock(c) \/ LockRetry(c)
  BY <1>4, <1>7 DEF EnsureDirectory, TryDirLock, TryShardLock, LockRetry
<1>8. CASE Discover(c) \/ ProbeFull(c) \/ OpenShard(c) \/ OpenFails(c)
  BY <1>4, <1>8 DEF Discover, ProbeFull, OpenShard, OpenFails, RotationFails
<1>9. CASE ApplyRetention(c) \/ SweepDone(c)
  BY <1>4, <1>9 DEF ApplyRetention, SweepDone, RotationFails
<1>10. CASE OpenLockFile(c) \/ UnlockDirectory(c) \/ StatShard(c)
  BY <1>3, <1>4, <1>10 DEF OpenLockFile, UnlockDirectory, StatShard
<1> QED
  BY <1>5, <1>6, <1>7, <1>8, <1>9, <1>10

LEMMA UnlockShardSimulated ==
  ASSUME LogInv, Promised, NEW c \in Caller, UnlockShard(c)
  PROVE  Simulated
<1>1. PICK state, ok : Return(c, state, ok) /\ ok = ~Locals(c).failed
  BY DEF UnlockShard, Fails, Promised
<1>2. Locals(c).failed \in BOOLEAN
  BY AdmittedFacts DEF LogInv, BoundInv, Progress
<1>3. (ok <=> Written(c)) /\ SameShards /\ pc[c] # "restore"
  BY <1>1, <1>2 DEF UnlockShard, Written, Locals, SameShards
<1> QED
  BY <1>1, <1>2, <1>3, ReturnSimulated

(* A step of a call under the lock on its shard.                           *)
LEMMA ShardSimulated ==
  ASSUME LogInv, Promised, NEW c \in Caller, pc[c] \in {"append", "restore"},
         NEW l, NEW state, NEW locals, Continue(c, l, state, locals), UNCHANGED linked,
         \A j \in Inode \ {Handle(c)} : file'[j] = file[j],
         \A x \in file'[Handle(c)].data :
            x \in file[Handle(c)].data \/ x.ev = request[c].event,
         \A x \in Readable(Handle(c)) :
            x \in file'[Handle(c)].data \/ x.ev = request[c].event
  PROVE  Simulated
<1>1. /\ UNCHANGED <<request, sequence, today, acked, rejected>>
      /\ pc[c] \in Appending /\ ~Written(c) /\ \A d \in Caller \ {c} : pc'[d] = pc[d]
  BY DEF Continue, Goto, Appending, Written, LogInv, BoundInv, TypeInv, TypeOK
<1>2. InFlight(c) /\ RequestsKept
  BY <1>1, HandleFacts, WriteFacts DEF LogInv, BoundInv, InFlight, RequestsKept
<1>3. PICK i \in Inode : i = Handle(c)
  BY <1>1, AppendingFacts DEF LogInv
<1>4. PICK e : e = request[c].event
  OBVIOUS
<1>5. /\ \A j \in Inode \ {i} : Readable(j)' = Readable(j)
      /\ \A x \in Readable(i)' : x \in Readable(i) \/ x.ev = e
      /\ \A x \in Readable(i) : x \in Readable(i)' \/ x.ev = e
  BY <1>3, <1>4 DEF Readable, Records
<1>6. \A f : f # e => (f \in UnderRepair' <=> f \in UnderRepair)
  BY <1>1, <1>4 DEF UnderRepair
<1> QED
  BY <1>1, <1>2, <1>4, <1>5, <1>6, OwnEventSimulated

LEMMA AppendSimulated ==
  ASSUME LogInv, Promised, NEW c \in Caller, Append(c) \/ AppendFails(c)
  PROVE  Simulated
<1>1. /\ pc[c] = "append" /\ UNCHANGED linked
      /\ \E l, state, locals : Continue(c, l, state, locals)
  BY DEF Append, AppendFails
<1>2. PICK i \in Inode : i = Handle(c)
  BY <1>1, AppendingFacts DEF LogInv, Appending
<1>3. ASSUME NEW kind, NEW n, Extend(Handle(c), request[c].event, kind, n) PROVE Simulated
  <2>1. /\ \A j \in Inode \ {i} : file'[j] = file[j]
        /\ \E x : x.ev = request[c].event /\ file'[i].data = file[i].data \cup {x}
    BY <1>2, <1>3, ExtendRecords DEF LogInv, BoundInv
  <2>2. \A x \in Readable(i) : x \in file[i].data
    BY DEF Readable, Records
  <2> QED
    BY <1>1, <1>2, <2>1, <2>2, ShardSimulated
<1>4. CASE UNCHANGED file
  <2>1. \A x \in Readable(i) : x \in file[i].data
    BY DEF Readable, Records
  <2> QED
    BY <1>1, <1>2, <1>4, <2>1, ShardSimulated
<1> QED
  BY <1>3, <1>4 DEF Append, AppendFails

(* The fragment that is cut off was the call's own.                        *)
LEMMA RestoreSimulated ==
  ASSUME LogInv, Promised, NEW c \in Caller, RestoreLineBoundary(c)
  PROVE  Simulated
<1>1. /\ pc[c] = "restore" /\ UNCHANGED linked
      /\ Truncate(Handle(c), Same(c).currentSize)
      /\ Continue(c, "unlock", Same(c), Locals(c))
  BY DEF RestoreLineBoundary, Promised
<1>2. PICK i \in Inode : i = Handle(c)
  BY <1>1, AppendingFacts DEF LogInv, Appending
<1>3. /\ \A j \in Inode \ {i} : file'[j] = file[j]
      /\ \A x \in file'[i].data : x \in file[i].data \/ x.ev = request[c].event
  BY <1>2, RestoreRecords DEF LogInv
<1>4. file'[i].data = {x \in file[i].data : x.end <= Same(c).currentSize}
  BY <1>1, <1>2, TruncateShard DEF LogInv, BoundInv
<1>5. ASSUME NEW x \in Readable(i) PROVE x \in file'[i].data \/ x.ev = request[c].event
  <2>1. x \in file[i].data /\ x.end \in Nat /\ Same(c).currentSize \in Nat
    BY <1>1, AppendingFacts
    DEF Readable, Records, LogInv, BoundInv, TypeInv, TypeOK, DirTypeOK, Shard, Extent, Appending
  <2>2. CASE x \in Records(i)
    BY <1>1, <1>2, <1>4, <2>1, <2>2 DEF LogInv, EventInv, CallInvariant, CallRecords
  <2>3. CASE x \in Fragments(i)
    <3>1. x.end > Same(c).currentSize => x.ev = request[c].event
      BY <1>1, <1>2, <2>3 DEF LogInv, FragmentInv, RepairOK
    <3> QED
      BY <1>4, <2>1, <3>1
  <2> QED
    BY <2>2, <2>3, ReadableLine DEF LogInv
<1> QED
  BY <1>1, <1>2, <1>3, <1>5, ShardSimulated

(* A new shard holds nothing yet. *)
LEMMA CreateSimulated ==
  ASSUME LogInv, NEW c \in Caller, CreateShard(c)
  PROVE  Simulated
<1>1. /\ fresh \in Inode /\ linked' = linked \cup {fresh} /\ pc[c] = "probe"
      /\ UNCHANGED <<request, sequence, today, acked, rejected>>
      /\ pc'[c] # "restore" /\ \A d \in Caller \ {c} : pc'[d] = pc[d]
  BY DEF CreateShard, Create, RotationFails, Continue, Goto, LogInv, BoundInv, TypeInv, TypeOK
<1>2. /\ file'[fresh].data = {} /\ \A i \in Inode \ {fresh} : file'[i] = file[i]
  BY <1>1 DEF CreateShard, Create, EmptyShard, LogInv, BoundInv, TypeInv, TypeOK, DirTypeOK
<1>3. file[fresh].data = {}
  BY <1>1, BoundAssumption DEF LogInv, EventInv, Anchored, Inode
<1>4. PICK k : k = fresh
  OBVIOUS
<1>5. /\ \A i \in Inode : Readable(i)' = Readable(i)
      /\ Readable(k)' = {}
  BY <1>1, <1>2, <1>3, <1>4 DEF Readable, Records
<1>6. RequestsKept /\ UnderRepair' = UnderRepair
  BY <1>1, SameRepairs DEF RequestsKept, InFlight
<1>7. linked \subseteq Inode
  BY LinkedShard DEF LogInv, BoundInv, TypeInv
<1>8. Recorded' = Recorded
  BY <1>1, <1>4, <1>5, <1>6, <1>7 DEF Recorded
<1> QED
  BY <1>1, <1>5, <1>6, <1>8, RequestsInv DEF Simulated, LogInv, Log!logVars

(* What leaves the directory in a sweep has expired. *)
LEMMA SweepSimulated ==
  ASSUME LogInv, NEW c \in Caller, SweepOne(c)
  PROVE  Simulated
<1>1. /\ \A i \in Inode : Readable(i)' = Readable(i)
      /\ UNCHANGED <<request, sequence, today, acked, rejected>>
      /\ pc[c] = "sweep" /\ pc'[c] # "restore" /\ \A d \in Caller \ {c} : pc'[d] = pc[d]
  BY DEF SweepOne, RotationFails, Continue, Goto, Readable, Records,
         LogInv, BoundInv, TypeInv, TypeOK
<1>2. RequestsKept /\ UnderRepair' = UnderRepair
  BY <1>1, SameRepairs DEF RequestsKept, InFlight
<1>3. CASE UNCHANGED linked
  BY <1>1, <1>2, <1>3, SilentStep
<1>4. ASSUME NEW name \in Locals(c).stale, linked' = linked \ Named(name[1], name[2])
      PROVE  Simulated
  <2>1. RetentionDays > 0 /\ Expirable(name[1])
    BY <1>4 DEF LogInv, EventInv, CallInvariant, CallStale, Locals
  <2>2. linked \subseteq Inode
    BY LinkedShard DEF LogInv, BoundInv, TypeInv
  <2>3. ASSUME NEW e \in Recorded, e \notin Recorded' PROVE Log!Expired(e)
    <3>1. PICK i \in linked : \E x \in Readable(i) : x.ev = e
      BY RecordedWhere
    <3>2. PICK x \in Readable(i) : x.ev = e
      BY <3>1
    <3>3. i \notin linked'
      BY <1>1, <1>2, <2>2, <2>3, <3>2 DEF Recorded
    <3>4. file[i].date = name[1]
      BY <1>4, <3>3 DEF Named
    <3>5. e.date = name[1]
      BY <2>2, <3>2, <3>4, ReadableLine DEF LogInv
    <3> QED
      BY <2>1, <3>5 DEF Log!Expired, Expirable
  <2>4. Recorded' \subseteq Recorded
    BY <1>1, <1>2, <1>4, <2>2 DEF Recorded
  <2> DEFINE old == Recorded \ Recorded'
  <2>5. old \in SUBSET {e \in Recorded : Log!Expired(e)} /\ Recorded' = Recorded \ old
    BY <2>3, <2>4
  <2>6. Log!Expire
    BY <1>1, <2>5 DEF Log!Expire
  <2> QED
    BY <1>1, <1>2, <2>6, RequestsInv DEF Simulated, LogInv, Log!LogNext
<1> QED
  BY <1>3, <1>4 DEF SweepOne

-----------------------------------------------------------------------------
(* What is not a step of a call past the gate.                             *)

LEMMA SubmitSimulated ==
  ASSUME LogInv, NEW c \in Caller, NEW n \in RecordSizes, Submit(c, n)
  PROVE  Simulated
<1> DEFINE e == [caller |-> c, sequence |-> sequence[c] + 1,
                 date |-> today, bytes |-> EncodeLine(n)]
<1>1. /\ sequence[c] < MaxSequence /\ sequence[c] \in 0 .. MaxSequence
      /\ today \in Day /\ MaxSequence \in Nat
  BY EnvironmentAssumption DEF Submit, LogInv, BoundInv, TypeInv, TypeOK
<1>2. /\ e \in Submittable /\ e.date = today /\ e.caller = c /\ e.sequence = sequence[c] + 1
      /\ today >= today - 1
  BY <1>1 DEF Submittable, Day
<1>3. /\ request' = [request EXCEPT ![c] = [op |-> "write", event |-> e]]
      /\ sequence' = [sequence EXCEPT ![c] = sequence[c] + 1]
      /\ UNCHANGED <<dirVars, today, acked, rejected>>
      /\ pc[c] = "idle" /\ pc' = [pc EXCEPT ![c] = "gate"]
  BY DEF Submit, Call, Goto
<1> HIDE DEF e
<1>4. /\ \A d \in Caller \ {c} : request'[d] = request[d] /\ sequence'[d] = sequence[d]
      /\ request'[c].event = e /\ sequence'[c] = sequence[c] + 1
      /\ pc'[c] = "gate" /\ \A d \in Caller \ {c} : pc'[d] = pc[d]
  BY <1>3 DEF LogInv, BoundInv, TypeInv, TypeOK
<1>5. UNCHANGED <<file, linked>>
  BY <1>3 DEF dirVars
<1>6. SubmittedInv'
  BY <1>2, <1>3, <1>4 DEF LogInv, SubmittedInv, InFlight
<1>7. NumberInv'
  <2> SUFFICES ASSUME NEW i \in Inode, NEW x \in Readable(i), NEW d \in Caller, InFlight(d)',
                      x.ev.caller = d, x.ev.sequence = sequence'[d]
               PROVE  x.ev = request'[d].event
    BY <1>5 DEF NumberInv, Readable, Records
  <2>1. Known(x.ev)
    BY ReadableLine DEF LogInv
  <2>2. d # c
    BY <1>1, <1>4, <2>1 DEF Known
  <2> QED
    BY <1>4, <2>2 DEF LogInv, NumberInv, InFlight
<1>8. UnderRepair' = UnderRepair
  BY <1>3, <1>4, SameRepairs
<1>9. Recorded' = Recorded
  BY <1>5, <1>8 DEF Recorded, Readable, Records
<1> QED
  BY <1>3, <1>6, <1>7, <1>9 DEF Simulated, Log!logVars

LEMMA GateSimulated ==
  ASSUME LogInv, Promised, NEW c \in Caller,
         CallFlush(c) \/ CallClose(c) \/ AcquireGate(c) \/ AbandonGate(c)
  PROVE  Simulated
<1>1. /\ SameShards /\ pc[c] \in {"idle", "gate"}
      /\ UNCHANGED <<sequence, today, acked>>
      /\ \A d \in Caller \ {c} : request'[d] = request[d]
      /\ request'[c] = request[c] \/ request'[c].op # "write"
      /\ pc'[c] \in {"idle", "gate", "admitted"} /\ \A d \in Caller \ {c} : pc'[d] = pc[d]
  BY DEF CallFlush, CallClose, Call, AcquireGate, AbandonGate, SameShards, dirVars, NoRequest,
         Goto, LogInv, BoundInv, TypeInv, TypeOK
<1>2. /\ RequestsKept /\ ~Written(c) /\ UnderRepair' = UnderRepair
      /\ \A i \in Inode : Readable(i)' = Readable(i)
  BY <1>1, SameRepairs DEF RequestsKept, InFlight, Written, SameShards, Readable, Records
<1>3. \/ UNCHANGED rejected
      \/ InFlight(c) /\ rejected' = rejected \cup {request[c].event}
  BY DEF CallFlush, CallClose, Call, AcquireGate, AbandonGate, InFlight
<1> QED
  BY <1>1, <1>2, <1>3, SilentStep, RejectSimulated DEF SameShards

(* A process that dies before it took back, or while it wrote, a line that *)
(* lacks no more than its newline has recorded the event.                  *)
LEMMA CrashSimulated ==
  ASSUME LogInv, Promised, NEW w \in Writer, Crash(w)
  PROVE  Simulated
<1>1. /\ UNCHANGED <<linked, sequence, today, acked, rejected>>
      /\ \A d \in Caller : W(d) # w => pc'[d] = pc[d] /\ request'[d] = request[d]
      /\ \A d \in Caller : W(d) = w => pc'[d] = "idle" /\ request'[d] = NoRequest
  BY DEF Crash
<1>2. RequestsKept
  BY <1>1 DEF RequestsKept, InFlight, NoRequest
<1>3. ASSUME NEW c \in Caller, W(c) = w, pc[c] \in {"append", "restore"},
             \/ UNCHANGED file
             \/ /\ pc[c] = "append"
                /\ \E n : Extend(Handle(c), request[c].event, "fragment", n)
      PROVE  Simulated
  <2>1. pc[c] \in Appending /\ ~Written(c)
    BY <1>3 DEF Appending, Written
  <2>2. InFlight(c)
    BY <2>1, HandleFacts, WriteFacts DEF LogInv, BoundInv, InFlight
  <2>3. PICK i \in Inode : i = Handle(c)
    BY <2>1, AppendingFacts DEF LogInv
  <2>4. PICK e : e = request[c].event
    OBVIOUS
  <2>5. /\ \A j \in Inode : file[j].data \subseteq file'[j].data
        /\ \A j \in Inode : \A x \in file'[j].data : x \in file[j].data \/ x.ev = e
    <3>1. CASE UNCHANGED file
      BY <3>1
    <3>2. ASSUME NEW n, Extend(Handle(c), request[c].event, "fragment", n)
          PROVE  /\ \A j \in Inode \ {i} : file'[j] = file[j]
                 /\ \E x : x.ev = e /\ file'[i].data = file[i].data \cup {x}
      BY <2>3, <2>4, <3>2, ExtendRecords DEF LogInv, BoundInv
    <3> QED
      BY <1>3, <3>1, <3>2
  <2>6. /\ \A j \in Inode : \A x \in Readable(j)' : x \in Readable(j) \/ x.ev = e
        /\ \A j \in Inode : \A x \in Readable(j) : x \in Readable(j)'
    BY <2>5 DEF Readable, Records
  <2>7. ASSUME NEW d \in Caller, d # c, W(d) = w PROVE pc[d] # "restore"
    BY <1>3, <2>7, GateExclusion DEF LogInv, BoundInv, TypeInv, Admitted, Appending
  <2>8. \A f : f # e => (f \in UnderRepair' <=> f \in UnderRepair)
    BY <1>1, <2>4, <2>7 DEF UnderRepair
  <2> QED
    BY <1>1, <1>2, <2>1, <2>2, <2>4, <2>6, <2>8, OwnEventSimulated
<1>4. ASSUME \A d \in Caller : W(d) = w => pc[d] # "restore", UNCHANGED file
      PROVE  Simulated
  <2>1. UnderRepair' = UnderRepair /\ \A i \in Inode : Readable(i)' = Readable(i)
    BY <1>1, <1>4, SameRepairs DEF Readable, Records
  <2> QED
    BY <1>1, <1>2, <2>1, SilentStep
<1> QED
  BY <1>3, <1>4 DEF Crash

LEMMA MidnightSimulated ==
  ASSUME LogInv, Midnight
  PROVE  Simulated
<1>1. /\ today' = today + 1 /\ today \in Int
      /\ UNCHANGED <<file, linked, pc, request, sequence, acked, rejected>>
      /\ \A c \in Caller : InFlight(c) => request[c].event.date = today
  BY BoundAssumption
  DEF Midnight, dirVars, callVars, LogInv, BoundInv, TypeInv, TypeOK, Day, InFlight, Date
<1>2. today >= today' - 1
  BY <1>1
<1>3. SubmittedInv'
  BY <1>1, <1>2 DEF LogInv, SubmittedInv, InFlight
<1>4. NumberInv'
  BY <1>1 DEF LogInv, NumberInv, InFlight, Readable, Records
<1>5. Recorded' = Recorded
  BY <1>1 DEF Recorded, UnderRepair, Readable, Records
<1>6. Log!NextDay
  BY <1>1, <1>5 DEF Log!NextDay
<1> QED
  BY <1>3, <1>4, <1>6 DEF Simulated, Log!LogNext

-----------------------------------------------------------------------------
LEMMA InitLog == Init => SubmittedInv /\ NumberInv /\ Log!LogInit
<1> SUFFICES ASSUME Init PROVE SubmittedInv /\ NumberInv /\ Log!LogInit
  OBVIOUS
<1>1. SubmittedInv /\ NumberInv
  BY DEF Init, NoRequest, SubmittedInv, NumberInv, InFlight
<1>2. Recorded = {}
  BY DEF Init, DirInit, Recorded
<1> QED
  BY <1>1, <1>2 DEF Init, Log!LogInit

LEMMA NextLog == Promised /\ LogInv /\ [Next]_vars => Simulated
<1> SUFFICES ASSUME Promised, LogInv, [Next]_vars PROVE Simulated
  OBVIOUS
<1>1. ASSUME NEW c \in Caller, CallerStep(c) PROVE Simulated
  BY <1>1, QuietSimulated, UnlockShardSimulated, AppendSimulated, RestoreSimulated,
     CreateSimulated, SweepSimulated DEF CallerStep
<1>2. ASSUME NEW c \in Caller,
             \/ \E n \in RecordSizes : Submit(c, n)
             \/ CallFlush(c) \/ CallClose(c) \/ AcquireGate(c) \/ AbandonGate(c)
             \/ LockTimeout(c)
      PROVE  Simulated
  BY <1>2, SubmitSimulated, GateSimulated, QuietSimulated
<1>3. ASSUME NEW w \in Writer, Crash(w) PROVE Simulated
  BY <1>3, CrashSimulated
<1>4. CASE RemoveDirectory
  BY <1>4 DEF RemoveDirectory, Fails, Promised
<1>5. CASE UNCHANGED vars
  <2>1. UNCHANGED <<file, linked, pc, request, sequence, today, acked, rejected>>
    BY <1>5 DEF vars, dirVars, callVars
  <2>2. /\ RequestsKept /\ UnderRepair' = UnderRepair
        /\ \A i \in Inode : Readable(i)' = Readable(i)
    BY <2>1, SameRepairs DEF RequestsKept, InFlight, Readable, Records
  <2> QED
    BY <2>1, <2>2, SilentStep
<1> QED
  BY <1>1, <1>2, <1>3, <1>4, <1>5, MidnightSimulated DEF Next

(* The writers of any number of processes implement one event log, as long *)
(* as no unlock fails, every torn line can be cut off and nobody else      *)
(* removes the directory: an event is recorded once and in the order of    *)
(* its trace, acknowledged only if it is recorded, rejected only if it is  *)
(* not, and leaves only when it expired.                                   *)
THEOREM WritersImplementTheLog ==
  ASSUME Promised
  PROVE  Spec => ImplementsEventLog
<1>1. Init => FragmentInv /\ SubmittedInv /\ NumberInv /\ Log!LogInit
  BY InitFragments, InitLog
<1>2. /\ BoundInv /\ EventInv /\ FragmentInv /\ SubmittedInv /\ NumberInv /\ [Next]_vars
      => FragmentInv' /\ SubmittedInv' /\ NumberInv' /\ [Log!LogNext]_(Log!logVars)
  BY NextFragments, NextLog DEF LogInv, Simulated, Promised
<1>3. Spec => [](BoundInv /\ EventInv)
  BY EventInvariant
<1> QED
  BY <1>1, <1>2, <1>3, PTL DEF Spec, ImplementsEventLog, Log!LogSpec

=============================================================================
