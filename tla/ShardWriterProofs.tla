------------------------- MODULE ShardWriterProofs --------------------------
(***************************************************************************)
(* Theorems about the JSONL writer, for any number of processes, callers,  *)
(* shards, dates and faults.                                               *)
(***************************************************************************)
EXTENDS ShardWriter, TLAPS

-----------------------------------------------------------------------------
(* A call past the gate fills it; one past the directory check is a write; *)
(* one that is about to lock or use a shard has the handle of its writer.  *)

Holding == {"retain", "sweep", "shardLock", "shardWait"} \cup Appending

KeepsHandle(l, locals) == l \in Holding \/ (l = "dirUnlock" /\ ~locals.failed)

CallOK(c) ==
    /\ pc[c] \in Admitted => gate[W(c)] = c
    /\ pc[c] \in Writing => request[c].op = "write"
    /\ KeepsHandle(pc[c], progress[c]) => Handle(c) # None

CallInv == \A c \in Caller : CallOK(c)

TypeInv == TypeOK /\ CallInv

LEMMA WriterOfCaller ==
  ASSUME NEW c \in Caller
  PROVE  W(c) \in Writer
BY CallerAssumption DEF W

(* Two calls past their gates are calls of different writers. *)
LEMMA GateExclusion ==
  ASSUME CallInv, NEW c \in Caller, NEW d \in Caller, c # d,
         pc[c] \in Admitted, pc[d] \in Admitted
  PROVE  W(c) # W(d)
BY DEF CallInv, CallOK

-----------------------------------------------------------------------------
(* Return and Continue, which end most steps.                              *)

LEMMA ReturnType ==
  ASSUME TypeOK, NEW c \in Caller, NEW state \in WriterState, NEW ok \in BOOLEAN,
         Return(c, state, ok), DirTypeOK', faults' \in 0 .. MaxFaults
  PROVE  TypeOK'
<1>1. writer' \in [Writer -> WriterState]
  BY WriterOfCaller DEF TypeOK, Return, WriterState
<1>2. gate' \in [Writer -> Caller \cup {None}] /\ pc' \in [Caller -> {"idle", "gate"} \cup Admitted]
  BY WriterOfCaller DEF TypeOK, Return, Goto
<1>3. request' \in [Caller -> WriteRequest \cup OtherRequest]
  BY DEF TypeOK, Return, NoRequest, OtherRequest
<1>4. progress' \in [Caller -> Progress]
  BY BoundAssumption DEF TypeOK, Return, NoProgress, Progress, Generation
<1>5. acked' \subseteq Event /\ rejected' \subseteq Event
  BY DEF TypeOK, Return, WriteRequest, OtherRequest
<1> QED
  BY <1>1, <1>2, <1>3, <1>4, <1>5 DEF TypeOK, Return

LEMMA ReturnCall ==
  ASSUME TypeInv, NEW c \in Caller, NEW state, NEW ok, pc[c] \in Admitted, Return(c, state, ok)
  PROVE  CallInv'
<1> SUFFICES ASSUME NEW d \in Caller
             PROVE  CallOK(d)'
  BY DEF CallInv
<1>1. CASE d = c
  <2>1. pc'[d] = "idle"
    BY <1>1 DEF TypeInv, TypeOK, Return, Goto
  <2> QED
    BY <2>1 DEF CallOK, KeepsHandle, Holding, Appending, Admitted, Writing, Rotating
<1>2. CASE d # c
  <2>1. pc'[d] = pc[d] /\ request'[d] = request[d] /\ progress'[d] = progress[d]
    BY <1>2 DEF TypeInv, TypeOK, Return, Goto
  <2>2. CASE pc[d] \in Admitted
    <3>1. W(c) # W(d)
      BY <1>2, <2>2, GateExclusion DEF TypeInv
    <3>2. gate'[W(d)] = gate[W(d)] /\ writer'[W(d)] = writer[W(d)]
      BY <3>1, WriterOfCaller DEF TypeInv, TypeOK, Return
    <3>3. CallOK(d)
      BY DEF TypeInv, CallInv
    <3> QED
      BY <2>1, <3>2, <3>3 DEF CallOK, Handle, W
  <2>3. CASE pc[d] \notin Admitted
    BY <2>1, <2>3 DEF CallOK, KeepsHandle, Holding, Appending, Admitted, Writing, Rotating
  <2> QED
    BY <2>2, <2>3
<1> QED
  BY <1>1, <1>2

LEMMA ContinueType ==
  ASSUME TypeOK, NEW c \in Caller, NEW l \in Admitted, NEW state \in WriterState,
         NEW locals \in Progress, Continue(c, l, state, locals),
         DirTypeOK', faults' \in 0 .. MaxFaults
  PROVE  TypeOK'
<1>1. writer' \in [Writer -> WriterState] /\ progress' \in [Caller -> Progress]
  BY WriterOfCaller DEF TypeOK, Continue
<1>2. pc' \in [Caller -> {"idle", "gate"} \cup Admitted]
  BY DEF TypeOK, Continue, Goto
<1> QED
  BY <1>1, <1>2 DEF TypeOK, Continue

LEMMA ContinueCall ==
  ASSUME TypeInv, NEW c \in Caller, NEW l \in Admitted, NEW state, NEW locals,
         pc[c] \in Admitted, request[c].op = "write", Continue(c, l, state, locals),
         KeepsHandle(l, locals) => state.handle # None
  PROVE  CallInv'
<1> SUFFICES ASSUME NEW d \in Caller
             PROVE  CallOK(d)'
  BY DEF CallInv
<1>1. CASE d = c
  <2>1. pc'[d] = l /\ progress'[d] = locals /\ request'[d] = request[c] /\ writer'[W(d)] = state
    BY <1>1, WriterOfCaller DEF TypeInv, TypeOK, Continue, Goto
  <2>2. gate'[W(d)] = d
    BY <1>1 DEF TypeInv, CallInv, CallOK, Continue
  <2> QED
    BY <2>1, <2>2 DEF CallOK, Handle, W
<1>2. CASE d # c
  <2>1. pc'[d] = pc[d] /\ request'[d] = request[d] /\ progress'[d] = progress[d] /\ gate' = gate
    BY <1>2 DEF TypeInv, TypeOK, Continue, Goto
  <2>2. CASE pc[d] \in Admitted
    <3>1. W(c) # W(d)
      BY <1>2, <2>2, GateExclusion DEF TypeInv
    <3>2. writer'[W(d)] = writer[W(d)]
      BY <3>1, WriterOfCaller DEF TypeInv, TypeOK, Continue
    <3>3. CallOK(d)
      BY DEF TypeInv, CallInv
    <3> QED
      BY <2>1, <3>2, <3>3 DEF CallOK, Handle, W
  <2>3. CASE pc[d] \notin Admitted
    BY <2>1, <2>3 DEF CallOK, KeepsHandle, Holding, Appending, Admitted, Writing, Rotating
  <2> QED
    BY <2>2, <2>3
<1> QED
  BY <1>1, <1>2

-----------------------------------------------------------------------------
(* The steps of a call keep the types.                                     *)

LEMMA AdmittedFacts ==
  ASSUME TypeInv, NEW c \in Caller
  PROVE  Same(c) \in WriterState /\ Locals(c) \in Progress
BY WriterOfCaller DEF TypeInv, TypeOK, Same, Locals

LEMMA WriteFacts ==
  ASSUME TypeInv, NEW c \in Caller, pc[c] \in Writing \/ request[c].op = "write"
  PROVE  /\ request[c].op = "write"
         /\ request[c].event \in Event
         /\ Date(c) \in Day
         /\ Line(c) \in Nat \ {0}
<1>1. request[c].op = "write"
  BY DEF TypeInv, CallInv, CallOK
<1>2. request[c].event \in Event
  BY <1>1 DEF TypeInv, TypeOK, WriteRequest, OtherRequest
<1> QED
  BY <1>1, <1>2 DEF Event, Date, Line

LEMMA LinkedShard ==
  ASSUME TypeOK, NEW i \in linked
  PROVE  /\ i \in Inode
         /\ file[i].date \in Day /\ file[i].index \in Nat /\ file[i].size \in Nat
<1>1. i \in Inode
  BY BoundAssumption DEF TypeOK, DirTypeOK, Inode
<1>2. file[i] \in Shard
  BY <1>1 DEF TypeOK, DirTypeOK
<1> QED
  BY <1>1, <1>2 DEF Shard

LEMMA FaultCount ==
  ASSUME TypeOK, NEW f, Fails(f) \/ UNCHANGED faults
  PROVE  faults' \in 0 .. MaxFaults
BY EnvironmentAssumption DEF TypeOK, Fails

LEMMA DirUnchanged ==
  ASSUME TypeOK, UNCHANGED dirVars
  PROVE  DirTypeOK'
BY DEF TypeOK, DirTypeOK, dirVars, Shard, Extent, Event, Inode, Day, Generation

LEMMA ClosedState ==
  ASSUME NEW state \in WriterState
  PROVE  CloseHandle(state) \in WriterState
BY DEF CloseHandle, WriterState

LEMMA ClosedForGood ==
  ASSUME NEW state \in WriterState
  PROVE  [state EXCEPT !.closed = TRUE] \in WriterState
BY DEF WriterState

LEMMA ReturnStep ==
  ASSUME TypeInv, NEW c \in Caller, pc[c] \in Admitted,
         NEW state \in WriterState, NEW ok \in BOOLEAN, Return(c, state, ok),
         DirTypeOK', faults' \in 0 .. MaxFaults
  PROVE  TypeInv'
BY ReturnType, ReturnCall DEF TypeInv

LEMMA ContinueStep ==
  ASSUME TypeInv, NEW c \in Caller, pc[c] \in Admitted, request[c].op = "write",
         NEW l \in Admitted, NEW state \in WriterState, NEW locals \in Progress,
         Continue(c, l, state, locals),
         KeepsHandle(l, locals) => state.handle # None,
         DirTypeOK', faults' \in 0 .. MaxFaults
  PROVE  TypeInv'
BY ContinueType, ContinueCall DEF TypeInv

LEMMA FlushType ==
  ASSUME TypeInv, NEW c \in Caller, FlushActive(c)
  PROVE  TypeInv'
<1>1. pc[c] \in Admitted /\ DirTypeOK' /\ faults' \in 0 .. MaxFaults
  BY DirUnchanged DEF FlushActive, TypeInv, TypeOK, Admitted
<1> QED
  BY <1>1, AdmittedFacts, ReturnStep DEF FlushActive

LEMMA CloseType ==
  ASSUME TypeInv, NEW c \in Caller, CloseWriter(c)
  PROVE  TypeInv'
<1> DEFINE closed == [CloseHandle(Same(c)) EXCEPT !.closed = TRUE]
<1>1. PICK state \in {Same(c), closed} : Return(c, state, TRUE)
  BY DEF CloseWriter
<1>2. Same(c) \in WriterState /\ closed \in WriterState
  BY AdmittedFacts, ClosedState, ClosedForGood
<1>3. DirTypeOK' /\ faults' \in 0 .. MaxFaults /\ pc[c] \in Admitted
  BY DEF CloseWriter, TypeInv, TypeOK, DirTypeOK, LocksReleasedBy, Admitted
<1> QED
  BY <1>1, <1>2, <1>3, ReturnStep

LEMMA RejectClosedType ==
  ASSUME TypeInv, NEW c \in Caller, RejectClosed(c)
  PROVE  TypeInv'
<1>1. pc[c] \in Admitted /\ DirTypeOK' /\ faults' \in 0 .. MaxFaults
  BY DirUnchanged DEF RejectClosed, TypeInv, TypeOK, Admitted
<1> QED
  BY <1>1, AdmittedFacts, ReturnStep DEF RejectClosed

LEMMA EnsureDirectoryType ==
  ASSUME TypeInv, NEW c \in Caller, EnsureDirectory(c)
  PROVE  TypeInv'
<1> DEFINE ready == [Same(c) EXCEPT !.directoryReady = TRUE]
           l == IF NeedsRotation(Same(c), Date(c)) THEN "rotate" ELSE "shardLock"
<1>1. Continue(c, l, ready, Locals(c)) /\ pc[c] \in Admitted /\ request[c].op = "write"
  BY DEF EnsureDirectory, Admitted
<1>2. Same(c) \in WriterState /\ Locals(c) \in Progress
  BY AdmittedFacts
<1>3. ready \in WriterState /\ ready.handle = Same(c).handle
  BY <1>2 DEF WriterState
<1>4. DirTypeOK' /\ faults' \in 0 .. MaxFaults
  BY DEF EnsureDirectory, TypeInv, TypeOK, DirTypeOK
<1>5. l \in Admitted /\ (KeepsHandle(l, Locals(c)) => ready.handle # None)
  BY <1>3 DEF Admitted, KeepsHandle, Holding, Appending, NeedsRotation
<1> QED
  BY <1>1, <1>2, <1>3, <1>4, <1>5, ContinueStep

LEMMA DirectoryFailsType ==
  ASSUME TypeInv, NEW c \in Caller, DirectoryFails(c)
  PROVE  TypeInv'
<1>1. pc[c] \in Admitted /\ DirTypeOK' /\ faults' \in 0 .. MaxFaults
  BY FaultCount DEF DirectoryFails, TypeInv, TypeOK, DirTypeOK, Admitted
<1> QED
  BY <1>1, AdmittedFacts, ReturnStep DEF DirectoryFails

LEMMA OpenLockFileType ==
  ASSUME TypeInv, NEW c \in Caller, OpenLockFile(c)
  PROVE  TypeInv'
<1>1. /\ pc[c] \in Writing /\ pc[c] \in Admitted
      /\ DirTypeOK'
      /\ faults' \in 0 .. MaxFaults
      /\ generation \in Generation
  BY FaultCount, DirUnchanged
  DEF OpenLockFile, FailsIf, TypeInv, TypeOK, DirTypeOK, Writing, Rotating, Appending, Admitted
<1>2. Same(c) \in WriterState /\ Locals(c) \in Progress
  BY AdmittedFacts
<1> DEFINE opened == [Locals(c) EXCEPT !.lockFile = generation]
<1>3. opened \in Progress /\ "dirLock" \in Admitted /\ ~KeepsHandle("dirLock", opened)
  BY <1>1, <1>2 DEF Progress, Admitted, KeepsHandle, Holding, Appending
<1>4. CASE Continue(c, "dirLock", Same(c), opened)
  BY <1>1, <1>2, <1>3, <1>4, WriteFacts, ContinueStep
<1>5. CASE Return(c, Same(c), FALSE)
  BY <1>1, <1>2, <1>5, ReturnStep
<1> QED
  BY <1>4, <1>5 DEF OpenLockFile

(* The step leaves the state of the writer and the locals as they are. *)
LEMMA GoOn ==
  ASSUME TypeInv, NEW c \in Caller, pc[c] \in Writing, NEW l \in Admitted,
         Continue(c, l, Same(c), Locals(c)),
         KeepsHandle(l, Locals(c)) => KeepsHandle(pc[c], Locals(c)),
         DirTypeOK', faults' \in 0 .. MaxFaults
  PROVE  TypeInv'
<1>1. pc[c] \in Admitted /\ request[c].op = "write"
  BY WriteFacts DEF Writing
<1>2. KeepsHandle(l, Locals(c)) => Same(c).handle # None
  BY DEF TypeInv, CallInv, CallOK, Handle, Same, Locals
<1> QED
  BY <1>1, <1>2, AdmittedFacts, ContinueStep

LEMMA TryDirLockType ==
  ASSUME TypeInv, NEW c \in Caller, TryDirLock(c)
  PROVE  TypeInv'
<1>1. /\ pc[c] \in Writing
      /\ DirTypeOK'
      /\ faults' \in 0 .. MaxFaults
  BY AdmittedFacts DEF TryDirLock, TypeInv, TypeOK, DirTypeOK, Progress,
                       Writing, Rotating, Appending, Admitted
<1>2. PICK l \in {"discover", "dirWait"} : Continue(c, l, Same(c), Locals(c))
  BY DEF TryDirLock
<1>3. l \in Admitted /\ ~KeepsHandle(l, Locals(c))
  BY DEF Admitted, KeepsHandle, Holding, Appending, Rotating
<1> QED
  BY <1>1, <1>2, <1>3, GoOn

LEMMA TryShardLockType ==
  ASSUME TypeInv, NEW c \in Caller, TryShardLock(c)
  PROVE  TypeInv'
<1>1. /\ pc[c] \in Writing /\ KeepsHandle(pc[c], Locals(c))
      /\ DirTypeOK'
      /\ faults' \in 0 .. MaxFaults
  BY WriterOfCaller DEF TryShardLock, TypeInv, TypeOK, DirTypeOK, KeepsHandle, Holding,
                        Writing, Rotating, Appending, Admitted
<1>2. PICK l \in {"stat", "shardWait"} : Continue(c, l, Same(c), Locals(c))
  BY DEF TryShardLock
<1>3. l \in Admitted
  BY DEF Admitted, Appending
<1> QED
  BY <1>1, <1>2, <1>3, GoOn

LEMMA LockRetryType ==
  ASSUME TypeInv, NEW c \in Caller, LockRetry(c)
  PROVE  TypeInv'
<1>1. DirTypeOK' /\ faults' \in 0 .. MaxFaults
  BY DirUnchanged DEF LockRetry, TypeInv, TypeOK
<1>2. CASE pc[c] = "dirWait" /\ Continue(c, "dirLock", Same(c), Locals(c))
  <2>1. pc[c] \in Writing /\ "dirLock" \in Admitted /\ ~KeepsHandle("dirLock", Locals(c))
    BY <1>2 DEF Writing, Admitted, KeepsHandle, Holding, Appending
  <2> QED
    BY <1>1, <1>2, <2>1, GoOn
<1>3. CASE pc[c] = "shardWait" /\ Continue(c, "shardLock", Same(c), Locals(c))
  <2>1. pc[c] \in Writing /\ "shardLock" \in Admitted /\ KeepsHandle(pc[c], Locals(c))
    BY <1>3 DEF Writing, Admitted, KeepsHandle, Holding
  <2> QED
    BY <1>1, <1>3, <2>1, GoOn
<1> QED
  BY <1>2, <1>3 DEF LockRetry

LEMMA LockTimeoutType ==
  ASSUME TypeInv, NEW c \in Caller, LockTimeout(c) \/ LockFails(c)
  PROVE  TypeInv'
<1>1. /\ pc[c] \in Admitted
      /\ DirTypeOK'
      /\ faults' \in 0 .. MaxFaults
  BY FaultCount, DirUnchanged DEF LockTimeout, LockFails, TypeInv, TypeOK, Admitted
<1> QED
  BY <1>1, AdmittedFacts, ReturnStep DEF LockTimeout, LockFails

LEMMA RotationFailsType ==
  ASSUME TypeInv, NEW c \in Caller, pc[c] \in Writing,
         NEW state \in WriterState, RotationFails(c, state),
         DirTypeOK', faults' \in 0 .. MaxFaults
  PROVE  TypeInv'
<1> DEFINE locals == [Locals(c) EXCEPT !.failed = TRUE]
<1>1. locals \in Progress /\ locals.failed
  BY AdmittedFacts DEF Progress
<1>2. "dirUnlock" \in Admitted /\ ~KeepsHandle("dirUnlock", locals)
  BY <1>1 DEF Admitted, KeepsHandle, Holding, Appending, Rotating
<1>3. pc[c] \in Admitted /\ request[c].op = "write"
  BY WriteFacts DEF Writing
<1> HIDE DEF locals
<1>4. Continue(c, "dirUnlock", state, locals)
  BY DEF RotationFails, locals
<1> QED
  BY <1>1, <1>2, <1>3, <1>4, ContinueStep

LEMMA DiscoverType ==
  ASSUME TypeInv, NEW c \in Caller, Discover(c)
  PROVE  TypeInv'
<1>1. /\ pc[c] \in Writing /\ pc[c] \in Admitted
      /\ DirTypeOK'
      /\ faults' \in 0 .. MaxFaults
  BY FaultCount DEF Discover, FailsIf, LocksReleasedBy, TypeInv, TypeOK, DirTypeOK,
                    Writing, Rotating, Appending, Admitted
<1>2. CloseHandle(Same(c)) \in WriterState
  BY AdmittedFacts, ClosedState
<1>3. ASSUME NEW k \in Highest(Date(c)),
             Continue(c, "probe", CloseHandle(Same(c)), [Locals(c) EXCEPT !.index = k])
      PROVE  TypeInv'
  <2> DEFINE locals == [Locals(c) EXCEPT !.index = k]
  <2>1. k \in Nat
    BY DEF Highest, Indices, TypeInv, TypeOK, DirTypeOK, Shard, Inode
  <2>2. locals \in Progress
    BY <2>1, AdmittedFacts DEF Progress
  <2>3. "probe" \in Admitted /\ ~KeepsHandle("probe", locals)
    BY DEF Admitted, KeepsHandle, Holding, Appending, Rotating
  <2>4. request[c].op = "write"
    BY <1>1, WriteFacts
  <2> HIDE DEF locals
  <2> QED
    BY <1>1, <1>2, <1>3, <2>2, <2>3, <2>4, ContinueStep DEF locals
<1>4. CASE RotationFails(c, CloseHandle(Same(c)))
  BY <1>1, <1>2, <1>4, RotationFailsType
<1> QED
  BY <1>3, <1>4 DEF Discover

LEMMA ProbeFullType ==
  ASSUME TypeInv, NEW c \in Caller, ProbeFull(c)
  PROVE  TypeInv'
<1> DEFINE locals == [Locals(c) EXCEPT !.index = @ + 1]
<1>1. /\ pc[c] \in Writing /\ pc[c] \in Admitted
      /\ DirTypeOK'
      /\ faults' \in 0 .. MaxFaults
  BY DirUnchanged DEF ProbeFull, TypeInv, TypeOK, Writing, Rotating, Appending, Admitted
<1>2. locals \in Progress
  BY AdmittedFacts DEF Progress
<1>3. "probe" \in Admitted /\ ~KeepsHandle("probe", locals)
  BY DEF Admitted, KeepsHandle, Holding, Appending, Rotating
<1>4. request[c].op = "write"
  BY <1>1, WriteFacts
<1>5. Continue(c, "probe", Same(c), locals)
  BY DEF ProbeFull
<1> HIDE DEF locals
<1> QED
  BY <1>1, <1>2, <1>3, <1>4, <1>5, AdmittedFacts, ContinueStep

LEMMA OpenedState ==
  ASSUME TypeInv, NEW c \in Caller, pc[c] \in Writing, NEW i \in Inode, NEW n \in Nat
  PROVE  Opened(c, i, n) \in WriterState /\ Opened(c, i, n).handle = i /\ i # None
<1>1. Same(c) \in WriterState /\ Date(c) \in Day
  BY AdmittedFacts, WriteFacts
<1>2. Opened(c, i, n) \in WriterState /\ Opened(c, i, n).handle = i
  BY <1>1 DEF Opened, WriterState
<1>3. i \in Int
  BY BoundAssumption DEF Inode
<1> QED
  BY <1>2, <1>3, NoneAssumption

LEMMA OpenShardType ==
  ASSUME TypeInv, NEW c \in Caller, OpenShard(c)
  PROVE  TypeInv'
<1>1. /\ pc[c] \in Writing /\ pc[c] \in Admitted
      /\ DirTypeOK'
      /\ faults' \in 0 .. MaxFaults
  BY DirUnchanged DEF OpenShard, TypeInv, TypeOK, Writing, Rotating, Appending, Admitted
<1>2. PICK i \in Named(Date(c), Locals(c).index) :
             Continue(c, "retain", Opened(c, i, file[i].size), Locals(c))
  BY DEF OpenShard
<1>3. i \in Inode /\ file[i].size \in Nat
  BY LinkedShard DEF Named, TypeInv
<1>4. Opened(c, i, file[i].size) \in WriterState /\ Opened(c, i, file[i].size).handle # None
  BY <1>1, <1>3, OpenedState
<1>5. "retain" \in Admitted /\ request[c].op = "write"
  BY <1>1, WriteFacts DEF Admitted, Rotating
<1> QED
  BY <1>1, <1>2, <1>4, <1>5, AdmittedFacts, ContinueStep

LEMMA CreateShardType ==
  ASSUME TypeInv, NEW c \in Caller, CreateShard(c)
  PROVE  TypeInv'
<1>1. pc[c] \in Writing /\ pc[c] \in Admitted
  BY DEF CreateShard, Writing, Rotating, Appending, Admitted
<1>2. Date(c) \in Day /\ Locals(c).index \in Nat /\ request[c].op = "write"
  BY <1>1, WriteFacts, AdmittedFacts DEF Progress
<1>3. DirTypeOK'
  <2>1. EmptyShard(Date(c), Locals(c).index) \in Shard
    BY <1>2 DEF EmptyShard, Shard
  <2>2. file' \in [Inode -> Shard]
    BY <2>1 DEF CreateShard, Create, TypeInv, TypeOK, DirTypeOK
  <2>3. fresh' \in 1 .. MaxInode + 1 /\ linked' \subseteq 1 .. fresh' - 1
    BY BoundAssumption DEF CreateShard, Create, TypeInv, TypeOK, DirTypeOK, Inode
  <2> QED
    BY <2>2, <2>3 DEF CreateShard, TypeInv, TypeOK, DirTypeOK
<1>4. faults' \in 0 .. MaxFaults
  BY FaultCount DEF CreateShard, TypeInv
<1>5. CASE Continue(c, "retain", Opened(c, fresh, 0), Locals(c))
  <2>1. Opened(c, fresh, 0) \in WriterState /\ Opened(c, fresh, 0).handle # None
    BY <1>1, OpenedState DEF CreateShard
  <2>2. "retain" \in Admitted
    BY DEF Admitted, Rotating
  <2> QED
    BY <1>1, <1>2, <1>3, <1>4, <1>5, <2>1, <2>2, AdmittedFacts, ContinueStep
<1>6. CASE RotationFails(c, Same(c))
  BY <1>1, <1>3, <1>4, <1>6, AdmittedFacts, RotationFailsType
<1> QED
  BY <1>5, <1>6 DEF CreateShard

LEMMA OpenFailsType ==
  ASSUME TypeInv, NEW c \in Caller, OpenFails(c)
  PROVE  TypeInv'
<1>1. /\ pc[c] \in Writing
      /\ DirTypeOK'
      /\ faults' \in 0 .. MaxFaults
  BY FaultCount, DirUnchanged
  DEF OpenFails, FailsIf, TypeInv, TypeOK, Writing, Rotating, Appending, Admitted
<1> QED
  BY <1>1, AdmittedFacts, RotationFailsType DEF OpenFails

LEMMA ApplyRetentionType ==
  ASSUME TypeInv, NEW c \in Caller, ApplyRetention(c)
  PROVE  TypeInv'
<1> DEFINE swept == [Same(c) EXCEPT !.retentionAppliedTo = Date(c)]
           old == {name \in Names : Expirable(name[1])}
           locals == [Locals(c) EXCEPT !.stale = old]
<1>1. /\ pc[c] \in Writing /\ pc[c] \in Admitted /\ KeepsHandle(pc[c], Locals(c))
      /\ DirTypeOK'
      /\ faults' \in 0 .. MaxFaults
  BY FaultCount, DirUnchanged
  DEF ApplyRetention, FailsIf, TypeInv, TypeOK, Writing, Rotating, Appending, Admitted,
      KeepsHandle, Holding
<1>2. swept \in WriterState /\ swept.handle = Same(c).handle
  BY <1>1, AdmittedFacts, WriteFacts DEF WriterState
<1>3. Names \subseteq Day \X Nat
  BY LinkedShard DEF Names, TypeInv
<1>4. locals \in Progress
  BY <1>3, AdmittedFacts DEF Progress
<1>5. Same(c).handle # None /\ request[c].op = "write"
  BY <1>1, WriteFacts DEF TypeInv, CallInv, CallOK, Handle, Same, Locals
<1>6. CASE Continue(c, "dirUnlock", Same(c), Locals(c))
  BY <1>1, <1>5, <1>6, AdmittedFacts, ContinueStep DEF Admitted, Rotating
<1>7. CASE Continue(c, "sweep", swept, locals)
  <2>1. "sweep" \in Admitted
    BY DEF Admitted, Rotating
  <2> HIDE DEF swept, locals
  <2> QED
    BY <1>1, <1>2, <1>4, <1>5, <1>7, <2>1, ContinueStep
<1>8. CASE RotationFails(c, CloseHandle(swept))
  <2>1. CloseHandle(swept) \in WriterState
    BY <1>2, ClosedState
  <2> QED
    BY <1>1, <1>8, <2>1, RotationFailsType
<1> QED
  BY <1>6, <1>7, <1>8 DEF ApplyRetention

LEMMA SweepOneType ==
  ASSUME TypeInv, NEW c \in Caller, SweepOne(c)
  PROVE  TypeInv'
<1>1. /\ pc[c] \in Writing /\ pc[c] \in Admitted
      /\ DirTypeOK'
      /\ faults' \in 0 .. MaxFaults
  BY FaultCount DEF SweepOne, TypeInv, TypeOK, DirTypeOK, Writing, Rotating, Appending, Admitted
<1>2. Same(c).handle # None /\ request[c].op = "write"
  BY <1>1, WriteFacts DEF SweepOne, TypeInv, CallInv, CallOK, KeepsHandle, Holding, Handle, Same
<1>3. ASSUME NEW name,
             Continue(c, "sweep", Same(c), [Locals(c) EXCEPT !.stale = @ \ {name}])
      PROVE  TypeInv'
  <2> DEFINE locals == [Locals(c) EXCEPT !.stale = @ \ {name}]
  <2>1. locals \in Progress
    BY AdmittedFacts DEF Progress
  <2>2. "sweep" \in Admitted
    BY DEF Admitted, Rotating
  <2> HIDE DEF locals
  <2> QED
    BY <1>1, <1>2, <1>3, <2>1, <2>2, AdmittedFacts, ContinueStep DEF locals
<1>4. CASE RotationFails(c, CloseHandle(Same(c)))
  BY <1>1, <1>4, AdmittedFacts, ClosedState, RotationFailsType
<1> QED
  BY <1>3, <1>4 DEF SweepOne

LEMMA SweepDoneType ==
  ASSUME TypeInv, NEW c \in Caller, SweepDone(c)
  PROVE  TypeInv'
<1>1. /\ pc[c] \in Writing /\ KeepsHandle(pc[c], Locals(c))
      /\ DirTypeOK'
      /\ faults' \in 0 .. MaxFaults
  BY DirUnchanged DEF SweepDone, TypeInv, TypeOK, KeepsHandle, Holding,
                      Writing, Rotating, Appending, Admitted
<1>2. "dirUnlock" \in Admitted
  BY DEF Admitted, Rotating
<1> QED
  BY <1>1, <1>2, GoOn DEF SweepDone

LEMMA UnlockDirectoryType ==
  ASSUME TypeInv, NEW c \in Caller, UnlockDirectory(c)
  PROVE  TypeInv'
<1>1. /\ pc[c] \in Writing /\ pc[c] \in Admitted
      /\ DirTypeOK'
      /\ faults' \in 0 .. MaxFaults
  BY DEF UnlockDirectory, TypeInv, TypeOK, DirTypeOK, Writing, Rotating, Appending, Admitted
<1>2. CASE Locals(c).failed
  BY <1>1, <1>2, AdmittedFacts, ReturnStep DEF UnlockDirectory
<1>3. CASE ~Locals(c).failed
  <2>1. Same(c).handle # None /\ request[c].op = "write"
    BY <1>1, <1>3, WriteFacts
    DEF UnlockDirectory, TypeInv, CallInv, CallOK, KeepsHandle, Handle, Same, Locals
  <2>2. NoProgress \in Progress
    BY BoundAssumption DEF NoProgress, Progress, Generation
  <2>3. "shardLock" \in Admitted
    BY DEF Admitted
  <2> QED
    BY <1>1, <1>3, <2>1, <2>2, <2>3, AdmittedFacts, ContinueStep DEF UnlockDirectory
<1> QED
  BY <1>2, <1>3

(* What a write and a truncation make of a shard is a shard. *)
LEMMA HoldsType ==
  ASSUME NEW shard \in Shard, NEW n \in Nat, NEW extents \in SUBSET Extent
  PROVE  Holds(shard, n, extents) \in Shard
BY DEF Holds, Shard

LEMMA ExtendType ==
  ASSUME TypeOK, NEW i \in Inode, NEW e \in Event, NEW n \in Nat,
         NEW kind \in {"record", "fragment", "newline"}, Extend(i, e, kind, n)
  PROVE  file' \in [Inode -> Shard]
<1> DEFINE x == [ev |-> e, kind |-> kind,
                 start |-> file[i].size, end |-> file[i].size + n]
<1>1. file[i] \in Shard
  BY DEF TypeOK, DirTypeOK
<1>2. x \in Extent /\ file[i].data \subseteq Extent /\ file[i].size + n \in Nat
  BY <1>1 DEF Shard, Extent
<1>3. file' = [file EXCEPT ![i] = Holds(file[i], file[i].size + n, file[i].data \cup {x})]
  BY DEF Extend
<1> HIDE DEF x
<1>4. Holds(file[i], file[i].size + n, file[i].data \cup {x}) \in Shard
  BY <1>1, <1>2, HoldsType
<1> QED
  BY <1>3, <1>4 DEF TypeOK, DirTypeOK

LEMMA TruncateType ==
  ASSUME TypeOK, NEW i \in Inode, NEW n \in Nat, Truncate(i, n)
  PROVE  file' \in [Inode -> Shard]
<1> DEFINE kept == {x \in file[i].data : x.end <= n}
<1>1. file[i] \in Shard
  BY DEF TypeOK, DirTypeOK
<1>2. kept \in SUBSET Extent
  BY <1>1 DEF Shard
<1>3. file' = [file EXCEPT ![i] = Holds(file[i], n, kept)]
  BY DEF Truncate
<1> HIDE DEF kept
<1>4. Holds(file[i], n, kept) \in Shard
  BY <1>1, <1>2, HoldsType
<1> QED
  BY <1>3, <1>4 DEF TypeOK, DirTypeOK

(* A call that uses the shard has it open. *)
LEMMA HandleFacts ==
  ASSUME TypeInv, NEW c \in Caller, pc[c] \in Appending
  PROVE  /\ pc[c] \in Writing /\ pc[c] \in Admitted
         /\ KeepsHandle(pc[c], Locals(c))
         /\ Same(c).handle # None
         /\ Handle(c) \in Inode
<1>1. pc[c] \in Writing /\ pc[c] \in Admitted /\ KeepsHandle(pc[c], Locals(c))
  BY DEF Writing, Admitted, KeepsHandle, Holding, Appending
<1>2. Same(c).handle # None
  BY <1>1 DEF TypeInv, CallInv, CallOK, Same, Handle, Locals
<1> QED
  BY <1>1, <1>2, AdmittedFacts DEF WriterState, Same, Handle

LEMMA StatShardType ==
  ASSUME TypeInv, NEW c \in Caller, StatShard(c)
  PROVE  TypeInv'
<1> DEFINE sized == [Same(c) EXCEPT !.currentSize = file[Handle(c)].size]
<1>1. pc[c] \in Appending
  BY DEF StatShard, Appending
<1>2. file[Handle(c)].size \in Nat
  BY <1>1, HandleFacts DEF TypeInv, TypeOK, DirTypeOK, Shard
<1>3. sized \in WriterState /\ sized.handle = Same(c).handle
  BY <1>2, AdmittedFacts DEF WriterState
<1>4. DirTypeOK'
  BY DEF StatShard, Unlock, TypeInv, TypeOK, DirTypeOK
<1>5. faults' \in 0 .. MaxFaults
  BY FaultCount DEF StatShard, TypeInv
<1>6. "append" \in Admitted /\ "rotate" \in Admitted
  BY DEF Admitted, Appending
<1>7. CASE \/ Continue(c, "append", sized, Locals(c))
           \/ Continue(c, "rotate", sized, Locals(c))
  <2> HIDE DEF sized
  <2> QED
    BY <1>1, <1>3, <1>4, <1>5, <1>6, <1>7, HandleFacts, AdmittedFacts, WriteFacts, ContinueStep
<1>8. CASE Return(c, sized, FALSE)
  <2> HIDE DEF sized
  <2> QED
    BY <1>1, <1>3, <1>4, <1>5, <1>8, HandleFacts, ReturnStep
<1> QED
  BY <1>7, <1>8 DEF StatShard

LEMMA StatFailsType ==
  ASSUME TypeInv, NEW c \in Caller, StatFails(c)
  PROVE  TypeInv'
<1>1. pc[c] \in Admitted /\ DirTypeOK' /\ faults' \in 0 .. MaxFaults
  BY FaultCount DEF StatFails, Unlock, TypeInv, TypeOK, DirTypeOK, Admitted, Appending
<1> QED
  BY <1>1, AdmittedFacts, ReturnStep DEF StatFails

LEMMA AppendType ==
  ASSUME TypeInv, NEW c \in Caller, Append(c)
  PROVE  TypeInv'
<1>1. pc[c] \in Appending /\ "unlock" \in Admitted
  BY DEF Append, Appending, Admitted
<1>2. request[c].event \in Event /\ Line(c) \in Nat
  BY <1>1, HandleFacts, WriteFacts
<1>3. file' \in [Inode -> Shard]
  BY <1>1, <1>2, HandleFacts, ExtendType DEF Append, TypeInv
<1>4. DirTypeOK' /\ faults' \in 0 .. MaxFaults
  BY <1>3 DEF Append, TypeInv, TypeOK, DirTypeOK
<1> QED
  BY <1>1, <1>4, HandleFacts, GoOn DEF Append, KeepsHandle, Holding, Appending

LEMMA AppendFailsType ==
  ASSUME TypeInv, NEW c \in Caller, AppendFails(c)
  PROVE  TypeInv'
<1> DEFINE locals == [Locals(c) EXCEPT !.failed = TRUE]
<1>1. /\ pc[c] \in Appending
      /\ "unlock" \in Admitted /\ "restore" \in Admitted
  BY DEF AppendFails, Appending, Admitted
<1>2. request[c].event \in Event /\ Line(c) \in Nat
  BY <1>1, HandleFacts, WriteFacts
<1>3. file' \in [Inode -> Shard]
  <2>1. ASSUME NEW n \in 1 .. Line(c) - 1, Extend(Handle(c), request[c].event, "fragment", n)
        PROVE  file' \in [Inode -> Shard]
    BY <1>1, <1>2, <2>1, HandleFacts, ExtendType DEF TypeInv
  <2> QED
    BY <2>1 DEF AppendFails, TypeInv, TypeOK, DirTypeOK
<1>4. faults' \in 0 .. MaxFaults
  BY FaultCount DEF AppendFails, TypeInv
<1>5. DirTypeOK'
  BY <1>3 DEF AppendFails, TypeInv, TypeOK, DirTypeOK
<1>6. locals \in Progress
  BY AdmittedFacts DEF Progress
<1>7. PICK l \in {"unlock", "restore"} : Continue(c, l, Same(c), locals)
  BY DEF AppendFails
<1> HIDE DEF locals
<1> QED
  BY <1>1, <1>4, <1>5, <1>6, <1>7, HandleFacts, AdmittedFacts, WriteFacts, ContinueStep

LEMMA RestoreLineBoundaryType ==
  ASSUME TypeInv, NEW c \in Caller, RestoreLineBoundary(c)
  PROVE  TypeInv'
<1>1. pc[c] \in Appending /\ "unlock" \in Admitted
  BY DEF RestoreLineBoundary, Appending, Admitted
<1>2. request[c].event \in Event /\ Same(c).currentSize \in Nat
  BY <1>1, HandleFacts, WriteFacts, AdmittedFacts DEF WriterState
<1>3. file' \in [Inode -> Shard]
  <2>1. CASE Truncate(Handle(c), Same(c).currentSize)
    BY <1>1, <1>2, <2>1, HandleFacts, TruncateType DEF TypeInv
  <2>2. CASE Extend(Handle(c), request[c].event, "newline", 1)
    BY <1>1, <1>2, <2>2, HandleFacts, ExtendType DEF TypeInv
  <2> QED
    BY <2>1, <2>2 DEF RestoreLineBoundary, TypeInv, TypeOK, DirTypeOK
<1>4. faults' \in 0 .. MaxFaults
  BY FaultCount DEF RestoreLineBoundary, TypeInv
<1>5. DirTypeOK'
  BY <1>3 DEF RestoreLineBoundary, TypeInv, TypeOK, DirTypeOK
<1> QED
  BY <1>1, <1>4, <1>5, HandleFacts, GoOn
  DEF RestoreLineBoundary, KeepsHandle, Holding, Appending

LEMMA UnlockShardType ==
  ASSUME TypeInv, NEW c \in Caller, UnlockShard(c)
  PROVE  TypeInv'
<1> DEFINE grown == [Same(c) EXCEPT !.currentSize = @ + Line(c)]
<1>1. pc[c] \in Appending
  BY DEF UnlockShard, Appending
<1>2. Same(c) \in WriterState /\ grown \in WriterState
  BY <1>1, HandleFacts, WriteFacts, AdmittedFacts DEF WriterState
<1>3. DirTypeOK'
  BY DEF UnlockShard, Unlock, TypeInv, TypeOK, DirTypeOK
<1>4. faults' \in 0 .. MaxFaults
  BY FaultCount DEF UnlockShard, TypeInv
<1>5. Locals(c).failed \in BOOLEAN
  BY AdmittedFacts DEF Progress
<1>6. PICK state \in {Same(c), grown}, ok \in BOOLEAN : Return(c, state, ok)
  BY <1>5 DEF UnlockShard
<1> HIDE DEF grown
<1> QED
  BY <1>1, <1>2, <1>3, <1>4, <1>6, HandleFacts, ReturnStep

-----------------------------------------------------------------------------
(* The steps before the gate, and those of the environment.                *)

(* A call before or after the gate has nothing to say about the writer. *)
LEMMA OutsideCall ==
  ASSUME NEW c \in Caller, pc[c] \in {"idle", "gate"}
  PROVE  CallOK(c)
BY DEF CallOK, KeepsHandle, Holding, Appending, Admitted, Writing, Rotating

LEMMA SubmitType ==
  ASSUME TypeInv, NEW c \in Caller, NEW op, NEW event, Call(c, op, event),
         [op |-> op, event |-> event] \in WriteRequest \cup OtherRequest,
         sequence' \in [Caller -> 0 .. MaxSequence]
  PROVE  TypeInv'
<1>1. pc' \in [Caller -> {"idle", "gate"} \cup Admitted]
  BY DEF Call, Goto, TypeInv, TypeOK
<1>2. request' \in [Caller -> WriteRequest \cup OtherRequest]
  BY DEF Call, TypeInv, TypeOK
<1>3. DirTypeOK'
  BY DirUnchanged DEF Call, TypeInv
<1>4. TypeOK'
  BY <1>1, <1>2, <1>3 DEF Call, TypeInv, TypeOK
<1>5. ASSUME NEW d \in Caller PROVE CallOK(d)'
  <2>1. CASE d = c
    BY <2>1, OutsideCall DEF Call, Goto, TypeInv, TypeOK, CallOK, KeepsHandle, Holding,
                             Appending, Admitted, Writing, Rotating
  <2>2. CASE d # c
    <3>1. pc'[d] = pc[d] /\ request'[d] = request[d] /\ progress' = progress
      BY <2>2 DEF Call, Goto, TypeInv, TypeOK
    <3> QED
      BY <3>1 DEF Call, TypeInv, CallInv, CallOK, Handle
  <2> QED
    BY <2>1, <2>2
<1> QED
  BY <1>4, <1>5 DEF TypeInv, CallInv

LEMMA CallType ==
  ASSUME TypeInv, NEW c \in Caller,
         (\E n \in RecordSizes : Submit(c, n)) \/ CallFlush(c) \/ CallClose(c)
  PROVE  TypeInv'
<1>1. ASSUME NEW n \in RecordSizes, Submit(c, n) PROVE TypeInv'
  <2> DEFINE event == [caller |-> c, sequence |-> sequence[c] + 1,
                       date |-> today, bytes |-> EncodeLine(n)]
  <2>1. sequence' \in [Caller -> 0 .. MaxSequence] /\ sequence[c] + 1 \in Nat
    BY <1>1, EnvironmentAssumption DEF Submit, TypeInv, TypeOK
  <2>2. EncodeLine(n) \in Nat \ {0}
    BY SizeAssumption DEF EncodeLine
  <2>3. event \in Event
    BY <2>1, <2>2 DEF Event, TypeInv, TypeOK
  <2>4. Call(c, "write", event)
    BY <1>1 DEF Submit
  <2> HIDE DEF event
  <2>5. [op |-> "write", event |-> event] \in WriteRequest
    BY <2>3 DEF WriteRequest
  <2> QED
    BY <2>1, <2>4, <2>5, SubmitType
<1>2. CASE CallFlush(c)
  <2>1. [op |-> "flush", event |-> None] \in OtherRequest
    BY DEF OtherRequest
  <2> QED
    BY <1>2, <2>1, SubmitType DEF CallFlush, TypeInv, TypeOK
<1>3. CASE CallClose(c)
  <2>1. [op |-> "close", event |-> None] \in OtherRequest
    BY DEF OtherRequest
  <2> QED
    BY <1>3, <2>1, SubmitType DEF CallClose, TypeInv, TypeOK
<1> QED
  BY <1>1, <1>2, <1>3

LEMMA AcquireGateType ==
  ASSUME TypeInv, NEW c \in Caller, AcquireGate(c)
  PROVE  TypeInv'
<1>1. pc' \in [Caller -> {"idle", "gate"} \cup Admitted]
  BY DEF AcquireGate, Goto, TypeInv, TypeOK, Admitted
<1>2. gate' \in [Writer -> Caller \cup {None}]
  BY DEF AcquireGate, TypeInv, TypeOK
<1>3. DirTypeOK'
  BY DirUnchanged DEF AcquireGate, TypeInv
<1>4. TypeOK'
  BY <1>1, <1>2, <1>3 DEF AcquireGate, TypeInv, TypeOK
<1>5. ASSUME NEW d \in Caller PROVE CallOK(d)'
  <2>1. CASE d = c
    <3>1. pc'[d] = "admitted" /\ gate'[W(d)] = d
      BY <2>1, WriterOfCaller DEF AcquireGate, Goto, TypeInv, TypeOK
    <3> QED
      BY <3>1 DEF CallOK, KeepsHandle, Holding, Appending, Writing
  <2>2. CASE d # c
    <3>1. pc'[d] = pc[d] /\ request' = request /\ progress' = progress /\ writer' = writer
      BY <2>2 DEF AcquireGate, Goto, TypeInv, TypeOK
    <3>2. CallOK(d)
      BY DEF TypeInv, CallInv
    <3>3. pc[d] \in Admitted => d # None /\ W(c) # W(d)
      BY <3>2, NoneAssumption DEF CallOK, AcquireGate
    <3>4. pc[d] \in Admitted => gate'[W(d)] = gate[W(d)]
      BY <3>3, WriterOfCaller DEF AcquireGate, TypeInv, TypeOK
    <3> QED
      BY <3>1, <3>2, <3>4 DEF CallOK, Handle
  <2> QED
    BY <2>1, <2>2
<1> QED
  BY <1>4, <1>5 DEF TypeInv, CallInv

LEMMA AbandonGateType ==
  ASSUME TypeInv, NEW c \in Caller, AbandonGate(c)
  PROVE  TypeInv'
<1>1. /\ pc' \in [Caller -> {"idle", "gate"} \cup Admitted]
      /\ request' \in [Caller -> WriteRequest \cup OtherRequest]
  BY DEF AbandonGate, Goto, NoRequest, OtherRequest, TypeInv, TypeOK
<1>2. rejected' \subseteq Event
  BY WriteFacts DEF AbandonGate, TypeInv, TypeOK
<1>3. DirTypeOK'
  BY DirUnchanged DEF AbandonGate, TypeInv
<1>4. TypeOK'
  BY <1>1, <1>2, <1>3 DEF AbandonGate, TypeInv, TypeOK
<1>5. ASSUME NEW d \in Caller PROVE CallOK(d)'
  <2>1. CASE d = c
    BY <2>1 DEF AbandonGate, Goto, TypeInv, TypeOK, CallOK, KeepsHandle, Holding,
                Appending, Admitted, Writing, Rotating
  <2>2. CASE d # c
    <3>1. pc'[d] = pc[d] /\ request'[d] = request[d] /\ progress' = progress
      BY <2>2 DEF AbandonGate, Goto, TypeInv, TypeOK
    <3> QED
      BY <3>1 DEF AbandonGate, TypeInv, CallInv, CallOK, Handle
  <2> QED
    BY <2>1, <2>2
<1> QED
  BY <1>4, <1>5 DEF TypeInv, CallInv

LEMMA CrashType ==
  ASSUME TypeInv, NEW w \in Writer, Crash(w)
  PROVE  TypeInv'
<1>1. file' \in [Inode -> Shard]
  <2>1. ASSUME NEW c \in Caller, pc[c] = "append", NEW n \in 1 .. Line(c) - 1,
               Extend(Handle(c), request[c].event, "fragment", n)
        PROVE  file' \in [Inode -> Shard]
    <3>1. pc[c] \in Appending
      BY <2>1 DEF Appending
    <3> QED
      BY <2>1, <3>1, HandleFacts, WriteFacts, ExtendType DEF TypeInv
  <2>2. UNCHANGED file => file' \in [Inode -> Shard]
    BY DEF TypeInv, TypeOK, DirTypeOK
  <2> QED
    BY <2>1, <2>2 DEF Crash
<1>2. DirTypeOK'
  BY <1>1 DEF Crash, LocksReleasedBy, TypeInv, TypeOK, DirTypeOK
<1>3. pc' \in [Caller -> {"idle", "gate"} \cup Admitted]
  BY DEF Crash, TypeInv, TypeOK
<1>4. request' \in [Caller -> WriteRequest \cup OtherRequest]
  BY DEF Crash, NoRequest, OtherRequest, TypeInv, TypeOK
<1>5. progress' \in [Caller -> Progress]
  BY BoundAssumption DEF Crash, NoProgress, Progress, Generation, TypeInv, TypeOK
<1>6. writer' \in [Writer -> WriterState] /\ gate' \in [Writer -> Caller \cup {None}]
  BY DEF Crash, NewWriter, WriterState, TypeInv, TypeOK
<1>7. faults' \in 0 .. MaxFaults
  BY FaultCount DEF Crash, TypeInv
<1>8. TypeOK'
  BY <1>2, <1>3, <1>4, <1>5, <1>6, <1>7 DEF Crash, TypeInv, TypeOK
<1>9. ASSUME NEW d \in Caller PROVE CallOK(d)'
  <2>1. CASE W(d) = w
    <3>1. pc'[d] = "idle"
      BY <2>1 DEF Crash
    <3> QED
      BY <3>1 DEF CallOK, KeepsHandle, Holding, Appending, Admitted, Writing, Rotating
  <2>2. CASE W(d) # w
    <3>1. pc'[d] = pc[d] /\ request'[d] = request[d] /\ progress'[d] = progress[d]
      BY <2>2 DEF Crash
    <3>2. gate'[W(d)] = gate[W(d)] /\ writer'[W(d)] = writer[W(d)]
      BY <2>2, WriterOfCaller DEF Crash, TypeInv, TypeOK
    <3> QED
      BY <3>1, <3>2 DEF TypeInv, CallInv, CallOK, Handle, W
  <2> QED
    BY <2>1, <2>2
<1> QED
  BY <1>8, <1>9 DEF TypeInv, CallInv

(* What keeps the calls and the writers keeps the invariant on them. *)
LEMMA CallsUnchanged ==
  ASSUME TypeInv, TypeOK', UNCHANGED <<writer, gate, callVars>>
  PROVE  TypeInv'
<1> SUFFICES ASSUME NEW d \in Caller PROVE CallOK(d)'
  BY DEF TypeInv, CallInv
<1> QED
  BY DEF TypeInv, CallInv, CallOK, Handle, callVars

LEMMA EnvironmentType ==
  ASSUME TypeInv, Midnight \/ RemoveDirectory \/ UNCHANGED vars
  PROVE  TypeInv'
<1>1. CASE Midnight
  <2>1. DirTypeOK' /\ today' \in Day
    BY <1>1, DirUnchanged, BoundAssumption DEF Midnight, TypeInv, TypeOK, Day
  <2> QED
    BY <1>1, <2>1, CallsUnchanged DEF Midnight, TypeInv, TypeOK, callVars
<1>2. CASE RemoveDirectory
  <2>1. DirTypeOK'
    <3>1. generation' \in Generation
      BY <1>2, BoundAssumption DEF RemoveDirectory, TypeInv, TypeOK, DirTypeOK, Generation
    <3>2. linked' = {} /\ directory' = FALSE /\ UNCHANGED <<file, fresh, flock, dirLock>>
      BY <1>2 DEF RemoveDirectory
    <3> QED
      BY <3>1, <3>2 DEF TypeInv, TypeOK, DirTypeOK
  <2>2. faults' \in 0 .. MaxFaults
    BY <1>2, FaultCount DEF RemoveDirectory, TypeInv
  <2> QED
    BY <1>2, <2>1, <2>2, CallsUnchanged DEF RemoveDirectory, TypeInv, TypeOK, callVars
<1>3. CASE UNCHANGED vars
  <2>1. DirTypeOK'
    BY <1>3, DirUnchanged DEF vars, TypeInv
  <2> QED
    BY <1>3, <2>1, CallsUnchanged DEF vars, TypeInv, TypeOK, callVars
<1> QED
  BY <1>1, <1>2, <1>3

-----------------------------------------------------------------------------
(* Type correctness.                                                       *)

LEMMA InitType == Init => TypeInv
<1> SUFFICES ASSUME Init PROVE TypeInv
  OBVIOUS
<1>1. DirTypeOK
  <2>1. EmptyShard(0, 0) \in Shard
    BY BoundAssumption DEF EmptyShard, Shard, Day
  <2> QED
    BY <2>1, BoundAssumption DEF Init, DirInit, DirTypeOK, Generation
<1>2. NewWriter \in WriterState /\ NoRequest \in OtherRequest /\ NoProgress \in Progress
  BY BoundAssumption DEF NewWriter, WriterState, NoRequest, OtherRequest, NoProgress,
                         Progress, Generation
<1>3. TypeOK
  BY <1>1, <1>2, BoundAssumption, EnvironmentAssumption DEF Init, TypeOK, Day
<1>4. CallInv
  BY OutsideCall DEF Init, CallInv
<1> QED
  BY <1>3, <1>4 DEF TypeInv

LEMMA CallerStepType ==
  ASSUME TypeInv, NEW c \in Caller, CallerStep(c)
  PROVE  TypeInv'
<1>1. CASE \/ FlushActive(c) \/ CloseWriter(c)
           \/ RejectClosed(c) \/ EnsureDirectory(c) \/ DirectoryFails(c)
  BY <1>1, FlushType, CloseType, RejectClosedType, EnsureDirectoryType, DirectoryFailsType
<1>2. CASE \/ OpenLockFile(c) \/ TryDirLock(c) \/ TryShardLock(c) \/ LockRetry(c)
           \/ LockFails(c)
  BY <1>2, OpenLockFileType, TryDirLockType, TryShardLockType, LockRetryType, LockTimeoutType
<1>3. CASE \/ Discover(c) \/ ProbeFull(c) \/ OpenShard(c) \/ CreateShard(c) \/ OpenFails(c)
  BY <1>3, DiscoverType, ProbeFullType, OpenShardType, CreateShardType, OpenFailsType
<1>4. CASE \/ ApplyRetention(c) \/ SweepOne(c) \/ SweepDone(c) \/ UnlockDirectory(c)
  BY <1>4, ApplyRetentionType, SweepOneType, SweepDoneType, UnlockDirectoryType
<1>5. CASE \/ StatShard(c) \/ StatFails(c) \/ Append(c) \/ AppendFails(c)
           \/ RestoreLineBoundary(c) \/ UnlockShard(c)
  BY <1>5, StatShardType, StatFailsType, AppendType, AppendFailsType,
     RestoreLineBoundaryType, UnlockShardType
<1> QED
  BY <1>1, <1>2, <1>3, <1>4, <1>5 DEF CallerStep

LEMMA NextType == TypeInv /\ [Next]_vars => TypeInv'
<1> SUFFICES ASSUME TypeInv, [Next]_vars PROVE TypeInv'
  OBVIOUS
<1>1. ASSUME NEW c \in Caller,
             \/ \E n \in RecordSizes : Submit(c, n)
             \/ CallFlush(c) \/ CallClose(c)
             \/ AcquireGate(c) \/ AbandonGate(c) \/ LockTimeout(c)
             \/ CallerStep(c)
      PROVE  TypeInv'
  BY <1>1, CallType, AcquireGateType, AbandonGateType, LockTimeoutType, CallerStepType
<1>2. ASSUME NEW w \in Writer, Crash(w) PROVE TypeInv'
  BY <1>2, CrashType
<1> QED
  BY <1>1, <1>2, EnvironmentType DEF Next

LEMMA TypeInvariant == Spec => []TypeInv
BY InitType, NextType, PTL DEF Spec

(* Every variable keeps its type: no step writes a shard, a lock or a      *)
(* writer outside the values jsonl_writer.go gives it.                     *)
THEOREM TypeCorrect == Spec => []TypeOK
BY TypeInvariant, PTL DEF TypeInv

-----------------------------------------------------------------------------
(* The bound of a shard.  A line is appended under the lock on the shard,  *)
(* after a look at its size under the same lock, and nobody else appends   *)
(* in between: that is what the invariant has to say about each call.      *)

ShardLocked(c) == pc[c] \in Appending => flock[Handle(c)] = W(c)

Fits(size, n) == size = 0 \/ size + n <= MaxFileBytes

SizeKnown(c) ==
    pc[c] = "append" =>
        /\ Same(c).currentSize = file[Handle(c)].size
        /\ Fits(Same(c).currentSize, Line(c))

FragmentKnown(c) ==
    pc[c] = "restore" =>
        /\ file[Handle(c)].size < Same(c).currentSize + Line(c)
        /\ Fits(Same(c).currentSize, Line(c))
        /\ Same(c).currentSize = 0 =>
              \A x \in file[Handle(c)].data : x.ev = request[c].event

CallBound(c) == ShardLocked(c) /\ SizeKnown(c) /\ FragmentKnown(c)

HandleBound(w) == writer[w].handle # None => writer[w].handle < fresh

ExtentsWithin(i) == \A x \in file[i].data : x.end \in 1 .. file[i].size

BoundInv ==
    /\ TypeInv
    /\ \A c \in Caller : CallBound(c)
    /\ \A w \in Writer : HandleBound(w)
    /\ \A i \in Inode : ExtentsWithin(i)
    /\ ShardBounded

(* A step of a call leaves the other calls and writers alone. *)
Only(c) ==
    /\ \A d \in Caller \ {c} : pc'[d] = pc[d] /\ request'[d] = request[d]
    /\ \A w \in Writer \ {W(c)} : writer'[w] = writer[w]

(* It takes no lock away from another writer. *)
LocksKept(c) == \A i \in Inode : flock[i] \notin {None, W(c)} => flock'[i] = flock[i]

LEMMA ReturnOnly ==
  ASSUME TypeOK, NEW c \in Caller, NEW state \in WriterState, NEW ok, Return(c, state, ok)
  PROVE  Only(c) /\ pc'[c] = "idle" /\ (writer'[W(c)].handle = state.handle)
<1>1. pc'[c] = "idle" /\ Only(c)
  BY WriterOfCaller DEF Only, Return, Goto, TypeOK
<1>2. \/ writer'[W(c)] = state
      \/ writer'[W(c)] = [state EXCEPT !.directoryReady = FALSE]
  BY WriterOfCaller DEF Return, TypeOK
<1>3. [state EXCEPT !.directoryReady = FALSE].handle = state.handle
  BY DEF WriterState
<1> QED
  BY <1>1, <1>2, <1>3

LEMMA ContinueOnly ==
  ASSUME TypeOK, NEW c \in Caller, NEW l, NEW state, NEW locals, Continue(c, l, state, locals)
  PROVE  Only(c) /\ pc'[c] = l /\ writer'[W(c)] = state /\ request' = request
BY WriterOfCaller DEF Only, Continue, Goto, TypeOK

(* Nor does it change the shard another call has locked. *)
LEMMA OtherCallBound ==
  ASSUME BoundInv, NEW c \in Caller, pc[c] \in Admitted, NEW d \in Caller, d # c,
         Only(c), LocksKept(c),
         \A i \in Inode : flock[i] \notin {None, W(c)} => file'[i] = file[i]
  PROVE  CallBound(d)'
<1>1. pc'[d] = pc[d] /\ request'[d] = request[d]
  BY DEF Only
<1>2. CASE pc[d] \in Appending
  <2>1. pc[d] \in Admitted /\ Handle(d) \in Inode
    BY <1>2, HandleFacts DEF BoundInv
  <2>2. W(d) # W(c)
    BY <2>1, GateExclusion DEF BoundInv, TypeInv
  <2>3. writer'[W(d)] = writer[W(d)]
    BY <2>2, WriterOfCaller DEF Only
  <2>4. Handle(d)' = Handle(d) /\ Same(d)' = Same(d) /\ Line(d)' = Line(d)
    BY <1>1, <2>3 DEF Handle, Same, Line, W
  <2>5. flock[Handle(d)] = W(d) /\ W(d) # None
    BY <1>2, WriterOfCaller, NoneAssumption DEF BoundInv, CallBound, ShardLocked
  <2>6. flock'[Handle(d)] = flock[Handle(d)] /\ file'[Handle(d)] = file[Handle(d)]
    BY <2>1, <2>2, <2>5 DEF LocksKept
  <2>7. CallBound(d)
    BY DEF BoundInv
  <2>8. ShardLocked(d)'
    BY <1>1, <2>4, <2>5, <2>6 DEF ShardLocked, W
  <2>9. SizeKnown(d)' /\ FragmentKnown(d)'
    BY <1>1, <2>4, <2>6, <2>7 DEF CallBound, SizeKnown, FragmentKnown
  <2> QED
    BY <2>8, <2>9 DEF CallBound
<1>3. CASE pc[d] \notin Appending
  BY <1>1, <1>3 DEF CallBound, ShardLocked, SizeKnown, FragmentKnown, Appending
<1> QED
  BY <1>2, <1>3

(* A step that changes no shard. *)
LEMMA QuietStep ==
  ASSUME BoundInv, TypeInv', NEW c \in Caller, pc[c] \in Admitted, Only(c), LocksKept(c),
         UNCHANGED <<file, fresh>>, CallBound(c)', HandleBound(W(c))'
  PROVE  BoundInv'
<1>1. ASSUME NEW d \in Caller PROVE CallBound(d)'
  BY OtherCallBound
<1>2. ASSUME NEW w \in Writer PROVE HandleBound(w)'
  BY DEF Only, BoundInv, HandleBound
<1>3. ASSUME NEW i \in Inode PROVE ExtentsWithin(i)'
  BY DEF BoundInv, ExtentsWithin
<1>4. ShardBounded'
  BY DEF BoundInv, ShardBounded
<1> QED
  BY <1>1, <1>2, <1>3, <1>4 DEF BoundInv

LEMMA LocksUnchanged ==
  ASSUME NEW c, flock' = flock
  PROVE  LocksKept(c)
BY DEF LocksKept

LEMMA LocksReleased ==
  ASSUME NEW c, flock' = LocksReleasedBy(W(c))
  PROVE  LocksKept(c)
BY DEF LocksKept, LocksReleasedBy

LEMMA LockGiven ==
  ASSUME TypeOK, NEW c \in Caller, NEW i \in Inode, NEW owner,
         flock[i] \in {None, W(c)}, flock' = [flock EXCEPT ![i] = owner]
  PROVE  LocksKept(c)
BY DEF LocksKept, TypeOK, DirTypeOK

LEMMA Unlocked ==
  ASSUME BoundInv, NEW c \in Caller, pc[c] \in Appending, Unlock(c)
  PROVE  LocksKept(c)
<1>1. flock[Handle(c)] = W(c)
  BY DEF BoundInv, CallBound, ShardLocked
<1>2. Handle(c) \in Inode
  BY HandleFacts DEF BoundInv
<1> QED
  BY <1>1, <1>2, LockGiven DEF Unlock, BoundInv, TypeInv

(* A call that is not past the lock on its shard. *)
LEMMA NotAppending ==
  ASSUME NEW c, pc[c] \notin Appending
  PROVE  CallBound(c)
BY DEF CallBound, ShardLocked, SizeKnown, FragmentKnown, Appending

LEMMA QuietReturn ==
  ASSUME BoundInv, TypeInv', NEW c \in Caller, pc[c] \in Admitted,
         NEW state \in WriterState, NEW ok, Return(c, state, ok), state.handle \in {None, Handle(c)},
         LocksKept(c), UNCHANGED <<file, fresh>>
  PROVE  BoundInv'
<1>1. Only(c) /\ pc'[c] = "idle" /\ writer'[W(c)].handle = state.handle
  BY ReturnOnly DEF BoundInv, TypeInv
<1>2. CallBound(c)'
  BY <1>1 DEF CallBound, ShardLocked, SizeKnown, FragmentKnown, Appending
<1>3. HandleBound(W(c))'
  BY <1>1, WriterOfCaller DEF HandleBound, BoundInv, Handle, W
<1> QED
  BY <1>1, <1>2, <1>3, QuietStep

LEMMA QuietContinue ==
  ASSUME BoundInv, TypeInv', NEW c \in Caller, pc[c] \in Admitted,
         NEW l, l \notin Appending, NEW state, NEW locals, Continue(c, l, state, locals),
         state.handle # None => state.handle < fresh,
         LocksKept(c), UNCHANGED <<file, fresh>>
  PROVE  BoundInv'
<1>1. Only(c) /\ pc'[c] = l /\ writer'[W(c)] = state
  BY ContinueOnly DEF BoundInv, TypeInv
<1>2. CallBound(c)'
  BY <1>1 DEF CallBound, ShardLocked, SizeKnown, FragmentKnown, Appending
<1>3. HandleBound(W(c))'
  BY <1>1 DEF HandleBound, W
<1> QED
  BY <1>1, <1>2, <1>3, QuietStep

LEMMA HandleBelowFresh ==
  ASSUME BoundInv, NEW c \in Caller
  PROVE  Same(c).handle # None => Same(c).handle < fresh
BY WriterOfCaller DEF BoundInv, HandleBound, Same

(* A call that returns an error with the writer as it was. *)
LEMMA GivesUpBound ==
  ASSUME BoundInv, TypeInv', NEW c \in Caller,
         RejectClosed(c) \/ DirectoryFails(c) \/ LockTimeout(c) \/ LockFails(c) \/ FlushActive(c)
  PROVE  BoundInv'
<1>1. PICK ok \in BOOLEAN : Return(c, Same(c), ok)
  BY DEF RejectClosed, DirectoryFails, LockTimeout, LockFails, FlushActive
<1>2. pc[c] \in Admitted /\ UNCHANGED <<file, fresh, flock>>
  BY DEF RejectClosed, DirectoryFails, LockTimeout, LockFails, FlushActive, dirVars, Admitted
<1>3. Same(c) \in WriterState /\ Same(c).handle = Handle(c)
  BY AdmittedFacts DEF BoundInv, Same, Handle
<1> QED
  BY <1>1, <1>2, <1>3, LocksUnchanged, QuietReturn

LEMMA CloseBound ==
  ASSUME BoundInv, TypeInv', NEW c \in Caller, CloseWriter(c)
  PROVE  BoundInv'
<1> DEFINE closed == [CloseHandle(Same(c)) EXCEPT !.closed = TRUE]
<1>1. Same(c) \in WriterState /\ closed \in WriterState
  BY AdmittedFacts, ClosedState, ClosedForGood DEF BoundInv
<1>2. Same(c).handle = Handle(c) /\ closed.handle = None
  BY <1>1 DEF CloseHandle, WriterState, Same, Handle
<1>3. pc[c] \in Admitted /\ UNCHANGED <<file, fresh>>
  BY DEF CloseWriter, Admitted
<1>4. PICK state \in {Same(c), closed} : Return(c, state, TRUE)
  BY DEF CloseWriter
<1>5. LocksKept(c)
  BY LocksUnchanged, LocksReleased DEF CloseWriter
<1> HIDE DEF closed
<1> QED
  BY <1>1, <1>2, <1>3, <1>4, <1>5, QuietReturn

(* A rotation that fails keeps or closes the handle. *)
LEMMA RotationFailsBound ==
  ASSUME BoundInv, TypeInv', NEW c \in Caller, pc[c] \in Admitted,
         NEW state, RotationFails(c, state), state.handle \in {None, Same(c).handle},
         LocksKept(c), UNCHANGED <<file, fresh>>
  PROVE  BoundInv'
<1>1. state.handle # None => state.handle < fresh
  BY HandleBelowFresh
<1>2. "dirUnlock" \notin Appending
  BY DEF Appending
<1> QED
  BY <1>1, <1>2, QuietContinue DEF RotationFails

(* A call that goes on, before it has the lock on its shard. *)
LEMMA GoesOnBound ==
  ASSUME BoundInv, TypeInv', NEW c \in Caller,
         \/ EnsureDirectory(c) \/ OpenLockFile(c) \/ TryDirLock(c) \/ LockRetry(c)
         \/ ProbeFull(c) \/ SweepDone(c) \/ UnlockDirectory(c)
  PROVE  BoundInv'
<1>1. pc[c] \in Admitted /\ UNCHANGED <<file, fresh, flock>>
  BY DEF EnsureDirectory, OpenLockFile, TryDirLock, LockRetry, ProbeFull, SweepDone,
         UnlockDirectory, dirVars, Admitted, Rotating
<1>2. LocksKept(c) /\ (Same(c).handle # None => Same(c).handle < fresh)
  BY <1>1, LocksUnchanged, HandleBelowFresh
<1>3. ASSUME NEW l \in {"rotate", "shardLock", "dirLock", "discover", "dirWait", "probe",
                        "dirUnlock"},
             NEW locals, Continue(c, l, Same(c), locals)
      PROVE  BoundInv'
  BY <1>1, <1>2, <1>3, QuietContinue DEF Appending
<1>4. CASE EnsureDirectory(c)
  <2> DEFINE ready == [Same(c) EXCEPT !.directoryReady = TRUE]
  <2>1. ready.handle = Same(c).handle
    BY AdmittedFacts DEF BoundInv, WriterState
  <2>2. PICK l \in {"rotate", "shardLock"} : Continue(c, l, ready, Locals(c))
    BY <1>4 DEF EnsureDirectory
  <2> HIDE DEF ready
  <2> QED
    BY <1>1, <1>2, <2>1, <2>2, QuietContinue DEF Appending
<1>5. ASSUME Return(c, Same(c), FALSE) PROVE BoundInv'
  <2>1. Same(c) \in WriterState /\ Same(c).handle = Handle(c)
    BY AdmittedFacts DEF BoundInv, Same, Handle
  <2> QED
    BY <1>1, <1>2, <1>5, <2>1, QuietReturn
<1>6. CASE OpenLockFile(c)
  BY <1>3, <1>5, <1>6 DEF OpenLockFile
<1>7. CASE TryDirLock(c)
  BY <1>3, <1>7 DEF TryDirLock
<1>8. CASE LockRetry(c)
  BY <1>3, <1>8 DEF LockRetry
<1>9. CASE ProbeFull(c) \/ SweepDone(c)
  BY <1>3, <1>9 DEF ProbeFull, SweepDone
<1>10. CASE UnlockDirectory(c)
  BY <1>3, <1>5, <1>10 DEF UnlockDirectory
<1> QED
  BY <1>4, <1>6, <1>7, <1>8, <1>9, <1>10

LEMMA RotatesBound ==
  ASSUME BoundInv, TypeInv', NEW c \in Caller,
         \/ Discover(c) \/ OpenShard(c) \/ OpenFails(c) \/ ApplyRetention(c) \/ SweepOne(c)
  PROVE  BoundInv'
<1>1. pc[c] \in Admitted /\ UNCHANGED <<file, fresh>>
  BY DEF Discover, OpenShard, OpenFails, ApplyRetention, SweepOne, dirVars, Admitted, Rotating
<1>2. LocksKept(c)
  BY LocksReleased, LocksUnchanged
  DEF Discover, OpenShard, OpenFails, ApplyRetention, SweepOne, dirVars
<1>3. Same(c) \in WriterState
  BY AdmittedFacts DEF BoundInv
<1>4. CloseHandle(Same(c)).handle = None
  BY <1>3 DEF CloseHandle, WriterState
<1>5. CASE Discover(c)
  <2>1. ASSUME NEW locals, Continue(c, "probe", CloseHandle(Same(c)), locals)
        PROVE  BoundInv'
    BY <1>1, <1>2, <1>4, <2>1, QuietContinue DEF Appending
  <2>2. CASE RotationFails(c, CloseHandle(Same(c)))
    BY <1>1, <1>2, <1>4, <2>2, RotationFailsBound
  <2> QED
    BY <1>5, <2>1, <2>2 DEF Discover
<1>6. CASE OpenShard(c)
  <2>1. PICK i \in linked : Continue(c, "retain", Opened(c, i, file[i].size), Locals(c))
    BY <1>6 DEF OpenShard, Named
  <2>2. Opened(c, i, file[i].size).handle = i
    BY <1>3 DEF Opened, WriterState
  <2>3. i < fresh
    BY BoundAssumption DEF BoundInv, TypeInv, TypeOK, DirTypeOK
  <2> QED
    BY <1>1, <1>2, <2>1, <2>2, <2>3, QuietContinue DEF Appending
<1>7. CASE OpenFails(c)
  BY <1>1, <1>2, <1>7, RotationFailsBound DEF OpenFails
<1>8. CASE ApplyRetention(c)
  <2> DEFINE swept == [Same(c) EXCEPT !.retentionAppliedTo = Date(c)]
  <2>1. swept.handle = Same(c).handle /\ CloseHandle(swept).handle = None
    BY <1>3 DEF CloseHandle, WriterState
  <2>2. Same(c).handle # None => Same(c).handle < fresh
    BY HandleBelowFresh
  <2>3. CASE Continue(c, "dirUnlock", Same(c), Locals(c))
    BY <1>1, <1>2, <2>2, <2>3, QuietContinue DEF Appending
  <2>4. ASSUME NEW locals, Continue(c, "sweep", swept, locals) PROVE BoundInv'
    <3> HIDE DEF swept
    <3> QED
      BY <1>1, <1>2, <2>1, <2>2, <2>4, QuietContinue DEF Appending
  <2>5. CASE RotationFails(c, CloseHandle(swept))
    <3> HIDE DEF swept
    <3> QED
      BY <1>1, <1>2, <2>1, <2>5, RotationFailsBound
  <2> QED
    BY <1>8, <2>3, <2>4, <2>5 DEF ApplyRetention
<1>9. CASE SweepOne(c)
  <2>1. ASSUME NEW locals, Continue(c, "sweep", Same(c), locals) PROVE BoundInv'
    BY <1>1, <1>2, <2>1, HandleBelowFresh, QuietContinue DEF Appending
  <2>2. CASE RotationFails(c, CloseHandle(Same(c)))
    BY <1>1, <1>2, <1>4, <2>2, RotationFailsBound
  <2> QED
    BY <1>9, <2>1, <2>2 DEF SweepOne
<1> QED
  BY <1>5, <1>6, <1>7, <1>8, <1>9

(* What the steps under the lock do to the shard.                          *)

LEMMA ExtendBound ==
  ASSUME BoundInv, NEW i \in Inode, NEW e \in Event, NEW n \in Nat \ {0},
         NEW kind \in {"record", "fragment", "newline"}, Extend(i, e, kind, n),
         file[i].size + n > MaxFileBytes => \A x \in file[i].data : x.ev = e
  PROVE  /\ \A j \in Inode : ExtentsWithin(j)'
         /\ ShardBounded'
         /\ \A j \in Inode \ {i} : file'[j] = file[j]
         /\ file'[i].size = file[i].size + n
         /\ \A x \in file'[i].data : x \in file[i].data \/ x.ev = e
<1> DEFINE last == [ev |-> e, kind |-> kind,
                    start |-> file[i].size, end |-> file[i].size + n]
<1>1. file[i].size \in Nat
  BY DEF BoundInv, TypeInv, TypeOK, DirTypeOK, Shard
<1>2. last.ev = e /\ last.end = file[i].size + n
  OBVIOUS
<1>3. file' = [file EXCEPT ![i] = Holds(file[i], file[i].size + n, file[i].data \cup {last})]
  BY DEF Extend
<1> HIDE DEF last
<1>4. /\ \A j \in Inode \ {i} : file'[j] = file[j]
      /\ file'[i].size = file[i].size + n
      /\ file'[i].data = file[i].data \cup {last}
  BY <1>3 DEF Holds, BoundInv, TypeInv, TypeOK, DirTypeOK
<1>5. ASSUME NEW j \in Inode PROVE ExtentsWithin(j)'
  <2>1. CASE j = i
    BY <1>1, <1>2, <1>4, <2>1 DEF ExtentsWithin, BoundInv
  <2>2. CASE j # i
    BY <1>4, <2>2 DEF ExtentsWithin, BoundInv
  <2> QED
    BY <2>1, <2>2
<1>6. ShardBounded'
  BY <1>2, <1>4 DEF ShardBounded, BoundInv
<1> QED
  BY <1>2, <1>4, <1>5, <1>6

LEMMA TruncateBound ==
  ASSUME BoundInv, NEW i \in Inode, NEW n \in 0 .. MaxFileBytes, Truncate(i, n)
  PROVE  /\ \A j \in Inode : ExtentsWithin(j)'
         /\ ShardBounded'
         /\ \A j \in Inode \ {i} : file'[j] = file[j]
<1>1. /\ \A j \in Inode \ {i} : file'[j] = file[j]
      /\ file'[i].size = n
      /\ file'[i].data = {x \in file[i].data : x.end <= n}
  BY DEF Truncate, Holds, BoundInv, TypeInv, TypeOK, DirTypeOK
<1>2. ASSUME NEW j \in Inode PROVE ExtentsWithin(j)'
  <2>1. CASE j = i
    <3>1. file[i].size \in Nat
      BY DEF BoundInv, TypeInv, TypeOK, DirTypeOK, Shard
    <3> QED
      BY <1>1, <2>1, <3>1 DEF ExtentsWithin, BoundInv
  <2>2. CASE j # i
    BY <1>1, <2>2 DEF ExtentsWithin, BoundInv
  <2> QED
    BY <2>1, <2>2
<1>3. ShardBounded'
  BY <1>1, SizeAssumption DEF ShardBounded, BoundInv
<1> QED
  BY <1>1, <1>2, <1>3

(* An empty shard has no extents, so a line that is alone in its shard may *)
(* be as long as it likes.                                                 *)
LEMMA EmptyHasNone ==
  ASSUME BoundInv, NEW i \in Inode, file[i].size = 0
  PROVE  file[i].data = {}
<1>1. \A x \in file[i].data : x.end \in 1 .. 0
  BY DEF BoundInv, ExtentsWithin
<1> QED
  BY <1>1

(* A step of a call that has the lock changes only the locked shard. *)
LEMMA LockedStep ==
  ASSUME BoundInv, TypeInv', NEW c \in Caller, pc[c] \in Appending,
         NEW l, NEW locals, Continue(c, l, Same(c), locals), UNCHANGED <<fresh, flock>>,
         \A j \in Inode : ExtentsWithin(j)', ShardBounded',
         \A j \in Inode \ {Handle(c)} : file'[j] = file[j],
         SizeKnown(c)', FragmentKnown(c)'
  PROVE  BoundInv'
<1>1. Only(c) /\ pc'[c] = l /\ writer'[W(c)] = writer[W(c)]
  BY ContinueOnly DEF BoundInv, TypeInv, Same
<1>2. flock[Handle(c)] = W(c) /\ Handle(c)' = Handle(c)
  BY <1>1 DEF BoundInv, CallBound, ShardLocked, Handle, W
<1>3. CallBound(c)'
  BY <1>2 DEF CallBound, ShardLocked, W
<1>4. ASSUME NEW d \in Caller, d # c PROVE CallBound(d)'
  BY <1>1, <1>2, <1>4, HandleFacts, LocksUnchanged, OtherCallBound DEF BoundInv
<1>5. ASSUME NEW w \in Writer PROVE HandleBound(w)'
  BY <1>1 DEF Only, BoundInv, HandleBound
<1> QED
  BY <1>3, <1>4, <1>5 DEF BoundInv

LEMMA AppendingFacts ==
  ASSUME BoundInv, NEW c \in Caller, pc[c] \in Appending
  PROVE  /\ pc[c] \in Admitted
         /\ Same(c) \in WriterState
         /\ Same(c).currentSize \in Nat
         /\ Handle(c) \in Inode
         /\ file[Handle(c)].size \in Nat
         /\ request[c].event \in Event
         /\ Line(c) \in Nat \ {0}
<1>1. pc[c] \in Writing /\ pc[c] \in Admitted /\ Handle(c) \in Inode
  BY HandleFacts DEF BoundInv
<1>2. Same(c) \in WriterState
  BY AdmittedFacts DEF BoundInv
<1>3. request[c].event \in Event /\ Line(c) \in Nat \ {0}
  BY <1>1, WriteFacts DEF BoundInv
<1> QED
  BY <1>1, <1>2, <1>3 DEF WriterState, BoundInv, TypeInv, TypeOK, DirTypeOK, Shard

LEMMA AppendBound ==
  ASSUME BoundInv, TypeInv', NEW c \in Caller, Append(c)
  PROVE  BoundInv'
<1>1. pc[c] \in Appending /\ pc[c] = "append"
  BY DEF Append, Appending
<1>2. Fits(file[Handle(c)].size, Line(c))
  BY <1>1 DEF BoundInv, CallBound, SizeKnown
<1>3. Extend(Handle(c), request[c].event, "record", Line(c))
  BY DEF Append
<1>4. file[Handle(c)].size + Line(c) > MaxFileBytes =>
         \A x \in file[Handle(c)].data : x.ev = request[c].event
  BY <1>1, <1>2, AppendingFacts, EmptyHasNone, SizeAssumption DEF Fits
<1>5. /\ \A j \in Inode : ExtentsWithin(j)'
      /\ ShardBounded'
      /\ \A j \in Inode \ {Handle(c)} : file'[j] = file[j]
  BY <1>1, <1>3, <1>4, AppendingFacts, ExtendBound
<1>6. Continue(c, "unlock", Same(c), Locals(c)) /\ UNCHANGED <<fresh, flock>>
  BY DEF Append
<1>7. SizeKnown(c)' /\ FragmentKnown(c)'
  BY <1>6, ContinueOnly DEF SizeKnown, FragmentKnown, BoundInv, TypeInv
<1> QED
  BY <1>1, <1>5, <1>6, <1>7, LockedStep

LEMMA AppendFailsBound ==
  ASSUME BoundInv, TypeInv', NEW c \in Caller, AppendFails(c)
  PROVE  BoundInv'
<1> DEFINE locals == [Locals(c) EXCEPT !.failed = TRUE]
<1>1. pc[c] \in Appending /\ pc[c] = "append" /\ UNCHANGED <<fresh, flock>>
  BY DEF AppendFails, Appending
<1>2. /\ Same(c).currentSize = file[Handle(c)].size
      /\ Fits(file[Handle(c)].size, Line(c))
  BY <1>1 DEF BoundInv, CallBound, SizeKnown
<1>3. CASE Continue(c, "unlock", Same(c), locals) /\ UNCHANGED file
  <2>1. SizeKnown(c)' /\ FragmentKnown(c)'
    BY <1>3, ContinueOnly DEF SizeKnown, FragmentKnown, BoundInv, TypeInv
  <2>2. (\A j \in Inode : ExtentsWithin(j)') /\ ShardBounded'
    BY <1>3 DEF BoundInv, ExtentsWithin, ShardBounded
  <2> QED
    BY <1>1, <1>3, <2>1, <2>2, LockedStep
<1>4. ASSUME NEW n \in 1 .. Line(c) - 1,
             Extend(Handle(c), request[c].event, "fragment", n),
             Continue(c, "restore", Same(c), locals)
      PROVE  BoundInv'
  <2> HIDE DEF locals
  <2>1. /\ n \in Nat \ {0} /\ n \in 1 .. Line(c) /\ n < Line(c)
        /\ Handle(c) \in Inode /\ file[Handle(c)].size \in Nat /\ Line(c) \in Nat
    BY <1>1, AppendingFacts
  <2>2. Same(c).currentSize = 0 => file[Handle(c)].data = {}
    BY <1>2, <2>1, EmptyHasNone
  <2>3. file[Handle(c)].size + n > MaxFileBytes =>
           \A x \in file[Handle(c)].data : x.ev = request[c].event
    BY <1>2, <2>1, <2>2, SizeAssumption DEF Fits
  <2>4. /\ \A j \in Inode : ExtentsWithin(j)'
        /\ ShardBounded'
        /\ \A j \in Inode \ {Handle(c)} : file'[j] = file[j]
        /\ file'[Handle(c)].size = file[Handle(c)].size + n
        /\ \A x \in file'[Handle(c)].data :
              x \in file[Handle(c)].data \/ x.ev = request[c].event
    BY <1>1, <1>4, <2>1, <2>3, AppendingFacts, ExtendBound
  <2>5. /\ pc'[c] = "restore"
        /\ Handle(c)' = Handle(c) /\ Same(c)' = Same(c) /\ Line(c)' = Line(c)
        /\ request' = request
    BY <1>4, ContinueOnly DEF BoundInv, TypeInv, Handle, Same, Line, W
  <2>6. SizeKnown(c)'
    BY <2>5 DEF SizeKnown
  <2>7. FragmentKnown(c)'
    <3>1. file'[Handle(c)].size < Same(c).currentSize + Line(c)
      BY <1>1, <1>2, <2>1, <2>4, AppendingFacts
    <3> QED
      BY <1>2, <2>4, <2>5, <2>2, <3>1 DEF FragmentKnown
  <2> QED
    BY <1>1, <1>4, <2>4, <2>6, <2>7, LockedStep
<1> QED
  BY <1>3, <1>4 DEF AppendFails

LEMMA RestoreBound ==
  ASSUME BoundInv, TypeInv', NEW c \in Caller, RestoreLineBoundary(c)
  PROVE  BoundInv'
<1>1. pc[c] \in Appending /\ pc[c] = "restore" /\ UNCHANGED <<fresh, flock>>
  BY DEF RestoreLineBoundary, Appending
<1>2. /\ file[Handle(c)].size < Same(c).currentSize + Line(c)
      /\ Fits(Same(c).currentSize, Line(c))
      /\ Same(c).currentSize = 0 => \A x \in file[Handle(c)].data : x.ev = request[c].event
  BY <1>1 DEF BoundInv, CallBound, FragmentKnown
<1>3. /\ \A j \in Inode : ExtentsWithin(j)'
      /\ ShardBounded'
      /\ \A j \in Inode \ {Handle(c)} : file'[j] = file[j]
  <2>1. CASE Truncate(Handle(c), Same(c).currentSize)
    <3>1. Same(c).currentSize \in 0 .. MaxFileBytes
      BY <1>1, <1>2, AppendingFacts, SizeAssumption DEF Fits
    <3> QED
      BY <1>1, <2>1, <3>1, AppendingFacts, TruncateBound
  <2>2. CASE Extend(Handle(c), request[c].event, "newline", 1)
    <3>1. file[Handle(c)].size + 1 > MaxFileBytes =>
             \A x \in file[Handle(c)].data : x.ev = request[c].event
      BY <1>1, <1>2, AppendingFacts, SizeAssumption DEF Fits
    <3> QED
      BY <1>1, <2>2, <3>1, AppendingFacts, ExtendBound
  <2>3. CASE UNCHANGED file
    BY <2>3 DEF BoundInv, ExtentsWithin, ShardBounded
  <2> QED
    BY <2>1, <2>2, <2>3 DEF RestoreLineBoundary
<1>4. Continue(c, "unlock", Same(c), Locals(c))
  BY DEF RestoreLineBoundary
<1>5. SizeKnown(c)' /\ FragmentKnown(c)'
  BY <1>4, ContinueOnly DEF SizeKnown, FragmentKnown, BoundInv, TypeInv
<1> QED
  BY <1>1, <1>3, <1>4, <1>5, LockedStep

LEMMA StatBound ==
  ASSUME BoundInv, TypeInv', NEW c \in Caller, StatShard(c)
  PROVE  BoundInv'
<1> DEFINE size == file[Handle(c)].size
           sized == [Same(c) EXCEPT !.currentSize = size]
<1>1. pc[c] \in Appending /\ UNCHANGED <<file, fresh>>
  BY DEF StatShard, Appending
<1>2. size \in Nat /\ Line(c) \in Nat /\ Same(c) \in WriterState
  BY <1>1, AppendingFacts
<1>3. sized \in WriterState /\ sized.handle = Handle(c) /\ sized.currentSize = size
  BY <1>2 DEF WriterState, Same, Handle
<1>4. sized.handle # None => sized.handle < fresh
  BY <1>3, HandleBelowFresh DEF Same, Handle
<1> HIDE DEF sized
<1>5. CASE Continue(c, "append", sized, Locals(c)) /\ ~Full(size, Line(c)) /\ UNCHANGED flock
  <2>1. Only(c) /\ pc'[c] = "append" /\ writer'[W(c)] = sized /\ request' = request
    BY <1>5, ContinueOnly DEF BoundInv, TypeInv
  <2>2. Handle(c)' = Handle(c) /\ Same(c)' = sized /\ Line(c)' = Line(c)
    BY <1>3, <2>1 DEF Handle, Same, Line, W
  <2>3. Fits(size, Line(c))
    BY <1>2, <1>5, SizeAssumption DEF Fits, Full
  <2>4. flock[Handle(c)] = W(c)
    BY <1>1 DEF BoundInv, CallBound, ShardLocked
  <2>5. ShardLocked(c)'
    BY <1>5, <2>2, <2>4 DEF ShardLocked, W
  <2>6. SizeKnown(c)' /\ FragmentKnown(c)'
    BY <1>1, <1>3, <2>1, <2>2, <2>3 DEF SizeKnown, FragmentKnown, Fits
  <2>7. HandleBound(W(c))'
    BY <1>1, <1>4, <2>1 DEF HandleBound, W
  <2>8. pc[c] \in Admitted /\ LocksKept(c)
    BY <1>1, <1>5, AppendingFacts, LocksUnchanged
  <2> QED
    BY <1>1, <2>1, <2>5, <2>6, <2>7, <2>8, QuietStep DEF CallBound
<1>6. CASE Unlock(c) /\ Continue(c, "rotate", sized, Locals(c))
  BY <1>1, <1>4, <1>6, AppendingFacts, Unlocked, QuietContinue DEF Appending
<1>7. CASE Return(c, sized, FALSE) /\ UNCHANGED flock
  BY <1>1, <1>3, <1>7, AppendingFacts, LocksUnchanged, QuietReturn
<1> QED
  BY <1>5, <1>6, <1>7 DEF StatShard, sized

LEMMA UnlocksBound ==
  ASSUME BoundInv, TypeInv', NEW c \in Caller, StatFails(c) \/ UnlockShard(c)
  PROVE  BoundInv'
<1> DEFINE grown == [Same(c) EXCEPT !.currentSize = @ + Line(c)]
<1>1. pc[c] \in Appending /\ UNCHANGED <<file, fresh>>
  BY DEF StatFails, UnlockShard, Appending
<1>2. Same(c) \in WriterState /\ grown \in WriterState
  BY <1>1, AppendingFacts DEF WriterState
<1>3. Same(c).handle = Handle(c) /\ grown.handle = Handle(c)
  BY <1>2 DEF WriterState, Same, Handle
<1>4. LocksKept(c)
  BY <1>1, Unlocked, LocksUnchanged DEF StatFails, UnlockShard
<1>5. PICK state \in {Same(c), grown}, ok \in BOOLEAN : Return(c, state, ok)
  BY AdmittedFacts DEF StatFails, UnlockShard, BoundInv, Progress
<1> HIDE DEF grown
<1> QED
  BY <1>1, <1>2, <1>3, <1>4, <1>5, AppendingFacts, QuietReturn

LEMMA TryShardLockBound ==
  ASSUME BoundInv, TypeInv', NEW c \in Caller, TryShardLock(c)
  PROVE  BoundInv'
<1>1. /\ pc[c] = "shardLock" /\ pc[c] \in Admitted /\ KeepsHandle(pc[c], Locals(c))
      /\ UNCHANGED <<file, fresh>>
  BY DEF TryShardLock, Admitted, KeepsHandle, Holding
<1>2. Handle(c) \in Inode
  BY <1>1, AdmittedFacts
  DEF BoundInv, TypeInv, CallInv, CallOK, WriterState, Same, Handle, Locals
<1>3. CASE flock' = [flock EXCEPT ![Handle(c)] = W(c)] /\ flock[Handle(c)] \in {None, W(c)}
           /\ Continue(c, "stat", Same(c), Locals(c))
  <2>1. Only(c) /\ pc'[c] = "stat" /\ writer'[W(c)] = Same(c)
    BY <1>3, ContinueOnly DEF BoundInv, TypeInv
  <2>2. Handle(c)' = Handle(c)
    BY <2>1 DEF Handle, Same, W
  <2>3. flock'[Handle(c)] = W(c)
    BY <1>2, <1>3 DEF BoundInv, TypeInv, TypeOK, DirTypeOK
  <2>4. CallBound(c)'
    BY <2>1, <2>2, <2>3 DEF CallBound, ShardLocked, SizeKnown, FragmentKnown, W
  <2>5. HandleBound(W(c))'
    BY <1>1, <2>1, HandleBelowFresh DEF HandleBound, W
  <2>6. LocksKept(c)
    BY <1>2, <1>3, LockGiven DEF BoundInv, TypeInv
  <2> QED
    BY <1>1, <2>1, <2>4, <2>5, <2>6, QuietStep
<1>4. CASE Continue(c, "shardWait", Same(c), Locals(c)) /\ UNCHANGED flock
  BY <1>1, <1>4, LocksUnchanged, HandleBelowFresh, QuietContinue DEF Appending
<1> QED
  BY <1>3, <1>4 DEF TryShardLock

(* A new shard is nobody's yet, and empty. *)
LEMMA CreateBound ==
  ASSUME BoundInv, TypeInv', NEW c \in Caller, CreateShard(c)
  PROVE  BoundInv'
<1>1. pc[c] \in Admitted /\ fresh \in Inode /\ fresh \in Nat /\ fresh' = fresh + 1
  BY BoundAssumption DEF CreateShard, Create, Admitted, Rotating, Inode
<1>2. /\ file'[fresh].size = 0 /\ file'[fresh].data = {}
      /\ \A i \in Inode \ {fresh} : file'[i] = file[i]
  BY <1>1 DEF CreateShard, Create, EmptyShard, BoundInv, TypeInv, TypeOK, DirTypeOK
<1>3. ASSUME NEW i \in Inode PROVE ExtentsWithin(i)'
  BY <1>2 DEF ExtentsWithin, BoundInv
<1>4. ShardBounded'
  BY <1>2 DEF ShardBounded, BoundInv
<1>5. PICK l \in {"retain", "dirUnlock"}, state \in {Same(c), Opened(c, fresh, 0)},
            locals \in {Locals(c), [Locals(c) EXCEPT !.failed = TRUE]} :
         Continue(c, l, state, locals)
  BY DEF CreateShard, RotationFails
<1>6. Only(c) /\ pc'[c] = l /\ writer'[W(c)] = state
  BY <1>5, ContinueOnly DEF BoundInv, TypeInv
<1>7. CallBound(c)'
  BY <1>6 DEF CallBound, ShardLocked, SizeKnown, FragmentKnown, Appending
<1>8. ASSUME NEW d \in Caller, d # c PROVE CallBound(d)'
  <2>1. CASE pc[d] \in Appending
    <3>1. Handle(d) \in Inode /\ Handle(d) # None /\ pc[d] \in Admitted
      BY <2>1, HandleFacts DEF BoundInv, Same, Handle
    <3>2. Handle(d) # fresh
      BY <1>1, <3>1, WriterOfCaller DEF BoundInv, HandleBound, Handle
    <3>3. W(c) # W(d)
      BY <1>1, <1>8, <3>1, GateExclusion DEF BoundInv, TypeInv
    <3>4. pc'[d] = pc[d] /\ request'[d] = request[d] /\ writer'[W(d)] = writer[W(d)]
      BY <1>6, <1>8, <3>3, WriterOfCaller DEF Only
    <3>5. Handle(d)' = Handle(d) /\ Same(d)' = Same(d) /\ Line(d)' = Line(d)
      BY <3>4 DEF Handle, Same, Line, W
    <3>6. file'[Handle(d)] = file[Handle(d)] /\ flock' = flock
      BY <1>2, <3>1, <3>2 DEF CreateShard
    <3>7. CallBound(d)
      BY DEF BoundInv
    <3> QED
      BY <3>4, <3>5, <3>6, <3>7
      DEF CallBound, ShardLocked, SizeKnown, FragmentKnown, W
  <2>2. CASE pc[d] \notin Appending
    BY <1>6, <1>8, <2>2
    DEF Only, CallBound, ShardLocked, SizeKnown, FragmentKnown, Appending
  <2> QED
    BY <2>1, <2>2
<1>9. ASSUME NEW w \in Writer PROVE HandleBound(w)'
  <2>1. CASE w = W(c)
    <3>1. Opened(c, fresh, 0).handle = fresh
      BY AdmittedFacts DEF BoundInv, Opened, WriterState
    <3>2. Same(c).handle # None => Same(c).handle \in Inode
      BY AdmittedFacts DEF BoundInv, WriterState
    <3> QED
      BY <1>1, <1>6, <2>1, <3>1, <3>2, HandleBelowFresh, BoundAssumption
      DEF HandleBound, Inode
  <2>2. CASE w # W(c)
    <3>1. writer'[w] = writer[w] /\ (writer[w].handle # None => writer[w].handle \in Inode)
      BY <1>6, <2>2 DEF Only, BoundInv, TypeInv, TypeOK, WriterState
    <3> QED
      BY <1>1, <3>1, BoundAssumption DEF BoundInv, HandleBound, Inode
  <2> QED
    BY <2>1, <2>2
<1> QED
  BY <1>3, <1>4, <1>7, <1>8, <1>9 DEF BoundInv

(* A step that keeps the files, the locks and the writers, and moves a     *)
(* call, if any, to a place where it holds nothing.                        *)
LEMMA OutsideStep ==
  ASSUME BoundInv, TypeInv', UNCHANGED <<file, fresh, flock, writer>>,
         \A d \in Caller : \/ pc'[d] = pc[d] /\ request'[d] = request[d]
                           \/ pc'[d] \notin Appending
  PROVE  BoundInv'
<1>1. ASSUME NEW d \in Caller PROVE CallBound(d)'
  <2>1. CASE pc'[d] = pc[d] /\ request'[d] = request[d]
    <3>1. Handle(d)' = Handle(d) /\ Same(d)' = Same(d) /\ Line(d)' = Line(d)
      BY <2>1 DEF Handle, Same, Line
    <3> QED
      BY <2>1, <3>1
      DEF BoundInv, CallBound, ShardLocked, SizeKnown, FragmentKnown
  <2>2. CASE pc'[d] \notin Appending
    BY <2>2 DEF CallBound, ShardLocked, SizeKnown, FragmentKnown, Appending
  <2> QED
    BY <2>1, <2>2
<1>2. ASSUME NEW w \in Writer PROVE HandleBound(w)'
  BY DEF BoundInv, HandleBound
<1>3. ShardBounded' /\ \A i \in Inode : ExtentsWithin(i)'
  BY DEF BoundInv, ShardBounded, ExtentsWithin
<1> QED
  BY <1>1, <1>2, <1>3 DEF BoundInv

LEMMA GateBound ==
  ASSUME BoundInv, TypeInv', NEW c \in Caller,
         \/ \E n \in RecordSizes : Submit(c, n)
         \/ CallFlush(c) \/ CallClose(c) \/ AcquireGate(c) \/ AbandonGate(c)
  PROVE  BoundInv'
<1>1. PICK l \in {"idle", "gate", "admitted"} : Goto(c, l)
  BY DEF Submit, CallFlush, CallClose, Call, AcquireGate, AbandonGate
<1>2. \A d \in Caller \ {c} : pc'[d] = pc[d]
  BY <1>1 DEF Goto, BoundInv, TypeInv, TypeOK
<1>3. pc'[c] \notin Appending
  BY <1>1 DEF Goto, Appending, BoundInv, TypeInv, TypeOK
<1>4. \A d \in Caller \ {c} : request'[d] = request[d]
  BY DEF Submit, CallFlush, CallClose, Call, AcquireGate, AbandonGate,
         BoundInv, TypeInv, TypeOK
<1>5. UNCHANGED <<file, fresh, flock, writer>>
  BY DEF Submit, CallFlush, CallClose, Call, AcquireGate, AbandonGate, dirVars
<1> QED
  BY <1>2, <1>3, <1>4, <1>5, OutsideStep

LEMMA EnvironmentBound ==
  ASSUME BoundInv, TypeInv', Midnight \/ RemoveDirectory \/ UNCHANGED vars
  PROVE  BoundInv'
<1>1. UNCHANGED <<file, fresh, flock, writer, pc, request>>
  BY DEF Midnight, RemoveDirectory, vars, dirVars, callVars
<1> QED
  BY <1>1, OutsideStep

(* A process that dies leaves at most a fragment in the shard it has       *)
(* locked.                                                                 *)
LEMMA CrashBound ==
  ASSUME BoundInv, TypeInv', NEW w \in Writer, Crash(w)
  PROVE  BoundInv'
<1>1. /\ \A i \in Inode : ExtentsWithin(i)'
      /\ ShardBounded'
      /\ \A i \in Inode : flock[i] # w => file'[i] = file[i]
  <2>1. ASSUME NEW c \in Caller, W(c) = w, pc[c] = "append", NEW n \in 1 .. Line(c) - 1,
               Extend(Handle(c), request[c].event, "fragment", n)
        PROVE  /\ \A i \in Inode : ExtentsWithin(i)'
               /\ ShardBounded'
               /\ \A i \in Inode : flock[i] # w => file'[i] = file[i]
    <3>1. pc[c] \in Appending
      BY <2>1 DEF Appending
    <3>2. Fits(file[Handle(c)].size, Line(c)) /\ flock[Handle(c)] = w
      BY <2>1, <3>1 DEF BoundInv, CallBound, SizeKnown, ShardLocked
    <3>3. /\ n \in Nat \ {0} /\ n < Line(c) /\ Line(c) \in Nat
          /\ Handle(c) \in Inode /\ file[Handle(c)].size \in Nat
      BY <3>1, AppendingFacts
    <3>4. file[Handle(c)].size + n > MaxFileBytes =>
             \A x \in file[Handle(c)].data : x.ev = request[c].event
      BY <3>2, <3>3, EmptyHasNone, SizeAssumption DEF Fits
    <3>5. /\ \A j \in Inode : ExtentsWithin(j)'
          /\ ShardBounded'
          /\ \A j \in Inode \ {Handle(c)} : file'[j] = file[j]
      BY <2>1, <3>1, <3>3, <3>4, AppendingFacts, ExtendBound
    <3> QED
      BY <3>2, <3>5
  <2>2. CASE UNCHANGED file
    BY <2>2 DEF BoundInv, ExtentsWithin, ShardBounded
  <2> QED
    BY <2>1, <2>2 DEF Crash
<1>2. ASSUME NEW d \in Caller PROVE CallBound(d)'
  <2>1. CASE pc'[d] = "idle"
    BY <2>1 DEF CallBound, ShardLocked, SizeKnown, FragmentKnown, Appending
  <2>2. CASE pc'[d] # "idle" /\ pc[d] \notin Appending
    BY <2>2 DEF Crash, CallBound, ShardLocked, SizeKnown, FragmentKnown, Appending
  <2>3. CASE pc'[d] # "idle" /\ pc[d] \in Appending
    <3>1. W(d) # w /\ pc'[d] = pc[d] /\ request'[d] = request[d]
      BY <2>3 DEF Crash
    <3>2. writer'[W(d)] = writer[W(d)]
      BY <3>1, WriterOfCaller DEF Crash, BoundInv, TypeInv, TypeOK
    <3>3. Handle(d)' = Handle(d) /\ Same(d)' = Same(d) /\ Line(d)' = Line(d)
      BY <3>1, <3>2 DEF Handle, Same, Line, W
    <3>4. Handle(d) \in Inode /\ flock[Handle(d)] = W(d)
      BY <2>3, AppendingFacts DEF BoundInv, CallBound, ShardLocked
    <3>5. flock'[Handle(d)] = flock[Handle(d)] /\ file'[Handle(d)] = file[Handle(d)]
      BY <1>1, <3>1, <3>4 DEF Crash, LocksReleasedBy
    <3>6. CallBound(d)
      BY DEF BoundInv
    <3> QED
      BY <3>1, <3>3, <3>5, <3>6
      DEF CallBound, ShardLocked, SizeKnown, FragmentKnown, W
  <2> QED
    BY <2>1, <2>2, <2>3
<1>3. ASSUME NEW v \in Writer PROVE HandleBound(v)'
  BY DEF Crash, NewWriter, BoundInv, HandleBound, TypeInv, TypeOK
<1> QED
  BY <1>1, <1>2, <1>3 DEF BoundInv

LEMMA InitBound == Init => BoundInv
<1> SUFFICES ASSUME Init PROVE BoundInv
  OBVIOUS
<1>1. ASSUME NEW c \in Caller PROVE CallBound(c)
  BY NotAppending DEF Init, Appending
<1>2. (\A i \in Inode : ExtentsWithin(i)) /\ ShardBounded
  BY DEF Init, DirInit, EmptyShard, ExtentsWithin, ShardBounded
<1>3. ASSUME NEW w \in Writer PROVE HandleBound(w)
  BY DEF Init, NewWriter, HandleBound
<1> QED
  BY <1>1, <1>2, <1>3, InitType DEF BoundInv

LEMMA CallerStepBound ==
  ASSUME BoundInv, TypeInv', NEW c \in Caller, CallerStep(c)
  PROVE  BoundInv'
<1>1. CASE FlushActive(c) \/ RejectClosed(c) \/ DirectoryFails(c) \/ LockFails(c)
  BY <1>1, GivesUpBound
<1>2. CASE CloseWriter(c)
  BY <1>2, CloseBound
<1>3. CASE \/ EnsureDirectory(c) \/ OpenLockFile(c) \/ TryDirLock(c) \/ LockRetry(c)
           \/ ProbeFull(c) \/ SweepDone(c) \/ UnlockDirectory(c)
  BY <1>3, GoesOnBound
<1>4. CASE \/ Discover(c) \/ OpenShard(c) \/ OpenFails(c) \/ ApplyRetention(c) \/ SweepOne(c)
  BY <1>4, RotatesBound
<1>5. CASE CreateShard(c) \/ TryShardLock(c) \/ StatShard(c)
  BY <1>5, CreateBound, TryShardLockBound, StatBound
<1>6. CASE StatFails(c) \/ UnlockShard(c)
  BY <1>6, UnlocksBound
<1>7. CASE Append(c) \/ AppendFails(c) \/ RestoreLineBoundary(c)
  BY <1>7, AppendBound, AppendFailsBound, RestoreBound
<1> QED
  BY <1>1, <1>2, <1>3, <1>4, <1>5, <1>6, <1>7 DEF CallerStep

LEMMA NextBound == BoundInv /\ [Next]_vars => BoundInv'
<1> SUFFICES ASSUME BoundInv, [Next]_vars PROVE BoundInv'
  OBVIOUS
<1>1. TypeInv'
  BY NextType DEF BoundInv
<1>2. ASSUME NEW c \in Caller,
             \/ \E n \in RecordSizes : Submit(c, n)
             \/ CallFlush(c) \/ CallClose(c)
             \/ AcquireGate(c) \/ AbandonGate(c) \/ LockTimeout(c)
             \/ CallerStep(c)
      PROVE  BoundInv'
  BY <1>1, <1>2, GateBound, GivesUpBound, CallerStepBound
<1>3. ASSUME NEW w \in Writer, Crash(w) PROVE BoundInv'
  BY <1>1, <1>3, CrashBound
<1> QED
  BY <1>1, <1>2, <1>3, EnvironmentBound DEF Next

(* However many processes append to a directory, crash and start again, a  *)
(* shard exceeds maxFileBytes only to hold a single line: the size Write   *)
(* looks at under the shard lock is the size it appends to.                *)
THEOREM ShardsStayBounded == Spec => []ShardBounded
<1>1. Spec => []BoundInv
  BY InitBound, NextBound, PTL DEF Spec
<1>2. BoundInv => ShardBounded
  BY DEF BoundInv
<1> QED
  BY <1>1, <1>2, PTL

=============================================================================
