-------------------------- MODULE ShardLockProofs ---------------------------
(***************************************************************************)
(* The advisory locks of the JSONL writer: none is stranded, and a writer  *)
(* that was closed never has one again.                                    *)
(*                                                                         *)
(* A call that opens, drops or replaces the handle of its writer must know *)
(* that the writer has no shard locked then.  After Discover has closed    *)
(* the old handle this is so until the directory is unlocked.              *)
(***************************************************************************)
EXTENDS ShardWriterProofs

Unlocking == {"probe", "retain", "sweep"}

ShardLockInv == \A i \in Inode : flock[i] # None => writer[flock[i]].handle = i
DirLockInv ==
    \A g \in Generation : dirLock[g] # None =>
        pc[dirLock[g]] \in Rotating /\ progress[dirLock[g]].lockFile = g
ReleasedInv == \A c \in Caller : pc[c] \in Unlocking => \A i \in Inode : flock[i] # W(c)

LockInv == ShardLockInv /\ DirLockInv /\ ReleasedInv /\ ClosedHoldsNoShard

(* What a call knows of its locks before a step. *)
LEMMA OwnLocks ==
  ASSUME TypeInv, LockInv, NEW c \in Caller
  PROVE  /\ \A i \in Inode : flock[i] = W(c) => Handle(c) = i
         /\ \A g \in Generation : dirLock[g] = c => pc[c] \in Rotating /\ Locals(c).lockFile = g
         /\ pc[c] \in Unlocking => \A i \in Inode : flock[i] # W(c)
         /\ pc[c] \in Writing => ~Same(c).closed
         /\ Same(c).closed => Handle(c) = None /\ \A i \in Inode : flock[i] # W(c)
         /\ W(c) \in Writer /\ W(c) # None /\ c # None
         /\ flock \in [Inode -> Writer \cup {None}]
         /\ dirLock \in [Generation -> Caller \cup {None}]
<1>1. W(c) \in Writer /\ W(c) # None /\ c # None
  BY WriterOfCaller, NoneAssumption
<1>2. flock \in [Inode -> Writer \cup {None}] /\ dirLock \in [Generation -> Caller \cup {None}]
  BY DEF TypeInv, TypeOK, DirTypeOK
<1>3. Same(c).closed => /\ Handle(c) = None
                        /\ \A i \in Inode : flock[i] # W(c)
                        /\ pc[c] \notin Writing
  BY <1>1 DEF LockInv, ClosedHoldsNoShard, Same, Handle
<1> QED
  BY <1>1, <1>2, <1>3 DEF LockInv, ShardLockInv, DirLockInv, ReleasedInv, Handle, Locals

-----------------------------------------------------------------------------
(* A step of a call keeps the locks of the others, and its own belong to   *)
(* the handle and the lock file that it goes on with.                      *)

OthersKeep(c) ==
    /\ \A d \in Caller \ {c} : pc'[d] = pc[d] /\ progress'[d] = progress[d]
    /\ \A w \in Writer \ {W(c)} : writer'[w] = writer[w]

LocksBelong(c) ==
    /\ \A i \in Inode : flock'[i] \in {flock[i], None, W(c)}
    /\ \A g \in Generation : dirLock'[g] \in {dirLock[g], None, c}

OwnKept(c) ==
    /\ \A i \in Inode : flock'[i] = W(c) => writer'[W(c)].handle = i
    /\ \A g \in Generation : dirLock'[g] = c =>
          pc'[c] \in Rotating /\ progress'[c].lockFile = g
    /\ pc'[c] \in Unlocking => \A i \in Inode : flock'[i] # W(c)
    /\ writer'[W(c)].closed =>
          /\ writer'[W(c)].handle = None
          /\ \A i \in Inode : flock'[i] # W(c)
          /\ pc'[c] \notin Writing

LEMMA LockStep ==
  ASSUME TypeInv, LockInv, NEW c \in Caller, pc[c] \in Admitted,
         OthersKeep(c), LocksBelong(c), OwnKept(c)
  PROVE  LockInv'
<1>1. W(c) \in Writer /\ W(c) # None /\ c # None
  BY OwnLocks
<1>2. ShardLockInv'
  <2> SUFFICES ASSUME NEW i \in Inode, flock'[i] # None PROVE writer'[flock'[i]].handle = i
    BY DEF ShardLockInv
  <2>1. CASE flock'[i] = W(c)
    BY <2>1 DEF OwnKept
  <2>2. CASE flock'[i] = flock[i] /\ flock[i] # W(c)
    <3>1. flock[i] \in Writer \ {W(c)}
      BY <2>2, OwnLocks
    <3> QED
      BY <2>2, <3>1 DEF LockInv, ShardLockInv, OthersKeep
  <2> QED
    BY <2>1, <2>2 DEF LocksBelong
<1>3. DirLockInv'
  <2> SUFFICES ASSUME NEW g \in Generation, dirLock'[g] # None
               PROVE  pc'[dirLock'[g]] \in Rotating /\ progress'[dirLock'[g]].lockFile = g
    BY DEF DirLockInv
  <2>1. CASE dirLock'[g] = c
    BY <2>1 DEF OwnKept
  <2>2. CASE dirLock'[g] = dirLock[g] /\ dirLock[g] # c
    <3>1. dirLock[g] \in Caller \ {c}
      BY <2>2, OwnLocks
    <3> QED
      BY <2>2, <3>1 DEF LockInv, DirLockInv, OthersKeep
  <2> QED
    BY <2>1, <2>2 DEF LocksBelong
<1>4. ReleasedInv'
  <2> SUFFICES ASSUME NEW d \in Caller, pc'[d] \in Unlocking, NEW i \in Inode
               PROVE  flock'[i] # W(d)
    BY DEF ReleasedInv, W
  <2>1. CASE d = c
    BY <2>1 DEF OwnKept
  <2>2. CASE d # c
    <3>1. pc[d] \in Unlocking /\ pc[d] \in Admitted
      BY <2>2 DEF OthersKeep, Unlocking, Admitted, Rotating
    <3>2. W(c) # W(d) /\ W(d) # None
      BY <2>2, <3>1, GateExclusion, OwnLocks DEF TypeInv
    <3>3. flock[i] # W(d)
      BY <3>1 DEF LockInv, ReleasedInv
    <3> QED
      BY <3>2, <3>3 DEF LocksBelong
  <2> QED
    BY <2>1, <2>2
<1>5. ClosedHoldsNoShard'
  <2> SUFFICES ASSUME NEW w \in Writer, writer'[w].closed
               PROVE  /\ writer'[w].handle = None
                      /\ \A i \in Inode : flock'[i] # w
                      /\ \A d \in Caller : W(d) = w => pc'[d] \notin Writing
    BY DEF ClosedHoldsNoShard, W
  <2>1. CASE w = W(c)
    <3>1. ASSUME NEW d \in Caller, W(d) = w, d # c PROVE pc'[d] \notin Writing
      <4>1. pc[d] \notin Admitted
        BY <2>1, <3>1, GateExclusion DEF TypeInv
      <4> QED
        BY <3>1, <4>1 DEF OthersKeep, Writing
    <3> QED
      BY <2>1, <3>1 DEF OwnKept
  <2>2. CASE w # W(c)
    <3>1. writer'[w] = writer[w]
      BY <2>2 DEF OthersKeep
    <3>2. /\ writer[w].handle = None /\ \A i \in Inode : flock[i] # w
          /\ \A d \in Caller : W(d) = w => pc[d] \notin Writing
      BY <3>1 DEF LockInv, ClosedHoldsNoShard
    <3>3. w # None
      BY NoneAssumption
    <3> QED
      BY <2>2, <3>1, <3>2, <3>3 DEF OthersKeep, LocksBelong
  <2> QED
    BY <2>1, <2>2
<1> QED
  BY <1>2, <1>3, <1>4, <1>5 DEF LockInv

LEMMA ReturnKeeps ==
  ASSUME TypeInv, NEW c \in Caller, NEW state \in WriterState, NEW ok, Return(c, state, ok)
  PROVE  /\ OthersKeep(c) /\ pc'[c] = "idle"
         /\ writer'[W(c)].handle = state.handle /\ writer'[W(c)].closed = state.closed
BY WriterOfCaller DEF TypeInv, TypeOK, Return, Goto, OthersKeep, WriterState

LEMMA ContinueKeeps ==
  ASSUME TypeInv, NEW c \in Caller, NEW l, NEW state, NEW locals, Continue(c, l, state, locals)
  PROVE  /\ OthersKeep(c) /\ pc'[c] = l /\ progress'[c] = locals /\ writer'[W(c)] = state
BY WriterOfCaller DEF TypeInv, TypeOK, Continue, Goto, OthersKeep

(* A call returns and keeps its handle, or has no handle and no lock any   *)
(* more.                                                                   *)
LEMMA ReturnLocks ==
  ASSUME TypeInv, LockInv, NEW c \in Caller, pc[c] \in Admitted,
         NEW state \in WriterState, NEW ok, Return(c, state, ok),
         \/ state.handle = Handle(c) /\ state.closed = Same(c).closed
         \/ state.handle = None /\ \A i \in Inode : flock'[i] # W(c),
         \A i \in Inode : flock'[i] \in {flock[i], None},
         \A g \in Generation : dirLock'[g] \in {dirLock[g], None} /\ dirLock'[g] # c
  PROVE  LockInv'
<1>1. OthersKeep(c) /\ pc'[c] = "idle" /\ writer'[W(c)].handle = state.handle
      /\ writer'[W(c)].closed = state.closed
  BY ReturnKeeps
<1>2. LocksBelong(c)
  BY DEF LocksBelong
<1>3. "idle" \notin Unlocking /\ "idle" \notin Writing
  BY DEF Unlocking, Writing, Admitted, Rotating, Appending
<1>4. CASE state.handle = Handle(c) /\ state.closed = Same(c).closed
  BY <1>1, <1>2, <1>3, <1>4, OwnLocks, LockStep DEF OwnKept
<1>5. CASE state.handle = None /\ \A i \in Inode : flock'[i] # W(c)
  BY <1>1, <1>2, <1>3, <1>5, LockStep DEF OwnKept
<1> QED
  BY <1>4, <1>5

(* A call outside of rotate gives up without a new lock. *)
LEMMA QuietReturns ==
  ASSUME TypeInv, LockInv, NEW c \in Caller, pc[c] \in Admitted, pc[c] \notin Rotating,
         NEW state \in WriterState, NEW ok, Return(c, state, ok),
         state.handle = Handle(c), state.closed = Same(c).closed,
         UNCHANGED dirLock, \A i \in Inode : flock'[i] \in {flock[i], None}
  PROVE  LockInv'
<1>1. \A g \in Generation : dirLock'[g] \in {dirLock[g], None} /\ dirLock'[g] # c
  BY OwnLocks
<1> QED
  BY <1>1, ReturnLocks

LEMMA ContinueLocks ==
  ASSUME TypeInv, LockInv, NEW c \in Caller, pc[c] \in Admitted,
         NEW l, NEW state, NEW locals, Continue(c, l, state, locals), ~state.closed,
         LocksBelong(c),
         \A i \in Inode : flock'[i] = W(c) => state.handle = i,
         \A g \in Generation : dirLock'[g] = c => l \in Rotating /\ locals.lockFile = g,
         l \in Unlocking => \A i \in Inode : flock'[i] # W(c)
  PROVE  LockInv'
<1>1. OthersKeep(c) /\ pc'[c] = l /\ progress'[c] = locals /\ writer'[W(c)] = state
  BY ContinueKeeps
<1> QED
  BY <1>1, LockStep DEF OwnKept

(* A call goes on with the handle and the locks it had, or with fewer.     *)
LEMMA QuietGoesOn ==
  ASSUME TypeInv, LockInv, NEW c \in Caller, pc[c] \in Admitted,
         NEW l, NEW state, NEW locals, Continue(c, l, state, locals),
         ~state.closed, state.handle = Handle(c), locals.lockFile = Locals(c).lockFile,
         pc[c] \in Rotating => l \in Rotating,
         l \in Unlocking => pc[c] \in Unlocking,
         UNCHANGED dirLock, \A i \in Inode : flock'[i] \in {flock[i], None}
  PROVE  LockInv'
<1>1. LocksBelong(c)
  BY DEF LocksBelong
<1>2. \A i \in Inode : flock'[i] = W(c) => flock[i] = W(c)
  BY OwnLocks
<1> QED
  BY <1>1, <1>2, OwnLocks, ContinueLocks

-----------------------------------------------------------------------------
(* The steps of a call.                                                    *)

LEMMA GivesUpLocks ==
  ASSUME TypeInv, LockInv, NEW c \in Caller,
         FlushActive(c) \/ RejectClosed(c) \/ DirectoryFails(c) \/ LockTimeout(c) \/ LockFails(c)
  PROVE  LockInv'
<1>1. PICK ok : Return(c, Same(c), ok)
  BY DEF FlushActive, RejectClosed, DirectoryFails, LockTimeout, LockFails
<1>2. /\ pc[c] \in Admitted /\ pc[c] \notin Rotating
      /\ UNCHANGED <<flock, dirLock>>
  BY DEF FlushActive, RejectClosed, DirectoryFails, LockTimeout, LockFails, dirVars, Admitted,
         Rotating
<1> QED
  BY <1>1, <1>2, AdmittedFacts, QuietReturns DEF Handle, Same

LEMMA CloseLocks ==
  ASSUME TypeInv, LockInv, NEW c \in Caller, CloseWriter(c)
  PROVE  LockInv'
<1> DEFINE state == [CloseHandle(Same(c)) EXCEPT !.closed = TRUE]
<1>1. pc[c] \in Admitted /\ pc[c] \notin Rotating /\ UNCHANGED dirLock
  BY DEF CloseWriter, Admitted, Rotating
<1>2. CASE Return(c, Same(c), TRUE) /\ UNCHANGED flock
  BY <1>1, <1>2, AdmittedFacts, QuietReturns DEF Handle, Same
<1>3. CASE Return(c, state, TRUE) /\ flock' = LocksReleasedBy(W(c))
  <2>1. state \in WriterState /\ state.handle = None
    BY AdmittedFacts, ClosedState, ClosedForGood DEF CloseHandle, WriterState
  <2>2. \A i \in Inode : flock'[i] \in {flock[i], None} /\ flock'[i] # W(c)
    BY <1>3, OwnLocks DEF LocksReleasedBy
  <2>3. \A g \in Generation : dirLock'[g] \in {dirLock[g], None} /\ dirLock'[g] # c
    BY <1>1, OwnLocks
  <2> HIDE DEF state
  <2> QED
    BY <1>1, <1>3, <2>1, <2>2, <2>3, ReturnLocks
<1> QED
  BY <1>2, <1>3 DEF CloseWriter

LEMMA EnsureDirectoryLocks ==
  ASSUME TypeInv, LockInv, NEW c \in Caller, EnsureDirectory(c)
  PROVE  LockInv'
<1> DEFINE state == [Same(c) EXCEPT !.directoryReady = TRUE]
<1>1. PICK l \in {"rotate", "shardLock"} : Continue(c, l, state, Locals(c))
  BY DEF EnsureDirectory
<1>2. /\ pc[c] \in Admitted /\ pc[c] \notin Rotating /\ l \notin Unlocking
      /\ UNCHANGED <<flock, dirLock>>
  BY DEF EnsureDirectory, Admitted, Rotating, Unlocking
<1>3. ~state.closed /\ state.handle = Handle(c)
  BY AdmittedFacts DEF EnsureDirectory, WriterState, Handle, Same
<1> HIDE DEF state
<1> QED
  BY <1>1, <1>2, <1>3, QuietGoesOn

LEMMA OpenLockFileLocks ==
  ASSUME TypeInv, LockInv, NEW c \in Caller, OpenLockFile(c)
  PROVE  LockInv'
<1>1. /\ pc[c] \in Admitted /\ pc[c] \notin Rotating /\ pc[c] \in Writing
      /\ UNCHANGED <<flock, dirLock>>
  BY DEF OpenLockFile, dirVars, Admitted, Rotating, Writing
<1>2. CASE Return(c, Same(c), FALSE)
  BY <1>1, <1>2, AdmittedFacts, QuietReturns DEF Handle, Same
<1>3. CASE Continue(c, "dirLock", Same(c), [Locals(c) EXCEPT !.lockFile = generation])
  <2> DEFINE locals == [Locals(c) EXCEPT !.lockFile = generation]
  <2>1. LocksBelong(c) /\ "dirLock" \notin Unlocking
    BY <1>1 DEF LocksBelong, Unlocking
  <2>2. /\ \A i \in Inode : flock'[i] = W(c) => Same(c).handle = i
        /\ \A g \in Generation : dirLock'[g] # c
        /\ ~Same(c).closed
    BY <1>1, OwnLocks DEF Handle, Same
  <2> HIDE DEF locals
  <2> QED
    BY <1>1, <1>3, <2>1, <2>2, ContinueLocks DEF locals
<1> QED
  BY <1>2, <1>3 DEF OpenLockFile

LEMMA TryDirLockLocks ==
  ASSUME TypeInv, LockInv, NEW c \in Caller, TryDirLock(c)
  PROVE  LockInv'
<1>1. /\ pc[c] = "dirLock" /\ pc[c] \in Admitted /\ pc[c] \notin Rotating /\ pc[c] \in Writing
      /\ UNCHANGED flock
  BY DEF TryDirLock, Admitted, Rotating, Writing
<1>2. CASE /\ dirLock' = [dirLock EXCEPT ![Locals(c).lockFile] = c]
           /\ Continue(c, "discover", Same(c), Locals(c))
  <2>1. LocksBelong(c)
    BY <1>1, <1>2, OwnLocks DEF LocksBelong
  <2>2. ASSUME NEW g \in Generation, dirLock'[g] = c
        PROVE  "discover" \in Rotating /\ Locals(c).lockFile = g
    BY <1>1, <1>2, <2>2, OwnLocks DEF Rotating
  <2>3. /\ \A i \in Inode : flock'[i] = W(c) => Same(c).handle = i
        /\ ~Same(c).closed /\ "discover" \notin Unlocking
    BY <1>1, OwnLocks DEF Handle, Same, Unlocking
  <2> QED
    BY <1>1, <1>2, <2>1, <2>2, <2>3, ContinueLocks
<1>3. CASE Continue(c, "dirWait", Same(c), Locals(c)) /\ UNCHANGED dirLock
  BY <1>1, <1>3, OwnLocks, QuietGoesOn DEF Handle, Same, Unlocking
<1> QED
  BY <1>2, <1>3 DEF TryDirLock

(* A lock is taken through the handle that the writer has. *)
LEMMA TryShardLockLocks ==
  ASSUME TypeInv, LockInv, NEW c \in Caller, TryShardLock(c)
  PROVE  LockInv'
<1>1. /\ pc[c] = "shardLock" /\ pc[c] \in Admitted /\ pc[c] \notin Rotating /\ pc[c] \in Writing
      /\ UNCHANGED dirLock
  BY DEF TryShardLock, Admitted, Rotating, Writing
<1>2. CASE /\ flock' = [flock EXCEPT ![Handle(c)] = W(c)]
           /\ Continue(c, "stat", Same(c), Locals(c))
  <2>1. LocksBelong(c)
    BY <1>1, <1>2, OwnLocks DEF LocksBelong
  <2>2. /\ \A i \in Inode : flock'[i] = W(c) => Same(c).handle = i
        /\ \A g \in Generation : dirLock'[g] # c
        /\ ~Same(c).closed /\ "stat" \notin Unlocking
    BY <1>1, <1>2, OwnLocks DEF Handle, Same, Unlocking
  <2> QED
    BY <1>1, <1>2, <2>1, <2>2, ContinueLocks
<1>3. CASE Continue(c, "shardWait", Same(c), Locals(c)) /\ UNCHANGED flock
  BY <1>1, <1>3, OwnLocks, QuietGoesOn DEF Handle, Same, Unlocking
<1> QED
  BY <1>2, <1>3 DEF TryShardLock

LEMMA LockRetryLocks ==
  ASSUME TypeInv, LockInv, NEW c \in Caller, LockRetry(c)
  PROVE  LockInv'
<1>1. PICK l \in {"dirLock", "shardLock"} : Continue(c, l, Same(c), Locals(c))
  BY DEF LockRetry
<1>2. /\ pc[c] \in Admitted /\ pc[c] \notin Rotating /\ pc[c] \in Writing /\ l \notin Unlocking
      /\ UNCHANGED <<flock, dirLock>>
  BY DEF LockRetry, dirVars, Admitted, Rotating, Writing, Unlocking
<1> QED
  BY <1>1, <1>2, OwnLocks, QuietGoesOn DEF Handle, Same

(* The old handle is closed before anything can fail. *)
LEMMA DiscoverLocks ==
  ASSUME TypeInv, LockInv, NEW c \in Caller, Discover(c)
  PROVE  LockInv'
<1> DEFINE state == CloseHandle(Same(c))
<1>1. /\ pc[c] \in Admitted /\ pc[c] \in Rotating /\ pc[c] \in Writing
      /\ flock' = LocksReleasedBy(W(c)) /\ UNCHANGED dirLock
  BY DEF Discover, Admitted, Rotating, Writing
<1>2. PICK l \in {"probe", "dirUnlock"}, locals \in {Locals(c), [Locals(c) EXCEPT !.failed = TRUE]}
                 \cup {[Locals(c) EXCEPT !.index = k] : k \in Highest(Date(c))} :
         Continue(c, l, state, locals)
  BY DEF Discover, RotationFails
<1>3. locals.lockFile = Locals(c).lockFile
  BY AdmittedFacts DEF Progress
<1>4. ~state.closed
  BY <1>1, OwnLocks, AdmittedFacts DEF CloseHandle, WriterState
<1>5. LocksBelong(c) /\ \A i \in Inode : flock'[i] # W(c)
  BY <1>1, OwnLocks DEF LocksReleasedBy, LocksBelong
<1>6. \A g \in Generation : dirLock'[g] = c => l \in Rotating /\ locals.lockFile = g
  BY <1>1, <1>3, OwnLocks DEF Rotating
<1> HIDE DEF state
<1> QED
  BY <1>1, <1>2, <1>4, <1>5, <1>6, ContinueLocks

(* A writer without a locked shard goes on rotating with any handle. *)
LEMMA RotatesOn ==
  ASSUME TypeInv, LockInv, NEW c \in Caller, pc[c] \in Unlocking,
         NEW l \in Rotating, NEW state, NEW locals, Continue(c, l, state, locals),
         state.closed = Same(c).closed, locals.lockFile = Locals(c).lockFile,
         UNCHANGED <<flock, dirLock>>
  PROVE  LockInv'
<1>1. pc[c] \in Admitted /\ pc[c] \in Writing
  BY DEF Unlocking, Admitted, Writing, Rotating
<1>2. /\ ~state.closed
      /\ \A i \in Inode : flock'[i] # W(c)
      /\ \A g \in Generation : dirLock'[g] = c => locals.lockFile = g
  BY <1>1, OwnLocks
<1>3. LocksBelong(c)
  BY DEF LocksBelong
<1> QED
  BY <1>1, <1>2, <1>3, ContinueLocks

LEMMA RotationFailsLocks ==
  ASSUME TypeInv, LockInv, NEW c \in Caller, pc[c] \in Unlocking,
         NEW state, RotationFails(c, state), state.closed = Same(c).closed,
         UNCHANGED <<flock, dirLock>>
  PROVE  LockInv'
<1> DEFINE locals == [Locals(c) EXCEPT !.failed = TRUE]
<1>1. Continue(c, "dirUnlock", state, locals) /\ "dirUnlock" \in Rotating
  BY DEF RotationFails, Rotating
<1>2. locals.lockFile = Locals(c).lockFile
  BY AdmittedFacts DEF Progress
<1> HIDE DEF locals
<1> QED
  BY <1>1, <1>2, RotatesOn

LEMMA ProbeLocks ==
  ASSUME TypeInv, LockInv, NEW c \in Caller,
         ProbeFull(c) \/ OpenShard(c) \/ CreateShard(c) \/ OpenFails(c)
  PROVE  LockInv'
<1>1. pc[c] \in Unlocking /\ UNCHANGED <<flock, dirLock>>
  BY DEF ProbeFull, OpenShard, CreateShard, OpenFails, dirVars, Unlocking
<1>2. CASE ProbeFull(c)
  <2> DEFINE locals == [Locals(c) EXCEPT !.index = @ + 1]
  <2>1. Continue(c, "probe", Same(c), locals) /\ "probe" \in Rotating
    BY <1>2 DEF ProbeFull, Rotating
  <2>2. locals.lockFile = Locals(c).lockFile
    BY AdmittedFacts DEF Progress
  <2> HIDE DEF locals
  <2> QED
    BY <1>1, <2>1, <2>2, RotatesOn
<1>3. ASSUME NEW i, NEW n, Continue(c, "retain", Opened(c, i, n), Locals(c)) PROVE LockInv'
  <2>1. Opened(c, i, n).closed = Same(c).closed /\ "retain" \in Rotating
    BY AdmittedFacts DEF Opened, WriterState, Rotating
  <2> QED
    BY <1>1, <1>3, <2>1, RotatesOn
<1>4. CASE RotationFails(c, Same(c))
  BY <1>1, <1>4, RotationFailsLocks
<1> QED
  BY <1>2, <1>3, <1>4 DEF OpenShard, CreateShard, OpenFails

LEMMA RetentionLocks ==
  ASSUME TypeInv, LockInv, NEW c \in Caller, ApplyRetention(c) \/ SweepOne(c) \/ SweepDone(c)
  PROVE  LockInv'
<1> DEFINE swept == [Same(c) EXCEPT !.retentionAppliedTo = Date(c)]
<1>1. pc[c] \in Unlocking /\ UNCHANGED <<flock, dirLock>>
  BY DEF ApplyRetention, SweepOne, SweepDone, dirVars, Unlocking
<1>2. /\ swept.closed = Same(c).closed
      /\ CloseHandle(swept).closed = Same(c).closed
      /\ CloseHandle(Same(c)).closed = Same(c).closed
  BY AdmittedFacts DEF CloseHandle, WriterState
<1>3. ASSUME NEW l \in {"sweep", "dirUnlock"}, NEW stale,
             \/ Continue(c, l, Same(c), Locals(c))
             \/ Continue(c, l, Same(c), [Locals(c) EXCEPT !.stale = stale])
             \/ Continue(c, l, swept, [Locals(c) EXCEPT !.stale = stale])
      PROVE  LockInv'
  <2> DEFINE locals == [Locals(c) EXCEPT !.stale = stale]
  <2>1. locals.lockFile = Locals(c).lockFile /\ l \in Rotating
    BY AdmittedFacts DEF Progress, Rotating
  <2> HIDE DEF swept, locals
  <2> QED
    BY <1>1, <1>2, <1>3, <2>1, RotatesOn DEF locals
<1>4. CASE RotationFails(c, CloseHandle(swept)) \/ RotationFails(c, CloseHandle(Same(c)))
  <2> HIDE DEF swept
  <2> QED
    BY <1>1, <1>2, <1>4, RotationFailsLocks
<1> QED
  BY <1>3, <1>4 DEF ApplyRetention, SweepOne, SweepDone

LEMMA UnlockDirectoryLocks ==
  ASSUME TypeInv, LockInv, NEW c \in Caller, UnlockDirectory(c)
  PROVE  LockInv'
<1>1. /\ pc[c] = "dirUnlock" /\ pc[c] \in Admitted /\ pc[c] \in Writing
      /\ UNCHANGED flock
      /\ dirLock' = [dirLock EXCEPT ![Locals(c).lockFile] = None]
  BY DEF UnlockDirectory, Admitted, Rotating, Writing
<1>2. \A g \in Generation : dirLock'[g] \in {dirLock[g], None} /\ dirLock'[g] # c
  <2> SUFFICES ASSUME NEW g \in Generation
               PROVE  dirLock'[g] \in {dirLock[g], None} /\ dirLock'[g] # c
    OBVIOUS
  <2>1. CASE g = Locals(c).lockFile
    BY <1>1, <2>1, OwnLocks
  <2>2. CASE g # Locals(c).lockFile
    BY <1>1, <2>2, OwnLocks
  <2> QED
    BY <2>1, <2>2
<1>3. CASE Return(c, Same(c), FALSE)
  BY <1>1, <1>2, <1>3, AdmittedFacts, ReturnLocks DEF Handle, Same
<1>4. CASE Continue(c, "shardLock", Same(c), NoProgress)
  <2>1. LocksBelong(c) /\ "shardLock" \notin Unlocking
    BY <1>1, <1>2 DEF LocksBelong, Unlocking
  <2>2. ~Same(c).closed /\ \A i \in Inode : flock'[i] = W(c) => Same(c).handle = i
    BY <1>1, OwnLocks DEF Handle, Same
  <2> QED
    BY <1>1, <1>2, <1>4, <2>1, <2>2, ContinueLocks
<1> QED
  BY <1>3, <1>4 DEF UnlockDirectory

LEMMA AppendingLocks ==
  ASSUME TypeInv, LockInv, NEW c \in Caller,
         \/ StatShard(c) \/ StatFails(c) \/ Append(c) \/ AppendFails(c)
         \/ RestoreLineBoundary(c) \/ UnlockShard(c)
  PROVE  LockInv'
<1> DEFINE sized == [Same(c) EXCEPT !.currentSize = file[Handle(c)].size]
           grown == [Same(c) EXCEPT !.currentSize = @ + Line(c)]
<1>1. /\ pc[c] \in Admitted /\ pc[c] \notin Rotating /\ pc[c] \in Writing /\ pc[c] \in Appending
      /\ UNCHANGED dirLock
  BY DEF StatShard, StatFails, Append, AppendFails, RestoreLineBoundary, UnlockShard,
         Admitted, Rotating, Writing, Appending
<1>2. \A i \in Inode : flock'[i] \in {flock[i], None}
  BY OwnLocks DEF StatShard, StatFails, Append, AppendFails, RestoreLineBoundary, UnlockShard,
     Unlock
<1>3. /\ sized \in WriterState /\ sized.handle = Handle(c) /\ sized.closed = Same(c).closed
      /\ grown \in WriterState /\ grown.handle = Handle(c) /\ grown.closed = Same(c).closed
  <2>1. Same(c) \in WriterState /\ Handle(c) = Same(c).handle
    BY AdmittedFacts DEF Handle, Same
  <2>2. file[Handle(c)].size \in Nat /\ Line(c) \in Nat
    BY <1>1, HandleFacts, WriteFacts DEF TypeInv, TypeOK, DirTypeOK, Shard
  <2> QED
    BY <2>1, <2>2 DEF WriterState
<1> HIDE DEF sized, grown
<1>4. ASSUME NEW state \in {Same(c), sized, grown}, NEW ok, Return(c, state, ok) PROVE LockInv'
  BY <1>1, <1>2, <1>3, <1>4, AdmittedFacts, QuietReturns DEF Handle, Same
<1>5. ASSUME NEW state \in {Same(c), sized}, NEW l \in {"append", "rotate", "unlock", "restore"},
             \/ Continue(c, l, state, Locals(c))
             \/ Continue(c, l, state, [Locals(c) EXCEPT !.failed = TRUE])
      PROVE  LockInv'
  <2> DEFINE locals == [Locals(c) EXCEPT !.failed = TRUE]
  <2>1. locals.lockFile = Locals(c).lockFile
    BY AdmittedFacts DEF Progress
  <2>2. ~state.closed /\ state.handle = Handle(c) /\ l \notin Unlocking
    BY <1>1, <1>3, OwnLocks DEF Handle, Same, Unlocking
  <2> HIDE DEF locals
  <2> QED
    BY <1>1, <1>2, <1>5, <2>1, <2>2, QuietGoesOn DEF locals
<1>6. \/ \E state \in {Same(c), sized, grown} : \E ok : Return(c, state, ok)
      \/ \E state \in {Same(c), sized} : \E l \in {"append", "rotate", "unlock", "restore"} :
            \/ Continue(c, l, state, Locals(c))
            \/ Continue(c, l, state, [Locals(c) EXCEPT !.failed = TRUE])
  <2>1. CASE StatShard(c)
    BY <2>1 DEF StatShard, sized
  <2>2. CASE StatFails(c) \/ Append(c) \/ AppendFails(c) \/ RestoreLineBoundary(c)
    BY <2>2 DEF StatFails, Append, AppendFails, RestoreLineBoundary
  <2>3. CASE UnlockShard(c)
    BY <2>3 DEF UnlockShard, grown
  <2> QED
    BY <2>1, <2>2, <2>3
<1> QED
  BY <1>4, <1>5, <1>6

-----------------------------------------------------------------------------
(* What is not a step of a call.                                           *)

(* A call that is outside of the gate, before and after, has no locks. *)
LEMMA OutsideLocks ==
  ASSUME TypeInv, LockInv, NEW c \in Caller, pc[c] \in {"idle", "gate"},
         NEW l \in {"idle", "gate", "admitted"}, Goto(c, l),
         UNCHANGED <<dirVars, writer, progress>>
  PROVE  LockInv'
<1>1. /\ l \notin Rotating /\ l \notin Unlocking /\ l \notin Writing /\ pc[c] \notin Rotating
      /\ UNCHANGED <<flock, dirLock, writer, progress>>
  BY DEF Rotating, Unlocking, Writing, Admitted, Appending, dirVars
<1>2. pc'[c] = l /\ \A d \in Caller \ {c} : pc'[d] = pc[d]
  BY DEF Goto, TypeInv, TypeOK
<1>3. ShardLockInv'
  BY <1>1 DEF LockInv, ShardLockInv
<1>4. DirLockInv'
  <2> SUFFICES ASSUME NEW g \in Generation, dirLock[g] # None
               PROVE  pc'[dirLock[g]] \in Rotating /\ progress[dirLock[g]].lockFile = g
    BY <1>1 DEF DirLockInv
  <2>1. dirLock[g] \in Caller \ {c} /\ pc[dirLock[g]] \in Rotating
        /\ progress[dirLock[g]].lockFile = g
    BY <1>1, OwnLocks DEF LockInv, DirLockInv
  <2> QED
    BY <1>2, <2>1
<1>5. ReleasedInv' /\ ClosedHoldsNoShard'
  <2>1. \A d \in Caller : /\ pc'[d] \in Unlocking => pc[d] \in Unlocking
                          /\ pc'[d] \in Writing => pc[d] \in Writing
    BY <1>1, <1>2
  <2> QED
    BY <1>1, <2>1 DEF LockInv, ReleasedInv, ClosedHoldsNoShard, W
<1> QED
  BY <1>3, <1>4, <1>5 DEF LockInv

LEMMA GateLocks ==
  ASSUME TypeInv, LockInv, NEW c \in Caller,
         \/ \E n \in RecordSizes : Submit(c, n)
         \/ CallFlush(c) \/ CallClose(c) \/ AcquireGate(c) \/ AbandonGate(c)
  PROVE  LockInv'
<1>1. PICK l \in {"idle", "gate", "admitted"} :
         pc[c] \in {"idle", "gate"} /\ Goto(c, l) /\ UNCHANGED <<dirVars, writer, progress>>
  BY DEF Submit, CallFlush, CallClose, Call, AcquireGate, AbandonGate
<1> QED
  BY <1>1, OutsideLocks

(* The kernel releases what a dead process had locked. *)
LEMMA CrashLocks ==
  ASSUME TypeInv, LockInv, NEW w \in Writer, Crash(w)
  PROVE  LockInv'
<1> DEFINE own == {c \in Caller : W(c) = w}
<1>1. /\ dirLock' = [g \in Generation |-> IF dirLock[g] \in own THEN None ELSE dirLock[g]]
      /\ pc' = [c \in Caller |-> IF c \in own THEN "idle" ELSE pc[c]]
      /\ progress' = [c \in Caller |-> IF c \in own THEN NoProgress ELSE progress[c]]
      /\ flock' = LocksReleasedBy(w)
      /\ writer' = [writer EXCEPT ![w] = NewWriter]
  BY DEF Crash
<1>2. /\ flock \in [Inode -> Writer \cup {None}] /\ dirLock \in [Generation -> Caller \cup {None}]
      /\ w # None /\ None \notin Caller
  BY NoneAssumption DEF TypeInv, TypeOK, DirTypeOK
<1>3. \A i \in Inode : flock'[i] # None => flock'[i] = flock[i] /\ flock'[i] \in Writer \ {w}
  BY <1>1, <1>2 DEF LocksReleasedBy
<1>4. \A v \in Writer \ {w} : writer'[v] = writer[v]
  BY <1>1 DEF TypeInv, TypeOK
<1>5. writer'[w].handle = None /\ ~writer'[w].closed
  BY <1>1 DEF NewWriter, TypeInv, TypeOK
<1>6. ShardLockInv'
  BY <1>3, <1>4 DEF LockInv, ShardLockInv
<1>7. DirLockInv'
  BY <1>1, <1>2 DEF LockInv, DirLockInv
<1>8. \A c \in Caller : /\ c \in own => pc'[c] = "idle"
                        /\ c \notin own => pc'[c] = pc[c]
  BY <1>1
<1>9. "idle" \notin Unlocking /\ "idle" \notin Writing
  BY DEF Unlocking, Writing, Admitted, Rotating, Appending
<1>10. ReleasedInv'
  <2> SUFFICES ASSUME NEW c \in Caller, pc'[c] \in Unlocking, NEW i \in Inode
               PROVE  flock'[i] # W(c)
    BY DEF ReleasedInv, W
  <2>1. flock[i] # W(c) /\ W(c) # None
    BY <1>8, <1>9, OwnLocks DEF LockInv, ReleasedInv
  <2> QED
    BY <1>3, <2>1
<1>11. ClosedHoldsNoShard'
  <2> SUFFICES ASSUME NEW v \in Writer, writer'[v].closed
               PROVE  /\ writer'[v].handle = None
                      /\ \A i \in Inode : flock'[i] # v
                      /\ \A c \in Caller : W(c) = v => pc'[c] \notin Writing
    BY DEF ClosedHoldsNoShard, W
  <2>1. v # w /\ writer'[v] = writer[v] /\ v # None
    BY <1>4, <1>5, NoneAssumption
  <2>2. /\ writer[v].handle = None /\ \A i \in Inode : flock[i] # v
        /\ \A c \in Caller : W(c) = v => pc[c] \notin Writing
    BY <2>1 DEF LockInv, ClosedHoldsNoShard
  <2> QED
    BY <1>3, <1>8, <1>9, <2>1, <2>2
<1> QED
  BY <1>6, <1>7, <1>10, <1>11 DEF LockInv

LEMMA UnchangedLocks ==
  ASSUME LockInv, Midnight \/ RemoveDirectory \/ UNCHANGED vars
  PROVE  LockInv'
<1>1. UNCHANGED <<flock, dirLock, writer, pc, progress>>
  BY DEF Midnight, RemoveDirectory, vars, callVars, dirVars
<1> QED
  BY <1>1 DEF LockInv, ShardLockInv, DirLockInv, ReleasedInv, ClosedHoldsNoShard, W

-----------------------------------------------------------------------------
LEMMA InitLocks == Init => LockInv
BY DEF Init, DirInit, NewWriter, LockInv, ShardLockInv, DirLockInv, ReleasedInv,
       ClosedHoldsNoShard, Unlocking, Writing, Admitted, Rotating, Appending

LEMMA NextLocks == TypeInv /\ LockInv /\ [Next]_vars => LockInv'
<1> SUFFICES ASSUME TypeInv, LockInv, [Next]_vars PROVE LockInv'
  OBVIOUS
<1>1. ASSUME NEW c \in Caller, CallerStep(c) PROVE LockInv'
  <2>1. CASE FlushActive(c) \/ RejectClosed(c) \/ DirectoryFails(c) \/ LockFails(c)
    BY <2>1, GivesUpLocks
  <2>2. CASE \/ CloseWriter(c) \/ EnsureDirectory(c) \/ OpenLockFile(c)
             \/ TryDirLock(c) \/ TryShardLock(c) \/ LockRetry(c)
    BY <2>2, CloseLocks, EnsureDirectoryLocks, OpenLockFileLocks, TryDirLockLocks,
       TryShardLockLocks, LockRetryLocks
  <2>3. CASE \/ Discover(c) \/ ProbeFull(c) \/ OpenShard(c) \/ CreateShard(c) \/ OpenFails(c)
             \/ ApplyRetention(c) \/ SweepOne(c) \/ SweepDone(c) \/ UnlockDirectory(c)
    BY <2>3, DiscoverLocks, ProbeLocks, RetentionLocks, UnlockDirectoryLocks
  <2>4. CASE \/ StatShard(c) \/ StatFails(c) \/ Append(c) \/ AppendFails(c)
             \/ RestoreLineBoundary(c) \/ UnlockShard(c)
    BY <2>4, AppendingLocks
  <2> QED
    BY <1>1, <2>1, <2>2, <2>3, <2>4 DEF CallerStep
<1>2. ASSUME NEW c \in Caller,
             \/ \E n \in RecordSizes : Submit(c, n)
             \/ CallFlush(c) \/ CallClose(c) \/ AcquireGate(c) \/ AbandonGate(c)
             \/ LockTimeout(c)
      PROVE  LockInv'
  BY <1>2, GateLocks, GivesUpLocks
<1>3. ASSUME NEW w \in Writer, Crash(w) PROVE LockInv'
  BY <1>3, CrashLocks
<1> QED
  BY <1>1, <1>2, <1>3, UnchangedLocks DEF Next

LEMMA LockInvariant == Spec => []LockInv
BY InitLocks, NextLocks, TypeInvariant, PTL DEF Spec

(* A shard is locked only through the active handle of its holder and the  *)
(* directory only by a call that is in rotate, after any failure, timeout  *)
(* or crash: every lock has somebody who releases it.                      *)
THEOREM LocksHaveHolders == Spec => []NoStrandedLock
<1>1. LockInv => NoStrandedLock
  BY DEF LockInv, ShardLockInv, DirLockInv, NoStrandedLock
<1> QED
  BY <1>1, LockInvariant, PTL

(* Once Close has returned for a writer none of its calls opens or locks a *)
(* shard, however many of them waited at the gate.                         *)
THEOREM CloseIsTerminal == Spec => []ClosedHoldsNoShard
<1>1. LockInv => ClosedHoldsNoShard
  BY DEF LockInv
<1> QED
  BY <1>1, LockInvariant, PTL

=============================================================================
