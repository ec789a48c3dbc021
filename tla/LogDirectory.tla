---------------------------- MODULE LogDirectory ----------------------------
(***************************************************************************)
(* The log directory as the kernel keeps it for the JSONL writers of       *)
(* traceloom-go: the shards, the names that link them, the advisory lock   *)
(* on each shard and the lock on `.traceloom.lock`.                        *)
(*                                                                         *)
(* A shard is an inode.  A writer that opened one keeps its inode even     *)
(* when the name is removed or the whole directory is replaced: a name is  *)
(* resolved when a path is opened, never afterwards.                       *)
(*                                                                         *)
(* The bytes of a shard are a set of extents.  One append leaves one       *)
(* extent: a "record" (a whole JSON line with its newline), a "fragment"   *)
(* (a proper prefix of a line, without the newline) or a "newline" (the    *)
(* byte that closes a fragment).                                           *)
(***************************************************************************)
EXTENDS Integers, FiniteSets

CONSTANTS
    Writer,      \* the writers, one per process that opened the directory
    Caller,      \* the goroutines that call them
    None,        \* no owner, no handle, no event
    MaxInode,    \* bound: the shards that can ever be created
    MaxDay,      \* bound: the last UTC date of a behaviour, counted from 0
    MaxGeneration  \* bound: how often the directory is removed

ASSUME NoneAssumption == None \notin Writer \cup Caller \cup Int
ASSUME BoundAssumption == MaxInode \in Nat /\ MaxDay \in Nat /\ MaxGeneration \in Nat

VARIABLES
    file,        \* what each inode holds, and the name it was created under
    fresh,       \* the next inode
    linked,      \* the inodes that have a name in the directory
    flock,       \* who holds the advisory lock on a shard
    dirLock,     \* who holds `.traceloom.lock`, in each directory there was
    directory,   \* whether the directory exists
    generation   \* how often it was removed

dirVars == <<file, fresh, linked, flock, dirLock, directory, generation>>

Inode == 1 .. MaxInode
Day == 0 .. MaxDay
Generation == 0 .. MaxGeneration

Event == [caller : Caller, sequence : Nat, date : Day, bytes : Nat \ {0}]
Extent == [ev : Event, kind : {"record", "fragment", "newline"}, start : Nat, end : Nat]
Shard == [date : Day, index : Nat, size : Nat, data : SUBSET Extent]

EmptyShard(d, k) == [date |-> d, index |-> k, size |-> 0, data |-> {}]

DirTypeOK ==
    /\ file \in [Inode -> Shard]
    /\ fresh \in 1 .. MaxInode + 1
    /\ linked \subseteq 1 .. fresh - 1
    /\ flock \in [Inode -> Writer \cup {None}]
    /\ dirLock \in [Generation -> Caller \cup {None}]
    /\ directory \in BOOLEAN
    /\ generation \in Generation

(* An empty directory, or none yet: the writer creates it on first use. *)
DirInit ==
    /\ file = [i \in Inode |-> EmptyShard(0, 0)]
    /\ fresh = 1
    /\ linked = {}
    /\ flock = [i \in Inode |-> None]
    /\ dirLock = [g \in Generation |-> None]
    /\ directory \in BOOLEAN
    /\ generation = 0

-----------------------------------------------------------------------------
(* Names: `<date>.jsonl` is index 0, `<date>-<k>.jsonl` is index k.        *)

Named(d, k) == {i \in linked : file[i].date = d /\ file[i].index = k}
Names == {<<file[i].date, file[i].index>> : i \in linked}

(* The indices of the shards of date d, and 0, where the first one begins. *)
Indices(d) == {0} \cup {file[i].index : i \in {j \in linked : file[j].date = d}}

(* Mutants of Highest: probe from the first shard, begin at the next one. *)
First(d) == {0}
NextFree(d) == {Cardinality(Indices(d))}

(* The highest of them, as a set of one. *)
Highest(d) == {k \in Indices(d) : \A other \in Indices(d) : other <= k}

(* The size fileSize reports: a missing file has size 0. *)
NamedSize(d, k) ==
    IF Named(d, k) = {} THEN 0 ELSE file[CHOOSE i \in Named(d, k) : TRUE].size

-----------------------------------------------------------------------------
(* System calls.                                                           *)

(* The shard under the same name with other bytes in it. *)
Holds(shard, n, extents) ==
    [date |-> shard.date, index |-> shard.index, size |-> n, data |-> extents]

(* write(2) with O_APPEND: n bytes of event e go to the end of inode i. *)
Extend(i, e, kind, n) ==
    LET end == file[i].size + n
        x == [ev |-> e, kind |-> kind, start |-> file[i].size, end |-> end]
    IN  file' = [file EXCEPT ![i] = Holds(@, end, @.data \cup {x})]

(* ftruncate(2) to n, a boundary between two extents. *)
Truncate(i, n) ==
    file' = [file EXCEPT ![i] = Holds(@, n, {x \in @.data : x.end <= n})]

(* open(2) with O_CREATE of a name that is not there. *)
Create(d, k) ==
    /\ file' = [file EXCEPT ![fresh] = EmptyShard(d, k)]
    /\ linked' = linked \cup {fresh}
    /\ fresh' = fresh + 1

(* close(2), or the death of the process, drops the lock the writer had. *)
LocksReleasedBy(w) == [i \in Inode |-> IF flock[i] = w THEN None ELSE flock[i]]

=============================================================================
