--------------------------- MODULE TimelineReader ----------------------------
(***************************************************************************)
(* `eventtrace show <trace>` (internal/eventtracecli/command.go): the      *)
(* command lists the shards, reads them one after the other and prints the *)
(* events of one trace, while programs go on recording and retention goes  *)
(* on removing.                                                            *)
(*                                                                         *)
(* The recorders are abstract: a trace appends its events in sequence and  *)
(* never returns to an earlier shard, as ShardWriter and TraceTimeline     *)
(* say.  There is one date, and the shards are known by their index: a     *)
(* second date would only put more files at the end of the listing.        *)
(***************************************************************************)
EXTENDS Integers, Sequences, FiniteSets

CONSTANTS
    Trace,        \* the traces that are being recorded
    Wanted,       \* the one the command is asked for
    MaxIndex,     \* bound: the shards of the date (one digit, see Before)
    MaxSequence,  \* bound: the events of a trace
    MaxClock,     \* bound: the clocks
    MaxDamage     \* bound: lines that are torn or too long, and refusals of the disk

ASSUME ReaderAssumption ==
    /\ Wanted \in Trace
    /\ MaxIndex \in 0 .. 9
    /\ MaxSequence \in Nat /\ MaxClock \in Nat /\ MaxDamage \in Nat

VARIABLES
    line,        \* the lines of each shard
    linked,      \* the shards that have a name in the directory
    used,        \* the shards that were ever created
    position,    \* the shard a trace writes to
    sequence,    \* the last number a trace gave out
    wall,        \* the wall clock
    monotonic,   \* the monotonic clock, and the time since both traces began
    stepped,     \* whether the wall clock was ever set back
    unreadable,  \* the shards the command may not open
    damage,      \* those lines and refusals so far, only for the bound
    pc,          \* where the command is
    todo,        \* the listed files it has not left yet, read in the order of Before
    offset,      \* the lines it has read of the first of them, -1 before it is opened
    found,       \* the events of the trace, in the order they were read
    malformed,   \* the lines that mention the trace and are no records
    listed,      \* history: the shards and lines there were at the listing
    skipped,     \* history: the files the command could not open or read to the end
    exit         \* the exit code

diskVars == <<line, linked, used, position, sequence, damage>>
clockVars == <<wall, monotonic, stepped>>
readVars == <<pc, todo, offset, found, malformed, listed, skipped, exit>>
vars == <<diskVars, clockVars, unreadable, readVars>>

Index == 0 .. MaxIndex

(* A record, a torn line that still names the trace, or a line over        *)
(* maxLineBytes, of which nothing but its length matters.  elapsed_ms is   *)
(* always there: this library wrote it.                                    *)
Event == [kind : {"record"}, trace : Trace, sequence : 1 .. MaxSequence,
          timestamp : 0 .. MaxClock, elapsed : 0 .. MaxClock]
Line == Event \cup [kind : {"torn", "overlong"}, trace : Trace]

TypeOK ==
    /\ line \in [Index -> Seq(Line)]
    /\ linked \subseteq used
    /\ used \subseteq Index
    /\ position \in [Trace -> Index]
    /\ sequence \in [Trace -> 0 .. MaxSequence]
    /\ wall \in 0 .. MaxClock /\ monotonic \in 0 .. MaxClock
    /\ stepped \in BOOLEAN
    /\ unreadable \subseteq Index
    /\ damage \in 0 .. MaxDamage
    /\ pc \in {"start", "read", "done"}
    /\ todo \subseteq Index
    /\ offset \in Nat \cup {-1}
    /\ found \in Seq(Event)
    /\ malformed \in 0 .. MaxDamage
    /\ listed \in [Index -> Seq(Line)]
    /\ skipped \subseteq Index
    /\ exit \in 0 .. 2

Init ==
    /\ line = [k \in Index |-> <<>>]
    /\ linked = {} /\ used = {}
    /\ position = [t \in Trace |-> 0]
    /\ sequence = [t \in Trace |-> 0]
    /\ wall = 0 /\ monotonic = 0 /\ stepped = FALSE
    /\ unreadable = {} /\ damage = 0
    /\ pc = "start" /\ todo = {} /\ offset = -1
    /\ found = <<>> /\ malformed = 0
    /\ listed = [k \in Index |-> <<>>] /\ skipped = {}
    /\ exit = 0

-----------------------------------------------------------------------------
(* The programs that record, and the clocks.                               *)

AppendTo(k, l) ==
    /\ k \in linked \/ (k \notin used /\ \A j \in 0 .. k - 1 : j \in used)
    /\ line' = [line EXCEPT ![k] = Append(@, l)]
    /\ linked' = linked \cup {k}
    /\ used' = used \cup {k}

(* TraceEvent.record: the timestamp is wall-clock time in microseconds,    *)
(* elapsed_ms a difference of monotonic readings.                          *)
Record(t, k) ==
    /\ k >= position[t]
    /\ sequence[t] < MaxSequence
    /\ AppendTo(k, [kind |-> "record", trace |-> t, sequence |-> sequence[t] + 1,
                    timestamp |-> wall, elapsed |-> monotonic])
    /\ sequence' = [sequence EXCEPT ![t] = @ + 1]
    /\ position' = [position EXCEPT ![t] = k]
    /\ UNCHANGED <<damage, clockVars, unreadable, readVars>>

(* The same for an event whose line is over maxLineBytes, the cap of the   *)
(* command: the program may be configured for longer records.              *)
RecordLong(t, k) ==
    /\ k >= position[t]
    /\ sequence[t] < MaxSequence
    /\ damage < MaxDamage
    /\ damage' = damage + 1
    /\ AppendTo(k, [kind |-> "overlong", trace |-> t])
    /\ sequence' = [sequence EXCEPT ![t] = @ + 1]
    /\ position' = [position EXCEPT ![t] = k]
    /\ UNCHANGED <<clockVars, unreadable, readVars>>

(* A process died in the middle of a line, or the file is corrupt and has  *)
(* no newline for more than maxLineBytes.                                  *)
Damage(k, l) ==
    /\ damage < MaxDamage
    /\ damage' = damage + 1
    /\ k \in linked
    /\ AppendTo(k, l)
    /\ UNCHANGED <<position, sequence, clockVars, unreadable, readVars>>

(* Retention removes a shard; whoever has it open can still read it. *)
Expire(k) ==
    /\ k \in linked
    /\ linked' = linked \ {k}
    /\ UNCHANGED <<line, used, position, sequence, damage, clockVars, unreadable, readVars>>

Forbid(k) ==
    /\ damage < MaxDamage
    /\ damage' = damage + 1
    /\ k \in linked \ unreadable
    /\ unreadable' = unreadable \cup {k}
    /\ UNCHANGED <<line, linked, used, position, sequence, clockVars, readVars>>

Tick ==
    /\ monotonic < MaxClock
    /\ monotonic' = monotonic + 1
    /\ wall' = IF wall < MaxClock THEN wall + 1 ELSE wall
    /\ UNCHANGED <<stepped, diskVars, unreadable, readVars>>

SetBack ==
    /\ wall > 0
    /\ wall' = wall - 1
    /\ stepped' = TRUE
    /\ UNCHANGED <<monotonic, diskVars, unreadable, readVars>>

-----------------------------------------------------------------------------
(* The command.                                                            *)

(* sort.Strings on the names: "-" comes before ".", so <date>-1.jsonl and  *)
(* its successors come before <date>.jsonl, which is index 0.              *)
Before(j, k) == j # 0 /\ (k = 0 \/ j < k)

(* logFiles; the names are all a listing holds. *)
List ==
    /\ pc = "start"
    /\ used # {}
    /\ todo' = linked
    /\ listed' = [k \in Index |-> IF k \in linked THEN line[k] ELSE <<>>]
    /\ pc' = "read"
    /\ UNCHANGED <<offset, found, malformed, skipped, exit, diskVars, clockVars, unreadable>>

(* The directory does not exist yet, or the disk refuses to list it. *)
ListFails ==
    /\ pc = "start"
    /\ \/ used = {} /\ UNCHANGED damage
       \/ damage < MaxDamage /\ damage' = damage + 1
    /\ exit' = 1
    /\ pc' = "done"
    /\ UNCHANGED <<todo, offset, found, malformed, listed, skipped, line, linked, used, position,
                   sequence, clockVars, unreadable>>

(* The loop of findEvents is at file k. *)
Turn(k) == pc = "read" /\ k \in todo /\ \A j \in todo \ {k} : Before(k, j)

(* Whatever ended the reading of file k, the loop goes on with the next. *)
NextFile(k) == todo' = todo \ {k} /\ offset' = -1

(* os.Open succeeds. *)
Readable(k) == k \in linked \ unreadable

Open(k) ==
    /\ Turn(k) /\ offset = -1
    /\ Readable(k)
    /\ offset' = 0
    /\ UNCHANGED <<pc, todo, found, malformed, listed, skipped, exit, diskVars, clockVars,
                   unreadable>>

(* Mutant of OpenFails: the command gives up at the first such file. *)
OpenFailsAndStops(k) ==
    /\ Turn(k) /\ offset = -1
    /\ ~Readable(k)
    /\ todo' = {}
    /\ skipped' = skipped \cup {k}
    /\ UNCHANGED <<pc, offset, found, malformed, listed, exit, diskVars, clockVars, unreadable>>

(* A warning, and the next file. *)
OpenFails(k) ==
    /\ Turn(k) /\ offset = -1
    /\ ~Readable(k)
    /\ NextFile(k)
    /\ skipped' = skipped \cup {k}
    /\ UNCHANGED <<pc, found, malformed, listed, exit, diskVars, clockVars, unreadable>>

(* Mutant of ReadLine: an overlong line is counted when it is met and      *)
(* again when the file is closed.                                          *)
ReadLineCountsTwice(k, l) ==
    /\ IF l.kind = "overlong" THEN NextFile(k) ELSE offset' = offset + 1 /\ UNCHANGED todo
    /\ found' = IF l.kind = "record" /\ l.trace = Wanted THEN Append(found, l) ELSE found
    /\ malformed' = CASE l.kind = "overlong" -> malformed + 2
                      [] l.kind = "torn" /\ l.trace = Wanted -> malformed + 1
                      [] OTHER -> malformed

(* One turn of the scanner.  A line of another trace is passed over before  *)
(* it is parsed; a line over the cap ends the reading of the file.         *)
ReadLine(k, l) ==
    /\ IF l.kind = "overlong" THEN NextFile(k) ELSE offset' = offset + 1 /\ UNCHANGED todo
    /\ found' = IF l.kind = "record" /\ l.trace = Wanted THEN Append(found, l) ELSE found
    /\ malformed' = IF l.kind = "overlong" \/ (l.kind = "torn" /\ l.trace = Wanted)
                    THEN malformed + 1 ELSE malformed

Scan(k) ==
    /\ Turn(k)
    /\ offset \in 0 .. Len(line[k]) - 1
    /\ ReadLine(k, line[k][offset + 1])
    /\ UNCHANGED <<pc, listed, skipped, exit, diskVars, clockVars, unreadable>>

(* The disk refuses to read on: a warning, and the next file. *)
ReadFails(k) ==
    /\ Turn(k) /\ offset # -1
    /\ damage < MaxDamage
    /\ damage' = damage + 1
    /\ NextFile(k)
    /\ skipped' = skipped \cup {k}
    /\ UNCHANGED <<pc, found, malformed, listed, exit, line, linked, used, position, sequence,
                   clockVars, unreadable>>

EndOfFile(k) ==
    /\ Turn(k)
    /\ offset = Len(line[k])
    /\ NextFile(k)
    /\ UNCHANGED <<pc, found, malformed, listed, skipped, exit, diskVars, clockVars, unreadable>>

Show ==
    /\ pc = "read" /\ todo = {}
    /\ exit' = IF found = <<>> THEN 2 ELSE 0
    /\ pc' = "done"
    /\ UNCHANGED <<todo, offset, found, malformed, listed, skipped, diskVars, clockVars,
                   unreadable>>

(* Mutant of Earlier: leaves the order of equal timestamps to the order    *)
(* the files were read in.                                                 *)
EarlierByTime(i, j) ==
    \/ found[i].timestamp < found[j].timestamp
    \/ found[i].timestamp = found[j].timestamp /\ i < j

(* sort.SliceStable by timestamp, then by sequence. *)
Earlier(i, j) ==
    LET a == found[i]  b == found[j]
    IN  \/ a.timestamp < b.timestamp
        \/ a.timestamp = b.timestamp /\ a.sequence < b.sequence
        \/ a.timestamp = b.timestamp /\ a.sequence = b.sequence /\ i < j

(* The place of found[i] in that order. *)
Place(i) == 1 + Cardinality({j \in DOMAIN found : Earlier(j, i)})

(* What printTimeline prints: the events, each with the time since the one *)
(* before it, never negative, and the elapsed time of the last one.        *)
Timeline ==
    [n \in DOMAIN found |-> found[CHOOSE i \in DOMAIN found : Place(i) = n]]
Delta(i) ==
    LET d == Timeline[i].elapsed - Timeline[i - 1].elapsed IN IF d < 0 THEN 0 ELSE d
TotalDuration == Timeline[Len(Timeline)].elapsed

-----------------------------------------------------------------------------
Recorders ==
    \/ \E k \in Index :
          \/ \E t \in Trace : Record(t, k) \/ RecordLong(t, k)
          \/ \E kind \in {"torn", "overlong"} : Damage(k, [kind |-> kind, trace |-> Wanted])
          \/ Expire(k)
          \/ Forbid(k)
    \/ Tick
    \/ SetBack

Command ==
    \/ List
    \/ ListFails
    \/ \E k \in Index : Open(k) \/ OpenFails(k) \/ Scan(k) \/ ReadFails(k) \/ EndOfFile(k)
    \/ Show

Next == Recorders \/ Command

Spec == Init /\ [][Next]_vars

-----------------------------------------------------------------------------
(* Safety.                                                                 *)

(* The lines of shard k that the scanner gets to: up to the first that is  *)
(* over the cap, and not one behind it.                                    *)
Reachable(k) ==
    {i \in DOMAIN listed[k] : \A j \in 1 .. i - 1 : listed[k][j].kind # "overlong"}

(* Those of them that are of the trace, as pairs of shard and place, and   *)
(* among these the ones that are not shown.                                *)
Due == UNION {{<<k, i>> : i \in {j \in Reachable(k) : listed[k][j].trace = Wanted}} :
                 k \in Index \ skipped}
Lost == {x \in Due : listed[x[1]][x[2]].kind # "record"}

(* Of what was on disk when the command began, in the shards it could read *)
(* to the end, every event of the trace is shown up to the first line of   *)
(* its shard that is over maxLineBytes, and every torn line and every such *)
(* line is reported, whatever is appended, removed or damaged meanwhile.   *)
(* The exception is what command.go does and not what the documentation    *)
(* says: an event of more than 8 MB, and with it the rest of its shard, is *)
(* not shown although "the CLI streams arbitrarily long JSONL records".    *)
NothingMissed ==
    pc = "done" /\ exit # 1 =>
        /\ \A x \in Due \ Lost : \E i \in DOMAIN found : found[i] = listed[x[1]][x[2]]
        /\ Cardinality(Lost) <= malformed

(* As long as the wall clock was not set back the timeline is in sequence, *)
(* each event once, though the files are not read in the order they were   *)
(* written in; the deltas add up, and the total duration is the elapsed    *)
(* time of the latest event.                                               *)
TimelineInSequence ==
    pc = "done" /\ ~stepped /\ exit = 0 =>
        /\ \A i \in 2 .. Len(Timeline) :
              /\ Timeline[i - 1].sequence < Timeline[i].sequence
              /\ Timeline[i].elapsed = Timeline[i - 1].elapsed + Delta(i)
        /\ \A i \in DOMAIN found : found[i].elapsed <= TotalDuration

=============================================================================
