------------------------- MODULE TimelineReaderProofs -------------------------
(***************************************************************************)
(* Theorems about the command: its types, that no listed line is missed    *)
(* and that the timeline it prints is in sequence.                         *)
(***************************************************************************)
EXTENDS TimelineReader, FiniteSetTheorems, SequenceTheorems,
        TLAPS

-----------------------------------------------------------------------------
(* The inductive invariant.                                                *)

(* Line i of shard k is a record. *)
IsRecord(k, i) == i \in DOMAIN line[k] /\ line[k][i].kind = "record"

(* An event is no later than what its trace and the clocks have reached. *)
Reached(e) ==
    /\ e.sequence <= sequence[e.trace]
    /\ e.elapsed <= monotonic
    /\ ~stepped => e.timestamp <= wall

(* Of two events of a trace the later one has the later times. *)
InOrder(e, f) ==
    e.trace = f.trace /\ e.sequence < f.sequence =>
        /\ e.elapsed <= f.elapsed
        /\ ~stepped => e.timestamp <= f.timestamp

(* A sequence number of a trace is in one place only. *)
LogInv ==
    \A k \in Index : \A i \in Nat : IsRecord(k, i) =>
        /\ Reached(line[k][i])
        /\ \A m \in Index : \A j \in Nat : IsRecord(m, j) =>
              /\ InOrder(line[k][i], line[m][j])
              /\ line[k][i].trace = line[m][j].trace
                    /\ line[k][i].sequence = line[m][j].sequence => k = m /\ i = j

(* A listed shard has only grown since. *)
ListedInv ==
    \A k \in Index : \A i \in DOMAIN listed[k] :
        i \in DOMAIN line[k] /\ listed[k][i] = line[k][i]

(* The command has read line i of shard k, if it reads it at all. *)
Behind(k, i) == k \in todo => Turn(k) /\ i <= offset

(* What was damaged, and what of that the command can have counted.        *)
Damaged ==
    {x \in Index \X Nat : x[2] \in DOMAIN line[x[1]] /\ line[x[1]][x[2]].kind # "record"}
Counted == {x \in Damaged : Behind(x[1], x[2])}
Reported == {x \in Lost : Behind(x[1], x[2])}

DamageBounded == IsFiniteSet(Damaged) /\ Cardinality(Damaged) <= damage
CountInv ==
    /\ DamageBounded
    /\ malformed <= Cardinality(Counted)
    /\ Cardinality(Reported) <= malformed

(* The events found are behind the command, each once, and an event of the *)
(* listing that is behind it is among them.                                *)
Source(e, k, i) == IsRecord(k, i) /\ line[k][i] = e /\ Behind(k, i)
IsWanted(l) == l.kind = "record" /\ l.trace = Wanted
Known(e) == IsWanted(e) /\ \E k \in Index : \E i \in Nat : Source(e, k, i)

FoundInv ==
    /\ \A n \in DOMAIN found : Known(found[n])
    /\ \A m, n \in DOMAIN found : found[m].sequence = found[n].sequence => m = n
    /\ \A k \in Index \ skipped : \A i \in Reachable(k) :
          IsWanted(listed[k][i]) /\ Behind(k, i) =>
              \E n \in DOMAIN found : found[n] = listed[k][i]

ControlInv ==
    /\ pc = "start" => /\ todo = {} /\ offset = -1 /\ found = <<>> /\ malformed = 0
                       /\ skipped = {} /\ exit = 0
                       /\ \A k \in Index : listed[k] = <<>>
    /\ pc = "done" /\ exit # 1 => todo = {}
    /\ pc = "done" /\ exit = 0 => found # <<>>

ReaderInv == TypeOK /\ LogInv /\ ListedInv /\ CountInv /\ FoundInv /\ ControlInv

-----------------------------------------------------------------------------
(* Types.                                                                  *)

LEMMA IndexFacts == Index \subseteq Nat /\ Nat \subseteq Int
  BY ReaderAssumption DEF Index

(* What an appended line changes. *)
Longer(k, l, n) ==
    /\ n \in Nat \ {0} /\ n \notin DOMAIN line[k]
    /\ line' \in [Index -> Seq(Line)]
    /\ \A j \in Index : \A i \in Nat :
          i \in DOMAIN line'[j] <=> i \in DOMAIN line[j] \/ (j = k /\ i = n)
    /\ \A j \in Index : \A i \in DOMAIN line[j] : line'[j][i] = line[j][i]
    /\ line'[k][n] = l

LEMMA AppendedLine ==
  ASSUME TypeOK, NEW k \in Index, NEW l \in Line, line' = [line EXCEPT ![k] = Append(@, l)]
  PROVE  \E n \in Nat : Longer(k, l, n)
<1>1. line[k] \in Seq(Line) /\ line \in [Index -> Seq(Line)]
  BY DEF TypeOK
<1>2. PICK s \in Seq(Line) :
        /\ s = Append(line[k], l)
        /\ Len(s) = Len(line[k]) + 1 /\ s[Len(line[k]) + 1] = l
        /\ \A i \in 1 .. Len(line[k]) : s[i] = line[k][i]
  BY <1>1, AppendProperties
<1>3. \A i \in DOMAIN line[k] : s[i] = line[k][i]
  BY <1>1, <1>2
<1>4. line'[k] = s /\ \A j \in Index : j # k => line'[j] = line[j]
  BY <1>1, <1>2
<1>5. Len(line[k]) \in Nat /\ DOMAIN line[k] = 1 .. Len(line[k])
      /\ DOMAIN s = 1 .. Len(line[k]) + 1
  BY <1>1, <1>2
<1>6. line' \in [Index -> Seq(Line)]
  BY <1>1, <1>2
<1>7. PICK n \in Nat \ {0} : n = Len(line[k]) + 1
  BY <1>5
<1>8. n \notin DOMAIN line[k]
  BY <1>5, <1>7
<1>9. \A j \in Index : \A i \in Nat :
          i \in DOMAIN line'[j] <=> i \in DOMAIN line[j] \/ (j = k /\ i = n)
  BY <1>4, <1>5, <1>7
<1>10. \A j \in Index : \A i \in DOMAIN line[j] : line'[j][i] = line[j][i]
  BY <1>3, <1>4
<1>11. line'[k][n] = l
  BY <1>2, <1>4, <1>7
<1> QED
  BY <1>6, <1>7, <1>8, <1>9, <1>10, <1>11 DEF Longer

(* The events of one turn of the recorders are lines. *)
LEMMA RecordedLine ==
  ASSUME TypeOK, NEW t \in Trace, sequence[t] < MaxSequence
  PROVE  [kind |-> "record", trace |-> t, sequence |-> sequence[t] + 1,
          timestamp |-> wall, elapsed |-> monotonic] \in Event
  BY ReaderAssumption DEF TypeOK, Event

(* A step that appends a line that is no record: of what was there before  *)
(* it changes nothing.                                                     *)
Spoils(k, l) ==
    /\ l \in Line /\ l.kind # "record"
    /\ AppendTo(k, l)
    /\ damage < MaxDamage /\ damage' = damage + 1
    /\ sequence' \in [Trace -> 0 .. MaxSequence] /\ position' \in [Trace -> Index]
    /\ \A t \in Trace : sequence'[t] >= sequence[t]
    /\ UNCHANGED <<clockVars, unreadable, readVars>>
SpoilStep ==
    \E k \in Index :
        \/ \E t \in Trace : RecordLong(t, k)
        \/ \E kind \in {"torn", "overlong"} : Damage(k, [kind |-> kind, trace |-> Wanted])

LEMMA SpoiltLine ==
  ASSUME TypeOK, SpoilStep
  PROVE  \E k \in Index : \E l \in Line : Spoils(k, l)
<1>1. sequence \in [Trace -> 0 .. MaxSequence] /\ position \in [Trace -> Index]
      /\ MaxSequence \in Nat
  BY ReaderAssumption DEF TypeOK
<1>2. ASSUME NEW k \in Index, NEW t \in Trace, RecordLong(t, k)
      PROVE  \E l \in Line : Spoils(k, l)
  <2> DEFINE l == [kind |-> "overlong", trace |-> t]
  <2>1. l \in Line /\ l.kind # "record"
    BY DEF Line
  <2>2. sequence[t] \in 0 .. MaxSequence /\ sequence[t] + 1 \in 0 .. MaxSequence
    BY <1>1, <1>2 DEF RecordLong
  <2>3. sequence' = [sequence EXCEPT ![t] = sequence[t] + 1]
        /\ position' = [position EXCEPT ![t] = k]
    BY <1>2 DEF RecordLong
  <2>4. sequence' \in [Trace -> 0 .. MaxSequence] /\ position' \in [Trace -> Index]
        /\ \A u \in Trace : sequence'[u] >= sequence[u]
    BY <1>1, <2>2, <2>3
  <2>5. Spoils(k, l)
    BY <1>2, <2>1, <2>4 DEF RecordLong, Spoils
  <2> QED
    BY <2>1, <2>5
<1>3. ASSUME NEW k \in Index, NEW kind \in {"torn", "overlong"},
             Damage(k, [kind |-> kind, trace |-> Wanted])
      PROVE  \E l \in Line : Spoils(k, l)
  <2> DEFINE l == [kind |-> kind, trace |-> Wanted]
  <2>1. l \in Line /\ l.kind # "record"
    BY ReaderAssumption DEF Line
  <2>2. sequence' = sequence /\ position' = position
    BY <1>3 DEF Damage
  <2>3. \A u \in Trace : sequence'[u] >= sequence[u]
    BY <1>1, <2>2
  <2>4. Spoils(k, l)
    BY <1>1, <1>3, <2>1, <2>2, <2>3 DEF Damage, Spoils
  <2> QED
    BY <2>1, <2>4
<1> QED
  BY <1>2, <1>3 DEF SpoilStep

LEMMA RecordLine ==
  ASSUME NEW l \in Line, l.kind = "record"
  PROVE  l \in Event
  BY DEF Line, Event

LEMMA AppendToTypes ==
  ASSUME TypeOK, NEW k \in Index, NEW l \in Line, AppendTo(k, l)
  PROVE  line' \in [Index -> Seq(Line)] /\ linked' \subseteq used' /\ used' \subseteq Index
<1>1. PICK n \in Nat : Longer(k, l, n)
  BY AppendedLine DEF AppendTo
<1> QED
  BY <1>1 DEF Longer, AppendTo, TypeOK

LEMMA ReadLineTypes ==
  ASSUME TypeOK, NEW k \in Index, offset \in Nat, NEW l \in Line, ReadLine(k, l)
  PROVE  todo' \subseteq Index /\ offset' \in Nat \cup {-1} /\ found' \in Seq(Event)
         /\ malformed' \in Nat
<1>1. malformed' \in Nat
  BY ReaderAssumption DEF ReadLine, TypeOK
<1>2. todo' \subseteq Index /\ offset' \in Nat \cup {-1}
  BY DEF ReadLine, TypeOK, NextFile
<1>3. found' \in Seq(Event)
  BY RecordLine DEF ReadLine, TypeOK
<1> QED
  BY <1>1, <1>2, <1>3

(* The line the scanner is at. *)
LEMMA ScannedLine ==
  ASSUME TypeOK, NEW k \in Index, Scan(k)
  PROVE  /\ offset \in Nat /\ offset + 1 \in DOMAIN line[k] /\ line[k][offset + 1] \in Line
         /\ ReadLine(k, line[k][offset + 1])
<1>1. line[k] \in Seq(Line) /\ Len(line[k]) \in Nat /\ DOMAIN line[k] = 1 .. Len(line[k])
  BY DEF TypeOK
<1>2. offset \in 0 .. Len(line[k]) - 1
  BY DEF Scan
<1> QED
  BY <1>1, <1>2 DEF Scan

(* A step keeps the types, the bound on the count of malformed lines apart. *)
LEMMA TypeStep ==
  ASSUME TypeOK, [Next]_vars, malformed' \in Nat => malformed' <= MaxDamage
  PROVE  TypeOK'
<1> USE DEF Readable, NextFile, diskVars, clockVars, readVars
<1>1. ASSUME NEW k \in Index, NEW t \in Trace, Record(t, k) PROVE TypeOK'
  <2> DEFINE e == [kind |-> "record", trace |-> t, sequence |-> sequence[t] + 1,
                   timestamp |-> wall, elapsed |-> monotonic]
  <2>1. e \in Line /\ AppendTo(k, e)
    BY <1>1, RecordedLine DEF Record, Line
  <2>2. line' \in [Index -> Seq(Line)] /\ linked' \subseteq used' /\ used' \subseteq Index
    BY <2>1, AppendToTypes
  <2>3. sequence' \in [Trace -> 0 .. MaxSequence]
    BY <1>1, ReaderAssumption DEF Record, TypeOK
  <2>4. position' \in [Trace -> Index]
    BY <1>1 DEF Record, TypeOK
  <2> QED
    BY <1>1, <2>2, <2>3, <2>4 DEF Record, TypeOK
<1>2. CASE SpoilStep
  <2>1. PICK k \in Index, l \in Line : Spoils(k, l)
    BY <1>2, SpoiltLine
  <2>2. line' \in [Index -> Seq(Line)] /\ linked' \subseteq used' /\ used' \subseteq Index
    BY <2>1, AppendToTypes DEF Spoils
  <2>3. damage' \in 0 .. MaxDamage
    BY <2>1, ReaderAssumption DEF Spoils, TypeOK
  <2> QED
    BY <2>1, <2>2, <2>3 DEF Spoils, TypeOK
<1>3. ASSUME NEW k \in Index, Expire(k) PROVE TypeOK'
  BY <1>3 DEF Expire, TypeOK
<1>4. ASSUME NEW k \in Index, Forbid(k) PROVE TypeOK'
  BY <1>4, ReaderAssumption DEF Forbid, TypeOK
<1>5. CASE Tick
  BY <1>5, ReaderAssumption DEF Tick, TypeOK
<1>6. CASE SetBack
  BY <1>6, ReaderAssumption DEF SetBack, TypeOK
<1>7. CASE List
  <2>1. listed' \in [Index -> Seq(Line)]
    BY <1>7 DEF List, TypeOK
  <2> QED
    BY <1>7, <2>1 DEF List, TypeOK
<1>8. CASE ListFails
  BY <1>8, ReaderAssumption DEF ListFails, TypeOK
<1>9. ASSUME NEW k \in Index, Open(k) PROVE TypeOK'
  BY <1>9 DEF Open, TypeOK
<1>10. ASSUME NEW k \in Index, OpenFails(k) PROVE TypeOK'
  BY <1>10 DEF OpenFails, TypeOK
<1>11. ASSUME NEW k \in Index, Scan(k) PROVE TypeOK'
  <2>1. todo' \subseteq Index /\ offset' \in Nat \cup {-1} /\ found' \in Seq(Event)
        /\ malformed' \in 0 .. MaxDamage
    BY <1>11, ScannedLine, ReadLineTypes, ReaderAssumption
  <2> QED
    BY <1>11, <2>1 DEF Scan, TypeOK
<1>12. ASSUME NEW k \in Index, ReadFails(k) PROVE TypeOK'
  BY <1>12, ReaderAssumption DEF ReadFails, TypeOK
<1>13. ASSUME NEW k \in Index, EndOfFile(k) PROVE TypeOK'
  BY <1>13 DEF EndOfFile, TypeOK
<1>14. CASE Show
  BY <1>14 DEF Show, TypeOK
<1>15. CASE UNCHANGED vars
  BY <1>15 DEF vars, TypeOK
<1> QED
  BY <1>1, <1>2, <1>3, <1>4, <1>5, <1>6, <1>7, <1>8, <1>9, <1>10, <1>11, <1>12, <1>13, <1>14,
     <1>15 DEF SpoilStep, Next, Recorders, Command

-----------------------------------------------------------------------------
(* What the recorders write.                                               *)

(* A step that appends no record keeps the order of the records.           *)
LEMMA LogKept ==
  ASSUME LogInv,
         \A k \in Index : \A i \in Nat : IsRecord(k, i)' =>
            IsRecord(k, i) /\ line'[k][i] = line[k][i] /\ Reached(line[k][i])',
         stepped => stepped'
  PROVE  LogInv'
<1>1. SUFFICES ASSUME NEW k \in Index, NEW i \in Nat, IsRecord(k, i)'
               PROVE  /\ Reached(line[k][i])'
                      /\ \A m \in Index : \A j \in Nat : IsRecord(m, j)' =>
                            /\ InOrder(line[k][i], line[m][j])'
                            /\ line'[k][i].trace = line'[m][j].trace
                                  /\ line'[k][i].sequence = line'[m][j].sequence =>
                                    k = m /\ i = j
  BY DEF LogInv
<1>2. PICK e : e = line[k][i] /\ e = line'[k][i]
  BY <1>1
<1>3. Reached(line[k][i])'
  BY <1>1, <1>2
<1>4. ASSUME NEW m \in Index, NEW j \in Nat, IsRecord(m, j)'
      PROVE  /\ InOrder(line[k][i], line[m][j])'
             /\ line'[k][i].trace = line'[m][j].trace
                   /\ line'[k][i].sequence = line'[m][j].sequence => k = m /\ i = j
  <2>1. PICK f : f = line[m][j] /\ f = line'[m][j]
    BY <1>4
  <2>2. InOrder(e, f) /\ (e.trace = f.trace /\ e.sequence = f.sequence => k = m /\ i = j)
    BY <1>1, <1>2, <1>4, <2>1 DEF LogInv
  <2> QED
    BY <1>2, <2>1, <2>2 DEF InOrder
<1> QED
  BY <1>3, <1>4

LEMMA RecordTypes ==
  ASSUME TypeOK, NEW k \in Index, NEW i \in Nat, IsRecord(k, i)
  PROVE  line[k][i] \in Event
  BY RecordLine DEF IsRecord, TypeOK

LEMMA RecordKeepsLog ==
  ASSUME TypeOK, LogInv, NEW t \in Trace, NEW k \in Index, Record(t, k)
  PROVE  LogInv'
<1>1. PICK e \in Event :
        /\ e = [kind |-> "record", trace |-> t, sequence |-> sequence[t] + 1,
                timestamp |-> wall, elapsed |-> monotonic]
        /\ e.trace = t /\ e.sequence = sequence[t] + 1
        /\ e.timestamp = wall /\ e.elapsed = monotonic
  BY RecordedLine DEF Record
<1>2. /\ UNCHANGED <<stepped, wall, monotonic>>
      /\ sequence' = [sequence EXCEPT ![t] = @ + 1] /\ sequence \in [Trace -> Int]
  BY ReaderAssumption DEF Record, clockVars, TypeOK
<1>3. PICK n \in Nat : Longer(k, e, n)
  <2>1. e \in Line /\ line' = [line EXCEPT ![k] = Append(@, e)]
    BY <1>1 DEF Record, AppendTo, Line
  <2> QED
    BY <2>1, AppendedLine
<1>4. \A f \in Event : Reached(f) => Reached(f)'
  <2>1. SUFFICES ASSUME NEW f \in Event, Reached(f) PROVE Reached(f)'
    OBVIOUS
  <2>2. f.trace \in Trace /\ f.sequence \in Int
    BY ReaderAssumption DEF Event
  <2>3. sequence'[f.trace] >= sequence[f.trace] /\ sequence[f.trace] \in Int
        /\ sequence'[f.trace] \in Int
    BY <1>2, <2>2
  <2>4. f.sequence <= sequence'[f.trace]
    BY <2>1, <2>2, <2>3 DEF Reached
  <2> QED
    BY <1>2, <2>1, <2>4 DEF Reached
<1>5. Reached(e)'
  BY <1>1, <1>2, ReaderAssumption DEF Reached, TypeOK
<1>6. ASSUME NEW m \in Index, NEW j \in Nat, IsRecord(m, j)'
      PROVE  \/ m = k /\ j = n /\ line'[m][j] = e
             \/ IsRecord(m, j) /\ line'[m][j] = line[m][j] /\ line[m][j] \in Event
  BY <1>3, <1>6, RecordTypes DEF IsRecord, Longer
<1>7. ASSUME NEW f \in Event, Reached(f)
      PROVE  /\ InOrder(f, e) /\ InOrder(e, f) /\ InOrder(f, e)' /\ InOrder(e, f)'
             /\ ~(f.trace = e.trace /\ f.sequence = e.sequence)
  <2>1. /\ f.sequence \in Int /\ f.elapsed \in Int /\ f.timestamp \in Int
        /\ sequence[t] \in Int /\ wall \in Int /\ monotonic \in Int
    BY <1>2, ReaderAssumption DEF Event, TypeOK
  <2>2. f.trace = t => f.sequence < e.sequence
    BY <1>1, <1>7, <2>1 DEF Reached
  <2>3. f.elapsed <= e.elapsed /\ (~stepped => f.timestamp <= e.timestamp)
    BY <1>1, <1>7 DEF Reached
  <2>4. ~(f.trace = e.trace /\ e.sequence < f.sequence)
    BY <1>1, <2>1, <2>2
  <2>5. ~(f.trace = e.trace /\ e.sequence = f.sequence)
    BY <1>1, <2>1, <2>2
  <2>6. InOrder(f, e) /\ InOrder(e, f)
    BY <2>3, <2>4 DEF InOrder
  <2>7. InOrder(f, e)' /\ InOrder(e, f)'
    BY <1>2, <2>6 DEF InOrder
  <2> QED
    BY <2>5, <2>6, <2>7
<1>8. ASSUME NEW m \in Index, NEW j \in Nat, IsRecord(m, j)' PROVE Reached(line[m][j])'
  <2>1. PICK f : f = line'[m][j]
    OBVIOUS
  <2>2. Reached(f)'
    BY <1>4, <1>5, <1>6, <1>8, <2>1 DEF LogInv
  <2> QED
    BY <2>1, <2>2
<1>9. ASSUME NEW m \in Index, NEW j \in Nat, IsRecord(m, j)',
             NEW q \in Index, NEW p \in Nat, IsRecord(q, p)'
      PROVE  /\ InOrder(line[m][j], line[q][p])'
             /\ line'[m][j].trace = line'[q][p].trace
                   /\ line'[m][j].sequence = line'[q][p].sequence => m = q /\ j = p
  <2>1. PICK f, g : f = line'[m][j] /\ g = line'[q][p]
    OBVIOUS
  <2>2. InOrder(f, g)' /\ (f.trace = g.trace /\ f.sequence = g.sequence => m = q /\ j = p)
    <3>1. CASE m = k /\ j = n /\ f = e
      <4>1. CASE q = k /\ p = n /\ g = e
        <5>1. e.sequence \in Int
          BY <1>1, ReaderAssumption DEF Event
        <5> QED
          BY <3>1, <4>1, <5>1 DEF InOrder
      <4>2. CASE IsRecord(q, p) /\ g = line[q][p] /\ g \in Event
        BY <1>7, <3>1, <4>2 DEF LogInv
      <4> QED
        BY <1>6, <1>9, <2>1, <4>1, <4>2
    <3>2. CASE IsRecord(m, j) /\ f = line[m][j] /\ f \in Event
      <4>1. CASE q = k /\ p = n /\ g = e
        BY <1>7, <3>2, <4>1 DEF LogInv
      <4>2. CASE IsRecord(q, p) /\ g = line[q][p] /\ g \in Event
        <5>1. InOrder(f, g) /\ (f.trace = g.trace /\ f.sequence = g.sequence => m = q /\ j = p)
          BY <3>2, <4>2 DEF LogInv
        <5> QED
          BY <1>2, <5>1 DEF InOrder
      <4> QED
        BY <1>6, <1>9, <2>1, <4>1, <4>2
    <3> QED
      BY <1>6, <1>9, <2>1, <3>1, <3>2
  <2> QED
    BY <2>1, <2>2 DEF InOrder
<1> QED
  BY <1>8, <1>9 DEF LogInv

(* The other steps append at most a line that is no record. *)
LEMMA SpoilKeepsLog ==
  ASSUME TypeOK, LogInv, NEW k \in Index, NEW l \in Line, Spoils(k, l)
  PROVE  LogInv'
<1>1. PICK n \in Nat : Longer(k, l, n)
  BY AppendedLine DEF Spoils, AppendTo
<1>2. UNCHANGED <<stepped, wall, monotonic>>
      /\ \A t \in Trace : sequence'[t] >= sequence[t] /\ sequence[t] \in Int /\ sequence'[t] \in Int
  BY ReaderAssumption DEF Spoils, clockVars, TypeOK
<1>3. l.kind # "record"
  BY DEF Spoils
<1>4. ASSUME NEW m \in Index, NEW i \in Nat, IsRecord(m, i)'
      PROVE  IsRecord(m, i) /\ line'[m][i] = line[m][i] /\ Reached(line[m][i])'
  <2>1. IsRecord(m, i) /\ line'[m][i] = line[m][i]
    BY <1>1, <1>3, <1>4 DEF IsRecord, Longer
  <2>2. PICK f \in Event : f = line[m][i] /\ Reached(f)
    BY <2>1, RecordTypes DEF LogInv
  <2>3. f.trace \in Trace /\ f.sequence \in Int
    BY ReaderAssumption DEF Event
  <2>4. PICK a \in Int, b \in Int : a = sequence[f.trace] /\ b = sequence'[f.trace] /\ a <= b
    BY <1>2, <2>3
  <2>5. f.sequence <= sequence'[f.trace]
    BY <2>2, <2>3, <2>4 DEF Reached
  <2>6. Reached(f)'
    BY <1>2, <2>2, <2>5 DEF Reached
  <2> QED
    BY <2>1, <2>2, <2>6
<1> QED
  BY <1>2, <1>4, LogKept

LEMMA SameLinesKeepLog ==
  ASSUME TypeOK, LogInv, UNCHANGED <<line, sequence>>, stepped => stepped',
         monotonic' \in Int, monotonic' >= monotonic,
         wall' \in Int, ~stepped' => wall' >= wall
  PROVE  LogInv'
<1>1. ASSUME NEW m \in Index, NEW i \in Nat, IsRecord(m, i)'
      PROVE  IsRecord(m, i) /\ line'[m][i] = line[m][i] /\ Reached(line[m][i])'
  <2>1. IsRecord(m, i) /\ line'[m][i] = line[m][i]
    BY <1>1 DEF IsRecord
  <2>2. PICK f \in Event : f = line[m][i] /\ f = line'[m][i]
    BY <2>1, RecordTypes
  <2>3. Reached(f)
    BY <2>1, <2>2 DEF LogInv
  <2>4. f.elapsed \in Int /\ f.timestamp \in Int /\ wall \in Int /\ monotonic \in Int
    BY ReaderAssumption DEF Event, TypeOK
  <2>5. Reached(f)'
    BY <2>3, <2>4 DEF Reached
  <2> QED
    BY <2>1, <2>2, <2>5
<1> QED
  BY <1>1, LogKept

-----------------------------------------------------------------------------
(* Where the command is.                                                   *)

(* Nothing that was written changes. *)
LinesStay ==
    \A k \in Index : \A i \in DOMAIN line[k] :
        i \in DOMAIN line'[k] /\ line'[k][i] = line[k][i]

LEMMA StepKeepsLines ==
  ASSUME TypeOK, [Next]_vars
  PROVE  LinesStay
<1>1. ASSUME NEW k \in Index, NEW l \in Line, AppendTo(k, l) PROVE LinesStay
  <2>1. PICK n \in Nat : Longer(k, l, n)
    BY <1>1, AppendedLine DEF AppendTo
  <2>2. \A j \in Index : DOMAIN line[j] \subseteq Nat
    BY DEF TypeOK
  <2> QED
    BY <2>1, <2>2 DEF Longer, LinesStay
<1>2. ASSUME NEW k \in Index, NEW t \in Trace, Record(t, k) PROVE LinesStay
  BY <1>1, <1>2, RecordedLine DEF Record, Line
<1>3. CASE SpoilStep
  BY <1>1, <1>3, SpoiltLine DEF Spoils
<1>4. CASE line' = line
  BY <1>4 DEF LinesStay
<1> QED
  BY <1>2, <1>3, <1>4 DEF SpoilStep, Next, Recorders, Command, Expire, Forbid, Tick, SetBack,
     List, ListFails, Open, OpenFails, Scan, ReadFails, EndOfFile, Show, diskVars, vars

(* One file has its turn. *)
LEMMA OneTurn ==
  ASSUME NEW k \in Index, Turn(k)
  PROVE  /\ \A j \in Index : Turn(j) => j = k
         /\ \A i \in Nat : Behind(k, i) <=> i <= offset
         /\ \A j \in Index \ {k} : \A i \in Nat : Behind(j, i) <=> j \notin todo
<1>1. \A j \in Index : Turn(j) => j = k
  BY IndexFacts DEF Turn, Before
<1> QED
  BY <1>1 DEF Behind, Turn

(* A file that the command leaves is behind it. *)
LEMMA Leaving ==
  ASSUME TypeOK, NEW k \in Index, Turn(k), NextFile(k)
  PROVE  \A j \in Index : \A i \in Nat : Behind(j, i)' <=> Behind(j, i) \/ j = k
<1>1. ASSUME NEW j \in Index, NEW i \in Nat PROVE Behind(j, i)' <=> Behind(j, i) \/ j = k
  <2>1. Behind(j, i)' <=> j \notin todo'
    BY DEF NextFile, Behind
  <2>2. j \notin todo' <=> j \notin todo \/ j = k
    BY DEF NextFile
  <2>3. j # k => (Behind(j, i) <=> j \notin todo)
    BY OneTurn
  <2> QED
    BY <2>1, <2>2, <2>3
<1> QED
  BY <1>1

(* A turn of the scanner puts one line behind it. *)
LEMMA Advancing ==
  ASSUME NEW k \in Index, Turn(k), offset \in Nat, offset' = offset + 1, UNCHANGED <<pc, todo>>
  PROVE  \A j \in Index : \A i \in Nat : Behind(j, i)' <=> Behind(j, i) \/ (j = k /\ i = offset + 1)
<1>1. ASSUME NEW j \in Index, NEW i \in Nat
      PROVE  Behind(j, i)' <=> Behind(j, i) \/ (j = k /\ i = offset + 1)
  <2>1. Behind(j, i)' <=> (j \in todo => Turn(j) /\ i <= offset + 1)
    BY DEF Behind, Turn
  <2>2. CASE j = k
    <3>1. Behind(j, i)' <=> i <= offset + 1
      BY <2>1, <2>2 DEF Turn
    <3>2. Behind(j, i) <=> i <= offset
      BY <2>2, OneTurn
    <3> QED
      BY <2>2, <3>1, <3>2
  <2>3. CASE j # k
    BY <2>1, <2>3, OneTurn DEF Turn
  <2> QED
    BY <2>2, <2>3
<1> QED
  BY <1>1

(* A step that brings nothing to the command, and one that brings no event. *)
Heard == \A k \in Index : \A i \in Nat : Behind(k, i) => Behind(k, i)'
NoNews ==
    \A k \in Index \ skipped' : \A i \in Reachable(k)' : Behind(k, i)' =>
        /\ k \notin skipped /\ i \in Reachable(k)
        /\ listed'[k][i] = listed[k][i] /\ Behind(k, i)

NoEvent ==
    \A k \in Index \ skipped' : \A i \in Reachable(k)' :
        Behind(k, i)' /\ IsWanted(listed'[k][i]) =>
            /\ k \notin skipped /\ i \in Reachable(k)
            /\ listed'[k][i] = listed[k][i] /\ Behind(k, i)

LEMMA ReachableLines ==
  ASSUME TypeOK, NEW k \in Index
  PROVE  Reachable(k) \subseteq DOMAIN listed[k] /\ DOMAIN listed[k] \subseteq Nat
  BY DEF Reachable, TypeOK

LEMMA NoNewsOfTheSame ==
  ASSUME TypeOK, listed' = listed, skipped \subseteq skipped',
         \A k \in Index \ skipped' : \A i \in Reachable(k) : Behind(k, i)' => Behind(k, i)
  PROVE  NoNews
<1>1. \A k \in Index : Reachable(k)' = Reachable(k)
  BY DEF Reachable
<1> QED
  BY <1>1 DEF NoNews

LEMMA KnownKept ==
  ASSUME LinesStay, Heard, NEW e, Known(e)
  PROVE  Known(e)'
<1>1. PICK k \in Index : \E i \in Nat : Source(e, k, i)
  BY DEF Known
<1>2. PICK i \in Nat : Source(e, k, i)
  BY <1>1
<1>3. Source(e, k, i)'
  BY <1>2 DEF Source, IsRecord, LinesStay, Heard
<1> QED
  BY <1>3 DEF Known, IsWanted

LEMMA FoundKept ==
  ASSUME TypeOK, FoundInv, LinesStay, Heard, NoEvent, found' = found
  PROVE  FoundInv'
<1>1. ASSUME NEW n \in DOMAIN found' PROVE Known(found[n])'
  <2>1. PICK e : e = found[n] /\ e = found'[n] /\ Known(e)
    BY <1>1 DEF FoundInv
  <2> QED
    BY <2>1, KnownKept
<1>2. ASSUME NEW k \in Index \ skipped', NEW i \in Reachable(k)',
             IsWanted(listed'[k][i]), Behind(k, i)'
      PROVE  \E n \in DOMAIN found' : found'[n] = listed'[k][i]
  BY <1>2 DEF FoundInv, NoEvent
<1> QED
  BY <1>1, <1>2 DEF FoundInv, IsWanted

(* The scanner comes to an event of the trace. *)
LEMMA FoundOne ==
  ASSUME TypeOK, LogInv, ListedInv, FoundInv, LinesStay, Heard, line' = line,
         UNCHANGED <<listed, skipped>>,
         NEW k \in Index, NEW p \in Nat, IsRecord(k, p), line[k][p].trace = Wanted,
         ~Behind(k, p), found' = Append(found, line[k][p]),
         \A j \in Index : \A i \in Nat : Behind(j, i)' <=> Behind(j, i) \/ (j = k /\ i = p)
  PROVE  FoundInv'
<1>1. PICK e \in Event : e = line[k][p] /\ e = line'[k][p] /\ IsWanted(e)
  BY RecordTypes DEF IsRecord, IsWanted
<1>2. found \in Seq(Event) /\ found' = Append(found, e)
  BY <1>1 DEF TypeOK
<1>3. PICK z \in Nat : z = Len(found) + 1
  BY <1>2
<1>4. DOMAIN found' = DOMAIN found \cup {z} /\ z \notin DOMAIN found /\ found'[z] = e
      /\ \A n \in DOMAIN found : found'[n] = found[n]
  BY <1>2, <1>3, AppendProperties
<1>5. Known(e)'
  <2>1. Source(e, k, p)'
    BY <1>1 DEF Source, IsRecord
  <2> QED
    BY <1>1, <2>1 DEF Known, IsWanted
<1>6. ASSUME NEW n \in DOMAIN found' PROVE Known(found[n])'
  <2>1. CASE n \in DOMAIN found
    <3>1. PICK d : d = found[n] /\ d = found'[n] /\ Known(d)
      BY <1>4, <2>1 DEF FoundInv
    <3> QED
      BY <3>1, KnownKept
  <2>2. CASE n = z
    BY <1>4, <1>5, <2>2
  <2> QED
    BY <1>4, <1>6, <2>1, <2>2
<1>7. ASSUME NEW n \in DOMAIN found PROVE found[n].sequence # e.sequence
  <2>1. PICK j \in Index : \E i \in Nat : Source(found[n], j, i)
    BY DEF FoundInv, Known
  <2>2. PICK i \in Nat : Source(found[n], j, i)
    BY <2>1
  <2>3. ~(i = p /\ j = k)
    BY <2>2 DEF Source
  <2>4. IsRecord(j, i) /\ line[j][i] = found[n] /\ found[n].trace = Wanted
    BY <2>2 DEF Source, FoundInv, Known, IsWanted
  <2>5. e.trace = Wanted
    BY <1>1 DEF IsWanted
  <2> QED
    BY <1>1, <2>3, <2>4, <2>5 DEF LogInv
<1>8. \A m, n \in DOMAIN found' : found'[m].sequence = found'[n].sequence => m = n
  BY <1>4, <1>7 DEF FoundInv
<1>9. ASSUME NEW j \in Index \ skipped', NEW i \in Reachable(j)',
              IsWanted(listed'[j][i]), Behind(j, i)'
       PROVE  \E n \in DOMAIN found' : found'[n] = listed'[j][i]
  <2>1. j \in Index \ skipped /\ i \in Reachable(j) /\ listed'[j][i] = listed[j][i]
        /\ i \in DOMAIN listed[j] /\ i \in Nat
    BY <1>9, ReachableLines DEF Reachable
  <2>2. CASE Behind(j, i)
    <3>1. PICK n \in DOMAIN found : found[n] = listed[j][i]
      BY <1>9, <2>1, <2>2 DEF FoundInv
    <3> QED
      BY <1>4, <2>1, <3>1
  <2>3. CASE j = k /\ i = p
    <3>1. listed[j][i] = e
      BY <1>1, <2>1, <2>3 DEF ListedInv
    <3> QED
      BY <1>4, <2>1, <3>1
  <2> QED
    BY <1>9, <2>1, <2>2, <2>3
<1> QED
  BY <1>6, <1>8, <1>9 DEF FoundInv, IsWanted

-----------------------------------------------------------------------------
(* What is counted as malformed.                                           *)

LEMMA InReported ==
  ASSUME NEW x
  PROVE  x \in Reported <=>
            \E k \in Index \ skipped : \E i \in Reachable(k) :
                /\ x = <<k, i>> /\ Behind(k, i)
                /\ listed[k][i].trace = Wanted /\ listed[k][i].kind # "record"
<1>1. x \in Due <=> \E k \in Index \ skipped : \E i \in Reachable(k) :
                       x = <<k, i>> /\ listed[k][i].trace = Wanted
  BY DEF Due
<1> QED
  BY <1>1 DEF Reported, Lost

LEMMA InReportedNext ==
  ASSUME NEW x
  PROVE  x \in Reported' <=>
            \E k \in Index \ skipped' : \E i \in Reachable(k)' :
                /\ x = <<k, i>> /\ Behind(k, i)'
                /\ listed'[k][i].trace = Wanted /\ listed'[k][i].kind # "record"
<1>1. x \in Due' <=> \E k \in Index \ skipped' : \E i \in Reachable(k)' :
                       x = <<k, i>> /\ listed'[k][i].trace = Wanted
  BY DEF Due
<1> QED
  BY <1>1 DEF Reported, Lost

LEMMA ReportedIsCounted ==
  ASSUME TypeOK, ListedInv
  PROVE  Reported \subseteq Counted
<1>1. SUFFICES ASSUME NEW x \in Reported PROVE x \in Counted
  OBVIOUS
<1>2. PICK k \in Index \ skipped : \E i \in Reachable(k) :
                /\ x = <<k, i>> /\ Behind(k, i) /\ listed[k][i].kind # "record"
  BY InReported
<1>3. PICK i \in Reachable(k) : x = <<k, i>> /\ Behind(k, i) /\ listed[k][i].kind # "record"
  BY <1>2
<1>4. i \in Nat /\ i \in DOMAIN line[k] /\ line[k][i].kind # "record"
  BY <1>3, ReachableLines DEF ListedInv
<1> QED
  BY <1>3, <1>4 DEF Counted, Damaged

LEMMA NothingReported ==
  ASSUME NoNews
  PROVE  Reported' \subseteq Reported
<1>1. SUFFICES ASSUME NEW x \in Reported' PROVE x \in Reported
  OBVIOUS
<1>2. PICK k \in Index \ skipped' : \E i \in Reachable(k)' :
                /\ x = <<k, i>> /\ Behind(k, i)'
                /\ listed'[k][i].trace = Wanted /\ listed'[k][i].kind # "record"
  BY InReportedNext
<1>3. PICK i \in Reachable(k)' :
                /\ x = <<k, i>> /\ Behind(k, i)'
                /\ listed'[k][i].trace = Wanted /\ listed'[k][i].kind # "record"
  BY <1>2
<1> QED
  BY <1>3, InReported DEF NoNews

LEMMA DamageStays ==
  ASSUME TypeOK, LinesStay
  PROVE  Damaged \subseteq Damaged'
<1>1. \A x \in Damaged : x[1] \in Index
  BY DEF Damaged
<1> QED
  BY <1>1 DEF Damaged, LinesStay

LEMMA CountedStays ==
  ASSUME TypeOK, LinesStay, Heard
  PROVE  Counted \subseteq Counted'
<1>1. SUFFICES ASSUME NEW x \in Counted PROVE x \in Counted'
  OBVIOUS
<1>2. PICK k \in Index, i \in Nat : x = <<k, i>>
  BY DEF Counted, Damaged
<1>3. x \in Damaged' /\ Behind(k, i)
  BY <1>2, DamageStays DEF Counted
<1>4. Behind(k, i)'
  BY <1>2, <1>3 DEF Heard
<1> QED
  BY <1>2, <1>3, <1>4 DEF Counted

LEMMA CountFacts ==
  ASSUME TypeOK, ListedInv, CountInv
  PROVE  /\ IsFiniteSet(Counted) /\ Cardinality(Counted) \in Nat
         /\ IsFiniteSet(Reported) /\ Cardinality(Reported) \in Nat
         /\ malformed \in Nat
         /\ malformed <= Cardinality(Counted) /\ Cardinality(Reported) <= malformed
<1>1. IsFiniteSet(Counted)
  BY FS_Subset DEF Counted, CountInv, DamageBounded
<1>2. IsFiniteSet(Reported)
  BY <1>1, ReportedIsCounted, FS_Subset
<1> QED
  BY <1>1, <1>2, FS_CardinalityType, ReaderAssumption DEF CountInv, TypeOK

LEMMA CountedNext ==
  ASSUME TypeOK, LinesStay, Heard, DamageBounded'
  PROVE  /\ IsFiniteSet(Counted') /\ Cardinality(Counted') \in Nat
         /\ \A S : S \subseteq Counted' => Cardinality(S) <= Cardinality(Counted')
<1>1. IsFiniteSet(Damaged')
  BY DEF DamageBounded
<1>2. IsFiniteSet(Counted')
  BY <1>1, FS_Subset DEF Counted
<1> QED
  BY <1>2, FS_Subset, FS_CardinalityType

(* A step after which no more is counted or reported. *)
LEMMA CountKept ==
  ASSUME TypeOK, ListedInv, CountInv, LinesStay, Heard, Reported' \subseteq Reported,
         malformed' = malformed, DamageBounded'
  PROVE  CountInv'
<1>1. Counted \subseteq Counted'
  BY CountedStays
<1>2. Cardinality(Counted) <= Cardinality(Counted') /\ Cardinality(Counted') \in Nat
  BY <1>1, CountedNext
<1>3. Cardinality(Reported') <= Cardinality(Reported) /\ Cardinality(Reported') \in Nat
  BY <1>1, CountFacts, FS_Subset, FS_CardinalityType
<1>4. malformed' <= Cardinality(Counted')
  BY <1>2, CountFacts
<1>5. Cardinality(Reported') <= malformed'
  BY <1>3, CountFacts
<1> QED
  BY <1>4, <1>5 DEF CountInv

(* A step at which the scanner comes to a damaged line. *)
LEMMA CountOne ==
  ASSUME TypeOK, ListedInv, CountInv, LinesStay, Heard, DamageBounded',
         NEW k \in Index, NEW p \in Nat, p \in DOMAIN line[k], line[k][p].kind # "record",
         ~Behind(k, p), Behind(k, p)', Reported' \subseteq Reported \cup {<<k, p>>},
         malformed' = malformed + 1
  PROVE  CountInv'
<1>1. <<k, p>> \notin Counted /\ Counted \cup {<<k, p>>} \subseteq Counted'
  <2>1. <<k, p>> \in Damaged'
    BY DamageStays DEF Damaged
  <2> QED
    BY <2>1, CountedStays DEF Counted
<1>2. Cardinality(Counted \cup {<<k, p>>}) = Cardinality(Counted) + 1
  BY <1>1, CountFacts, FS_AddElement
<1>3. Cardinality(Counted) + 1 <= Cardinality(Counted') /\ Cardinality(Counted') \in Nat
  BY <1>1, <1>2, CountedNext
<1>4. /\ IsFiniteSet(Reported \cup {<<k, p>>})
      /\ Cardinality(Reported \cup {<<k, p>>}) <= Cardinality(Reported) + 1
      /\ Cardinality(Reported \cup {<<k, p>>}) \in Nat
  <2>1. IsFiniteSet(Reported) /\ Cardinality(Reported) \in Nat
    BY CountFacts
  <2>2. /\ IsFiniteSet(Reported \cup {<<k, p>>})
        /\ Cardinality(Reported \cup {<<k, p>>}) =
              IF <<k, p>> \in Reported THEN Cardinality(Reported) ELSE Cardinality(Reported) + 1
    BY <2>1, FS_AddElement
  <2> QED
    BY <2>1, <2>2
<1>5. Cardinality(Reported') <= Cardinality(Reported) + 1 /\ Cardinality(Reported') \in Nat
  BY <1>4, CountFacts, FS_Subset, FS_CardinalityType
<1>6. malformed' <= Cardinality(Counted')
  BY <1>3, CountFacts
<1>7. Cardinality(Reported') <= malformed'
  BY <1>5, CountFacts
<1> QED
  BY <1>6, <1>7 DEF CountInv

(* Damage is bounded whatever the step. *)
LEMMA DamageStep ==
  ASSUME TypeOK, DamageBounded, [Next]_vars
  PROVE  DamageBounded'
<1> USE DEF DamageBounded
<1>0. damage \in Int /\ Cardinality(Damaged) \in Nat
  BY FS_CardinalityType DEF TypeOK
<1>1. ASSUME NEW k \in Index, NEW t \in Trace, Record(t, k) PROVE DamageBounded'
  <2> DEFINE e == [kind |-> "record", trace |-> t, sequence |-> sequence[t] + 1,
                   timestamp |-> wall, elapsed |-> monotonic]
  <2>1. e \in Line /\ line' = [line EXCEPT ![k] = Append(@, e)] /\ e.kind = "record"
    BY <1>1, RecordedLine DEF Record, AppendTo, Line
  <2> HIDE DEF e
  <2>2. PICK n \in Nat : Longer(k, e, n)
    BY <2>1, AppendedLine
  <2>3. ASSUME NEW m \in Index, NEW i \in Nat
        PROVE  i \in DOMAIN line'[m] /\ line'[m][i].kind # "record" =>
                  i \in DOMAIN line[m] /\ line[m][i].kind # "record"
    BY <2>1, <2>2 DEF Longer
  <2>4. Damaged' \subseteq Damaged
    BY <2>3 DEF Damaged
  <2>5. IsFiniteSet(Damaged') /\ Cardinality(Damaged') <= Cardinality(Damaged)
    BY <2>4, FS_Subset
  <2>6. Cardinality(Damaged') \in Nat /\ damage' = damage
    BY <1>1, <2>5, FS_CardinalityType DEF Record
  <2> QED
    BY <1>0, <2>5, <2>6
<1>2. ASSUME NEW k \in Index, NEW l \in Line, Spoils(k, l) PROVE DamageBounded'
  <2>1. PICK n \in Nat : Longer(k, l, n)
    BY <1>2, AppendedLine DEF Spoils, AppendTo
  <2>2. ASSUME NEW m \in Index, NEW i \in Nat
        PROVE  i \in DOMAIN line'[m] /\ line'[m][i].kind # "record" =>
                  \/ i \in DOMAIN line[m] /\ line[m][i].kind # "record"
                  \/ m = k /\ i = n
    BY <2>1 DEF Longer
  <2>3. Damaged' \subseteq Damaged \cup {<<k, n>>}
    BY <2>2 DEF Damaged
  <2>4. /\ IsFiniteSet(Damaged \cup {<<k, n>>})
        /\ Cardinality(Damaged \cup {<<k, n>>}) =
              IF <<k, n>> \in Damaged THEN Cardinality(Damaged) ELSE Cardinality(Damaged) + 1
    BY FS_AddElement
  <2>5. IsFiniteSet(Damaged')
        /\ Cardinality(Damaged') <= Cardinality(Damaged \cup {<<k, n>>})
    BY <2>3, <2>4, FS_Subset
  <2>6. Cardinality(Damaged') \in Nat /\ damage' = damage + 1
    BY <1>2, <2>5, FS_CardinalityType DEF Spoils
  <2>7. Cardinality(Damaged') <= Cardinality(Damaged) + 1
    BY <1>0, <2>4, <2>5, <2>6
  <2> QED
    BY <1>0, <2>5, <2>6, <2>7
<1>3. ASSUME line' = line, damage' \in {damage, damage + 1} PROVE DamageBounded'
  <2>1. Damaged' = Damaged
    BY <1>3 DEF Damaged
  <2> QED
    BY <1>0, <1>3, <2>1
<1>4. CASE \E k \in Index : Expire(k) \/ Forbid(k)
  BY <1>3, <1>4 DEF Expire, Forbid
<1>5. CASE Tick \/ SetBack \/ List \/ ListFails \/ Show \/ UNCHANGED vars
  BY <1>3, <1>5 DEF Tick, SetBack, List, ListFails, Show, diskVars, vars
<1>7. CASE SpoilStep
  BY <1>2, <1>7, SpoiltLine
<1>6. CASE \E k \in Index : Open(k) \/ OpenFails(k) \/ Scan(k) \/ ReadFails(k) \/ EndOfFile(k)
  BY <1>3, <1>6 DEF Open, OpenFails, Scan, ReadFails, EndOfFile, diskVars
<1> QED
  BY <1>1, <1>4, <1>5, <1>6, <1>7 DEF SpoilStep, Next, Recorders, Command

-----------------------------------------------------------------------------
(* The steps.                                                              *)

LEMMA LogStep ==
  ASSUME TypeOK, LogInv, [Next]_vars
  PROVE  LogInv'
<1> USE ReaderAssumption
<1>1. CASE \E k \in Index, t \in Trace : Record(t, k)
  BY <1>1, RecordKeepsLog
<1>2. CASE SpoilStep
  BY <1>2, SpoiltLine, SpoilKeepsLog
<1>3. monotonic \in Int /\ wall \in Int
  BY DEF TypeOK
<1>4. ASSUME UNCHANGED <<line, sequence, stepped, monotonic, wall>> PROVE LogInv'
  BY <1>3, <1>4, SameLinesKeepLog
<1>5. CASE Tick
  <2>1. UNCHANGED <<line, sequence, stepped>> /\ monotonic' = monotonic + 1
        /\ wall' \in {wall, wall + 1}
    BY <1>5 DEF Tick, diskVars
  <2> QED
    BY <1>3, <2>1, SameLinesKeepLog
<1>6. CASE SetBack
  <2>1. UNCHANGED <<line, sequence, monotonic>> /\ stepped' = TRUE /\ wall' = wall - 1
    BY <1>6 DEF SetBack, diskVars
  <2> QED
    BY <1>3, <2>1, SameLinesKeepLog
<1>7. CASE (\E k \in Index : Expire(k) \/ Forbid(k)) \/ UNCHANGED vars
  BY <1>4, <1>7 DEF Expire, Forbid, clockVars, diskVars, vars
<1>8. CASE List \/ ListFails \/ Show
  BY <1>4, <1>8 DEF List, ListFails, Show, clockVars, diskVars
<1>9. CASE \E k \in Index : Open(k) \/ OpenFails(k) \/ Scan(k) \/ ReadFails(k) \/ EndOfFile(k)
  BY <1>4, <1>9 DEF Open, OpenFails, Scan, ReadFails, EndOfFile, clockVars, diskVars
<1> QED
  BY <1>1, <1>2, <1>5, <1>6, <1>7, <1>8, <1>9 DEF SpoilStep, Next, Recorders, Command

LEMMA ListedStep ==
  ASSUME TypeOK, ListedInv, [Next]_vars
  PROVE  ListedInv'
<1>1. LinesStay
  BY StepKeepsLines
<1>2. CASE List
  <2>1. \A k \in Index : listed'[k] = IF k \in linked THEN line[k] ELSE <<>>
    BY <1>2 DEF List
  <2>2. line' = line
    BY <1>2 DEF List, diskVars
  <2>3. DOMAIN <<>> = {}
    OBVIOUS
  <2> QED
    BY <2>1, <2>2, <2>3 DEF ListedInv
<1>3. CASE listed' = listed
  BY <1>1, <1>3 DEF ListedInv, LinesStay
<1> QED
  BY <1>2, <1>3 DEF Next, Recorders, Command, Record, RecordLong, Damage, Expire, Forbid,
     Tick, SetBack, ListFails, Open, OpenFails, Scan, ReadFails, EndOfFile, Show, readVars, vars

LEMMA ControlStep ==
  ASSUME TypeOK, ControlInv, [Next]_vars
  PROVE  ControlInv'
<1>1. CASE UNCHANGED readVars
  BY <1>1 DEF ControlInv, readVars
<1>2. CASE List \/ ListFails \/ Show
  BY <1>2 DEF List, ListFails, Show, ControlInv
<1>3. ASSUME pc = "read", pc' = "read" PROVE ControlInv'
  BY <1>3 DEF ControlInv
<1>4. CASE \E k \in Index : Open(k) \/ OpenFails(k) \/ Scan(k) \/ ReadFails(k) \/ EndOfFile(k)
  BY <1>3, <1>4 DEF Open, OpenFails, Scan, ReadFails, EndOfFile, Turn
<1> QED
  BY <1>1, <1>2, <1>4 DEF Next, Recorders, Command, Record, RecordLong, Damage, Expire, Forbid,
     Tick, SetBack, vars, readVars

(* What the command has read and counted stays right, whatever is written  *)
(* meanwhile.                                                              *)
ReadInv == CountInv /\ FoundInv

LEMMA NothingRead ==
  ASSUME TypeOK, ListedInv, ReadInv, [Next]_vars, Heard, NoNews, UNCHANGED <<found, malformed>>
  PROVE  ReadInv'
<1>1. LinesStay /\ DamageBounded'
  BY StepKeepsLines, DamageStep DEF ReadInv, CountInv
<1>2. Reported' \subseteq Reported /\ NoEvent
  BY NothingReported DEF NoNews, NoEvent
<1> QED
  BY <1>1, <1>2, CountKept, FoundKept DEF ReadInv

LEMMA Writing ==
  ASSUME TypeOK, ListedInv, ReadInv, [Next]_vars, UNCHANGED readVars
  PROVE  ReadInv'
<1>1. UNCHANGED <<found, malformed, todo, offset, pc, listed, skipped>>
  BY DEF readVars
<1>2. \A k \in Index : \A i \in Nat : Behind(k, i)' <=> Behind(k, i)
  BY <1>1 DEF Behind, Turn
<1>3. \A k \in Index \ skipped' : \A i \in Reachable(k) : i \in Nat
  BY ReachableLines
<1>4. Heard /\ NoNews
  BY <1>1, <1>2, <1>3, NoNewsOfTheSame DEF Heard
<1> QED
  BY <1>1, <1>4, NothingRead

(* The command leaves a file: it has read all it was to read of it. *)
LEMMA FileLeft ==
  ASSUME TypeOK, ListedInv, ReadInv, [Next]_vars, NEW k \in Index, Turn(k), NextFile(k),
         UNCHANGED <<found, malformed, listed>>, skipped \subseteq skipped',
         k \in skipped' \/ \A i \in Reachable(k) : i <= offset
  PROVE  ReadInv'
<1>1. \A j \in Index : \A i \in Nat : Behind(j, i)' <=> Behind(j, i) \/ j = k
  BY Leaving
<1>2. ASSUME NEW j \in Index \ skipped', NEW i \in Reachable(j), Behind(j, i)' PROVE Behind(j, i)
  <2>1. i \in Nat
    BY ReachableLines
  <2> QED
    BY <1>1, <1>2, <2>1, OneTurn
<1>3. Heard /\ NoNews
  BY <1>1, <1>2, NoNewsOfTheSame DEF Heard
<1> QED
  BY <1>3, NothingRead

LEMMA Listing ==
  ASSUME TypeOK, ReadInv, ControlInv, [Next]_vars, List
  PROVE  ReadInv'
<1>1. found' = <<>> /\ malformed' = 0 /\ offset' = -1 /\ todo' = linked
  BY DEF List, ControlInv
<1>2. \A k \in Index : \A i \in Nat : Behind(k, i)' => k \notin linked
  BY <1>1 DEF Behind
<1>3. \A k \in Index \ linked : DOMAIN (listed'[k]) = {}
  BY DEF List
<1>4. ASSUME NEW k \in Index, NEW i \in Reachable(k)', Behind(k, i)' PROVE FALSE
  <2>1. i \in DOMAIN (listed'[k])
    BY DEF Reachable
  <2>2. i \in Nat
    BY <2>1, <1>4 DEF List, TypeOK
  <2> QED
    BY <1>2, <1>3, <1>4, <2>1, <2>2
<1>5. Reported' = {}
  <2>1. SUFFICES ASSUME NEW x \in Reported' PROVE FALSE
    OBVIOUS
  <2>2. PICK k \in Index \ skipped' : \E i \in Reachable(k)' : Behind(k, i)'
    BY InReportedNext
  <2> QED
    BY <1>4, <2>2
<1>6. FoundInv'
  BY <1>1, <1>4 DEF FoundInv
<1>7. DamageBounded'
  BY DamageStep DEF ReadInv, CountInv
<1>8. IsFiniteSet(Counted')
  BY <1>7, FS_Subset DEF Counted, DamageBounded
<1>9. Cardinality(Counted') \in Nat
  BY <1>8, FS_CardinalityType
<1>10. Cardinality(Reported') = 0
  BY <1>5, FS_EmptySet
<1>11. CountInv'
  BY <1>1, <1>7, <1>9, <1>10 DEF CountInv
<1> QED
  BY <1>6, <1>11 DEF ReadInv

(* The scanner passes a line that ends no file.                            *)
LEMMA LineRead ==
  ASSUME TypeOK, LogInv, ListedInv, ReadInv, [Next]_vars, NEW k \in Index, Scan(k),
         line[k][offset + 1].kind # "overlong"
  PROVE  ReadInv'
<1>1. PICK p \in Nat : p = offset + 1 /\ p \in DOMAIN line[k]
  BY ScannedLine
<1>2. PICK l \in Line : l = line[k][p] /\ ReadLine(k, l) /\ l.kind # "overlong"
  BY <1>1, ScannedLine
<1>3. /\ Turn(k) /\ offset \in Nat /\ offset' = offset + 1 /\ line' = line
      /\ UNCHANGED <<pc, todo, listed, skipped>>
  BY <1>2, ScannedLine DEF Scan, ReadLine, diskVars
<1>4. \A j \in Index : \A i \in Nat : Behind(j, i)' <=> Behind(j, i) \/ (j = k /\ i = p)
  BY <1>1, <1>3, Advancing
<1>5. ~Behind(k, p) /\ Behind(k, p)' /\ Heard
  BY <1>1, <1>3, <1>4, OneTurn DEF Heard
<1>6. LinesStay /\ DamageBounded'
  BY StepKeepsLines, DamageStep DEF ReadInv, CountInv
<1>7. ASSUME NEW j \in Index \ skipped', NEW i \in Reachable(j)', Behind(j, i)', ~(j = k /\ i = p)
      PROVE  j \notin skipped /\ i \in Reachable(j) /\ listed'[j][i] = listed[j][i] /\ Behind(j, i)
  <2>1. i \in Reachable(j) /\ i \in Nat
    BY <1>3, <1>7, ReachableLines DEF Reachable
  <2> QED
    BY <1>3, <1>4, <1>7, <2>1
<1>8. p \in Reachable(k) => listed[k][p] = l
  BY <1>2, ReachableLines DEF ListedInv
<1>9. ASSUME NEW x \in Reported'
      PROVE  x \in Reported \/ (x = <<k, p>> /\ l.kind # "record" /\ l.trace = Wanted)
  <2>1. PICK j \in Index \ skipped' : \E i \in Reachable(j)' :
           /\ x = <<j, i>> /\ Behind(j, i)'
           /\ listed'[j][i].trace = Wanted /\ listed'[j][i].kind # "record"
    BY InReportedNext
  <2>2. PICK i \in Reachable(j)' :
           /\ x = <<j, i>> /\ Behind(j, i)'
           /\ listed'[j][i].trace = Wanted /\ listed'[j][i].kind # "record"
    BY <2>1
  <2>3. CASE j = k /\ i = p
    <3>1. listed'[j][i] = l
      BY <1>3, <1>8, <2>2, <2>3 DEF Reachable
    <3> QED
      BY <2>2, <2>3, <3>1
  <2>4. CASE ~(j = k /\ i = p)
    <3>1. /\ j \in Index \ skipped /\ i \in Reachable(j) /\ Behind(j, i)
          /\ listed[j][i].trace = Wanted /\ listed[j][i].kind # "record"
      BY <1>7, <2>2, <2>4
    <3> QED
      BY <2>2, <3>1, InReported
  <2> QED
    BY <2>3, <2>4
<1>10. CASE IsWanted(l)
  <2>1. found' = Append(found, l) /\ malformed' = malformed
    BY <1>2, <1>10 DEF ReadLine, IsWanted
  <2>2. FoundInv'
    BY <1>1, <1>2, <1>3, <1>4, <1>5, <1>6, <1>10, <2>1, FoundOne DEF ReadInv, IsRecord, IsWanted
  <2>3. Reported' \subseteq Reported
    BY <1>9, <1>10 DEF IsWanted
  <2>4. CountInv'
    BY <1>5, <1>6, <2>1, <2>3, CountKept DEF ReadInv
  <2> QED
    BY <2>2, <2>4 DEF ReadInv
<1>11. CASE ~IsWanted(l)
  <2>1. found' = found
    BY <1>2, <1>11 DEF ReadLine, IsWanted
  <2>2. NoEvent
    <3>1. ASSUME NEW j \in Index \ skipped', NEW i \in Reachable(j)', Behind(j, i)',
                 IsWanted(listed'[j][i])
          PROVE  ~(j = k /\ i = p)
      BY <1>3, <1>8, <1>11, <3>1 DEF Reachable
    <3> QED
      BY <1>7, <3>1 DEF NoEvent
  <2>3. FoundInv'
    BY <1>5, <1>6, <2>1, <2>2, FoundKept DEF ReadInv
  <2>4. CASE l.kind # "record" /\ l.trace = Wanted
    <3>1. l.kind = "torn"
      BY <1>2, <2>4 DEF Line, Event
    <3>2. malformed' = malformed + 1 /\ Reported' \subseteq Reported \cup {<<k, p>>}
      BY <1>2, <1>9, <2>4, <3>1 DEF ReadLine
    <3>3. CountInv'
      BY <1>1, <1>2, <1>5, <1>6, <2>4, <3>2, CountOne DEF ReadInv
    <3> QED
      BY <2>3, <3>3 DEF ReadInv
  <2>5. CASE ~(l.kind # "record" /\ l.trace = Wanted)
    <3>1. malformed' = malformed /\ Reported' \subseteq Reported
      BY <1>2, <1>9, <2>5 DEF ReadLine
    <3>2. CountInv'
      BY <1>5, <1>6, <3>1, CountKept DEF ReadInv
    <3> QED
      BY <2>3, <3>2 DEF ReadInv
  <2> QED
    BY <2>4, <2>5
<1> QED
  BY <1>10, <1>11

(* A line over the cap ends the reading of its file: it is counted, and    *)
(* what the listing held behind it is out of reach.                        *)
LEMMA OverlongRead ==
  ASSUME TypeOK, ListedInv, ReadInv, [Next]_vars, NEW k \in Index, Scan(k),
         line[k][offset + 1].kind = "overlong"
  PROVE  ReadInv'
<1>1. PICK p \in Nat : p = offset + 1 /\ p \in DOMAIN line[k] /\ line[k][p].kind = "overlong"
  BY ScannedLine
<1>2. /\ Turn(k) /\ NextFile(k) /\ offset \in Nat /\ line' = line
      /\ UNCHANGED <<pc, listed, skipped, found>> /\ malformed' = malformed + 1
  BY ScannedLine DEF Scan, ReadLine, diskVars
<1>3. \A j \in Index : \A i \in Nat : Behind(j, i)' <=> Behind(j, i) \/ j = k
  BY <1>2, Leaving
<1>4. ~Behind(k, p) /\ Behind(k, p)' /\ Heard
  BY <1>1, <1>2, <1>3, OneTurn DEF Heard
<1>5. LinesStay /\ DamageBounded'
  BY StepKeepsLines, DamageStep DEF ReadInv, CountInv
<1>6. ASSUME NEW i \in Reachable(k), i # p PROVE Behind(k, i)
  <2>1. i \in Nat /\ i \in DOMAIN listed[k] /\ DOMAIN listed[k] = 1 .. Len(listed[k])
        /\ Len(listed[k]) \in Nat
    BY ReachableLines DEF TypeOK
  <2>2. ~(p < i)
    <3>1. SUFFICES ASSUME p < i PROVE FALSE
      OBVIOUS
    <3>2. p \in 1 .. i - 1 /\ p \in DOMAIN listed[k]
      BY <1>1, <1>2, <2>1, <3>1
    <3>3. listed[k][p].kind = "overlong"
      BY <1>1, <3>2 DEF ListedInv
    <3> QED
      BY <3>2, <3>3 DEF Reachable
  <2> QED
    BY <1>1, <1>2, <1>6, <2>1, <2>2, OneTurn
<1>7. ASSUME NEW j \in Index \ skipped', NEW i \in Reachable(j)', Behind(j, i)', ~(j = k /\ i = p)
      PROVE  j \notin skipped /\ i \in Reachable(j) /\ listed'[j][i] = listed[j][i] /\ Behind(j, i)
  <2>1. i \in Reachable(j) /\ i \in Nat
    BY <1>2, <1>7, ReachableLines DEF Reachable
  <2> QED
    BY <1>2, <1>3, <1>6, <1>7, <2>1
<1>8. NoEvent /\ Reported' \subseteq Reported \cup {<<k, p>>}
  <2>1. p \in Reachable(k)' => ~IsWanted(listed'[k][p])
    BY <1>1, <1>2, ReachableLines DEF ListedInv, Reachable, IsWanted
  <2>2. NoEvent
    BY <1>7, <2>1 DEF NoEvent
  <2>3. ASSUME NEW x \in Reported', x # <<k, p>> PROVE x \in Reported
    <3>1. PICK j \in Index \ skipped' : \E i \in Reachable(j)' :
             /\ x = <<j, i>> /\ Behind(j, i)'
             /\ listed'[j][i].trace = Wanted /\ listed'[j][i].kind # "record"
      BY <2>3, InReportedNext
    <3>2. PICK i \in Reachable(j)' :
             /\ x = <<j, i>> /\ Behind(j, i)'
             /\ listed'[j][i].trace = Wanted /\ listed'[j][i].kind # "record"
      BY <3>1
    <3>3. /\ j \in Index \ skipped /\ i \in Reachable(j) /\ Behind(j, i)
          /\ listed[j][i].trace = Wanted /\ listed[j][i].kind # "record"
      BY <1>7, <2>3, <3>2
    <3> QED
      BY <3>2, <3>3, InReported
  <2> QED
    BY <2>2, <2>3
<1>9. FoundInv'
  BY <1>2, <1>4, <1>5, <1>8, FoundKept DEF ReadInv
<1>10. CountInv'
  BY <1>1, <1>2, <1>4, <1>5, <1>8, CountOne DEF ReadInv
<1> QED
  BY <1>9, <1>10 DEF ReadInv

LEMMA ReadStep ==
  ASSUME TypeOK, LogInv, ListedInv, ReadInv, ControlInv, [Next]_vars
  PROVE  ReadInv'
<1>1. CASE UNCHANGED readVars
  BY <1>1, Writing
<1>2. CASE List
  BY <1>2, Listing
<1>3. CASE ListFails \/ Show
  <2>1. todo = {} /\ todo' = {} /\ UNCHANGED <<found, malformed, listed, skipped>>
    BY <1>3 DEF ListFails, Show, ControlInv
  <2>2. Heard
    BY <2>1 DEF Heard, Behind
  <2>3. NoNews
    BY <2>1, NoNewsOfTheSame DEF Behind
  <2> QED
    BY <2>1, <2>2, <2>3, NothingRead
<1>4. ASSUME NEW k \in Index, Open(k) PROVE ReadInv'
  <2>1. /\ Turn(k) /\ offset = -1 /\ offset' = 0
        /\ UNCHANGED <<pc, todo, found, malformed, listed, skipped>>
    BY <1>4 DEF Open
  <2>2. \A j \in Index : \A i \in Nat : Behind(j, i) => Behind(j, i)'
    BY <2>1 DEF Behind, Turn
  <2>3. ASSUME NEW j \in Index, NEW i \in Reachable(j), Behind(j, i)' PROVE Behind(j, i)
    <3>1. i \in Nat \ {0}
      BY DEF Reachable, TypeOK
    <3> QED
      BY <2>1, <2>3, <3>1 DEF Behind, Turn
  <2>4. Heard /\ NoNews
    BY <2>1, <2>2, <2>3, NoNewsOfTheSame DEF Heard
  <2> QED
    BY <2>1, <2>4, NothingRead
<1>5. ASSUME NEW k \in Index, OpenFails(k) PROVE ReadInv'
  BY <1>5, FileLeft DEF OpenFails
<1>6. ASSUME NEW k \in Index, Scan(k) PROVE ReadInv'
  BY <1>6, LineRead, OverlongRead
<1>7. ASSUME NEW k \in Index, ReadFails(k) PROVE ReadInv'
  BY <1>7, FileLeft DEF ReadFails
<1>8. ASSUME NEW k \in Index, EndOfFile(k) PROVE ReadInv'
  <2>1. ASSUME NEW i \in Reachable(k) PROVE i <= offset
    <3>1. i \in DOMAIN line[k] /\ DOMAIN line[k] = 1 .. Len(line[k])
      BY ReachableLines DEF ListedInv, TypeOK
    <3> QED
      BY <1>8, <3>1 DEF EndOfFile
  <2> QED
    BY <1>8, <2>1, FileLeft DEF EndOfFile
<1> QED
  BY <1>1, <1>2, <1>3, <1>4, <1>5, <1>6, <1>7, <1>8 DEF Next, Recorders, Command, Record,
     RecordLong, Damage, Expire, Forbid, Tick, SetBack, vars, readVars

(* The counts are within the bound. *)
LEMMA CountWithinBound ==
  ASSUME TypeOK, ListedInv, ReadInv, [Next]_vars, ListedInv', ReadInv', malformed' \in Nat
  PROVE  malformed' <= MaxDamage
<1>1. damage' \in Int /\ damage' <= MaxDamage
  <2>1. damage \in Int /\ damage <= MaxDamage /\ MaxDamage \in Int
    BY ReaderAssumption DEF TypeOK
  <2>2. damage' = damage \/ (damage < MaxDamage /\ damage' = damage + 1)
    BY DEF Next, Recorders, Command, Record, RecordLong, Damage, Expire, Forbid, Tick, SetBack,
       List, ListFails, Open, OpenFails, Scan, ReadFails, EndOfFile, Show, diskVars, vars
  <2> QED
    BY <2>1, <2>2
<1>2. IsFiniteSet(Damaged') /\ Cardinality(Damaged') <= damage'
  BY DEF ReadInv, CountInv, DamageBounded
<1>3. Cardinality(Counted') <= Cardinality(Damaged') /\ IsFiniteSet(Counted')
  BY <1>2, FS_Subset DEF Counted
<1>4. Cardinality(Counted') \in Nat /\ Cardinality(Damaged') \in Nat
  BY <1>2, <1>3, FS_CardinalityType
<1>5. malformed' <= Cardinality(Counted')
  BY DEF ReadInv, CountInv
<1> QED
  BY <1>1, <1>2, <1>3, <1>4, <1>5, ReaderAssumption

LEMMA ReaderInit == Init => ReaderInv
<1> SUFFICES ASSUME Init PROVE ReaderInv
  OBVIOUS
<1>1. TypeOK
  <2>1. <<>> \in Seq(Line) /\ <<>> \in Seq(Event)
    OBVIOUS
  <2>2. line \in [Index -> Seq(Line)] /\ listed \in [Index -> Seq(Line)]
    BY <2>1 DEF Init
  <2>3. position \in [Trace -> Index] /\ sequence \in [Trace -> 0 .. MaxSequence]
    BY ReaderAssumption DEF Init, Index
  <2>4. /\ wall \in 0 .. MaxClock /\ monotonic \in 0 .. MaxClock
        /\ damage \in 0 .. MaxDamage /\ malformed \in 0 .. MaxDamage
        /\ exit \in 0 .. 2
    BY ReaderAssumption DEF Init
  <2>7. stepped \in BOOLEAN /\ pc \in {"start", "read", "done"}
    BY DEF Init
  <2>5. offset \in Nat \cup {-1} /\ found \in Seq(Event)
    BY <2>1 DEF Init
  <2>6. linked \subseteq used /\ used \subseteq Index /\ unreadable \subseteq Index
        /\ todo \subseteq Index /\ skipped \subseteq Index
    BY DEF Init
  <2> QED
    BY <2>2, <2>3, <2>4, <2>5, <2>6, <2>7 DEF TypeOK
<1>2. \A k \in Index : DOMAIN line[k] = {} /\ DOMAIN listed[k] = {}
  BY DEF Init
<1>3. Damaged = {} /\ Counted = {}
  BY <1>2 DEF Damaged, Counted
<1>4. Reported = {}
  BY <1>2, InReported DEF Reachable
<1>5. CountInv
  BY <1>3, <1>4, FS_EmptySet DEF CountInv, DamageBounded, Init
<1>6. LogInv /\ ListedInv
  BY <1>2 DEF LogInv, ListedInv, IsRecord
<1>7. FoundInv
  BY <1>2 DEF FoundInv, Reachable, Init
<1>8. ControlInv
  BY DEF ControlInv, Init
<1> QED
  BY <1>1, <1>5, <1>6, <1>7, <1>8 DEF ReaderInv

LEMMA ReaderStep == ReaderInv /\ [Next]_vars => ReaderInv'
<1> SUFFICES ASSUME ReaderInv, [Next]_vars PROVE ReaderInv'
  OBVIOUS
<1>1. TypeOK /\ LogInv /\ ListedInv /\ ReadInv /\ ControlInv
  BY DEF ReaderInv, ReadInv
<1>2. LogInv' /\ ListedInv' /\ ReadInv' /\ ControlInv'
  BY <1>1, LogStep, ListedStep, ReadStep, ControlStep
<1>3. TypeOK'
  BY <1>1, <1>2, CountWithinBound, TypeStep
<1> QED
  BY <1>2, <1>3 DEF ReaderInv, ReadInv

LEMMA ReaderInvariant == Spec => []ReaderInv
  BY ReaderInit, ReaderStep, PTL DEF Spec

-----------------------------------------------------------------------------
(* The order of the timeline.                                              *)

Places == DOMAIN found
Sooner(i) == {j \in Places : Earlier(j, i)}

LEMMA PlacesFacts ==
  ASSUME TypeOK
  PROVE  /\ Places = 1 .. Len(found) /\ Len(found) \in Nat
         /\ IsFiniteSet(Places) /\ Cardinality(Places) = Len(found)
         /\ \A i \in Places : found[i] \in Event
<1>1. Places = 1 .. Len(found) /\ Len(found) \in Nat
  BY DEF Places, TypeOK
<1>2. IsFiniteSet(Places) /\ Cardinality(Places) = Len(found)
  BY <1>1, FS_Interval
<1> QED
  BY <1>1, <1>2 DEF Places, TypeOK

LEMMA EventTypes ==
  ASSUME NEW e \in Event
  PROVE  e.sequence \in Int /\ e.timestamp \in Int /\ e.elapsed \in Int
  BY ReaderAssumption DEF Event

(* Earlier is a strict total order of the events found. *)
LEMMA EarlierIsOrder ==
  ASSUME TypeOK
  PROVE  /\ \A i \in Places : ~Earlier(i, i)
         /\ \A i, j \in Places : i # j => Earlier(i, j) \/ Earlier(j, i)
         /\ \A i, j, k \in Places : Earlier(i, j) /\ Earlier(j, k) => Earlier(i, k)
<1>1. \A i \in Places : i \in Int /\ found[i].sequence \in Int /\ found[i].timestamp \in Int
  BY PlacesFacts, EventTypes
<1>2. \A i \in Places : ~Earlier(i, i)
  BY <1>1 DEF Earlier
<1>3. \A i, j \in Places : i # j => Earlier(i, j) \/ Earlier(j, i)
  BY <1>1 DEF Earlier
<1>4. \A i, j, k \in Places : Earlier(i, j) /\ Earlier(j, k) => Earlier(i, k)
  BY <1>1 DEF Earlier
<1> QED
  BY <1>2, <1>3, <1>4

LEMMA SoonerFacts ==
  ASSUME TypeOK, NEW i \in Places
  PROVE  /\ IsFiniteSet(Sooner(i)) /\ Cardinality(Sooner(i)) \in Nat
         /\ Place(i) = 1 + Cardinality(Sooner(i))
<1>1. IsFiniteSet(Sooner(i))
  BY PlacesFacts, FS_Subset DEF Sooner
<1>2. Place(i) = 1 + Cardinality(Sooner(i))
  BY DEF Place, Sooner, Places
<1> QED
  BY <1>1, <1>2, FS_CardinalityType

(* What is earlier has the smaller place. *)
LEMMA EarlierPlace ==
  ASSUME TypeOK, NEW i \in Places, NEW j \in Places, Earlier(i, j)
  PROVE  Place(i) < Place(j)
<1>1. Sooner(i) \cup {i} \subseteq Sooner(j) /\ i \notin Sooner(i)
  BY EarlierIsOrder DEF Sooner
<1>2. Cardinality(Sooner(i) \cup {i}) = Cardinality(Sooner(i)) + 1
  BY <1>1, SoonerFacts, FS_AddElement
<1>3. Cardinality(Sooner(i) \cup {i}) <= Cardinality(Sooner(j))
  BY <1>1, SoonerFacts, FS_Subset
<1> QED
  BY <1>2, <1>3, SoonerFacts

LEMMA PlaceOrder ==
  ASSUME TypeOK, NEW i \in Places, NEW j \in Places
  PROVE  /\ Place(i) = Place(j) => i = j
         /\ Place(i) < Place(j) => Earlier(i, j)
<1>1. Place(i) \in Int /\ Place(j) \in Int
  BY SoonerFacts
<1> QED
  BY <1>1, EarlierPlace, EarlierIsOrder

LEMMA PlaceInRange ==
  ASSUME TypeOK, NEW i \in Places
  PROVE  Place(i) \in Places
<1>1. Sooner(i) \subseteq Places \ {i}
  BY EarlierIsOrder DEF Sooner
<1>2. IsFiniteSet(Places \ {i}) /\ Cardinality(Places \ {i}) = Len(found) - 1
  BY PlacesFacts, FS_RemoveElement
<1>3. Cardinality(Sooner(i)) <= Len(found) - 1
  BY <1>1, <1>2, FS_Subset
<1> QED
  BY <1>3, SoonerFacts, PlacesFacts

(* Every place is taken: this is what makes Timeline a sorted permutation. *)
LEMMA PlaceIsTaken ==
  ASSUME TypeOK
  PROVE  \A n \in Places : \E i \in Places : Place(i) = n
<1> DEFINE f == [i \in Places |-> Place(i)]
<1>1. f \in [Places -> Places]
  BY PlaceInRange
<1>2. \A i, j \in Places : f[i] = f[j] => i = j
  BY PlaceOrder
<1>3. f \in Injection(Places, Places)
  BY <1>1, <1>2 DEF Injection, IsInjective
<1>4. f \in Surjection(Places, Places)
  <2> HIDE DEF f
  <2> QED
    BY <1>3, PlacesFacts, FS_Injection
<1>5. \A n \in Places : \E i \in Places : f[i] = n
  BY <1>4 DEF Surjection
<1> QED
  BY <1>5

(* The event at a place of the timeline. *)
LEMMA TimelineEntry ==
  ASSUME TypeOK, NEW n \in Places
  PROVE  \E i \in Places : Place(i) = n /\ Timeline[n] = found[i]
<1> DEFINE i == CHOOSE j \in DOMAIN found : Place(j) = n
<1>1. i \in Places /\ Place(i) = n
  BY PlaceIsTaken DEF Places
<1>2. Timeline[n] = found[i]
  BY DEF Timeline, Places
<1> QED
  BY <1>1, <1>2

LEMMA TimelineLength ==
  ASSUME TypeOK
  PROVE  Len(Timeline) = Len(found)
<1>1. Timeline \in [1 .. Len(found) -> Event]
  BY PlacesFacts, TimelineEntry DEF Timeline, Places
<1> QED
  BY <1>1, PlacesFacts

(* As long as the wall clock was not set back, the order by time is the    *)
(* order of the sequence numbers.                                          *)
LEMMA EarlierIsInSequence ==
  ASSUME ReaderInv, ~stepped, NEW i \in Places, NEW j \in Places, Earlier(i, j)
  PROVE  found[i].sequence < found[j].sequence /\ found[i].elapsed <= found[j].elapsed
<1>1. PICK e \in Event, f \in Event :
        /\ e = found[i] /\ f = found[j] /\ Known(e) /\ Known(f)
        /\ e.sequence = f.sequence => i = j
  BY PlacesFacts DEF Places, ReaderInv, FoundInv
<1>2. InOrder(e, f) /\ InOrder(f, e)
  <2>1. PICK k \in Index, p \in Nat : Source(e, k, p)
    BY <1>1 DEF Known
  <2>2. PICK m \in Index, q \in Nat : Source(f, m, q)
    BY <1>1 DEF Known
  <2> QED
    BY <2>1, <2>2 DEF Source, ReaderInv, LogInv
<1>3. e.trace = f.trace
  BY <1>1 DEF Known, IsWanted
<1>4. i # j
  BY EarlierIsOrder DEF ReaderInv
<1>5. /\ e.sequence \in Int /\ e.timestamp \in Int /\ e.elapsed \in Int
      /\ f.sequence \in Int /\ f.timestamp \in Int /\ f.elapsed \in Int
  BY EventTypes
<1>6. e.timestamp < f.timestamp \/ (e.timestamp = f.timestamp /\ e.sequence < f.sequence)
  BY <1>1, <1>4 DEF Earlier
<1>7. e.sequence < f.sequence
  BY <1>1, <1>2, <1>3, <1>4, <1>5, <1>6 DEF InOrder
<1> QED
  BY <1>1, <1>2, <1>3, <1>7 DEF InOrder

-----------------------------------------------------------------------------
(* The theorems.                                                           *)

(* The state of the command keeps its types; in particular no line is      *)
(* counted as malformed that was not damaged, and none twice.              *)
THEOREM TypeCorrect == Spec => []TypeOK
<1>1. ReaderInv => TypeOK
  BY DEF ReaderInv
<1> QED
  BY <1>1, ReaderInvariant, PTL

(* Whatever is recorded, removed or damaged while findEvents reads: of a   *)
(* file that it can read, up to the first line over maxLineBytes, every    *)
(* event of the trace that the listing found is shown, and every torn line *)
(* and that overlong one is counted.                                       *)
THEOREM ListedEventsAreShown == Spec => []NothingMissed
<1>1. ReaderInv => NothingMissed
  <2>1. SUFFICES ASSUME ReaderInv, pc = "done", exit # 1
                 PROVE  /\ \A x \in Due \ Lost :
                              \E n \in DOMAIN found : found[n] = listed[x[1]][x[2]]
                        /\ Cardinality(Lost) <= malformed
    BY DEF NothingMissed
  <2>2. \A k, i : Behind(k, i)
    BY <2>1 DEF ReaderInv, ControlInv, Behind
  <2>3. Lost = Reported
    BY <2>2 DEF Reported
  <2>4. ASSUME NEW x \in Due \ Lost
        PROVE  \E n \in DOMAIN found : found[n] = listed[x[1]][x[2]]
    <3>1. PICK k \in Index \ skipped : \E i \in Reachable(k) :
             x = <<k, i>> /\ listed[k][i].trace = Wanted
      BY <2>4 DEF Due
    <3>2. PICK i \in Reachable(k) : x = <<k, i>> /\ listed[k][i].trace = Wanted
      BY <3>1
    <3>3. listed[k][i].kind = "record"
      BY <2>4, <3>2 DEF Lost
    <3>4. listed[k][i] \in Line
      BY <2>1, <3>2, ReachableLines DEF ReaderInv, TypeOK
    <3>5. IsWanted(listed[k][i])
      BY <3>2, <3>3, <3>4 DEF Line, Event, IsWanted
    <3> QED
      BY <2>1, <2>2, <3>2, <3>5 DEF ReaderInv, FoundInv
  <2> QED
    BY <2>1, <2>3, <2>4 DEF ReaderInv, CountInv
<1> QED
  BY <1>1, ReaderInvariant, PTL

(* As long as the wall clock was not set back, printTimeline prints the    *)
(* events in sequence, each once, with deltas that add up to the total.    *)
THEOREM TimelineIsInSequence == Spec => []TimelineInSequence
<1>1. ReaderInv => TimelineInSequence
  <2>1. SUFFICES ASSUME ReaderInv, pc = "done", ~stepped, exit = 0
                 PROVE  /\ \A n \in 2 .. Len(Timeline) :
                              /\ Timeline[n - 1].sequence < Timeline[n].sequence
                              /\ Timeline[n].elapsed = Timeline[n - 1].elapsed + Delta(n)
                        /\ \A i \in DOMAIN found : found[i].elapsed <= TotalDuration
    BY DEF TimelineInSequence
  <2>2. TypeOK /\ Len(Timeline) = Len(found) /\ Places = 1 .. Len(found) /\ Len(found) \in Nat
    BY <2>1, TimelineLength, PlacesFacts DEF ReaderInv
  <2>3. ASSUME NEW n \in 2 .. Len(Timeline)
        PROVE  /\ Timeline[n - 1].sequence < Timeline[n].sequence
               /\ Timeline[n].elapsed = Timeline[n - 1].elapsed + Delta(n)
    <3>1. n \in Places /\ n - 1 \in Places /\ n \in Int
      BY <2>2
    <3>2. PICK i \in Places : Place(i) = n - 1 /\ Timeline[n - 1] = found[i]
      BY <2>2, <3>1, TimelineEntry
    <3>3. PICK j \in Places : Place(j) = n /\ Timeline[n] = found[j]
      BY <2>2, <3>1, TimelineEntry
    <3>4. Earlier(i, j)
      BY <2>2, <3>1, <3>2, <3>3, PlaceOrder
    <3>5. found[i].sequence < found[j].sequence /\ found[i].elapsed <= found[j].elapsed
      BY <2>1, <3>4, EarlierIsInSequence
    <3>6. found[i].elapsed \in Int /\ found[j].elapsed \in Int
      BY <2>2, PlacesFacts, EventTypes
    <3>7. Delta(n) = found[j].elapsed - found[i].elapsed
      BY <3>2, <3>3, <3>5, <3>6 DEF Delta
    <3> QED
      BY <3>2, <3>3, <3>5, <3>6, <3>7
  <2>4. ASSUME NEW i \in Places PROVE found[i].elapsed <= TotalDuration
    <3>1. Len(found) \in Places
      BY <2>2
    <3>2. PICK j \in Places : Place(j) = Len(found) /\ Timeline[Len(found)] = found[j]
      BY <2>2, <3>1, TimelineEntry
    <3>3. Place(i) \in Int /\ Place(i) <= Place(j)
      BY <2>2, <3>2, PlaceInRange
    <3>4. i = j \/ Earlier(i, j)
      BY <2>2, <3>1, <3>2, <3>3, PlaceOrder
    <3>5. found[i].elapsed <= found[j].elapsed
      BY <2>1, <2>2, <3>4, EarlierIsInSequence, PlacesFacts, EventTypes
    <3> QED
      BY <2>2, <3>2, <3>5 DEF TotalDuration
  <2> QED
    BY <2>1, <2>3, <2>4 DEF Places
<1> QED
  BY <1>1, ReaderInvariant, PTL

=============================================================================
