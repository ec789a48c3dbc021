-------------------------- MODULE ShardEventProofs --------------------------
(***************************************************************************)
(* The events of the JSONL writer: what Write acknowledged is in a shard   *)
(* of its date, and what it rejected was not recorded by its own call.     *)
(*                                                                         *)
(* An event is in flight from Submit to Return, under a number no event of *)
(* its caller had before.  It is recorded only by its own call, which      *)
(* knows that it was: Written.  The bound of the shards (BoundInv) gives   *)
(* that no other call appends to the shard of a call, or repairs it.       *)
(***************************************************************************)
EXTENDS ShardWriterProofs

InFlight(c) == request[c].op = "write"
Known(e) == e.sequence <= sequence[e.caller]
Written(c) == pc[c] = "unlock" /\ ~progress[c].failed

CallEvent(c) ==
    /\ InFlight(c) => /\ pc[c] # "idle"
                      /\ request[c].event.caller = c
                      /\ request[c].event.sequence = sequence[c]
    /\ progress[c].failed => pc[c] \in {"dirUnlock", "restore", "unlock"}
    /\ pc[c] = "restore" => progress[c].failed

(* The active shard of a writer has the date that it remembers, and that   *)
(* of the event of a call which is past the rotation.                      *)
HandleDate(w) ==
    writer[w].handle # None => file[writer[w].handle].date = writer[w].currentDate
CallDate(c) == KeepsHandle(pc[c], progress[c]) => Same(c).currentDate = Date(c)

(* A repair takes no record away. *)
CallRecords(c) ==
    /\ Written(c) => \E x \in Records(Handle(c)) : x.ev = request[c].event
    /\ pc[c] = "restore" => \A x \in Records(Handle(c)) : x.end <= Same(c).currentSize

(* What is being swept stays expired. *)
CallStale(c) ==
    \A name \in progress[c].stale : RetentionDays > 0 /\ Expirable(name[1])

CallInvariant(c) == CallEvent(c) /\ CallDate(c) /\ CallRecords(c) /\ CallStale(c)

Recordable(e) ==
    /\ Known(e)
    /\ e \in rejected => "unlock" \in Faults
    /\ \A c \in Caller : InFlight(c) /\ request[c].event = e => Written(c)
ShardRecords(i) ==
    /\ \A x \in file[i].data : x.ev.date = file[i].date
    /\ \A x \in Records(i) : Recordable(x.ev)

(* A shard keeps its name until its date expires. *)
Anchored(i) ==
    /\ i >= fresh => file[i].data = {}
    /\ \/ i >= fresh
       \/ i \in linked
       \/ RetentionDays > 0 /\ Expirable(file[i].date)
       \/ "rmdir" \in Faults

RejectedEvent(e) == Known(e) /\ \A c \in Caller : InFlight(c) => request[c].event # e
AckedEvent(e) == \E i \in Inode : \E x \in Records(i) : x.ev = e

EventInv ==
    /\ \A c \in Caller : CallInvariant(c)
    /\ \A w \in Writer : HandleDate(w)
    /\ \A i \in Inode : ShardRecords(i) /\ Anchored(i)
    /\ \A e \in rejected : RejectedEvent(e)
    /\ \A e \in acked : AckedEvent(e)

-----------------------------------------------------------------------------
(* A step of a call leaves the other calls and writers alone, adds no      *)
(* record but that of its own event to its own shard, and takes none away. *)

Alone(c) ==
    /\ Only(c)
    /\ \A d \in Caller \ {c} : progress'[d] = progress[d]
    /\ request'[c] = request[c] \/ request'[c].op # "write"
    /\ UNCHANGED <<sequence, today>>

RecordsKept == \A i \in Inode : Records(i) \subseteq Records(i)'
DatesKept == \A i \in Inode : i < fresh => file'[i].date = file[i].date
OwnRecords(c) ==
    \A i \in Inode : \A x \in Records(i)' : x \in Records(i) \/
        /\ i = Handle(c) /\ x.ev = request[c].event
        /\ pc[c] \in Appending /\ request'[c] = request[c] /\ Written(c)' /\ rejected' = rejected

(* What a call that returns may say of its event. *)
Answers(c) ==
    /\ \/ rejected' = rejected
       \/ /\ InFlight(c) /\ request'[c].op # "write"
          /\ Written(c) => "unlock" \in Faults
          /\ rejected' = rejected \cup {request[c].event}
    /\ acked' = acked \/ (Written(c) /\ acked' = acked \cup {request[c].event})
    /\ Written(c) => Written(c)' \/ request'[c].op # "write"

(* A call in flight knows its event. *)
LEMMA OwnEvent ==
  ASSUME TypeInv, EventInv, NEW c \in Caller, InFlight(c)
  PROVE  /\ request[c].event \in Event /\ request[c].event.caller = c
         /\ Known(request[c].event) /\ pc[c] # "idle"
         /\ \A d \in Caller : InFlight(d) /\ request[d].event = request[c].event => d = c
<1>1. ASSUME NEW d \in Caller, InFlight(d)
      PROVE  request[d].event.caller = d /\ request[d].event.sequence = sequence[d] /\ pc[d] # "idle"
  BY <1>1 DEF EventInv, CallInvariant, CallEvent
<1>2. request[c].event \in Event
  BY WriteFacts DEF InFlight
<1>3. sequence[c] \in Nat
  BY EnvironmentAssumption DEF TypeInv, TypeOK
<1> QED
  BY <1>1, <1>2, <1>3 DEF Known

(* Two calls that append have different shards, since each has its lock.   *)
LEMMA OwnShard ==
  ASSUME BoundInv, NEW c \in Caller, NEW d \in Caller, c # d,
         pc[c] \in Appending, pc[d] \in Appending
  PROVE  Handle(c) # Handle(d)
<1>1. W(c) # W(d)
  BY HandleFacts, GateExclusion DEF BoundInv, TypeInv
<1>2. flock[Handle(c)] = W(c) /\ flock[Handle(d)] = W(d)
  BY DEF BoundInv, CallBound, ShardLocked
<1> QED
  BY <1>1, <1>2

LEMMA OtherCalls ==
  ASSUME BoundInv, EventInv, NEW c \in Caller, pc[c] \in Admitted, Alone(c),
         RecordsKept, OwnRecords(c), NEW d \in Caller, d # c
  PROVE  CallInvariant(d)'
<1>1. /\ pc'[d] = pc[d] /\ request'[d] = request[d] /\ progress'[d] = progress[d]
      /\ UNCHANGED <<sequence, today>>
  BY DEF Alone, Only
<1>2. CallInvariant(d)
  BY DEF EventInv
<1>3. CallEvent(d)' /\ CallStale(d)'
  BY <1>1, <1>2 DEF CallInvariant, CallEvent, CallStale, InFlight, Expirable
<1>4. CASE pc[d] \in Admitted
  <2>1. W(c) # W(d)
    BY <1>4, GateExclusion DEF BoundInv, TypeInv
  <2>2. writer'[W(d)] = writer[W(d)]
    BY <2>1, WriterOfCaller DEF Alone, Only
  <2>3. Same(d)' = Same(d) /\ Handle(d)' = Handle(d) /\ Date(d)' = Date(d)
    BY <1>1, <2>2 DEF Same, Handle, Date, W
  <2>4. CallDate(d)'
    BY <1>1, <1>2, <2>3 DEF CallInvariant, CallDate
  <2>5. CallRecords(d)'
    <3>1. CASE pc[d] \in Appending
      <4>1. PICK i \in Inode : i = Handle(d)
        BY <3>1, HandleFacts DEF BoundInv
      <4>2. /\ Written(d) => \E x \in Records(i) : x.ev = request[d].event
            /\ pc[d] = "restore" => \A x \in Records(i) : x.end <= Same(d).currentSize
        BY <1>2, <4>1 DEF CallInvariant, CallRecords
      <4>3. Records(i) \subseteq Records(i)'
        BY DEF RecordsKept
      <4>4. \A x \in Records(i)' : x \in Records(i)
        BY <3>1, <4>1, OwnShard DEF OwnRecords
      <4>5. Records(Handle(d))' = Records(i)'
        BY <2>3, <4>1 DEF Records
      <4> QED
        BY <1>1, <2>3, <4>2, <4>3, <4>4, <4>5 DEF CallRecords, Written
    <3>2. CASE pc[d] \notin Appending
      BY <1>1, <3>2 DEF CallRecords, Written, Appending
    <3> QED
      BY <3>1, <3>2
  <2> QED
    BY <1>3, <2>4, <2>5 DEF CallInvariant
<1>5. CASE pc[d] \notin Admitted
  BY <1>1, <1>3, <1>5
  DEF CallInvariant, CallDate, CallRecords, Written, KeepsHandle, Holding, Appending, Admitted,
      Rotating
<1> QED
  BY <1>4, <1>5

LEMMA EventStep ==
  ASSUME BoundInv, EventInv, NEW c \in Caller, pc[c] \in Admitted, Alone(c),
         CallInvariant(c)', HandleDate(W(c))',
         RecordsKept, DatesKept, OwnRecords(c), Answers(c),
         \A i \in Inode : Anchored(i)',
         \A i \in Inode : \A x \in file'[i].data : x.ev.date = file'[i].date
  PROVE  EventInv'
<1>1. \A d \in Caller : CallInvariant(d)'
  BY OtherCalls
<1>2. ASSUME NEW w \in Writer PROVE HandleDate(w)'
  <2>1. CASE w = W(c)
    BY <2>1
  <2>2. CASE w # W(c)
    <3>1. writer'[w] = writer[w]
      BY <2>2 DEF Alone, Only
    <3>2. writer[w].handle # None => writer[w].handle \in Inode /\ writer[w].handle < fresh
      BY DEF BoundInv, HandleBound, TypeInv, TypeOK, WriterState
    <3> QED
      BY <3>1, <3>2 DEF EventInv, HandleDate, DatesKept
  <2> QED
    BY <2>1, <2>2
<1>3. \A e : Known(e)' <=> Known(e)
  BY DEF Alone, Known
<1>4. InFlight(c) => request[c].op = "write"
  BY DEF InFlight
<1>5. pc[c] \in Appending => InFlight(c)
  BY HandleFacts, WriteFacts DEF BoundInv, InFlight
<1>6. ASSUME NEW i \in Inode, NEW x \in Records(i)' PROVE Recordable(x.ev)'
  <2>1. CASE x \in Records(i)
    <3>1. Recordable(x.ev)
      BY <2>1 DEF EventInv, ShardRecords
    <3>2. x.ev \in rejected' => "unlock" \in Faults
      BY <3>1 DEF Answers, Recordable
    <3>3. ASSUME NEW d \in Caller, InFlight(d)', request'[d].event = x.ev PROVE Written(d)'
      <4>1. CASE d = c
        <5>1. request'[c] = request[c] /\ InFlight(c)
          BY <3>3, <4>1 DEF Alone, InFlight
        <5>2. Written(c)
          BY <3>1, <3>3, <4>1, <5>1 DEF Recordable
        <5> QED
          BY <3>3, <4>1, <5>2 DEF Answers, InFlight
      <4>2. CASE d # c
        <5>1. pc'[d] = pc[d] /\ request'[d] = request[d] /\ progress'[d] = progress[d]
          BY <4>2 DEF Alone, Only
        <5> QED
          BY <3>1, <3>3, <5>1 DEF Recordable, InFlight, Written
      <4> QED
        BY <4>1, <4>2
    <3> QED
      BY <1>3, <3>1, <3>2, <3>3 DEF Recordable
  <2>2. CASE x \notin Records(i)
    <3>1. /\ x.ev = request[c].event /\ request'[c] = request[c] /\ Written(c)'
          /\ rejected' = rejected /\ InFlight(c)
      BY <1>5, <1>6, <2>2 DEF OwnRecords
    <3>2. Known(x.ev) /\ x.ev \notin rejected
      BY <3>1, OwnEvent DEF EventInv, RejectedEvent, BoundInv
    <3>3. ASSUME NEW d \in Caller, InFlight(d)', request'[d].event = x.ev PROVE Written(d)'
      <4>1. d # c => request'[d] = request[d]
        BY DEF Alone, Only
      <4>2. d = c
        BY <3>1, <3>3, <4>1, OwnEvent DEF InFlight, BoundInv
      <4> QED
        BY <3>1, <4>2
    <3> QED
      BY <1>3, <3>1, <3>2, <3>3 DEF Recordable
  <2> QED
    BY <2>1, <2>2
<1>7. ASSUME NEW e \in rejected' PROVE RejectedEvent(e)'
  <2>1. CASE e \in rejected
    <3>1. RejectedEvent(e)
      BY <2>1 DEF EventInv
    <3>2. ASSUME NEW d \in Caller, InFlight(d)' PROVE request'[d].event # e
      <4>1. request'[d] = request[d]
        BY <3>2 DEF Alone, Only, InFlight
      <4> QED
        BY <3>1, <3>2, <4>1 DEF RejectedEvent, InFlight
    <3> QED
      BY <1>3, <3>1, <3>2 DEF RejectedEvent
  <2>2. CASE e \notin rejected
    <3>1. InFlight(c) /\ request'[c].op # "write" /\ e = request[c].event
      BY <1>7, <2>2 DEF Answers
    <3>2. ASSUME NEW d \in Caller, InFlight(d)' PROVE request'[d].event # e
      <4>1. d # c /\ request'[d] = request[d]
        BY <3>1, <3>2 DEF Alone, Only, InFlight
      <4> QED
        BY <3>1, <3>2, <4>1, OwnEvent DEF InFlight, BoundInv
    <3> QED
      BY <1>3, <3>1, <3>2, OwnEvent DEF RejectedEvent, BoundInv
  <2> QED
    BY <2>1, <2>2
<1>8. ASSUME NEW e \in acked' PROVE AckedEvent(e)'
  <2>1. AckedEvent(e)
    <3>1. CASE e \in acked
      BY <3>1 DEF EventInv
    <3>2. CASE e \notin acked
      <4>1. Written(c) /\ e = request[c].event
        BY <1>8, <3>2 DEF Answers
      <4>2. Handle(c) \in Inode
        BY <4>1, HandleFacts DEF Written, Appending, BoundInv
      <4> QED
        BY <4>1, <4>2 DEF EventInv, CallInvariant, CallRecords, AckedEvent
    <3> QED
      BY <3>1, <3>2
  <2> QED
    BY <2>1 DEF AckedEvent, RecordsKept
<1> QED
  BY <1>1, <1>2, <1>6, <1>7, <1>8 DEF EventInv, ShardRecords

-----------------------------------------------------------------------------
(* Steps that change no shard.                                             *)

SameShards == UNCHANGED <<file, fresh, linked>>

LEMMA QuietShards ==
  ASSUME EventInv, NEW c, SameShards, UNCHANGED today
  PROVE  /\ RecordsKept /\ DatesKept /\ OwnRecords(c)
         /\ \A i \in Inode : Anchored(i)'
         /\ \A i \in Inode : \A x \in file'[i].data : x.ev.date = file'[i].date
<1>1. UNCHANGED <<file, fresh, linked>>
  BY DEF SameShards
<1>2. RecordsKept /\ DatesKept /\ OwnRecords(c)
  BY <1>1 DEF RecordsKept, DatesKept, OwnRecords, Records
<1>3. \A i \in Inode : Anchored(i)'
  BY <1>1 DEF EventInv, Anchored, Expirable
<1> QED
  BY <1>1, <1>2, <1>3 DEF EventInv, ShardRecords

LEMMA ReturnAlone ==
  ASSUME TypeInv, NEW c \in Caller, NEW state \in WriterState, NEW ok \in BOOLEAN, Return(c, state, ok)
  PROVE  /\ Alone(c) /\ pc'[c] = "idle" /\ request'[c] = NoRequest /\ progress'[c] = NoProgress
         /\ writer'[W(c)].handle = state.handle /\ writer'[W(c)].currentDate = state.currentDate
<1>1. Only(c) /\ pc'[c] = "idle"
  BY ReturnOnly DEF TypeInv
<1>2. /\ request'[c] = NoRequest /\ progress'[c] = NoProgress
      /\ \A d \in Caller \ {c} : progress'[d] = progress[d]
      /\ UNCHANGED <<sequence, today>>
  BY DEF Return, TypeInv, TypeOK
<1>3. \/ writer'[W(c)] = state
      \/ writer'[W(c)] = [state EXCEPT !.directoryReady = FALSE]
  BY WriterOfCaller DEF Return, TypeInv, TypeOK
<1>4. writer'[W(c)].handle = state.handle /\ writer'[W(c)].currentDate = state.currentDate
  BY <1>3 DEF WriterState
<1> QED
  BY <1>1, <1>2, <1>4 DEF Alone, NoRequest

LEMMA ContinueAlone ==
  ASSUME TypeInv, NEW c \in Caller, NEW l, NEW state, NEW locals, Continue(c, l, state, locals)
  PROVE  /\ Alone(c) /\ pc'[c] = l /\ writer'[W(c)] = state /\ progress'[c] = locals
         /\ UNCHANGED <<request, acked, rejected>>
BY ContinueOnly DEF TypeInv, TypeOK, Continue, Alone

LEMMA QuietAnswer ==
  ASSUME BoundInv, EventInv, NEW c \in Caller, pc[c] \in Admitted,
         NEW state \in WriterState, NEW ok \in BOOLEAN, Return(c, state, ok),
         \/ state.handle = None
         \/ state.handle = Handle(c) /\ state.currentDate = Same(c).currentDate,
         ok => ~InFlight(c) \/ Written(c),
         ~ok /\ Written(c) => "unlock" \in Faults,
         SameShards
  PROVE  EventInv'
<1>1. /\ Alone(c) /\ pc'[c] = "idle" /\ request'[c] = NoRequest /\ progress'[c] = NoProgress
      /\ writer'[W(c)].handle = state.handle /\ writer'[W(c)].currentDate = state.currentDate
  BY ReturnAlone DEF BoundInv
<1>2. CallInvariant(c)'
  BY <1>1 DEF CallInvariant, CallEvent, CallDate, CallRecords, CallStale, InFlight, Written,
              NoRequest, NoProgress, KeepsHandle, Holding, Appending
<1>3. HandleDate(W(c))'
  BY <1>1, WriterOfCaller DEF HandleDate, EventInv, Handle, Same, SameShards, W
<1>4. Answers(c)
  BY <1>1 DEF Return, Answers, InFlight, NoRequest
<1> QED
  BY <1>1, <1>2, <1>3, <1>4, QuietShards, EventStep DEF Alone

LEMMA QuietProgress ==
  ASSUME BoundInv, EventInv, NEW c \in Caller, pc[c] \in Admitted, InFlight(c),
         pc[c] # "unlock",
         NEW l, NEW state, NEW locals, Continue(c, l, state, locals),
         l \notin {"idle", "unlock", "restore"}, locals.failed => l = "dirUnlock",
         KeepsHandle(l, locals) => state.currentDate = Date(c),
         state.handle # None => file[state.handle].date = state.currentDate,
         \A name \in locals.stale : RetentionDays > 0 /\ Expirable(name[1]),
         SameShards
  PROVE  EventInv'
<1>1. /\ Alone(c) /\ pc'[c] = l /\ writer'[W(c)] = state /\ progress'[c] = locals
      /\ UNCHANGED <<request, acked, rejected>>
  BY ContinueAlone DEF BoundInv
<1>2. UNCHANGED <<sequence, today, file>>
  BY <1>1 DEF Alone, SameShards
<1>3. CallEvent(c)'
  BY <1>1, <1>2 DEF EventInv, CallInvariant, CallEvent, InFlight
<1>4. CallDate(c)' /\ CallStale(c)'
  BY <1>1, <1>2 DEF CallDate, CallStale, Same, Date, W, Expirable
<1>5. CallRecords(c)'
  BY <1>1 DEF CallRecords, Written
<1>6. HandleDate(W(c))'
  BY <1>1, <1>2 DEF HandleDate
<1>7. Answers(c)
  BY <1>1 DEF Answers, Written
<1> QED
  BY <1>1, <1>2, <1>3, <1>4, <1>5, <1>6, <1>7, QuietShards, EventStep DEF CallInvariant

(* A call that returns before it has a line in a shard. *)
LEMMA GivesUpEvents ==
  ASSUME BoundInv, EventInv, NEW c \in Caller,
         FlushActive(c) \/ RejectClosed(c) \/ DirectoryFails(c) \/ LockTimeout(c) \/ LockFails(c)
  PROVE  EventInv'
<1>1. PICK ok \in BOOLEAN : Return(c, Same(c), ok) /\ (ok => ~InFlight(c))
  BY DEF FlushActive, RejectClosed, DirectoryFails, LockTimeout, LockFails, InFlight
<1>2. pc[c] \in Admitted /\ ~Written(c) /\ SameShards
  BY DEF FlushActive, RejectClosed, DirectoryFails, LockTimeout, LockFails, dirVars, Admitted,
         Written, SameShards
<1>3. Same(c) \in WriterState /\ Same(c).handle = Handle(c)
  BY AdmittedFacts DEF BoundInv, Same, Handle
<1> QED
  BY <1>1, <1>2, <1>3, QuietAnswer

LEMMA CloseEvents ==
  ASSUME BoundInv, EventInv, NEW c \in Caller, CloseWriter(c)
  PROVE  EventInv'
<1> DEFINE closed == [CloseHandle(Same(c)) EXCEPT !.closed = TRUE]
<1>1. Same(c) \in WriterState /\ closed \in WriterState
  BY AdmittedFacts, ClosedState, ClosedForGood DEF BoundInv
<1>2. Same(c).handle = Handle(c) /\ closed.handle = None
  BY <1>1 DEF CloseHandle, WriterState, Same, Handle
<1>3. pc[c] \in Admitted /\ ~Written(c) /\ ~InFlight(c) /\ SameShards
  BY DEF CloseWriter, Admitted, Written, InFlight, SameShards
<1>4. PICK state \in {Same(c), closed} : Return(c, state, TRUE)
  BY DEF CloseWriter
<1> HIDE DEF closed
<1> QED
  BY <1>1, <1>2, <1>3, <1>4, QuietAnswer

(* A call that goes on with the handle of its writer. *)
LEMMA GoesOnEvents ==
  ASSUME BoundInv, EventInv, NEW c \in Caller, pc[c] \in Writing, pc[c] # "unlock",
         NEW l, NEW state, NEW locals, Continue(c, l, state, locals),
         l \notin {"idle", "unlock", "restore"}, locals.failed => l = "dirUnlock",
         KeepsHandle(l, locals) => KeepsHandle(pc[c], Locals(c)),
         state.handle = Handle(c), state.currentDate = Same(c).currentDate,
         locals.stale \subseteq Locals(c).stale, SameShards
  PROVE  EventInv'
<1>1. pc[c] \in Admitted /\ InFlight(c)
  BY WriteFacts DEF Writing, InFlight, BoundInv
<1>2. CallInvariant(c) /\ HandleDate(W(c))
  BY WriterOfCaller DEF EventInv
<1>3. KeepsHandle(l, locals) => state.currentDate = Date(c)
  BY <1>2 DEF CallInvariant, CallDate, Locals
<1>4. state.handle # None => file[state.handle].date = state.currentDate
  BY <1>2 DEF HandleDate, Handle, Same
<1>5. \A name \in locals.stale : RetentionDays > 0 /\ Expirable(name[1])
  BY <1>2 DEF CallInvariant, CallStale, Locals
<1> QED
  BY <1>1, <1>3, <1>4, <1>5, QuietProgress

(* A call on which nothing has failed yet. *)
LEMMA NotFailed ==
  ASSUME EventInv, NEW c \in Caller, pc[c] \notin {"dirUnlock", "restore", "unlock"}
  PROVE  ~Locals(c).failed
BY DEF EventInv, CallInvariant, CallEvent, Locals

LEMMA EnsureDirectoryEvents ==
  ASSUME BoundInv, EventInv, NEW c \in Caller, EnsureDirectory(c)
  PROVE  EventInv'
<1> DEFINE state == [Same(c) EXCEPT !.directoryReady = TRUE]
<1>1. PICK l \in {"rotate", "shardLock"} :
         Continue(c, l, state, Locals(c)) /\ (l = "shardLock" => ~NeedsRotation(Same(c), Date(c)))
  BY DEF EnsureDirectory
<1>2. /\ pc[c] \in Admitted /\ pc[c] # "unlock" /\ InFlight(c) /\ SameShards
      /\ pc[c] \notin {"dirUnlock", "restore", "unlock"}
  BY DEF EnsureDirectory, Admitted, InFlight, SameShards
<1>3. state.handle = Handle(c) /\ state.currentDate = Same(c).currentDate
  BY AdmittedFacts DEF BoundInv, WriterState, Handle, Same
<1> HIDE DEF state
<1>4. KeepsHandle(l, Locals(c)) => state.currentDate = Date(c)
  BY <1>1, <1>3 DEF KeepsHandle, Holding, Appending, NeedsRotation
<1>5. state.handle # None => file[state.handle].date = state.currentDate
  BY <1>3, WriterOfCaller DEF EventInv, HandleDate, Handle, Same
<1>6. \A name \in Locals(c).stale : RetentionDays > 0 /\ Expirable(name[1])
  BY DEF EventInv, CallInvariant, CallStale, Locals
<1>7. ~Locals(c).failed
  BY <1>2, NotFailed
<1> QED
  BY <1>1, <1>2, <1>4, <1>5, <1>6, <1>7, QuietProgress

LEMMA WaitsEvents ==
  ASSUME BoundInv, EventInv, NEW c \in Caller,
         OpenLockFile(c) \/ TryDirLock(c) \/ TryShardLock(c) \/ LockRetry(c)
  PROVE  EventInv'
<1>1. /\ pc[c] \in {"rotate", "dirLock", "shardLock", "dirWait", "shardWait"}
      /\ SameShards
  BY DEF OpenLockFile, TryDirLock, TryShardLock, LockRetry, dirVars, SameShards
<1>2. /\ pc[c] \in Writing /\ pc[c] \in Admitted /\ pc[c] # "unlock" /\ ~Written(c)
      /\ pc[c] \notin {"dirUnlock", "restore", "unlock"}
  BY <1>1 DEF Writing, Admitted, Written
<1>3. Same(c) \in WriterState /\ Same(c).handle = Handle(c) /\ ~Locals(c).failed
  BY <1>2, AdmittedFacts, NotFailed DEF BoundInv, Same, Handle
<1>4. CASE Return(c, Same(c), FALSE)
  BY <1>1, <1>2, <1>3, <1>4, QuietAnswer
<1>5. CASE Continue(c, "dirLock", Same(c), [Locals(c) EXCEPT !.lockFile = generation])
  <2> DEFINE locals == [Locals(c) EXCEPT !.lockFile = generation]
  <2>1. ~locals.failed /\ locals.stale = Locals(c).stale
        /\ Continue(c, "dirLock", Same(c), locals)
    BY <1>3, <1>5, AdmittedFacts DEF Progress, BoundInv
  <2> HIDE DEF locals
  <2>2. ~KeepsHandle("dirLock", locals)
    BY DEF KeepsHandle, Holding, Appending
  <2> QED
    BY <1>1, <1>2, <1>3, <2>1, <2>2, GoesOnEvents
<1>6. ASSUME NEW l \in {"discover", "dirWait", "dirLock", "stat", "shardWait", "shardLock"},
             l \in {"stat", "shardWait", "shardLock"} => pc[c] \in {"shardLock", "shardWait"},
             Continue(c, l, Same(c), Locals(c))
      PROVE  EventInv'
  <2>1. KeepsHandle(l, Locals(c)) => KeepsHandle(pc[c], Locals(c))
    BY <1>6 DEF KeepsHandle, Holding, Appending
  <2> QED
    BY <1>1, <1>2, <1>3, <1>6, <2>1, GoesOnEvents
<1> QED
  BY <1>4, <1>5, <1>6 DEF OpenLockFile, TryDirLock, TryShardLock, LockRetry

-----------------------------------------------------------------------------
(* rotate.                                                                 *)

LEMMA RotationFailsEvents ==
  ASSUME BoundInv, EventInv, NEW c \in Caller, pc[c] \in Rotating,
         NEW state, RotationFails(c, state),
         \/ state.handle = None
         \/ state.handle = Handle(c) /\ state.currentDate = Same(c).currentDate,
         SameShards
  PROVE  EventInv'
<1> DEFINE locals == [Locals(c) EXCEPT !.failed = TRUE]
<1>1. locals.failed /\ locals.stale = Locals(c).stale /\ Continue(c, "dirUnlock", state, locals)
  BY AdmittedFacts DEF Progress, BoundInv, RotationFails
<1> HIDE DEF locals
<1>2. pc[c] \in Admitted /\ pc[c] \in Writing /\ pc[c] # "unlock"
  BY DEF Admitted, Writing, Rotating
<1>3. InFlight(c)
  BY <1>2, WriteFacts DEF InFlight, BoundInv
<1>4. ~KeepsHandle("dirUnlock", locals)
  BY <1>1 DEF KeepsHandle, Holding, Appending
<1>5. state.handle # None => file[state.handle].date = state.currentDate
  BY WriterOfCaller DEF EventInv, HandleDate, Handle, Same
<1>6. \A name \in locals.stale : RetentionDays > 0 /\ Expirable(name[1])
  BY <1>1 DEF EventInv, CallInvariant, CallStale, Locals
<1> QED
  BY <1>1, <1>2, <1>3, <1>4, <1>5, <1>6, QuietProgress

LEMMA DiscoverEvents ==
  ASSUME BoundInv, EventInv, NEW c \in Caller, Discover(c)
  PROVE  EventInv'
<1> DEFINE state == CloseHandle(Same(c))
<1>1. state.handle = None
  BY AdmittedFacts DEF CloseHandle, BoundInv, WriterState
<1>2. /\ pc[c] = "discover" /\ pc[c] \in Rotating /\ pc[c] \in Admitted /\ pc[c] \in Writing
      /\ SameShards
  BY DEF Discover, Rotating, Admitted, Writing, SameShards
<1>3. ASSUME NEW k, Continue(c, "probe", state, [Locals(c) EXCEPT !.index = k]) PROVE EventInv'
  <2> DEFINE locals == [Locals(c) EXCEPT !.index = k]
  <2>1. /\ locals.failed = Locals(c).failed /\ locals.stale = Locals(c).stale
        /\ Continue(c, "probe", state, locals)
    BY <1>3, AdmittedFacts DEF Progress, BoundInv
  <2> HIDE DEF locals, state
  <2>2. ~locals.failed /\ ~KeepsHandle("probe", locals)
    BY <1>2, <2>1, NotFailed DEF KeepsHandle, Holding, Appending
  <2>3. \A name \in locals.stale : RetentionDays > 0 /\ Expirable(name[1])
    BY <2>1 DEF EventInv, CallInvariant, CallStale, Locals
  <2>4. InFlight(c)
    BY <1>2, WriteFacts DEF InFlight, BoundInv
  <2> QED
    BY <1>1, <1>2, <2>1, <2>2, <2>3, <2>4, QuietProgress
<1>4. CASE RotationFails(c, state)
  <2> HIDE DEF state
  <2> QED
    BY <1>1, <1>2, <1>4, RotationFailsEvents
<1> QED
  BY <1>3, <1>4 DEF Discover

(* The shard that rotate opens has the date of the event. *)
LEMMA ProbeEvents ==
  ASSUME BoundInv, EventInv, NEW c \in Caller, ProbeFull(c) \/ OpenShard(c) \/ OpenFails(c)
  PROVE  EventInv'
<1>1. /\ pc[c] = "probe" /\ pc[c] \in Rotating /\ pc[c] \in Admitted /\ pc[c] \in Writing
      /\ SameShards
  BY DEF ProbeFull, OpenShard, OpenFails, dirVars, Rotating, Admitted, Writing, SameShards
<1>2. ~Locals(c).failed /\ InFlight(c) /\ Same(c).handle = Handle(c)
  BY <1>1, NotFailed, WriteFacts DEF InFlight, BoundInv, Same, Handle
<1>3. CASE ProbeFull(c)
  <2> DEFINE locals == [Locals(c) EXCEPT !.index = @ + 1]
  <2>1. /\ ~locals.failed /\ locals.stale = Locals(c).stale
        /\ Continue(c, "probe", Same(c), locals)
    BY <1>2, <1>3, AdmittedFacts DEF Progress, BoundInv, ProbeFull
  <2> HIDE DEF locals
  <2>2. ~KeepsHandle("probe", locals)
    BY DEF KeepsHandle, Holding, Appending
  <2> QED
    BY <1>1, <1>2, <2>1, <2>2, GoesOnEvents
<1>4. CASE OpenShard(c)
  <2>1. PICK i \in Named(Date(c), Locals(c).index) :
           Continue(c, "retain", Opened(c, i, file[i].size), Locals(c))
    BY <1>4 DEF OpenShard
  <2> DEFINE state == Opened(c, i, file[i].size)
  <2>2. state.handle = i /\ state.currentDate = Date(c)
    BY AdmittedFacts DEF Opened, BoundInv, WriterState
  <2>3. file[i].date = Date(c)
    BY DEF Named
  <2>4. Continue(c, "retain", state, Locals(c))
    BY <2>1
  <2> HIDE DEF state
  <2>5. \A name \in Locals(c).stale : RetentionDays > 0 /\ Expirable(name[1])
    BY DEF EventInv, CallInvariant, CallStale, Locals
  <2> QED
    BY <1>1, <1>2, <2>2, <2>3, <2>4, <2>5, QuietProgress
<1>5. CASE OpenFails(c)
  BY <1>1, <1>2, <1>5, RotationFailsEvents DEF OpenFails
<1> QED
  BY <1>3, <1>4, <1>5

LEMMA RetentionEvents ==
  ASSUME BoundInv, EventInv, NEW c \in Caller, ApplyRetention(c) \/ SweepDone(c)
  PROVE  EventInv'
<1> DEFINE swept == [Same(c) EXCEPT !.retentionAppliedTo = Date(c)]
           old == {name \in Names : Expirable(name[1])}
           sweeping == [Locals(c) EXCEPT !.stale = old]
<1>1. /\ pc[c] \in {"retain", "sweep"} /\ pc[c] \in Rotating /\ pc[c] \in Admitted
      /\ pc[c] \in Writing /\ pc[c] # "unlock" /\ SameShards
  BY DEF ApplyRetention, SweepDone, dirVars, Rotating, Admitted, Writing, SameShards
<1>2. ~Locals(c).failed /\ InFlight(c) /\ Same(c).handle = Handle(c) /\ CallInvariant(c)
  BY <1>1, NotFailed, WriteFacts DEF InFlight, BoundInv, Same, Handle, EventInv
<1>3. /\ swept.handle = Handle(c) /\ swept.currentDate = Same(c).currentDate
      /\ CloseHandle(swept).handle = None
  BY AdmittedFacts DEF BoundInv, CloseHandle, WriterState, Same, Handle
<1>4. KeepsHandle(pc[c], Locals(c))
  BY <1>1 DEF KeepsHandle, Holding
<1>5. CASE Continue(c, "dirUnlock", Same(c), Locals(c))
  BY <1>1, <1>2, <1>4, <1>5, GoesOnEvents
<1>6. CASE SweepIsDue(Same(c), Date(c)) /\ Continue(c, "sweep", swept, sweeping)
  <2>1. ~sweeping.failed /\ sweeping.stale = old
    BY <1>2, AdmittedFacts DEF BoundInv, Progress
  <2>2. \A name \in old : RetentionDays > 0 /\ Expirable(name[1])
    BY <1>6 DEF SweepIsDue
  <2> HIDE DEF swept, old, sweeping
  <2>3. swept.currentDate = Date(c)
    BY <1>2, <1>3, <1>4 DEF CallInvariant, CallDate, Locals
  <2>4. swept.handle # None => file[swept.handle].date = swept.currentDate
    BY <1>3, WriterOfCaller DEF EventInv, HandleDate, Handle, Same
  <2> QED
    BY <1>1, <1>2, <1>6, <2>1, <2>2, <2>3, <2>4, QuietProgress
<1>7. CASE RotationFails(c, CloseHandle(swept))
  <2> HIDE DEF swept
  <2> QED
    BY <1>1, <1>3, <1>7, RotationFailsEvents
<1> QED
  BY <1>5, <1>6, <1>7 DEF ApplyRetention, SweepDone

LEMMA UnlockDirectoryEvents ==
  ASSUME BoundInv, EventInv, NEW c \in Caller, UnlockDirectory(c)
  PROVE  EventInv'
<1>1. /\ pc[c] = "dirUnlock" /\ pc[c] \in Admitted /\ pc[c] \in Writing
      /\ ~Written(c) /\ SameShards
  BY DEF UnlockDirectory, Admitted, Writing, Rotating, Written, SameShards
<1>2. Same(c) \in WriterState /\ Same(c).handle = Handle(c)
  BY AdmittedFacts DEF BoundInv, Same, Handle
<1>3. CASE Return(c, Same(c), FALSE)
  BY <1>1, <1>2, <1>3, QuietAnswer
<1>4. CASE ~Locals(c).failed /\ Continue(c, "shardLock", Same(c), NoProgress)
  <2>1. ~NoProgress.failed /\ NoProgress.stale = {}
    BY DEF NoProgress
  <2>2. KeepsHandle(pc[c], Locals(c))
    BY <1>1, <1>4 DEF KeepsHandle
  <2> QED
    BY <1>1, <1>2, <1>4, <2>1, <2>2, GoesOnEvents
<1> QED
  BY <1>3, <1>4 DEF UnlockDirectory

(* What a sweep removes had expired. *)
LEMMA SweepEvents ==
  ASSUME BoundInv, EventInv, NEW c \in Caller, SweepOne(c)
  PROVE  EventInv'
<1>1. /\ pc[c] = "sweep" /\ pc[c] \in Rotating /\ pc[c] \in Admitted /\ pc[c] \in Writing
      /\ UNCHANGED <<file, fresh>>
  BY DEF SweepOne, Rotating, Admitted, Writing
<1>2. CloseHandle(Same(c)).handle = None
  BY AdmittedFacts DEF BoundInv, CloseHandle, WriterState
<1>3. CASE RotationFails(c, CloseHandle(Same(c))) /\ UNCHANGED linked
  BY <1>1, <1>2, <1>3, RotationFailsEvents DEF SameShards
<1>4. ASSUME NEW name \in Locals(c).stale, linked' = linked \ Named(name[1], name[2]),
             Continue(c, "sweep", Same(c), [Locals(c) EXCEPT !.stale = @ \ {name}])
      PROVE  EventInv'
  <2> DEFINE locals == [Locals(c) EXCEPT !.stale = @ \ {name}]
  <2>1. /\ locals.failed = Locals(c).failed /\ locals.stale \subseteq Locals(c).stale
        /\ Continue(c, "sweep", Same(c), locals)
    BY <1>4, AdmittedFacts DEF Progress, BoundInv
  <2> HIDE DEF locals
  <2>2. /\ Alone(c) /\ pc'[c] = "sweep" /\ writer'[W(c)] = Same(c) /\ progress'[c] = locals
        /\ UNCHANGED <<request, acked, rejected, sequence, today>>
    BY <2>1, ContinueAlone DEF BoundInv, Alone
  <2>3. CallInvariant(c)
    BY DEF EventInv
  <2>4. RetentionDays > 0 /\ Expirable(name[1])
    BY <1>4, <2>3 DEF CallInvariant, CallStale, Locals
  <2>5. ASSUME NEW i \in Inode PROVE Anchored(i)'
    <3>1. Anchored(i)
      BY DEF EventInv
    <3>2. i \in linked /\ i \notin linked' => file[i].date = name[1]
      BY <1>4 DEF Named
    <3> QED
      BY <1>1, <2>2, <2>4, <3>1, <3>2 DEF Anchored, Expirable
  <2>6. CallEvent(c)' /\ CallRecords(c)'
    BY <1>1, <2>1, <2>2, <2>3 DEF CallInvariant, CallEvent, CallRecords, Written, InFlight, Locals
  <2>7. CallDate(c)' /\ CallStale(c)'
    <3>1. KeepsHandle(pc[c], progress[c])
      BY <1>1 DEF KeepsHandle, Holding
    <3> QED
      BY <2>1, <2>2, <2>3, <3>1
      DEF CallInvariant, CallDate, CallStale, Same, Locals, Date, W, Expirable
  <2>8. HandleDate(W(c))'
    BY <1>1, <2>2, WriterOfCaller DEF EventInv, HandleDate, Same
  <2>9. RecordsKept /\ DatesKept /\ OwnRecords(c)
    BY <1>1 DEF RecordsKept, DatesKept, OwnRecords, Records
  <2>10. \A i \in Inode : \A x \in file'[i].data : x.ev.date = file'[i].date
    BY <1>1 DEF EventInv, ShardRecords
  <2>11. Answers(c)
    BY <1>1, <2>2 DEF Answers, Written
  <2> QED
    BY <1>1, <2>2, <2>5, <2>6, <2>7, <2>8, <2>9, <2>10, <2>11, EventStep DEF CallInvariant
<1> QED
  BY <1>3, <1>4 DEF SweepOne

-----------------------------------------------------------------------------
(* Under the lock on a shard.                                              *)

LEMMA StatEvents ==
  ASSUME BoundInv, EventInv, NEW c \in Caller, StatShard(c) \/ StatFails(c)
  PROVE  EventInv'
<1> DEFINE sized == [Same(c) EXCEPT !.currentSize = file[Handle(c)].size]
<1>1. /\ pc[c] = "stat" /\ pc[c] \in Appending /\ pc[c] \in Admitted /\ pc[c] \in Writing
      /\ ~Written(c) /\ SameShards
  BY DEF StatShard, StatFails, Appending, Admitted, Writing, Written, SameShards
<1>2. Same(c) \in WriterState /\ file[Handle(c)].size \in Nat
  BY <1>1, AppendingFacts
<1>3. /\ sized \in WriterState
      /\ sized.handle = Handle(c) /\ sized.currentDate = Same(c).currentDate
      /\ Same(c).handle = Handle(c)
  BY <1>2 DEF WriterState, Same, Handle
<1>4. ~Locals(c).failed /\ KeepsHandle(pc[c], Locals(c))
  BY <1>1, NotFailed DEF KeepsHandle, Holding
<1> HIDE DEF sized
<1>5. ASSUME NEW state \in {Same(c), sized}, Return(c, state, FALSE) PROVE EventInv'
  BY <1>1, <1>2, <1>3, <1>5, QuietAnswer
<1>6. ASSUME NEW l \in {"append", "rotate"}, Continue(c, l, sized, Locals(c)) PROVE EventInv'
  BY <1>1, <1>3, <1>4, <1>6, GoesOnEvents
<1> QED
  BY <1>5, <1>6 DEF StatShard, StatFails, sized

(* Only a failed unlock denies a line that was written. *)
LEMMA UnlockShardEvents ==
  ASSUME BoundInv, EventInv, NEW c \in Caller, UnlockShard(c)
  PROVE  EventInv'
<1> DEFINE grown == [Same(c) EXCEPT !.currentSize = @ + Line(c)]
<1>1. /\ pc[c] = "unlock" /\ pc[c] \in Appending /\ pc[c] \in Admitted
      /\ SameShards
  BY DEF UnlockShard, Appending, Admitted, SameShards
<1>2. Same(c) \in WriterState /\ Same(c).currentSize \in Nat /\ Line(c) \in Nat
  BY <1>1, AppendingFacts
<1>3. grown \in WriterState
  BY <1>2 DEF WriterState
<1>4. /\ grown.handle = Handle(c) /\ grown.currentDate = Same(c).currentDate
      /\ Same(c).handle = Handle(c)
  BY <1>2 DEF WriterState, Same, Handle
<1>5. Locals(c).failed \in BOOLEAN /\ (Written(c) <=> ~Locals(c).failed)
  BY <1>1, AdmittedFacts DEF BoundInv, Progress, Written, Locals
<1> HIDE DEF grown
<1>6. PICK state \in {Same(c), grown}, ok \in BOOLEAN :
         /\ Return(c, state, ok)
         /\ ok = ~Locals(c).failed \/ (~ok /\ Fails("unlock"))
  <2>1. (IF Locals(c).failed THEN Same(c) ELSE grown) \in {Same(c), grown}
    OBVIOUS
  <2> QED
    BY <1>5, <2>1 DEF UnlockShard, grown
<1>7. (ok => Written(c)) /\ (~ok /\ Written(c) => "unlock" \in Faults)
  BY <1>5, <1>6 DEF Fails
<1> QED
  BY <1>1, <1>2, <1>3, <1>4, <1>6, <1>7, QuietAnswer

(* A call appends to a shard of the date of its event. *)
LEMMA AppendedDate ==
  ASSUME BoundInv, EventInv, NEW c \in Caller, pc[c] \in Appending
  PROVE  file[Handle(c)].date = request[c].event.date /\ Handle(c) < fresh
<1>1. KeepsHandle(pc[c], progress[c]) /\ Handle(c) # None
  BY HandleFacts DEF BoundInv, Same, Handle, Locals
<1>2. CallInvariant(c) /\ HandleDate(W(c))
  BY WriterOfCaller DEF EventInv
<1>3. Same(c).currentDate = Date(c)
  BY <1>1, <1>2 DEF CallInvariant, CallDate
<1> QED
  BY <1>1, <1>2, <1>3, HandleBelowFresh DEF HandleDate, Handle, Same, Date

(* A step of a call that has the lock writes nothing of another event.     *)
LEMMA AppendingEvents ==
  ASSUME BoundInv, EventInv, NEW c \in Caller, pc[c] \in {"append", "restore"},
         NEW l \in {"unlock", "restore"}, NEW locals, Continue(c, l, Same(c), locals),
         l = "restore" => locals.failed, locals.stale = Locals(c).stale,
         UNCHANGED <<fresh, linked>>,
         \A j \in Inode : file'[j].date = file[j].date,
         \A j \in Inode \ {Handle(c)} : file'[j] = file[j],
         \A x \in file'[Handle(c)].data :
            x \in file[Handle(c)].data \/ x.ev = request[c].event,
         RecordsKept, OwnRecords(c), CallRecords(c)'
  PROVE  EventInv'
<1>1. /\ Alone(c) /\ pc'[c] = l /\ writer'[W(c)] = Same(c) /\ progress'[c] = locals
      /\ UNCHANGED <<request, acked, rejected, sequence, today>>
  BY ContinueAlone DEF BoundInv, Alone
<1>2. /\ pc[c] \in Appending /\ pc[c] \in Admitted /\ Handle(c) \in Inode
      /\ KeepsHandle(pc[c], progress[c]) /\ Handle(c) # None
  BY HandleFacts DEF Appending, BoundInv, Same, Handle, Locals
<1>3. CallInvariant(c) /\ HandleDate(W(c))
  BY WriterOfCaller DEF EventInv
<1>4. CallEvent(c)' /\ CallDate(c)' /\ CallStale(c)'
  <2>1. CallEvent(c)'
    BY <1>1, <1>3 DEF CallInvariant, CallEvent, InFlight
  <2>2. CallDate(c)' /\ CallStale(c)'
    BY <1>1, <1>2, <1>3 DEF CallInvariant, CallDate, CallStale, Same, Locals, Date, W, Expirable
  <2> QED
    BY <2>1, <2>2
<1>5. HandleDate(W(c))'
  BY <1>1, <1>2, <1>3, WriterOfCaller DEF HandleDate, Same, Handle
<1>6. DatesKept
  BY DEF DatesKept
<1>7. file[Handle(c)].date = request[c].event.date /\ Handle(c) < fresh
  BY <1>2, AppendedDate
<1>8. \A i \in Inode : \A x \in file'[i].data : x.ev.date = file'[i].date
  BY <1>7 DEF EventInv, ShardRecords
<1>9. ASSUME NEW i \in Inode PROVE Anchored(i)'
  <2>1. CASE i = Handle(c)
    <3>1. fresh \in Int /\ i \in Int
      BY BoundAssumption DEF BoundInv, TypeInv, TypeOK, DirTypeOK, Inode
    <3>2. ~(i >= fresh)
      BY <1>7, <2>1, <3>1
    <3> QED
      BY <1>1, <3>2 DEF EventInv, Anchored, Expirable
  <2>2. CASE i # Handle(c)
    BY <1>1, <2>2 DEF EventInv, Anchored, Expirable
  <2> QED
    BY <2>1, <2>2
<1>10. Answers(c)
  BY <1>1 DEF Answers, Written
<1> QED
  BY <1>1, <1>2, <1>4, <1>5, <1>6, <1>8, <1>9, <1>10, EventStep DEF CallInvariant

LEMMA ExtendRecords ==
  ASSUME TypeInv, NEW i \in Inode, NEW e, NEW kind, NEW n, Extend(i, e, kind, n)
  PROVE  /\ \A j \in Inode \ {i} : file'[j] = file[j]
         /\ \A j \in Inode : file'[j].date = file[j].date
         /\ \E x : x.ev = e /\ x.kind = kind /\ file'[i].data = file[i].data \cup {x}
<1> DEFINE last == [ev |-> e, kind |-> kind,
                    start |-> file[i].size, end |-> file[i].size + n]
<1>1. last.ev = e /\ last.kind = kind
  OBVIOUS
<1>2. file' = [file EXCEPT ![i] = Holds(file[i], file[i].size + n, file[i].data \cup {last})]
  BY DEF Extend
<1> HIDE DEF last
<1>3. /\ \A j \in Inode \ {i} : file'[j] = file[j]
      /\ file'[i].date = file[i].date /\ file'[i].data = file[i].data \cup {last}
  BY <1>2 DEF Holds, TypeInv, TypeOK, DirTypeOK
<1> QED
  BY <1>1, <1>3

LEMMA AppendEvents ==
  ASSUME BoundInv, EventInv, NEW c \in Caller, Append(c)
  PROVE  EventInv'
<1>1. /\ pc[c] = "append" /\ pc[c] \in Appending
      /\ Extend(Handle(c), request[c].event, "record", Line(c))
      /\ Continue(c, "unlock", Same(c), Locals(c)) /\ UNCHANGED <<fresh, linked>>
  BY DEF Append, Appending
<1>2. PICK i \in Inode : i = Handle(c)
  BY <1>1, AppendingFacts
<1>3. /\ \A j \in Inode \ {i} : file'[j] = file[j]
      /\ \A j \in Inode : file'[j].date = file[j].date
      /\ \E x : /\ x.ev = request[c].event /\ x.kind = "record"
                /\ file'[i].data = file[i].data \cup {x}
  BY <1>1, <1>2, ExtendRecords DEF BoundInv
<1>4. PICK x : /\ x.ev = request[c].event /\ x.kind = "record"
               /\ file'[i].data = file[i].data \cup {x}
  BY <1>3
<1>5. /\ pc'[c] = "unlock" /\ writer'[W(c)] = Same(c) /\ progress'[c] = Locals(c)
      /\ UNCHANGED <<request, rejected>>
  BY <1>1, ContinueAlone DEF BoundInv
<1>6. Records(i)' = Records(i) \cup {x} /\ \A j \in Inode \ {i} : Records(j)' = Records(j)
  BY <1>3, <1>4 DEF Records
<1>7. ~Locals(c).failed
  BY <1>1, NotFailed
<1>8. RecordsKept
  BY <1>6 DEF RecordsKept
<1>9. OwnRecords(c)
  BY <1>1, <1>2, <1>4, <1>5, <1>6, <1>7 DEF OwnRecords, Written
<1>10. CallRecords(c)'
  <2>1. Records(Handle(c))' = Records(i)'
    BY <1>2, <1>5 DEF Records, Handle, Same, W
  <2> QED
    BY <1>4, <1>5, <1>6, <2>1 DEF CallRecords
<1> QED
  BY <1>1, <1>2, <1>3, <1>4, <1>8, <1>9, <1>10, AppendingEvents

(* An append that fails leaves no record, and a repair takes none away.    *)
LEMMA NoRecord ==
  ASSUME BoundInv, EventInv, NEW c \in Caller, pc[c] \in {"append", "restore"},
         NEW kind \in {"fragment", "newline"}, NEW n, Extend(Handle(c), request[c].event, kind, n)
  PROVE  /\ \A j \in Inode \ {Handle(c)} : file'[j] = file[j]
         /\ \A j \in Inode : file'[j].date = file[j].date /\ Records(j)' = Records(j)
         /\ \A x \in file'[Handle(c)].data :
               x \in file[Handle(c)].data \/ x.ev = request[c].event
<1>1. PICK i \in Inode : i = Handle(c)
  BY AppendingFacts DEF Appending
<1>2. /\ \A j \in Inode \ {i} : file'[j] = file[j]
      /\ \A j \in Inode : file'[j].date = file[j].date
      /\ \E x : /\ x.ev = request[c].event /\ x.kind = kind
                /\ file'[i].data = file[i].data \cup {x}
  BY <1>1, ExtendRecords DEF BoundInv
<1>3. Records(i)' = Records(i) /\ \A j \in Inode \ {i} : Records(j)' = Records(j)
  BY <1>2 DEF Records
<1> QED
  BY <1>1, <1>2, <1>3

LEMMA AppendFailsEvents ==
  ASSUME BoundInv, EventInv, NEW c \in Caller, AppendFails(c)
  PROVE  EventInv'
<1> DEFINE locals == [Locals(c) EXCEPT !.failed = TRUE]
<1>1. pc[c] = "append" /\ pc[c] \in Appending /\ UNCHANGED <<fresh, linked>>
  BY DEF AppendFails, Appending
<1>2. locals.failed /\ locals.stale = Locals(c).stale
  BY AdmittedFacts DEF BoundInv, Progress
<1>3. /\ \/ Continue(c, "unlock", Same(c), locals) /\ UNCHANGED file
         \/ /\ \E n \in 1 .. Line(c) - 1 : Extend(Handle(c), request[c].event, "fragment", n)
            /\ Continue(c, "restore", Same(c), locals)
  BY DEF AppendFails
<1> HIDE DEF locals
<1>4. PICK l \in {"unlock", "restore"} : Continue(c, l, Same(c), locals)
  BY <1>3
<1>5. /\ \A j \in Inode \ {Handle(c)} : file'[j] = file[j]
      /\ \A j \in Inode : file'[j].date = file[j].date /\ Records(j)' = Records(j)
      /\ \A x \in file'[Handle(c)].data :
            x \in file[Handle(c)].data \/ x.ev = request[c].event
  BY <1>1, <1>3, NoRecord DEF Records
<1>6. RecordsKept /\ OwnRecords(c)
  BY <1>5 DEF RecordsKept, OwnRecords
<1>7. CallRecords(c)'
  <2>1. PICK i \in Inode : i = Handle(c)
    BY <1>1, AppendingFacts
  <2>2. /\ pc'[c] = l /\ writer'[W(c)] = writer[W(c)] /\ progress'[c] = locals
    BY <1>4, ContinueAlone DEF BoundInv, Same
  <2>3. Records(Handle(c))' = Records(i)' /\ Same(c)' = Same(c)
    BY <2>1, <2>2 DEF Records, Handle, Same, W
  <2>4. \A x \in Records(i) : x.end <= Same(c).currentSize
    <3>1. Same(c).currentSize = file[i].size /\ file[i].size \in Nat
      BY <1>1, <2>1, AppendingFacts DEF BoundInv, CallBound, SizeKnown
    <3>2. \A x \in Records(i) : x.end \in 1 .. file[i].size
      BY DEF BoundInv, ExtentsWithin, Records
    <3> QED
      BY <3>1, <3>2
  <2> QED
    BY <1>2, <1>5, <2>2, <2>3, <2>4 DEF CallRecords, Written
<1> QED
  BY <1>1, <1>2, <1>4, <1>5, <1>6, <1>7, AppendingEvents

LEMMA RestoreRecords ==
  ASSUME BoundInv, EventInv, NEW c \in Caller, RestoreLineBoundary(c)
  PROVE  /\ \A j \in Inode \ {Handle(c)} : file'[j] = file[j]
         /\ \A j \in Inode : file'[j].date = file[j].date /\ Records(j)' = Records(j)
         /\ \A x \in file'[Handle(c)].data :
               x \in file[Handle(c)].data \/ x.ev = request[c].event
<1>1. pc[c] = "restore" /\ pc[c] \in Appending
  BY DEF RestoreLineBoundary, Appending
<1>2. PICK i \in Inode : i = Handle(c)
  BY <1>1, AppendingFacts
<1>3. CASE Truncate(Handle(c), Same(c).currentSize)
  <2> DEFINE size == Same(c).currentSize
  <2>1. \A x \in Records(i) : x.end <= size
    BY <1>1, <1>2 DEF EventInv, CallInvariant, CallRecords
  <2>2. file' = [file EXCEPT ![i] = Holds(file[i], size, {x \in file[i].data : x.end <= size})]
    BY <1>2, <1>3 DEF Truncate
  <2> HIDE DEF size
  <2>3. /\ \A j \in Inode \ {i} : file'[j] = file[j]
        /\ file'[i].date = file[i].date
        /\ file'[i].data = {x \in file[i].data : x.end <= size}
    BY <2>2 DEF Holds, BoundInv, TypeInv, TypeOK, DirTypeOK
  <2>4. Records(i)' = Records(i) /\ \A j \in Inode \ {i} : Records(j)' = Records(j)
    BY <2>1, <2>3 DEF Records
  <2> QED
    BY <1>2, <2>3, <2>4
<1>4. CASE Extend(Handle(c), request[c].event, "newline", 1)
  BY <1>1, <1>4, NoRecord
<1>5. CASE UNCHANGED file
  BY <1>5 DEF Records
<1> QED
  BY <1>3, <1>4, <1>5 DEF RestoreLineBoundary

LEMMA RestoreEvents ==
  ASSUME BoundInv, EventInv, NEW c \in Caller, RestoreLineBoundary(c)
  PROVE  EventInv'
<1>1. /\ pc[c] = "restore" /\ pc[c] \in Appending /\ UNCHANGED <<fresh, linked>>
      /\ Continue(c, "unlock", Same(c), Locals(c))
  BY DEF RestoreLineBoundary, Appending
<1>2. /\ \A j \in Inode \ {Handle(c)} : file'[j] = file[j]
      /\ \A j \in Inode : file'[j].date = file[j].date /\ Records(j)' = Records(j)
      /\ \A x \in file'[Handle(c)].data :
            x \in file[Handle(c)].data \/ x.ev = request[c].event
  BY RestoreRecords
<1>3. RecordsKept /\ OwnRecords(c)
  BY <1>2 DEF RecordsKept, OwnRecords
<1>4. CallRecords(c)'
  <2>1. pc'[c] = "unlock" /\ progress'[c] = progress[c]
    BY <1>1, ContinueAlone DEF BoundInv, Locals
  <2>2. progress[c].failed
    BY <1>1 DEF EventInv, CallInvariant, CallEvent
  <2> QED
    BY <2>1, <2>2 DEF CallRecords, Written
<1> QED
  BY <1>1, <1>2, <1>3, <1>4, AppendingEvents

-----------------------------------------------------------------------------
(* A new shard is empty, and the handle of its writer.                     *)

LEMMA CreateRecords ==
  ASSUME BoundInv, EventInv, NEW c \in Caller, CreateShard(c)
  PROVE  \A i \in Inode : /\ Records(i)' = Records(i)
                          /\ i = fresh => Records(i) = {}
<1> SUFFICES ASSUME NEW i \in Inode
             PROVE  Records(i)' = Records(i) /\ (i = fresh => Records(i) = {})
  OBVIOUS
<1>1. /\ file'[fresh].data = {} /\ \A j \in Inode \ {fresh} : file'[j] = file[j]
      /\ fresh \in Nat /\ fresh \in Inode
  BY BoundAssumption DEF CreateShard, Create, EmptyShard, BoundInv, TypeInv, TypeOK, DirTypeOK, Inode
<1>2. CASE i = fresh
  <2>1. file[i].data = {}
    BY <1>1, <1>2 DEF EventInv, Anchored
  <2>2. file'[i].data = {}
    BY <1>1, <1>2
  <2> QED
    BY <2>1, <2>2 DEF Records
<1>3. CASE i # fresh
  BY <1>1, <1>3 DEF Records
<1> QED
  BY <1>2, <1>3

LEMMA CreateEvents ==
  ASSUME BoundInv, EventInv, NEW c \in Caller, CreateShard(c)
  PROVE  EventInv'
<1> DEFINE opened == Opened(c, fresh, 0)
           failing == [Locals(c) EXCEPT !.failed = TRUE]
<1>1. /\ pc[c] = "probe" /\ pc[c] \in Admitted /\ pc[c] \in Writing
      /\ fresh \in Inode /\ fresh \in Nat /\ fresh' = fresh + 1 /\ linked' = linked \cup {fresh}
  BY BoundAssumption DEF CreateShard, Create, Admitted, Rotating, Writing, Inode
<1>2. /\ file'[fresh].date = Date(c) /\ file'[fresh].data = {}
      /\ \A i \in Inode \ {fresh} : file'[i] = file[i]
  BY <1>1 DEF CreateShard, Create, EmptyShard, BoundInv, TypeInv, TypeOK, DirTypeOK
<1>3. /\ opened.handle = fresh /\ opened.currentDate = Date(c)
      /\ failing.failed /\ failing.stale = Locals(c).stale
  BY AdmittedFacts DEF Opened, BoundInv, WriterState, Progress
<1>4. \/ Continue(c, "retain", opened, Locals(c))
      \/ Continue(c, "dirUnlock", Same(c), failing)
  BY DEF CreateShard, RotationFails
<1> HIDE DEF opened, failing
<1>5. PICK l, state, locals :
         /\ Continue(c, l, state, locals)
         /\ \/ l = "retain" /\ state = opened /\ locals = Locals(c)
            \/ l = "dirUnlock" /\ state = Same(c) /\ locals = failing
  BY <1>4
<1>6. /\ Alone(c) /\ pc'[c] = l /\ writer'[W(c)] = state /\ progress'[c] = locals
      /\ UNCHANGED <<request, acked, rejected, sequence, today>>
  BY <1>5, ContinueAlone DEF BoundInv, Alone
<1>7. \A i \in Inode : i \in Int
  BY BoundAssumption DEF Inode
<1>8. \A i \in Inode : Records(i)' = Records(i)
  BY CreateRecords
<1>9. RecordsKept /\ OwnRecords(c) /\ DatesKept
  <2>1. RecordsKept /\ OwnRecords(c)
    BY <1>8 DEF RecordsKept, OwnRecords
  <2>2. DatesKept
    BY <1>1, <1>2, <1>7 DEF DatesKept
  <2> QED
    BY <2>1, <2>2
<1>10. ASSUME NEW i \in Inode PROVE Anchored(i)'
  <2>1. CASE i = fresh
    BY <1>1, <1>2, <2>1 DEF Anchored
  <2>2. CASE i # fresh
    <3>1. i >= fresh' => i >= fresh
      BY <1>1, <1>7
    <3>2. i >= fresh => i >= fresh'
      BY <1>1, <1>7, <2>2
    <3> QED
      BY <1>1, <1>2, <1>6, <2>2, <3>1, <3>2 DEF EventInv, Anchored, Expirable
  <2> QED
    BY <2>1, <2>2
<1>11. \A i \in Inode : \A x \in file'[i].data : x.ev.date = file'[i].date
  BY <1>2 DEF EventInv, ShardRecords
<1>12. CallInvariant(c) /\ ~Locals(c).failed /\ InFlight(c)
  BY <1>1, NotFailed, WriteFacts DEF EventInv, InFlight, BoundInv
<1>13. CallEvent(c)' /\ CallRecords(c)'
  BY <1>3, <1>5, <1>6, <1>12 DEF CallInvariant, CallEvent, CallRecords, InFlight, Written
<1>14. CallDate(c)' /\ CallStale(c)'
  <2>1. ~KeepsHandle("dirUnlock", failing)
    BY <1>3 DEF KeepsHandle, Holding, Appending
  <2>2. CallDate(c)'
    BY <1>3, <1>5, <1>6, <2>1 DEF CallDate, Same, Date, W
  <2>3. CallStale(c)'
    BY <1>3, <1>5, <1>6, <1>12 DEF CallInvariant, CallStale, Locals, Expirable
  <2> QED
    BY <2>2, <2>3
<1>15. HandleDate(W(c))'
  <2>1. CASE state = opened
    BY <1>2, <1>3, <1>6, <2>1 DEF HandleDate
  <2>2. CASE state = Same(c)
    <3>1. state.handle # None => state.handle \in Inode \ {fresh}
      BY <1>1, <1>7, <2>2, AdmittedFacts, HandleBelowFresh DEF BoundInv, WriterState
    <3> QED
      BY <1>2, <1>6, <2>2, <3>1, WriterOfCaller DEF EventInv, HandleDate, Same
  <2> QED
    BY <1>5, <2>1, <2>2
<1>16. Answers(c)
  BY <1>1, <1>6 DEF Answers, Written
<1> QED
  BY <1>1, <1>6, <1>9, <1>10, <1>11, <1>13, <1>14, <1>15, <1>16, EventStep DEF CallInvariant

-----------------------------------------------------------------------------
(* What is not a step of a call past the gate.                             *)

(* A call outside of the gate has no line; it may get an event that nobody *)
(* had before, or return an error for the one it has.                      *)
LEMMA OutsideEvents ==
  ASSUME BoundInv, EventInv, NEW c \in Caller, pc[c] \in {"idle", "gate"},
         NEW l \in {"idle", "gate", "admitted"}, Goto(c, l),
         UNCHANGED <<dirVars, writer, progress, today, acked>>,
         \A d \in Caller \ {c} : request'[d] = request[d] /\ sequence'[d] = sequence[d],
         sequence'[c] \in Nat, sequence'[c] >= sequence[c],
         InFlight(c)' => /\ l # "idle"
                         /\ request'[c].event.caller = c
                         /\ request'[c].event.sequence = sequence'[c]
                         /\ request'[c] = request[c] \/ ~Known(request'[c].event),
         \A e \in rejected' :
            e \in rejected \/ (InFlight(c) /\ e = request[c].event /\ ~InFlight(c)')
  PROVE  EventInv'
<1>1. /\ pc'[c] = l /\ \A d \in Caller \ {c} : pc'[d] = pc[d]
      /\ UNCHANGED <<file, fresh, linked>>
  BY DEF Goto, BoundInv, TypeInv, TypeOK, dirVars
<1>2. ~Written(c) /\ ~Written(c)'
  BY <1>1 DEF Written
<1>3. ASSUME NEW d \in Caller PROVE CallInvariant(d)'
  <2>1. CallInvariant(d)
    BY DEF EventInv
  <2>2. CASE d = c
    <3>1. CallEvent(c)'
      BY <1>1, <2>1, <2>2 DEF CallInvariant, CallEvent, InFlight
    <3>2. CallDate(c)' /\ CallRecords(c)'
      BY <1>1, <1>2 DEF CallDate, CallRecords, KeepsHandle, Holding, Appending
    <3>3. CallStale(c)'
      BY <2>1, <2>2 DEF CallInvariant, CallStale, Expirable
    <3> QED
      BY <2>2, <3>1, <3>2, <3>3 DEF CallInvariant
  <2>3. CASE d # c
    <3>1. /\ pc'[d] = pc[d] /\ request'[d] = request[d] /\ sequence'[d] = sequence[d]
          /\ progress'[d] = progress[d] /\ UNCHANGED <<writer, today, file>>
      BY <1>1, <2>3
    <3>2. CallEvent(d)' /\ CallStale(d)'
      BY <2>1, <3>1 DEF CallInvariant, CallEvent, CallStale, InFlight, Expirable
    <3>3. CallDate(d)' /\ CallRecords(d)'
      BY <2>1, <3>1
      DEF CallInvariant, CallDate, CallRecords, Same, Date, Handle, Records, Written
    <3> QED
      BY <3>2, <3>3 DEF CallInvariant
  <2> QED
    BY <2>2, <2>3
<1>4. \A w \in Writer : HandleDate(w)'
  BY <1>1 DEF EventInv, HandleDate
<1>5. \A i \in Inode : Anchored(i)' /\ Records(i)' = Records(i)
  BY <1>1 DEF EventInv, Anchored, Expirable, Records
<1>6. ASSUME NEW e \in Event, Known(e) PROVE Known(e)'
  <2>1. e.caller \in Caller /\ e.sequence \in Nat /\ sequence[e.caller] \in Nat
    BY EnvironmentAssumption DEF Event, BoundInv, TypeInv, TypeOK
  <2>2. CASE e.caller = c
    BY <1>6, <2>1, <2>2 DEF Known
  <2>3. CASE e.caller # c
    BY <1>6, <2>1, <2>3 DEF Known
  <2> QED
    BY <2>2, <2>3
<1>7. ASSUME NEW i \in Inode, NEW x \in Records(i) PROVE Recordable(x.ev)'
  <2>1. Recordable(x.ev) /\ x.ev \in Event
    BY DEF EventInv, ShardRecords, Records, BoundInv, TypeInv, TypeOK, DirTypeOK, Shard, Extent
  <2>2. x.ev \in rejected' => "unlock" \in Faults
    BY <1>2, <2>1 DEF Recordable
  <2>3. ASSUME NEW d \in Caller, InFlight(d)', request'[d].event = x.ev PROVE Written(d)'
    <3>1. d # c
      BY <1>2, <2>1, <2>3 DEF Recordable, InFlight
    <3>2. pc'[d] = pc[d] /\ request'[d] = request[d] /\ progress'[d] = progress[d]
      BY <1>1, <3>1
    <3> QED
      BY <2>1, <2>3, <3>2 DEF Recordable, InFlight, Written
  <2> QED
    BY <1>6, <2>1, <2>2, <2>3 DEF Recordable
<1>8. ASSUME NEW e \in rejected' PROVE RejectedEvent(e)'
  <2>1. CASE e \in rejected
    <3>1. RejectedEvent(e) /\ e \in Event
      BY <2>1 DEF EventInv, BoundInv, TypeInv, TypeOK
    <3>2. ASSUME NEW d \in Caller, InFlight(d)' PROVE request'[d].event # e
      BY <3>1, <3>2 DEF RejectedEvent, InFlight
    <3> QED
      BY <1>6, <3>1, <3>2 DEF RejectedEvent
  <2>2. CASE e \notin rejected
    <3>1. InFlight(c) /\ e = request[c].event /\ ~InFlight(c)'
      BY <1>8, <2>2
    <3>2. e \in Event /\ Known(e) /\ \A d \in Caller : InFlight(d) /\ request[d].event = e => d = c
      BY <3>1, OwnEvent DEF BoundInv
    <3>3. ASSUME NEW d \in Caller, InFlight(d)' PROVE request'[d].event # e
      <4>1. d # c /\ request'[d] = request[d]
        BY <3>1, <3>3
      <4> QED
        BY <3>2, <3>3, <4>1 DEF InFlight
    <3> QED
      BY <1>6, <3>2, <3>3 DEF RejectedEvent
  <2> QED
    BY <2>1, <2>2
<1>9. \A e \in acked' : AckedEvent(e)'
  BY <1>5 DEF EventInv, AckedEvent
<1>10. \A i \in Inode : ShardRecords(i)'
  BY <1>1, <1>5, <1>7 DEF EventInv, ShardRecords
<1> QED
  BY <1>3, <1>4, <1>5, <1>8, <1>9, <1>10 DEF EventInv

LEMMA GateEvents ==
  ASSUME BoundInv, EventInv, NEW c \in Caller,
         \/ \E n \in RecordSizes : Submit(c, n)
         \/ CallFlush(c) \/ CallClose(c) \/ AcquireGate(c) \/ AbandonGate(c)
  PROVE  EventInv'
<1>1. /\ pc[c] \in {"idle", "gate"} /\ UNCHANGED <<dirVars, writer, progress, today, acked>>
      /\ request \in [Caller -> WriteRequest \cup OtherRequest]
      /\ sequence \in [Caller -> 0 .. MaxSequence] /\ sequence[c] \in Nat
  BY EnvironmentAssumption
  DEF Submit, CallFlush, CallClose, Call, AcquireGate, AbandonGate, BoundInv, TypeInv, TypeOK
<1>2. CASE \E n \in RecordSizes : Submit(c, n)
  <2>1. PICK n \in RecordSizes : Submit(c, n)
    BY <1>2
  <2> DEFINE e == [caller |-> c, sequence |-> sequence[c] + 1,
                   date |-> today, bytes |-> EncodeLine(n)]
  <2>2. e.caller = c /\ e.sequence = sequence[c] + 1
    OBVIOUS
  <2>3. /\ Goto(c, "gate") /\ request' = [request EXCEPT ![c] = [op |-> "write", event |-> e]]
        /\ sequence' = [sequence EXCEPT ![c] = sequence[c] + 1] /\ rejected' = rejected
    BY <2>1 DEF Submit, Call
  <2> HIDE DEF e
  <2>4. /\ \A d \in Caller \ {c} : request'[d] = request[d] /\ sequence'[d] = sequence[d]
        /\ request'[c].event = e /\ sequence'[c] = sequence[c] + 1
    BY <1>1, <2>3
  <2>5. ~Known(e)
    BY <1>1, <2>2 DEF Known
  <2>6. sequence'[c] \in Nat /\ sequence'[c] >= sequence[c]
    BY <1>1, <2>4
  <2> QED
    BY <1>1, <2>2, <2>3, <2>4, <2>5, <2>6, OutsideEvents
<1>3. CASE CallFlush(c) \/ CallClose(c)
  <2>1. /\ Goto(c, "gate") /\ sequence' = sequence /\ rejected' = rejected
        /\ \A d \in Caller \ {c} : request'[d] = request[d]
        /\ request'[c].op # "write"
    BY <1>1, <1>3 DEF CallFlush, CallClose, Call
  <2> QED
    BY <1>1, <2>1, OutsideEvents DEF InFlight
<1>4. CASE AcquireGate(c)
  <2>1. Goto(c, "admitted") /\ sequence' = sequence /\ rejected' = rejected /\ request' = request
    BY <1>4 DEF AcquireGate
  <2>2. InFlight(c) => request[c].event.caller = c /\ request[c].event.sequence = sequence[c]
    BY DEF EventInv, CallInvariant, CallEvent
  <2> QED
    BY <1>1, <2>1, <2>2, OutsideEvents DEF InFlight
<1>5. CASE AbandonGate(c)
  <2>1. /\ Goto(c, "idle") /\ sequence' = sequence
        /\ \A d \in Caller \ {c} : request'[d] = request[d]
        /\ request'[c].op # "write"
        /\ rejected' = IF request[c].op = "write" THEN rejected \cup {request[c].event} ELSE rejected
    BY <1>1, <1>5 DEF AbandonGate, NoRequest
  <2> QED
    BY <1>1, <2>1, OutsideEvents DEF InFlight
<1> QED
  BY <1>2, <1>3, <1>4, <1>5

(* A process that dies has neither acknowledged nor rejected what it was   *)
(* asked; a fragment is no record.                                         *)
LEMMA CrashEvents ==
  ASSUME BoundInv, EventInv, NEW w \in Writer, Crash(w)
  PROVE  EventInv'
<1> DEFINE own == {c \in Caller : W(c) = w}
<1>1. /\ \A i \in Inode : file'[i].date = file[i].date /\ Records(i)' = Records(i)
      /\ \A i \in Inode : \A x \in file'[i].data : x.ev.date = file[i].date
      /\ \A i \in Inode : i >= fresh => file'[i] = file[i]
  <2>1. ASSUME NEW c \in Caller, pc[c] = "append", NEW n,
               Extend(Handle(c), request[c].event, "fragment", n)
        PROVE  /\ \A i \in Inode : file'[i].date = file[i].date /\ Records(i)' = Records(i)
               /\ \A i \in Inode : \A x \in file'[i].data : x.ev.date = file[i].date
               /\ \A i \in Inode : i >= fresh => file'[i] = file[i]
    <3>1. /\ \A j \in Inode \ {Handle(c)} : file'[j] = file[j]
          /\ \A j \in Inode : file'[j].date = file[j].date /\ Records(j)' = Records(j)
          /\ \A x \in file'[Handle(c)].data :
                x \in file[Handle(c)].data \/ x.ev = request[c].event
      BY <2>1, NoRecord
    <3>2. file[Handle(c)].date = request[c].event.date /\ Handle(c) < fresh /\ Handle(c) \in Inode
      BY <2>1, AppendedDate, AppendingFacts DEF Appending
    <3>3. \A i \in Inode : i >= fresh => i # Handle(c)
      BY <3>2, BoundAssumption DEF BoundInv, TypeInv, TypeOK, DirTypeOK, Inode
    <3> QED
      BY <3>1, <3>2, <3>3 DEF EventInv, ShardRecords
  <2>2. CASE UNCHANGED file
    BY <2>2 DEF EventInv, ShardRecords, Records
  <2> QED
    BY <2>1, <2>2 DEF Crash
<1>2. /\ \A c \in own : pc'[c] = "idle" /\ request'[c] = NoRequest /\ progress'[c] = NoProgress
      /\ \A c \in Caller \ own :
            pc'[c] = pc[c] /\ request'[c] = request[c] /\ progress'[c] = progress[c]
      /\ \A v \in Writer \ {w} : writer'[v] = writer[v]
      /\ writer'[w].handle = None
      /\ UNCHANGED <<fresh, linked, sequence, today, acked, rejected>>
  BY DEF Crash, NewWriter, BoundInv, TypeInv, TypeOK
<1>3. \A d \in Caller : InFlight(d)' => InFlight(d) /\ d \in Caller \ own
  BY <1>2 DEF InFlight, NoRequest
<1>4. ASSUME NEW d \in Caller PROVE CallInvariant(d)'
  <2>1. CASE d \in own
    BY <1>2, <2>1
    DEF CallInvariant, CallEvent, CallDate, CallRecords, CallStale, InFlight, Written,
        NoRequest, NoProgress, KeepsHandle, Holding, Appending
  <2>2. CASE d \notin own
    <3>1. /\ pc'[d] = pc[d] /\ request'[d] = request[d] /\ progress'[d] = progress[d]
          /\ writer'[W(d)] = writer[W(d)] /\ UNCHANGED <<sequence, today>>
      BY <1>2, <2>2, WriterOfCaller
    <3>2. CallInvariant(d)
      BY DEF EventInv
    <3>3. Same(d)' = Same(d) /\ Handle(d)' = Handle(d) /\ Date(d)' = Date(d)
      BY <3>1 DEF Same, Handle, Date, W
    <3>4. CallEvent(d)' /\ CallDate(d)' /\ CallStale(d)'
      BY <3>1, <3>2, <3>3
      DEF CallInvariant, CallEvent, CallDate, CallStale, InFlight, Expirable
    <3>5. CallRecords(d)'
      <4>1. CASE pc[d] \in Appending
        <5>1. PICK i \in Inode : i = Handle(d)
          BY <4>1, AppendingFacts
        <5>2. Records(Handle(d))' = Records(i)' /\ Records(i)' = Records(i)
          BY <1>1, <3>3, <5>1 DEF Records
        <5> QED
          BY <3>1, <3>2, <3>3, <5>1, <5>2 DEF CallInvariant, CallRecords, Written
      <4>2. CASE pc[d] \notin Appending
        BY <3>1, <4>2 DEF CallRecords, Written, Appending
      <4> QED
        BY <4>1, <4>2
    <3> QED
      BY <3>4, <3>5 DEF CallInvariant
  <2> QED
    BY <2>1, <2>2
<1>5. ASSUME NEW v \in Writer PROVE HandleDate(v)'
  <2>1. CASE v = w
    BY <1>2, <2>1 DEF HandleDate
  <2>2. CASE v # w
    <3>1. writer'[v] = writer[v] /\ (writer[v].handle # None => writer[v].handle \in Inode)
      BY <1>2, <2>2 DEF BoundInv, TypeInv, TypeOK, WriterState
    <3> QED
      BY <1>1, <3>1 DEF EventInv, HandleDate
  <2> QED
    BY <2>1, <2>2
<1>6. \A i \in Inode : Anchored(i)'
  BY <1>1, <1>2 DEF EventInv, Anchored, Expirable
<1>7. ASSUME NEW i \in Inode, NEW x \in Records(i) PROVE Recordable(x.ev)'
  <2>1. Recordable(x.ev)
    BY DEF EventInv, ShardRecords
  <2>2. ASSUME NEW d \in Caller, InFlight(d)', request'[d].event = x.ev PROVE Written(d)'
    <3>1. InFlight(d) /\ pc'[d] = pc[d] /\ request'[d] = request[d] /\ progress'[d] = progress[d]
      BY <1>2, <1>3, <2>2
    <3> QED
      BY <2>1, <2>2, <3>1 DEF Recordable, Written
  <2> QED
    BY <1>2, <2>1, <2>2 DEF Recordable, Known
<1>8. \A e \in rejected' : RejectedEvent(e)'
  <2> SUFFICES ASSUME NEW e \in rejected PROVE RejectedEvent(e)'
    BY <1>2
  <2>1. RejectedEvent(e)
    BY DEF EventInv
  <2>2. ASSUME NEW d \in Caller, InFlight(d)' PROVE request'[d].event # e
    BY <1>2, <1>3, <2>1, <2>2 DEF RejectedEvent
  <2> QED
    BY <1>2, <2>1, <2>2 DEF RejectedEvent, Known
<1>9. \A e \in acked' : AckedEvent(e)'
  BY <1>1, <1>2 DEF EventInv, AckedEvent
<1>10. \A i \in Inode : ShardRecords(i)'
  BY <1>1, <1>7 DEF ShardRecords
<1> QED
  BY <1>4, <1>5, <1>6, <1>8, <1>9, <1>10 DEF EventInv

(* What has expired stays expired, whoever removes the directory. *)
LEMMA EnvironmentEvents ==
  ASSUME BoundInv, EventInv, Midnight \/ RemoveDirectory \/ UNCHANGED vars
  PROVE  EventInv'
<1>1. /\ UNCHANGED <<file, fresh, writer, pc, request, progress, sequence, acked, rejected>>
      /\ today' \in {today, today + 1}
      /\ linked' = linked \/ "rmdir" \in Faults
  BY DEF Midnight, RemoveDirectory, vars, dirVars, callVars, Fails
<1>2. \A date \in Int : Expirable(date) => date < today' - RetentionDays
  <2>1. today \in Int /\ today' \in Int /\ today <= today' /\ RetentionDays \in Int
    BY <1>1, BoundAssumption, EnvironmentAssumption DEF BoundInv, TypeInv, TypeOK, Day
  <2>2. \A a, b, r, date \in Int : a <= b /\ date < a - r => date < b - r
    OBVIOUS
  <2> QED
    BY <2>1, <2>2 DEF Expirable
<1>3. ASSUME NEW c \in Caller PROVE CallInvariant(c)'
  <2>1. CallInvariant(c)
    BY DEF EventInv
  <2>2. CallEvent(c)' /\ CallDate(c)' /\ CallRecords(c)'
    BY <1>1, <2>1 DEF CallInvariant, CallEvent, CallDate, CallRecords, InFlight, Same, Date,
                      Handle, Records, Written
  <2>3. \A name \in progress[c].stale : name[1] \in Int
    BY DEF BoundInv, TypeInv, TypeOK, Progress, Day
  <2>4. CallStale(c)'
    BY <1>1, <1>2, <2>1, <2>3 DEF CallInvariant, CallStale, Expirable
  <2> QED
    BY <2>2, <2>4 DEF CallInvariant
<1>4. ASSUME NEW i \in Inode PROVE Anchored(i)' /\ ShardRecords(i)'
  <2>1. file[i].date \in Int
    BY DEF BoundInv, TypeInv, TypeOK, DirTypeOK, Shard, Day
  <2>2. Anchored(i)'
    BY <1>1, <1>2, <2>1 DEF EventInv, Anchored, Expirable
  <2>3. ShardRecords(i)'
    BY <1>1 DEF EventInv, ShardRecords, Records, Recordable, Known, InFlight, Written
  <2> QED
    BY <2>2, <2>3
<1>5. /\ \A w \in Writer : HandleDate(w)'
      /\ \A e \in rejected' : RejectedEvent(e)'
      /\ \A e \in acked' : AckedEvent(e)'
  BY <1>1 DEF EventInv, HandleDate, RejectedEvent, AckedEvent, Records, Known, InFlight
<1> QED
  BY <1>3, <1>4, <1>5 DEF EventInv

-----------------------------------------------------------------------------
LEMMA InitEvents == Init => EventInv
<1> SUFFICES ASSUME Init PROVE EventInv
  OBVIOUS
<1>1. ASSUME NEW c \in Caller PROVE CallInvariant(c)
  BY DEF Init, CallInvariant, CallEvent, CallDate, CallRecords, CallStale, InFlight, Written,
         NoRequest, NoProgress, KeepsHandle, Holding, Appending
<1>2. ASSUME NEW i \in Inode PROVE ShardRecords(i) /\ Anchored(i)
  BY BoundAssumption DEF Init, DirInit, EmptyShard, ShardRecords, Anchored, Records, Inode
<1>3. \A w \in Writer : HandleDate(w)
  BY DEF Init, NewWriter, HandleDate
<1> QED
  BY <1>1, <1>2, <1>3 DEF Init, EventInv

LEMMA NextEvents == BoundInv /\ EventInv /\ [Next]_vars => EventInv'
<1> SUFFICES ASSUME BoundInv, EventInv, [Next]_vars PROVE EventInv'
  OBVIOUS
<1>1. ASSUME NEW c \in Caller, CallerStep(c) PROVE EventInv'
  <2>1. CASE FlushActive(c) \/ RejectClosed(c) \/ DirectoryFails(c) \/ LockFails(c)
    BY <2>1, GivesUpEvents
  <2>2. CASE CloseWriter(c) \/ EnsureDirectory(c)
    BY <2>2, CloseEvents, EnsureDirectoryEvents
  <2>3. CASE OpenLockFile(c) \/ TryDirLock(c) \/ TryShardLock(c) \/ LockRetry(c)
    BY <2>3, WaitsEvents
  <2>4. CASE Discover(c) \/ ProbeFull(c) \/ OpenShard(c) \/ CreateShard(c) \/ OpenFails(c)
    BY <2>4, DiscoverEvents, ProbeEvents, CreateEvents
  <2>5. CASE ApplyRetention(c) \/ SweepOne(c) \/ SweepDone(c) \/ UnlockDirectory(c)
    BY <2>5, RetentionEvents, SweepEvents, UnlockDirectoryEvents
  <2>6. CASE \/ StatShard(c) \/ StatFails(c) \/ Append(c) \/ AppendFails(c)
             \/ RestoreLineBoundary(c) \/ UnlockShard(c)
    BY <2>6, StatEvents, AppendEvents, AppendFailsEvents, RestoreEvents, UnlockShardEvents
  <2> QED
    BY <1>1, <2>1, <2>2, <2>3, <2>4, <2>5, <2>6 DEF CallerStep
<1>2. ASSUME NEW c \in Caller,
             \/ \E n \in RecordSizes : Submit(c, n)
             \/ CallFlush(c) \/ CallClose(c) \/ AcquireGate(c) \/ AbandonGate(c)
             \/ LockTimeout(c)
      PROVE  EventInv'
  BY <1>2, GateEvents, GivesUpEvents
<1>3. ASSUME NEW w \in Writer, Crash(w) PROVE EventInv'
  BY <1>3, CrashEvents
<1> QED
  BY <1>1, <1>2, <1>3, EnvironmentEvents DEF Next

LEMMA EventInvariant == Spec => [](BoundInv /\ EventInv)
BY InitBound, NextBound, InitEvents, NextEvents, PTL DEF Spec

(* Every line, whole or not, is in a shard of the UTC date of its event,   *)
(* whoever of the callers of a writer moved it to another date meanwhile.  *)
THEOREM EventsKeepTheirDate == Spec => []ShardDates
<1>1. EventInv => ShardDates
  BY DEF EventInv, ShardRecords, ShardDates
<1> QED
  BY <1>1, EventInvariant, PTL

(* Unless somebody else removes the directory, an event that Write         *)
(* returned nil for is in a shard of its date that still has its name,     *)
(* until retention may expire the date.                                    *)
THEOREM AcknowledgedStays ==
  ASSUME "rmdir" \notin Faults
  PROVE  Spec => []AckedRecorded
<1>1. BoundInv /\ EventInv => AckedRecorded
  <2> SUFFICES ASSUME BoundInv, EventInv, NEW e \in acked,
                      RetentionDays = 0 \/ e.date >= today - RetentionDays
               PROVE  \E i \in linked : file[i].date = e.date /\ \E x \in Records(i) : x.ev = e
    BY DEF AckedRecorded
  <2>1. PICK i \in Inode : \E x \in Records(i) : x.ev = e
    BY DEF EventInv, AckedEvent
  <2>2. e.date = file[i].date /\ file[i].data # {}
    BY <2>1 DEF EventInv, ShardRecords, Records
  <2>3. ~(RetentionDays > 0 /\ Expirable(file[i].date))
    <3>1. e.date \in Int /\ today \in Int /\ RetentionDays \in Nat
      BY EnvironmentAssumption DEF BoundInv, TypeInv, TypeOK, Event, Day
    <3> QED
      BY <2>2, <3>1 DEF Expirable
  <2>4. i \in linked
    BY <2>2, <2>3 DEF EventInv, Anchored
  <2> QED
    BY <2>1, <2>2, <2>4
<1> QED
  BY <1>1, EventInvariant, PTL

=============================================================================
