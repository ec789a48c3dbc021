--------------------------- MODULE TraceTimeline ----------------------------
(***************************************************************************)
(* Trace and Tracer (trace.go, tracer.go, metrics.go): goroutines record   *)
(* events through traces that share one writer and one count of dropped    *)
(* events.  The writer is abstract here: Write appends the event to the    *)
(* log or fails and leaves no trace of it; ShardWriter is how it does so.  *)
(*                                                                         *)
(* OnError runs while the mutex of the trace is held, and may record       *)
(* events itself.  The traces a goroutine is inside of form a stack: its   *)
(* last element is the one being worked on, the others wait in OnError.    *)
(***************************************************************************)
EXTENDS Integers, Sequences, FiniteSets

CONSTANTS
    Trace,
    Goroutine,
    ForeignID,     \* IDs that other programs made and a request may bring along
    None,
    FailOnError,   \* configuration.failOnError
    TrustIncomingTraceID,  \* configuration.trustIncomingTraceID
    WriterFails,   \* whether the writer may fail, or a context be done, at any time
    MaxDepth,      \* bound: 1 for an OnError that records nothing
    MaxEvents,     \* bound: the events of all traces
    MaxClock       \* bound: the monotonic clock

ASSUME TraceAssumption ==
    /\ None \notin Trace \cup ForeignID \cup Goroutine \cup Int
    /\ FailOnError \in BOOLEAN
    /\ TrustIncomingTraceID \in BOOLEAN
    /\ WriterFails \in BOOLEAN
    /\ MaxDepth \in Nat \ {0}
    /\ MaxEvents \in Nat
    /\ MaxClock \in Nat

VARIABLES
    mu,          \* who holds the mutex of a trace
    stack,       \* the traces a goroutine is inside of
    pc,          \* where it is in the last of them
    event,       \* the event it is writing
    sequence,    \* trace.sequence
    startedAt,   \* trace.startedAt, None before Start
    traceID,     \* trace.traceID, None before Start
    submitted,   \* the calls of EventContext so far, only for the bound
    now,         \* the monotonic clock
    log,         \* the events the writer recorded, in order
    lost,        \* the events it returned an error for
    dropped,     \* metrics.dropped
    closed       \* whether the writer is closed

identity == <<startedAt, traceID>>
traceVars == <<mu, sequence, identity, submitted>>
vars == <<traceVars, stack, pc, event, now, log, lost, dropped, closed>>

Place == {"idle", "lock", "lockFlush", "stamp", "write", "failed", "flush", "handler", "unlock"}

(* The ID that GenerateTraceID makes for a trace is the trace itself: 128  *)
(* random bits do not repeat.                                              *)
TraceID == Trace \cup ForeignID
TraceEvent == [trace : TraceID, sequence : Nat \ {0}, elapsed : Nat]
ASSUME EventAssumption == None \notin TraceEvent

TypeOK ==
    /\ mu \in [Trace -> Goroutine \cup {None}]
    /\ stack \in [Goroutine -> Seq(Trace)]
    /\ pc \in [Goroutine -> Place]
    /\ event \in [Goroutine -> TraceEvent \cup {None}]
    /\ sequence \in [Trace -> Nat]
    /\ startedAt \in [Trace -> Nat \cup {None}]
    /\ traceID \in [Trace -> TraceID \cup {None}]
    /\ submitted \in Nat
    /\ now \in Nat
    /\ log \in Seq(TraceEvent)
    /\ lost \subseteq TraceEvent
    /\ dropped \in Nat
    /\ closed \in BOOLEAN

Init ==
    /\ mu = [t \in Trace |-> None]
    /\ stack = [g \in Goroutine |-> <<>>]
    /\ pc = [g \in Goroutine |-> "idle"]
    /\ event = [g \in Goroutine |-> None]
    /\ sequence = [t \in Trace |-> 0]
    /\ startedAt = [t \in Trace |-> None]
    /\ traceID = [t \in Trace |-> None]
    /\ submitted = 0
    /\ now = 0
    /\ log = <<>>
    /\ lost = {}
    /\ dropped = 0
    /\ closed = FALSE

-----------------------------------------------------------------------------
Depth(g) == Len(stack[g])
Current(g) == stack[g][Depth(g)]
Goto(g, l) == pc' = [pc EXCEPT ![g] = l]

(* What a request may bring along: no ID or one that SanitizeTraceID       *)
(* rejects, an ID from elsewhere, or that of a trace started here.         *)
Incoming == {None} \cup ForeignID \cup {traceID[t] : t \in Trace}

(* A trusted ID is continued.  Another one becomes the parent of a new ID, *)
(* which the events of the trace carry along and no later step looks at.   *)
Identify(t, incoming) ==
    traceID' = [traceID EXCEPT ![t] =
                   IF incoming # None /\ TrustIncomingTraceID THEN incoming ELSE t]

(* Tracer.Start.  It changes nothing when no ID can be generated. *)
Start(t) ==
    /\ startedAt[t] = None
    /\ \E incoming \in Incoming : Identify(t, incoming)
    /\ startedAt' = [startedAt EXCEPT ![t] = now]
    /\ UNCHANGED <<mu, sequence, submitted, stack, pc, event, now, log, lost,
                   dropped, closed>>

(* A method of a trace is called by the application or from within OnError. *)
Enter(g, t, l) ==
    /\ pc[g] \in {"idle", "handler"}
    /\ Depth(g) < MaxDepth
    /\ startedAt[t] # None
    /\ stack' = [stack EXCEPT ![g] = Append(@, t)]
    /\ Goto(g, l)
    /\ UNCHANGED <<mu, sequence, identity, event, now, log, lost, dropped, closed>>

(* An event whose name is empty returns an error before this and changes   *)
(* nothing.                                                                *)
CallEvent(g, t) ==
    /\ submitted < MaxEvents
    /\ submitted' = submitted + 1
    /\ Enter(g, t, "lock")

CallFlush(g, t) == Enter(g, t, "lockFlush") /\ UNCHANGED submitted

(* trace.mu.Lock(): a sync.Mutex, which its holder cannot take again and   *)
(* which knows nothing of the context.                                     *)
Lock(g) ==
    /\ pc[g] \in {"lock", "lockFlush"}
    /\ mu[Current(g)] = None
    /\ mu' = [mu EXCEPT ![Current(g)] = g]
    /\ Goto(g, IF pc[g] = "lock" THEN "stamp" ELSE "flush")
    /\ UNCHANGED <<sequence, identity, submitted, stack, event, now, log, lost,
                   dropped, closed>>

(* Mutants of Stamp: the terms of the difference swapped, and a mutex that *)
(* is given up before the event is written.                                *)
StampSwapped(g) ==
    /\ pc[g] = "stamp"
    /\ LET t == Current(g)
       IN  /\ sequence' = [sequence EXCEPT ![t] = @ + 1]
           /\ event' = [event EXCEPT ![g] = [trace |-> traceID[t], sequence |-> sequence[t] + 1,
                                             elapsed |-> startedAt[t] - now]]
    /\ Goto(g, "write")
    /\ UNCHANGED <<mu, identity, submitted, stack, now, log, lost, dropped, closed>>

StampAndUnlock(g) ==
    /\ pc[g] = "stamp"
    /\ LET t == Current(g)
       IN  /\ sequence' = [sequence EXCEPT ![t] = @ + 1]
           /\ event' = [event EXCEPT ![g] = [trace |-> traceID[t], sequence |-> sequence[t] + 1,
                                             elapsed |-> now - startedAt[t]]]
           /\ mu' = [mu EXCEPT ![t] = None]
    /\ Goto(g, "write")
    /\ UNCHANGED <<identity, submitted, stack, now, log, lost, dropped, closed>>

Stamp(g) ==
    /\ pc[g] = "stamp"
    /\ LET t == Current(g)
       IN  /\ sequence' = [sequence EXCEPT ![t] = @ + 1]
           /\ event' = [event EXCEPT ![g] = [trace |-> traceID[t], sequence |-> sequence[t] + 1,
                                             elapsed |-> now - startedAt[t]]]
    /\ Goto(g, "write")
    /\ UNCHANGED <<mu, identity, submitted, stack, now, log, lost, dropped, closed>>

WriteEvent(g) ==
    /\ pc[g] = "write"
    /\ ~closed
    /\ log' = Append(log, event[g])
    /\ event' = [event EXCEPT ![g] = None]
    /\ Goto(g, "unlock")
    /\ UNCHANGED <<traceVars, stack, now, lost, dropped, closed>>

(* The writer is closed, waits for a lock with a context that is done, or  *)
(* cannot write.                                                           *)
MayFail == closed \/ WriterFails

(* Mutant of WriteFails: renumbers a lost event away. *)
WriteFailsRenumbered(g) ==
    /\ pc[g] = "write"
    /\ MayFail
    /\ lost' = lost \cup {event[g]}
    /\ event' = [event EXCEPT ![g] = None]
    /\ sequence' = [sequence EXCEPT ![Current(g)] = @ - 1]
    /\ Goto(g, "failed")
    /\ UNCHANGED <<mu, identity, submitted, stack, now, log, dropped, closed>>

WriteFails(g) ==
    /\ pc[g] = "write"
    /\ MayFail
    /\ lost' = lost \cup {event[g]}
    /\ event' = [event EXCEPT ![g] = None]
    /\ Goto(g, "failed")
    /\ UNCHANGED <<traceVars, stack, now, log, dropped, closed>>

(* handleFailure returns the error or calls OnError. *)
HandleFailure(g) == Goto(g, IF FailOnError THEN "unlock" ELSE "handler")

CountDropped(g) ==
    /\ pc[g] = "failed"
    /\ dropped' = dropped + 1
    /\ HandleFailure(g)
    /\ UNCHANGED <<traceVars, stack, event, now, log, lost, closed>>

(* Mutant of Flush: a failed flush counts as a dropped event. *)
FlushDrops(g) ==
    /\ pc[g] = "flush"
    /\ \/ ~closed /\ Goto(g, "unlock") /\ UNCHANGED dropped
       \/ MayFail /\ HandleFailure(g) /\ dropped' = dropped + 1
    /\ UNCHANGED <<traceVars, stack, event, now, log, lost, closed>>

(* A flush that fails is handled like a failed event but drops none. *)
Flush(g) ==
    /\ pc[g] = "flush"
    /\ \/ ~closed /\ Goto(g, "unlock")
       \/ MayFail /\ HandleFailure(g)
    /\ UNCHANGED <<traceVars, stack, event, now, log, lost, dropped, closed>>

(* Mutant of HandlerReturns: the mutex is given up only after a success. *)
HandlerKeepsMutex(g) ==
    /\ pc[g] = "handler"
    /\ stack' = [stack EXCEPT ![g] = SubSeq(@, 1, Depth(g) - 1)]
    /\ Goto(g, IF Depth(g) = 1 THEN "idle" ELSE "handler")
    /\ UNCHANGED <<traceVars, event, now, log, lost, dropped, closed>>

(* OnError returns, or panics and safeOnError recovers, or there is none. *)
HandlerReturns(g) ==
    /\ pc[g] = "handler"
    /\ Goto(g, "unlock")
    /\ UNCHANGED <<traceVars, stack, event, now, log, lost, dropped, closed>>

(* The deferred unlock; the call returns to the application or to OnError. *)
Unlock(g) ==
    /\ pc[g] = "unlock"
    /\ mu' = [mu EXCEPT ![Current(g)] = None]
    /\ stack' = [stack EXCEPT ![g] = SubSeq(@, 1, Depth(g) - 1)]
    /\ Goto(g, IF Depth(g) = 1 THEN "idle" ELSE "handler")
    /\ UNCHANGED <<sequence, identity, submitted, event, now, log, lost, dropped,
                   closed>>

(* Tracer.Close, with the mutex of no trace. *)
CloseTracer ==
    /\ ~closed
    /\ closed' = TRUE
    /\ UNCHANGED <<traceVars, stack, pc, event, now, log, lost, dropped>>

Tick ==
    /\ now < MaxClock
    /\ now' = now + 1
    /\ UNCHANGED <<traceVars, stack, pc, event, log, lost, dropped, closed>>

-----------------------------------------------------------------------------
Work(g) ==
    \/ Stamp(g) \/ WriteEvent(g) \/ WriteFails(g) \/ CountDropped(g) \/ Flush(g)
    \/ HandlerReturns(g) \/ Unlock(g)

Next ==
    \/ \E t \in Trace : Start(t)
    \/ \E g \in Goroutine :
          \/ \E t \in Trace : CallEvent(g, t) \/ CallFlush(g, t)
          \/ Lock(g)
          \/ Work(g)
    \/ CloseTracer
    \/ Tick

Spec == Init /\ [][Next]_vars

-----------------------------------------------------------------------------
(* Safety.                                                                 *)

Started == {t \in Trace : startedAt[t] # None}
Logged(id) == {log[i].sequence : i \in {j \in DOMAIN log : log[j].trace = id}}
Lost(id) == {e.sequence : e \in {x \in lost : x.trace = id}}
InFlight(id) ==
    {event[g].sequence : g \in {h \in Goroutine : event[h] # None /\ event[h].trace = id}}

(* Under the ID of a trace a reader finds the numbers that this trace gave *)
(* out, but for those of events it dropped and that of the one event being *)
(* written: a gap is exactly a dropped event, and none is both dropped and *)
(* recorded.  No request puts events into the timeline of another trace by *)
(* sending its ID.  (Traces that continue a trusted ID share its numbers.) *)
GapAccounting ==
    ~TrustIncomingTraceID => \A t \in Started :
        LET id == traceID[t]
        IN  /\ 1 .. sequence[t] = Logged(id) \cup Lost(id) \cup InFlight(id)
            /\ Logged(id) \cap Lost(id) = {}
            /\ InFlight(id) \cap (Logged(id) \cup Lost(id)) = {}

(* DroppedEventCount, whichever traces and goroutines drop at once, is the *)
(* number of events that were lost, once their calls have counted them.    *)
(* (Under a trusted ID two lost events may look the same in the model.)    *)
DroppedCountIsExact ==
    ~TrustIncomingTraceID => Cardinality(lost) = dropped + Cardinality({g \in Goroutine : pc[g] = "failed"})

(* In the order of the log the events of one trace ID have growing         *)
(* sequence numbers and elapsed times that never go back.                  *)
LogInSequence ==
    ~TrustIncomingTraceID => \A i, j \in DOMAIN log :
        i < j /\ log[i].trace = log[j].trace =>
        /\ log[i].sequence < log[j].sequence
        /\ log[i].elapsed <= log[j].elapsed

-----------------------------------------------------------------------------
(* Liveness.                                                               *)

(* A goroutine that is not waiting goes on, OnError returns, and a mutex   *)
(* in starvation mode serves its waiters in order.                         *)
FairSpec == Spec /\ \A g \in Goroutine : WF_vars(Work(g)) /\ SF_vars(Lock(g))

(* Every call of a trace returns to the application. *)
EventReturns == \A g \in Goroutine : pc[g] # "idle" ~> pc[g] = "idle"

=============================================================================
