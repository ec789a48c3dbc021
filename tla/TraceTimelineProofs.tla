------------------------ MODULE TraceTimelineProofs -------------------------
(***************************************************************************)
(* Safety of traces for any number of them, of goroutines and of events,   *)
(* and for OnError handlers that record events to any depth.               *)
(*                                                                         *)
(* The invariant says who holds which mutex, and what that gives: while    *)
(* an event is being written, its number is the last one of its trace and  *)
(* greater than all that were recorded or lost before.                     *)
(***************************************************************************)
EXTENDS TraceTimeline, SequenceTheorems, FiniteSetTheorems, TLAPS

Places(g) == 1 .. Len(stack[g])

(* The goroutine has the mutex of the i-th trace it is inside of: it is in *)
(* OnError there, or it is past Lock in the last one.                      *)
Holding(g, i) == i < Len(stack[g]) \/ pc[g] \notin {"lock", "lockFlush"}

StackInv ==
    \A g \in Goroutine :
        /\ pc[g] = "idle" <=> Len(stack[g]) = 0
        /\ \A i \in Places(g) : stack[g][i] \in Started

MutexInv ==
    \A g \in Goroutine : \A i \in Places(g) : Holding(g, i) =>
        /\ mu[stack[g][i]] = g
        /\ \A j \in Places(g) : Holding(g, j) /\ i # j => stack[g][i] # stack[g][j]

StartInv ==
    \A t \in Trace :
        /\ t \in Started => startedAt[t] <= now /\ traceID[t] \in TraceID
        /\ t \notin Started => sequence[t] = 0 /\ traceID[t] = None

EventInv ==
    \A g \in Goroutine :
        /\ event[g] # None <=> pc[g] = "write"
        /\ pc[g] = "write" =>
              /\ event[g].trace = traceID[Current(g)]
              /\ event[g].sequence = sequence[Current(g)]
              /\ event[g].elapsed <= now - startedAt[Current(g)]

ControlInv == TypeOK /\ StackInv /\ MutexInv /\ StartInv /\ EventInv

Entry == DOMAIN log
OwnID == \A t \in Started : traceID[t] = t

KnownLog ==
    \A i \in Entry :
        /\ log[i].trace \in Started
        /\ log[i].sequence <= sequence[log[i].trace]
        /\ log[i].elapsed <= now - startedAt[log[i].trace]
KnownLost == \A e \in lost : e.trace \in Started /\ e.sequence <= sequence[e.trace]

(* The event being written comes after all of its trace. *)
Newest ==
    \A g \in Goroutine : event[g] # None =>
        /\ \A i \in Entry : log[i].trace = event[g].trace =>
              log[i].sequence < event[g].sequence /\ log[i].elapsed <= event[g].elapsed
        /\ \A e \in lost : e.trace = event[g].trace => e.sequence < event[g].sequence

Ordered ==
    \A i, j \in Entry : i < j /\ log[i].trace = log[j].trace =>
        log[i].sequence < log[j].sequence /\ log[i].elapsed <= log[j].elapsed

Disjoint == \A i \in Entry : \A e \in lost : log[i].trace = e.trace => log[i].sequence # e.sequence

InLog(t, n) == \E i \in Entry : log[i].trace = t /\ log[i].sequence = n
InLost(t, n) == \E e \in lost : e.trace = t /\ e.sequence = n
InWrite(t, n) == \E g \in Goroutine : event[g] # None /\ event[g].trace = t /\ event[g].sequence = n
Complete ==
    \A t \in Started : \A n \in 1 .. sequence[t] : InLog(t, n) \/ InLost(t, n) \/ InWrite(t, n)

NumberInv ==
    ~TrustIncomingTraceID =>
        OwnID /\ KnownLog /\ KnownLost /\ Newest /\ Ordered /\ Disjoint /\ Complete

IInv == ControlInv /\ NumberInv

-----------------------------------------------------------------------------
(* Sequences.                                                              *)

(* What a call adds to the stack, and what a return takes away from it. *)
LEMMA Push ==
    ASSUME NEW S, NEW s \in Seq(S), NEW x \in S
    PROVE  /\ Append(s, x) \in Seq(S)
           /\ Len(Append(s, x)) = Len(s) + 1
           /\ \A i \in 1 .. Len(s) : Append(s, x)[i] = s[i]
           /\ Append(s, x)[Len(s) + 1] = x
OBVIOUS

LEMMA Pop ==
    ASSUME NEW S, NEW s \in Seq(S), Len(s) > 0
    PROVE  LET r == SubSeq(s, 1, Len(s) - 1)
           IN  /\ r \in Seq(S)
               /\ Len(r) = Len(s) - 1
               /\ \A i \in 1 .. Len(s) - 1 : r[i] = s[i]
<1>1. Len(s) \in Nat /\ Len(s) - 1 \in Int
  BY LenProperties
<1>2. \A i \in 1 .. Len(s) - 1 : s[i] \in S
  BY <1>1, ElementOfSeq
<1>3. /\ SubSeq(s, 1, Len(s) - 1) \in Seq(S)
      /\ Len(SubSeq(s, 1, Len(s) - 1)) = IF 1 <= Len(s) - 1 THEN Len(s) - 1 - 1 + 1 ELSE 0
      /\ \A i \in 1 .. Len(s) - 1 - 1 + 1 : SubSeq(s, 1, Len(s) - 1)[i] = s[1 + i - 1]
  BY <1>1, <1>2, SubSeqProperties
<1>4. Len(SubSeq(s, 1, Len(s) - 1)) = Len(s) - 1
  <2> DEFINE m == Len(SubSeq(s, 1, Len(s) - 1))
             n == Len(s)
  <2>1. n \in Nat /\ n > 0 /\ m = IF 1 <= n - 1 THEN n - 1 - 1 + 1 ELSE 0
    BY <1>1, <1>3
  <2> HIDE DEF m, n
  <2>2. m = n - 1
    BY <2>1
  <2> QED
    BY <2>2 DEF m, n
<1>5. \A i \in 1 .. Len(s) - 1 : SubSeq(s, 1, Len(s) - 1)[i] = s[i]
  <2> SUFFICES ASSUME NEW i \in 1 .. Len(s) - 1
               PROVE  SubSeq(s, 1, Len(s) - 1)[i] = s[i]
    OBVIOUS
  <2>1. i \in 1 .. Len(s) - 1 - 1 + 1 /\ 1 + i - 1 = i
    BY <1>1
  <2> QED
    BY <1>3, <2>1
<1> QED
  BY <1>3, <1>4, <1>5

-----------------------------------------------------------------------------
LEMMA InitIInv == Init => IInv
<1> SUFFICES ASSUME Init PROVE IInv
  OBVIOUS
<1>1. TypeOK
  <2>1. <<>> \in Seq(Trace) /\ <<>> \in Seq(TraceEvent)
    OBVIOUS
  <2> QED
    BY <2>1, TraceAssumption DEF Init, TypeOK, Place
<1>2. StackInv /\ MutexInv /\ StartInv /\ EventInv
  BY TraceAssumption DEF Init, StackInv, MutexInv, StartInv, EventInv, Places, Holding, Started
<1>3. NumberInv
  BY TraceAssumption DEF Init, NumberInv, OwnID, KnownLog, KnownLost, Newest, Ordered, Disjoint,
     Complete, Entry, Started
<1> QED
  BY <1>1, <1>2, <1>3 DEF IInv, ControlInv

-----------------------------------------------------------------------------
(* What the parts of the invariant give to the actions.                    *)

(* A goroutine inside of a call works on a trace that has been started. *)
LEMMA CurrentTrace ==
    ASSUME TypeOK, StackInv, NEW g \in Goroutine, pc[g] # "idle"
    PROVE  /\ Len(stack[g]) \in Nat \ {0}
           /\ Len(stack[g]) \in Places(g)
           /\ Current(g) = stack[g][Len(stack[g])]
           /\ Current(g) \in Trace /\ Current(g) \in Started
<1>1. stack[g] \in Seq(Trace)
  BY DEF TypeOK
<1>2. Len(stack[g]) \in Nat \ {0}
  BY <1>1, LenProperties DEF StackInv
<1>3. Len(stack[g]) \in Places(g)
  BY <1>2 DEF Places
<1>4. stack[g][Len(stack[g])] \in Started
  BY <1>3 DEF StackInv
<1> QED
  BY <1>2, <1>3, <1>4 DEF Current, Depth, Started

(* Two goroutines past Lock are not in the same trace. *)
LEMMA OneWriter ==
    ASSUME ControlInv, NEW g \in Goroutine, NEW h \in Goroutine, g # h,
           pc[g] \notin {"idle", "lock", "lockFlush"}, pc[h] \notin {"idle", "lock", "lockFlush"}
    PROVE  Current(g) # Current(h)
<1>1. /\ Len(stack[g]) \in Places(g) /\ Current(g) = stack[g][Len(stack[g])]
      /\ Len(stack[h]) \in Places(h) /\ Current(h) = stack[h][Len(stack[h])]
  BY CurrentTrace DEF ControlInv
<1>2. mu[Current(g)] = g /\ mu[Current(h)] = h
  BY <1>1 DEF ControlInv, MutexInv, Holding
<1> QED
  BY <1>2

-----------------------------------------------------------------------------
LEMMA StartControl ==
    ASSUME ControlInv, NEW t \in Trace, Start(t)
    PROVE  ControlInv'
<1> USE TraceAssumption DEF ControlInv
<1>0. PICK incoming \in Incoming : Identify(t, incoming)
  BY DEF Start
<1>1. incoming \in TraceID \cup {None}
  BY DEF Incoming, TypeOK, TraceID
<1>2. traceID' \in [Trace -> TraceID \cup {None}]
  BY <1>0, <1>1 DEF Identify, TypeOK, TraceID
<1>3. /\ traceID'[t] \in TraceID
      /\ \A u \in Trace \ {t} : traceID'[u] = traceID[u]
  BY <1>0, <1>1 DEF Identify, TypeOK, TraceID
<1>4. /\ startedAt' \in [Trace -> Nat \cup {None}]
      /\ startedAt'[t] = now
      /\ \A u \in Trace \ {t} : startedAt'[u] = startedAt[u]
  BY DEF Start, TypeOK
<1>5. Started' = Started \cup {t} /\ t \notin Started
  BY <1>4 DEF Start, Started, TypeOK
<1>6. UNCHANGED <<mu, sequence, submitted, stack, pc, event, now, log, lost, dropped, closed>>
  BY DEF Start
<1>7. TypeOK'
  BY <1>2, <1>4, <1>6 DEF TypeOK
<1>8. StackInv' /\ MutexInv'
  BY <1>5, <1>6 DEF StackInv, MutexInv, Places, Holding
<1>9. StartInv'
  BY <1>3, <1>4, <1>5, <1>6 DEF StartInv, TypeOK
<1>10. EventInv'
  <2> SUFFICES ASSUME NEW g \in Goroutine
               PROVE  /\ event'[g] # None <=> pc'[g] = "write"
                      /\ pc'[g] = "write" =>
                            /\ event'[g].trace = traceID'[Current(g)']
                            /\ event'[g].sequence = sequence'[Current(g)']
                            /\ event'[g].elapsed <= now' - startedAt'[Current(g)']
    BY DEF EventInv
  <2>1. CASE pc[g] = "write"
    <3>1. Current(g) \in Started /\ Current(g) \in Trace
      BY <2>1, CurrentTrace
    <3>2. Current(g)' = Current(g)
      BY <1>6 DEF Current, Depth
    <3> QED
      BY <1>3, <1>4, <1>5, <1>6, <2>1, <3>1, <3>2 DEF EventInv
  <2>2. CASE pc[g] # "write"
    BY <1>6, <2>2 DEF EventInv
  <2> QED
    BY <2>1, <2>2
<1> QED
  BY <1>7, <1>8, <1>9, <1>10

(* A step of g past Lock that keeps its mutex and its stack. *)
LEMMA StaysInside ==
    ASSUME TypeOK, StackInv, MutexInv, NEW g \in Goroutine, NEW l \in Place,
           pc[g] \notin {"idle", "lock", "lockFlush"}, l \notin {"idle", "lock", "lockFlush"},
           pc' = [pc EXCEPT ![g] = l], UNCHANGED <<mu, stack, startedAt>>
    PROVE  /\ StackInv' /\ MutexInv'
           /\ pc' \in [Goroutine -> Place]
           /\ pc'[g] = l /\ \A h \in Goroutine \ {g} : pc'[h] = pc[h]
           /\ \A h \in Goroutine : Current(h)' = Current(h)
<1>1. pc' \in [Goroutine -> Place] /\ pc'[g] = l /\ \A h \in Goroutine \ {g} : pc'[h] = pc[h]
  BY DEF TypeOK
<1>2. StackInv'
  BY <1>1 DEF StackInv, Places, Started
<1>3. \A h \in Goroutine : \A i \in Places(h) : Holding(h, i)' <=> Holding(h, i)
  BY <1>1 DEF Holding
<1>4. MutexInv'
  BY <1>3 DEF MutexInv, Places
<1> QED
  BY <1>1, <1>2, <1>4 DEF Current, Depth

LEMMA EnterControl ==
    ASSUME ControlInv, NEW g \in Goroutine, NEW t \in Trace, NEW l \in {"lock", "lockFlush"},
           Enter(g, t, l), submitted' \in Nat
    PROVE  ControlInv'
<1> USE TraceAssumption DEF ControlInv
<1>1. /\ stack[g] \in Seq(Trace)
      /\ Len(stack[g]) \in Nat
      /\ stack'[g] = Append(stack[g], t)
      /\ \A h \in Goroutine \ {g} : stack'[h] = stack[h]
      /\ stack' \in [Goroutine -> Seq(Trace)]
  <2>1. stack[g] \in Seq(Trace)
    BY DEF TypeOK
  <2>2. Append(stack[g], t) \in Seq(Trace) /\ Len(stack[g]) \in Nat
    BY <2>1, Push, LenProperties
  <2> QED
    BY <2>1, <2>2 DEF Enter, TypeOK
<1>2. /\ Len(stack'[g]) = Len(stack[g]) + 1
      /\ \A i \in 1 .. Len(stack[g]) : stack'[g][i] = stack[g][i]
      /\ stack'[g][Len(stack[g]) + 1] = t
  BY <1>1, Push
<1>3. /\ pc' \in [Goroutine -> Place] /\ pc'[g] = l
      /\ \A h \in Goroutine \ {g} : pc'[h] = pc[h]
  BY DEF Enter, Goto, TypeOK, Place
<1>4. UNCHANGED <<mu, sequence, identity, event, now, log, lost, dropped, closed>>
  BY DEF Enter
<1>5. TypeOK'
  BY <1>1, <1>3, <1>4 DEF TypeOK, identity
<1>6. t \in Started /\ Started' = Started
  BY <1>4 DEF Enter, Started, identity
<1>7. StackInv'
  <2> SUFFICES ASSUME NEW h \in Goroutine
               PROVE  /\ pc'[h] = "idle" <=> Len(stack'[h]) = 0
                      /\ \A i \in 1 .. Len(stack'[h]) : stack'[h][i] \in Started'
    BY DEF StackInv, Places
  <2>1. CASE h = g
    <3>1. Len(stack'[g]) # 0
      BY <1>1, <1>2
    <3>2. \A i \in 1 .. Len(stack'[g]) : i \in Places(g) \/ i = Len(stack[g]) + 1
      BY <1>1, <1>2 DEF Places
    <3>3. \A i \in 1 .. Len(stack'[g]) : stack'[g][i] \in Started
      BY <1>2, <1>6, <3>2 DEF StackInv, Places
    <3> QED
      BY <1>3, <1>6, <2>1, <3>1, <3>3
  <2>2. CASE h # g
    BY <1>1, <1>3, <1>6, <2>2 DEF StackInv, Places
  <2> QED
    BY <2>1, <2>2
<1>8. \A i \in Places(g) : Holding(g, i)
  BY DEF Enter, Holding
<1>9. MutexInv'
  <2> SUFFICES ASSUME NEW h \in Goroutine, NEW i \in Places(h)', Holding(h, i)'
               PROVE  /\ mu[stack'[h][i]] = h
                      /\ \A j \in Places(h)' : Holding(h, j)' /\ i # j => stack'[h][i] # stack'[h][j]
    BY <1>4 DEF MutexInv
  <2>1. CASE h = g
    <3>1. \A j \in Places(g)' : Holding(g, j)' => j \in Places(g) /\ stack'[g][j] = stack[g][j]
      BY <1>1, <1>2, <1>3 DEF Holding, Places
    <3> QED
      BY <1>8, <2>1, <3>1 DEF MutexInv
  <2>2. CASE h # g
    <3>1. stack'[h] = stack[h] /\ pc'[h] = pc[h]
      BY <1>1, <1>3, <2>2
    <3>2. Places(h)' = Places(h) /\ \A j : Holding(h, j)' <=> Holding(h, j)
      BY <3>1 DEF Places, Holding
    <3> QED
      BY <3>1, <3>2 DEF MutexInv
  <2> QED
    BY <2>1, <2>2
<1>10. StartInv'
  BY <1>4, <1>6 DEF StartInv, identity
<1>11. EventInv'
  <2> SUFFICES ASSUME NEW h \in Goroutine
               PROVE  /\ event[h] # None <=> pc'[h] = "write"
                      /\ pc'[h] = "write" => h # g
    BY <1>1, <1>3, <1>4 DEF EventInv, Current, Depth, identity
  <2> QED
    BY <1>3 DEF EventInv, Enter
<1> QED
  BY <1>5, <1>7, <1>9, <1>10, <1>11

LEMMA LockControl ==
    ASSUME ControlInv, NEW g \in Goroutine, Lock(g)
    PROVE  ControlInv'
<1> USE TraceAssumption DEF ControlInv
<1>1. /\ Len(stack[g]) \in Places(g) /\ Current(g) = stack[g][Len(stack[g])]
      /\ Current(g) \in Trace /\ Len(stack[g]) \in Nat
  BY CurrentTrace DEF Lock
<1>2. /\ pc' \in [Goroutine -> Place] /\ pc'[g] \in {"stamp", "flush"}
      /\ \A h \in Goroutine \ {g} : pc'[h] = pc[h]
  BY DEF Lock, Goto, TypeOK, Place
<1>3. /\ mu' \in [Trace -> Goroutine \cup {None}] /\ mu'[Current(g)] = g
      /\ \A t \in Trace \ {Current(g)} : mu'[t] = mu[t]
      /\ mu[Current(g)] = None
  BY <1>1 DEF Lock, TypeOK
<1>4. UNCHANGED <<sequence, identity, submitted, stack, event, now, log, lost, dropped, closed>>
  BY DEF Lock
<1>5. TypeOK' /\ StackInv' /\ StartInv' /\ EventInv'
  <2>1. TypeOK'
    BY <1>2, <1>3, <1>4 DEF TypeOK, identity
  <2>2. StackInv'
    BY <1>2, <1>4 DEF StackInv, Places, Started, identity, Lock
  <2>3. StartInv'
    BY <1>4 DEF StartInv, Started, identity
  <2>4. EventInv'
    BY <1>2, <1>4 DEF EventInv, Current, Depth, identity, Lock
  <2> QED
    BY <2>1, <2>2, <2>3, <2>4
<1>6. \A h \in Goroutine : \A i \in Places(h) : Holding(h, i) => stack[h][i] # Current(g)
  BY <1>3 DEF MutexInv
<1>7. \A h \in Goroutine : \A i \in Places(h) : stack[h][i] \in Trace
  BY DEF StackInv, Started
<1>8. MutexInv'
  <2> SUFFICES ASSUME NEW h \in Goroutine, NEW i \in Places(h), Holding(h, i)'
               PROVE  /\ mu'[stack[h][i]] = h
                      /\ \A j \in Places(h) : Holding(h, j)' /\ i # j => stack[h][i] # stack[h][j]
    BY <1>4 DEF MutexInv, Places
  <2>1. CASE h = g
    <3>1. \A j \in Places(g) : j # Len(stack[g]) => Holding(g, j)
      BY <1>1 DEF Holding, Places
    <3> QED
      BY <1>1, <1>3, <1>6, <1>7, <2>1, <3>1 DEF MutexInv
  <2>2. CASE h # g
    <3>1. \A j \in Places(h) : Holding(h, j)' <=> Holding(h, j)
      BY <1>2, <1>4, <2>2 DEF Holding
    <3> QED
      BY <1>3, <1>6, <1>7, <2>2, <3>1 DEF MutexInv
  <2> QED
    BY <2>1, <2>2
<1> QED
  BY <1>5, <1>8

LEMMA StampControl ==
    ASSUME ControlInv, NEW g \in Goroutine, Stamp(g)
    PROVE  ControlInv'
<1> USE TraceAssumption DEF ControlInv
<1> DEFINE t == Current(g)
           e == [trace |-> traceID[t], sequence |-> sequence[t] + 1, elapsed |-> now - startedAt[t]]
<1>1. t \in Trace /\ t \in Started
  BY CurrentTrace DEF Stamp
<1>2. /\ UNCHANGED <<mu, identity, submitted, stack, now, log, lost, dropped, closed>>
      /\ pc[g] = "stamp" /\ pc' = [pc EXCEPT ![g] = "write"]
      /\ sequence' = [sequence EXCEPT ![t] = @ + 1]
      /\ event' = [event EXCEPT ![g] = e]
  BY DEF Stamp, Goto
<1>3. /\ StackInv' /\ MutexInv' /\ pc' \in [Goroutine -> Place]
      /\ pc'[g] = "write" /\ \A h \in Goroutine \ {g} : pc'[h] = pc[h]
      /\ \A h \in Goroutine : Current(h)' = Current(h)
  BY <1>2, StaysInside DEF identity, Place
<1>4. startedAt[t] \in Nat /\ startedAt[t] <= now /\ traceID[t] \in TraceID /\ sequence[t] \in Nat
  BY <1>1 DEF StartInv, TypeOK, Started
<1>5. e \in TraceEvent /\ e # None
  <2>1. now - startedAt[t] \in Nat /\ sequence[t] + 1 \in Nat \ {0}
    BY <1>4 DEF TypeOK
  <2>2. e \in TraceEvent
    BY <1>4, <2>1 DEF TraceEvent
  <2> QED
    BY <2>2, EventAssumption
<1>6. TypeOK'
  <2>1. sequence' \in [Trace -> Nat]
    <3>1. sequence \in [Trace -> Nat] /\ sequence[t] + 1 \in Nat
      BY <1>4 DEF TypeOK
    <3> HIDE DEF t
    <3> QED
      BY <1>2, <3>1
  <2>2. event' \in [Goroutine -> TraceEvent \cup {None}]
    BY <1>2, <1>5 DEF TypeOK
  <2> QED
    BY <1>2, <1>3, <2>1, <2>2 DEF TypeOK, identity
<1>7. StartInv'
  BY <1>1, <1>2, <1>4 DEF StartInv, TypeOK, Started, identity
<1>8. EventInv'
  <2> SUFFICES ASSUME NEW h \in Goroutine
               PROVE  /\ event'[h] # None <=> pc'[h] = "write"
                      /\ pc'[h] = "write" =>
                            /\ event'[h].trace = traceID[Current(h)]
                            /\ event'[h].sequence = sequence'[Current(h)]
                            /\ event'[h].elapsed <= now - startedAt[Current(h)]
    BY <1>2, <1>3 DEF EventInv, identity
  <2>1. CASE h = g
    BY <1>1, <1>2, <1>3, <1>4, <1>5, <2>1 DEF TypeOK
  <2>2. CASE h # g /\ pc[h] = "write"
    <3>1. Current(h) # t /\ Current(h) \in Trace
      BY <1>2, <2>2, OneWriter, CurrentTrace
    <3> QED
      BY <1>2, <1>3, <2>2, <3>1 DEF EventInv, TypeOK
  <2>3. CASE h # g /\ pc[h] # "write"
    BY <1>2, <1>3, <2>3 DEF EventInv, TypeOK
  <2> QED
    BY <2>1, <2>2, <2>3
<1> QED
  BY <1>3, <1>6, <1>7, <1>8

(* A step of g past Lock that neither numbers an event nor gives the mutex *)
(* back; the event is gone when it was being written.                      *)
LEMMA InsideControl ==
    ASSUME ControlInv, NEW g \in Goroutine, NEW l \in Place,
           pc[g] \notin {"idle", "lock", "lockFlush"}, l \notin {"idle", "lock", "lockFlush", "write"},
           pc' = [pc EXCEPT ![g] = l],
           event' = [event EXCEPT ![g] = None],
           UNCHANGED <<traceVars, stack, now, closed>>,
           log' \in Seq(TraceEvent), lost' \subseteq TraceEvent, dropped' \in Nat
    PROVE  ControlInv'
<1> USE TraceAssumption DEF ControlInv, traceVars, identity
<1>1. /\ StackInv' /\ MutexInv' /\ pc' \in [Goroutine -> Place]
      /\ pc'[g] = l /\ \A h \in Goroutine \ {g} : pc'[h] = pc[h]
      /\ \A h \in Goroutine : Current(h)' = Current(h)
  BY StaysInside
<1>2. TypeOK'
  BY <1>1 DEF TypeOK
<1>3. StartInv'
  BY DEF StartInv, Started
<1>4. EventInv'
  BY <1>1 DEF EventInv, TypeOK
<1> QED
  BY <1>1, <1>2, <1>3, <1>4

(* No event is being written outside of "write". *)
LEMMA NoEvent ==
    ASSUME ControlInv, NEW g \in Goroutine, pc[g] # "write"
    PROVE  event = [event EXCEPT ![g] = None]
BY DEF ControlInv, EventInv, TypeOK

LEMMA UnlockControl ==
    ASSUME ControlInv, NEW g \in Goroutine, Unlock(g)
    PROVE  ControlInv'
<1> USE TraceAssumption DEF ControlInv
<1> DEFINE t == Current(g)
<1>1. /\ t \in Trace /\ t = stack[g][Len(stack[g])]
      /\ Len(stack[g]) \in Places(g) /\ Len(stack[g]) \in Nat \ {0}
      /\ Holding(g, Len(stack[g]))
  BY CurrentTrace DEF Unlock, Holding
<1>2. /\ UNCHANGED <<sequence, identity, submitted, event, now, log, lost, dropped, closed>>
      /\ pc[g] = "unlock"
      /\ pc' = [pc EXCEPT ![g] = IF Len(stack[g]) = 1 THEN "idle" ELSE "handler"]
      /\ mu' = [mu EXCEPT ![t] = None]
      /\ stack' = [stack EXCEPT ![g] = SubSeq(stack[g], 1, Len(stack[g]) - 1)]
  BY DEF Unlock, Goto, Depth
<1>3. /\ pc' \in [Goroutine -> Place]
      /\ pc'[g] = IF Len(stack[g]) = 1 THEN "idle" ELSE "handler"
      /\ \A h \in Goroutine \ {g} : pc'[h] = pc[h]
  BY <1>2 DEF TypeOK, Place
<1>4. /\ SubSeq(stack[g], 1, Len(stack[g]) - 1) \in Seq(Trace)
      /\ Len(SubSeq(stack[g], 1, Len(stack[g]) - 1)) = Len(stack[g]) - 1
      /\ \A i \in 1 .. Len(stack[g]) - 1 :
            SubSeq(stack[g], 1, Len(stack[g]) - 1)[i] = stack[g][i]
  <2>1. stack[g] \in Seq(Trace)
    BY DEF TypeOK
  <2> QED
    BY <1>1, <2>1, Pop
<1>5. /\ stack' \in [Goroutine -> Seq(Trace)]
      /\ stack'[g] = SubSeq(stack[g], 1, Len(stack[g]) - 1)
      /\ \A h \in Goroutine \ {g} : stack'[h] = stack[h]
  BY <1>2, <1>4 DEF TypeOK
<1>6. /\ Len(stack'[g]) = Len(stack[g]) - 1
      /\ \A i \in 1 .. Len(stack[g]) - 1 : stack'[g][i] = stack[g][i]
  BY <1>4, <1>5
<1>7. /\ mu' \in [Trace -> Goroutine \cup {None}]
      /\ \A u \in Trace \ {t} : mu'[u] = mu[u]
  BY <1>2 DEF TypeOK
<1>8. TypeOK'
  BY <1>2, <1>3, <1>5, <1>7 DEF TypeOK, identity
<1>9. StackInv'
  <2> SUFFICES ASSUME NEW h \in Goroutine
               PROVE  /\ pc'[h] = "idle" <=> Len(stack'[h]) = 0
                      /\ \A i \in 1 .. Len(stack'[h]) : stack'[h][i] \in Started
    BY <1>2 DEF StackInv, Places, Started, identity
  <2>1. CASE h = g
    <3>1. pc'[g] = "idle" <=> Len(stack'[g]) = 0
      BY <1>1, <1>3, <1>6
    <3>2. \A i \in 1 .. Len(stack'[g]) : i \in Places(g) /\ stack'[g][i] = stack[g][i]
      BY <1>1, <1>6 DEF Places
    <3> QED
      BY <2>1, <3>1, <3>2 DEF StackInv
  <2>2. CASE h # g
    BY <1>3, <1>5, <2>2 DEF StackInv, Places
  <2> QED
    BY <2>1, <2>2
<1>10. MutexInv'
  <2> SUFFICES ASSUME NEW h \in Goroutine, NEW i \in Places(h)', Holding(h, i)'
               PROVE  /\ mu'[stack'[h][i]] = h
                      /\ \A j \in Places(h)' : Holding(h, j)' /\ i # j => stack'[h][i] # stack'[h][j]
    BY DEF MutexInv
  <2>1. CASE h = g
    <3>1. \A j \in Places(g)' : /\ j \in Places(g) /\ j # Len(stack[g]) /\ Holding(g, j)
                                /\ stack'[g][j] = stack[g][j] /\ stack[g][j] \in Trace
      BY <1>1, <1>6 DEF Places, Holding, StackInv, Started
    <3>2. \A j \in Places(g)' : stack[g][j] # t
      BY <1>1, <3>1 DEF MutexInv
    <3> QED
      BY <1>7, <2>1, <3>1, <3>2 DEF MutexInv
  <2>2. CASE h # g
    <3>1. stack'[h] = stack[h] /\ pc'[h] = pc[h]
      BY <1>3, <1>5, <2>2
    <3>2. Places(h)' = Places(h) /\ \A j : Holding(h, j)' <=> Holding(h, j)
      BY <3>1 DEF Places, Holding
    <3>3. mu[t] = g /\ \A j \in Places(h) : stack[h][j] \in Trace
      BY <1>1 DEF MutexInv, StackInv, Started
    <3> QED
      BY <1>7, <2>2, <3>1, <3>2, <3>3 DEF MutexInv
  <2> QED
    BY <2>1, <2>2
<1>11. StartInv'
  BY <1>2 DEF StartInv, Started, identity
<1>12. EventInv'
  <2> SUFFICES ASSUME NEW h \in Goroutine
               PROVE  /\ event[h] # None <=> pc'[h] = "write"
                      /\ pc'[h] = "write" => h # g
    BY <1>2, <1>3, <1>5 DEF EventInv, Current, Depth, identity
  <2> QED
    BY <1>2, <1>3 DEF EventInv
<1> QED
  BY <1>8, <1>9, <1>10, <1>11, <1>12

-----------------------------------------------------------------------------
(* Numbers.                                                                *)

(* A step that numbers, records, loses and starts nothing. *)
LEMMA NumberFrame ==
    ASSUME IInv, UNCHANGED <<identity, sequence, event, log, lost>>, now' \in Nat, now <= now'
    PROVE  NumberInv'
<1> SUFFICES ASSUME ~TrustIncomingTraceID PROVE NumberInv'
  BY DEF NumberInv
<1> USE DEF IInv, ControlInv, NumberInv, identity
<1>1. OwnID' /\ KnownLost' /\ Newest' /\ Ordered' /\ Disjoint' /\ Complete'
  BY DEF OwnID, KnownLost, Newest, Ordered, Disjoint, Complete, Started, Entry, InLog, InLost, InWrite
<1>2. KnownLog'
  <2> SUFFICES ASSUME NEW i \in Entry
               PROVE  log[i].elapsed <= now' - startedAt[log[i].trace]
    BY DEF KnownLog, Started, Entry
  <2>1. log[i].trace \in Started /\ log[i].elapsed <= now - startedAt[log[i].trace]
    BY DEF KnownLog
  <2>2. log[i] \in TraceEvent /\ startedAt[log[i].trace] \in Nat /\ now \in Nat
    BY <2>1, ElementOfSeq, LenProperties DEF Started, TypeOK, Entry, StartInv
  <2> QED
    BY <2>1, <2>2 DEF TraceEvent
<1> QED
  BY <1>1, <1>2

LEMMA StartNumber ==
    ASSUME IInv, NEW t \in Trace, Start(t)
    PROVE  NumberInv'
<1> SUFFICES ASSUME ~TrustIncomingTraceID PROVE NumberInv'
  BY DEF NumberInv
<1> USE TraceAssumption DEF IInv, ControlInv, NumberInv
<1>1. PICK incoming \in Incoming : Identify(t, incoming)
  BY DEF Start
<1>2. /\ startedAt'[t] = now /\ now \in Nat
      /\ \A u \in Trace \ {t} : startedAt'[u] = startedAt[u]
  BY DEF Start, TypeOK
<1>3. Started' = Started \cup {t} /\ t \notin Started
  BY <1>2 DEF Start, Started, TypeOK
<1>4. traceID'[t] = t /\ \A u \in Trace \ {t} : traceID'[u] = traceID[u]
  BY <1>1 DEF Identify, TypeOK
<1>6. UNCHANGED <<sequence, event, now, log, lost>>
  BY DEF Start
<1>7. OwnID'
  BY <1>3, <1>4 DEF OwnID, Started
<1>8. KnownLog' /\ KnownLost'
  BY <1>2, <1>3, <1>6 DEF KnownLog, KnownLost, Entry, Started
<1>9. Newest' /\ Ordered' /\ Disjoint'
  BY <1>6 DEF Newest, Ordered, Disjoint, Entry
<1>10. Complete'
  <2>1. sequence[t] = 0
    BY <1>3 DEF StartInv
  <2> QED
    BY <1>3, <1>6, <2>1 DEF Complete, InLog, InLost, InWrite, Entry
<1> QED
  BY <1>7, <1>8, <1>9, <1>10

LEMMA StampNumber ==
    ASSUME IInv, NEW g \in Goroutine, Stamp(g)
    PROVE  NumberInv'
<1> SUFFICES ASSUME ~TrustIncomingTraceID PROVE NumberInv'
  BY DEF NumberInv
<1> USE TraceAssumption DEF IInv, ControlInv, NumberInv
<1> DEFINE t == Current(g)
<1>1. t \in Trace /\ t \in Started
  BY CurrentTrace DEF Stamp
<1>2. /\ UNCHANGED <<identity, now, log, lost>>
      /\ sequence' = [sequence EXCEPT ![t] = @ + 1]
      /\ event' = [event EXCEPT ![g] = [trace |-> traceID[t], sequence |-> sequence[t] + 1,
                                         elapsed |-> now - startedAt[t]]]
      /\ pc[g] = "stamp"
  BY DEF Stamp
<1>3. sequence[t] \in Nat /\ \A u \in Trace : sequence[u] \in Nat
  BY <1>1 DEF TypeOK
<1>4. sequence'[t] = sequence[t] + 1 /\ \A u \in Trace \ {t} : sequence'[u] = sequence[u]
  BY <1>1, <1>2 DEF TypeOK
<1>5. /\ event'[g].trace = t /\ event'[g].sequence = sequence[t] + 1
      /\ event'[g].elapsed = now - startedAt[t]
      /\ event'[g] # None
      /\ \A h \in Goroutine \ {g} : event'[h] = event[h]
  <2>1. event'[g] # None
    <3>1. ControlInv'
      BY StampControl
    <3>2. pc'[g] = "write"
      BY DEF Stamp, Goto, TypeOK
    <3> QED
      BY <3>1, <3>2 DEF EventInv
  <2> QED
    BY <1>1, <1>2, <2>1 DEF TypeOK, OwnID
<1>6. Started' = Started
  BY <1>2 DEF Started, identity
<1>7. OwnID'
  BY <1>2, <1>6 DEF OwnID, identity
<1>8. \A i \in Entry : log[i] \in TraceEvent
  BY ElementOfSeq, LenProperties DEF TypeOK, Entry
<1>9. KnownLog' /\ KnownLost'
  BY <1>2, <1>3, <1>4, <1>6, <1>8 DEF KnownLog, KnownLost, Entry, identity, TypeOK, TraceEvent, Started
<1>10. Newest'
  <2> SUFFICES ASSUME NEW h \in Goroutine, event'[h] # None
               PROVE  /\ \A i \in Entry : log[i].trace = event'[h].trace =>
                            log[i].sequence < event'[h].sequence /\ log[i].elapsed <= event'[h].elapsed
                      /\ \A e \in lost : e.trace = event'[h].trace => e.sequence < event'[h].sequence
    BY <1>2 DEF Newest, Entry
  <2>1. CASE h = g
    <3>1. \A i \in Entry : log[i].trace = t =>
             log[i].sequence <= sequence[t] /\ log[i].elapsed <= now - startedAt[t]
      BY DEF KnownLog
    <3>2. \A e \in lost : e.trace = t => e.sequence <= sequence[t]
      BY DEF KnownLost
    <3>3. sequence[t] \in Nat /\ sequence[t] + 1 = event'[h].sequence
          /\ event'[h].elapsed = now - startedAt[t] /\ event'[h].trace = t
      BY <1>3, <1>5, <2>1
    <3> HIDE DEF t
    <3>4. \A i \in Entry : log[i].trace = event'[h].trace =>
             log[i].sequence < event'[h].sequence /\ log[i].elapsed <= event'[h].elapsed
      <4> SUFFICES ASSUME NEW i \in Entry, log[i].trace = t
                   PROVE  log[i].sequence < event'[h].sequence
                          /\ log[i].elapsed <= event'[h].elapsed
        BY <3>3
      <4>1. log[i].sequence \in Nat
        BY <1>8 DEF TraceEvent
      <4>2. log[i].sequence <= sequence[t] /\ log[i].elapsed <= now - startedAt[t]
        BY <3>1
      <4> QED
        BY <3>3, <4>1, <4>2
    <3>5. \A e \in lost : e.trace = event'[h].trace => e.sequence < event'[h].sequence
      <4> SUFFICES ASSUME NEW e \in lost, e.trace = t
                   PROVE  e.sequence < event'[h].sequence
        BY <3>3
      <4>1. e.sequence \in Nat
        BY DEF TypeOK, TraceEvent
      <4> QED
        BY <3>2, <3>3, <4>1
    <3> QED
      BY <3>4, <3>5
  <2>2. CASE h # g
    BY <1>5, <2>2 DEF Newest
  <2> QED
    BY <2>1, <2>2
<1>11. Ordered' /\ Disjoint'
  BY <1>2 DEF Ordered, Disjoint, Entry
<1>12. Complete'
  <2> SUFFICES ASSUME NEW u \in Started, NEW n \in 1 .. sequence'[u]
               PROVE  InLog(u, n) \/ InLost(u, n) \/ InWrite(u, n)'
    BY <1>2, <1>6 DEF Complete, InLog, InLost, Entry
  <2>1. u \in Trace
    BY DEF Started
  <2>2. CASE u = t /\ n = sequence[t] + 1
    BY <1>5, <2>2 DEF InWrite
  <2>3. CASE ~(u = t /\ n = sequence[t] + 1)
    <3>1. n \in 1 .. sequence[u]
      BY <1>3, <1>4, <2>1, <2>3
    <3>2. InWrite(u, n) => InWrite(u, n)'
      <4>1. event[g] = None
        BY <1>2 DEF EventInv
      <4> QED
        BY <1>5, <4>1 DEF InWrite
    <3> QED
      BY <3>1, <3>2 DEF Complete
  <2> QED
    BY <2>2, <2>3
<1> QED
  BY <1>7, <1>9, <1>10, <1>11, <1>12

(* The event of g: the last number of its trace, and no other goroutine    *)
(* is writing one of this trace.                                           *)
LEMMA WrittenEvent ==
    ASSUME IInv, ~TrustIncomingTraceID, NEW g \in Goroutine, pc[g] = "write"
    PROVE  LET e == event[g]
           IN  /\ e \in TraceEvent /\ e # None
               /\ e.trace \in Started
               /\ e.sequence = sequence[e.trace]
               /\ e.elapsed <= now - startedAt[e.trace]
               /\ \A h \in Goroutine \ {g} : event[h] # None => event[h].trace # e.trace
<1> USE DEF IInv, ControlInv, NumberInv
<1> DEFINE t == Current(g)
<1>1. t \in Trace /\ t \in Started
  BY CurrentTrace
<1>2. event[g] # None /\ event[g] \in TraceEvent
  BY DEF EventInv, TypeOK
<1>3. /\ event[g].trace = t
      /\ event[g].sequence = sequence[t]
      /\ event[g].elapsed <= now - startedAt[t]
  BY <1>1 DEF EventInv, OwnID
<1>4. ASSUME NEW h \in Goroutine \ {g}, event[h] # None
      PROVE  event[h].trace # t
  <2>1. pc[h] = "write" /\ event[h].trace = traceID[Current(h)]
    BY <1>4 DEF EventInv
  <2>2. Current(h) # t /\ Current(h) \in Started
    BY <2>1, OneWriter, CurrentTrace
  <2> QED
    BY <2>1, <2>2 DEF OwnID
<1> HIDE DEF t
<1> QED
  BY <1>1, <1>2, <1>3, <1>4

LEMMA WriteEventNumber ==
    ASSUME IInv, NEW g \in Goroutine, WriteEvent(g)
    PROVE  NumberInv'
<1> SUFFICES ASSUME ~TrustIncomingTraceID PROVE NumberInv'
  BY DEF NumberInv
<1> USE DEF IInv, ControlInv, NumberInv
<1> DEFINE e == event[g]
           n == Len(log)
<1>1. /\ pc[g] = "write" /\ log' = Append(log, e)
      /\ event' = [event EXCEPT ![g] = None]
      /\ UNCHANGED <<identity, sequence, now, lost>>
  BY DEF WriteEvent, traceVars
<1>2. /\ e \in TraceEvent /\ e # None /\ e.trace \in Started
      /\ e.sequence = sequence[e.trace] /\ e.elapsed <= now - startedAt[e.trace]
      /\ \A h \in Goroutine \ {g} : event[h] # None => event[h].trace # e.trace
  BY <1>1, WrittenEvent
<1>3. n \in Nat /\ Entry = 1 .. n /\ Entry' = Entry \cup {n + 1}
  BY <1>1, <1>2, Push, LenProperties DEF TypeOK, Entry
<1>4. /\ \A i \in Entry : log'[i] = log[i] /\ log[i] \in TraceEvent /\ i <= n /\ i \in Nat
      /\ log'[n + 1] = e
  BY <1>1, <1>2, <1>3, Push, ElementOfSeq DEF TypeOK
<1>5. event'[g] = None /\ \A h \in Goroutine \ {g} : event'[h] = event[h]
  BY <1>1 DEF TypeOK
<1>6. /\ \A i \in Entry : log[i].trace = e.trace =>
            log[i].sequence < e.sequence /\ log[i].elapsed <= e.elapsed
      /\ \A x \in lost : x.trace = e.trace => x.sequence < e.sequence
  BY <1>2 DEF Newest
<1>7. Started' = Started /\ UNCHANGED <<startedAt, traceID>>
  BY <1>1 DEF Started, identity
<1>8. e.sequence \in Nat /\ \A x \in lost : x.sequence \in Nat
  BY <1>2 DEF TypeOK, TraceEvent
<1> HIDE DEF e, n
<1>9. OwnID' /\ KnownLost'
  BY <1>1, <1>7 DEF OwnID, KnownLost
<1>10. KnownLog'
  <2> SUFFICES ASSUME NEW i \in Entry'
               PROVE  /\ log'[i].trace \in Started
                      /\ log'[i].sequence <= sequence[log'[i].trace]
                      /\ log'[i].elapsed <= now - startedAt[log'[i].trace]
    BY <1>1, <1>7 DEF KnownLog
  <2>1. CASE i \in Entry
    BY <1>4, <2>1 DEF KnownLog
  <2>2. CASE i = n + 1
    BY <1>2, <1>4, <1>8, <2>2
  <2> QED
    BY <1>3, <2>1, <2>2
<1>11. Newest'
  <2> SUFFICES ASSUME NEW h \in Goroutine, event'[h] # None
               PROVE  /\ \A i \in Entry' : log'[i].trace = event'[h].trace =>
                            /\ log'[i].sequence < event'[h].sequence
                            /\ log'[i].elapsed <= event'[h].elapsed
                      /\ \A x \in lost : x.trace = event'[h].trace => x.sequence < event'[h].sequence
    BY <1>1 DEF Newest
  <2>1. h # g /\ event'[h] = event[h] /\ event[h] # None /\ event[h].trace # e.trace
    BY <1>2, <1>5
  <2>2. \A x \in lost : x.trace = event'[h].trace => x.sequence < event'[h].sequence
    BY <2>1 DEF Newest
  <2>3. ASSUME NEW i \in Entry', log'[i].trace = event'[h].trace
        PROVE  log'[i].sequence < event'[h].sequence /\ log'[i].elapsed <= event'[h].elapsed
    <3>1. i \in Entry /\ log'[i] = log[i]
      BY <1>3, <1>4, <2>1, <2>3
    <3> QED
      BY <2>1, <2>3, <3>1 DEF Newest
  <2> QED
    BY <2>2, <2>3
<1>12. Ordered'
  <2> SUFFICES ASSUME NEW i \in Entry', NEW j \in Entry', i < j, log'[i].trace = log'[j].trace
               PROVE  log'[i].sequence < log'[j].sequence /\ log'[i].elapsed <= log'[j].elapsed
    BY DEF Ordered
  <2>1. i \in Entry
    BY <1>3, <1>4
  <2>2. CASE j \in Entry
    BY <1>4, <2>1, <2>2 DEF Ordered
  <2>3. CASE j = n + 1
    BY <1>4, <1>6, <2>1, <2>3
  <2> QED
    BY <1>3, <2>2, <2>3
<1>13. Disjoint'
  <2> SUFFICES ASSUME NEW i \in Entry', NEW x \in lost, log'[i].trace = x.trace
               PROVE  log'[i].sequence # x.sequence
    BY <1>1 DEF Disjoint
  <2>1. CASE i \in Entry
    BY <1>4, <2>1 DEF Disjoint
  <2>2. CASE i = n + 1
    BY <1>4, <1>6, <1>8, <2>2
  <2> QED
    BY <1>3, <2>1, <2>2
<1>14. Complete'
  <2> SUFFICES ASSUME NEW u \in Started, NEW k \in 1 .. sequence[u]
               PROVE  InLog(u, k)' \/ InLost(u, k) \/ InWrite(u, k)'
    BY <1>1, <1>7 DEF Complete, InLost
  <2>1. CASE InLog(u, k)
    BY <1>3, <1>4, <2>1 DEF InLog
  <2>2. CASE InLost(u, k)
    BY <2>2
  <2>3. CASE InWrite(u, k)
    <3>1. PICK h \in Goroutine : event[h] # None /\ event[h].trace = u /\ event[h].sequence = k
      BY <2>3 DEF InWrite
    <3>2. CASE h = g
      <4>1. e.trace = u /\ e.sequence = k
        BY <3>1, <3>2 DEF e
      <4> QED
        BY <1>3, <1>4, <4>1 DEF InLog
    <3>3. CASE h # g
      BY <1>5, <3>1, <3>3 DEF InWrite
    <3> QED
      BY <3>2, <3>3
  <2> QED
    BY <2>1, <2>2, <2>3 DEF Complete
<1> QED
  BY <1>9, <1>10, <1>11, <1>12, <1>13, <1>14

LEMMA WriteFailsNumber ==
    ASSUME IInv, NEW g \in Goroutine, WriteFails(g)
    PROVE  NumberInv'
<1> SUFFICES ASSUME ~TrustIncomingTraceID PROVE NumberInv'
  BY DEF NumberInv
<1> USE DEF IInv, ControlInv, NumberInv
<1> DEFINE e == event[g]
<1>1. /\ pc[g] = "write" /\ lost' = lost \cup {e}
      /\ event' = [event EXCEPT ![g] = None]
      /\ UNCHANGED <<identity, sequence, now, log>>
  BY DEF WriteFails, traceVars
<1>2. /\ e \in TraceEvent /\ e # None /\ e.trace \in Started
      /\ e.sequence = sequence[e.trace]
      /\ \A h \in Goroutine \ {g} : event[h] # None => event[h].trace # e.trace
  BY <1>1, WrittenEvent
<1>3. event'[g] = None /\ \A h \in Goroutine \ {g} : event'[h] = event[h]
  BY <1>1 DEF TypeOK
<1>4. \A i \in Entry : log[i].trace = e.trace => log[i].sequence < e.sequence
  BY <1>2 DEF Newest
<1>5. Started' = Started /\ UNCHANGED <<startedAt, traceID>> /\ Entry' = Entry
  BY <1>1 DEF Started, identity, Entry
<1>6. e.sequence \in Nat /\ \A i \in Entry : log[i].sequence \in Nat
  <2>1. \A i \in Entry : log[i] \in TraceEvent
    BY ElementOfSeq, LenProperties DEF TypeOK, Entry
  <2> QED
    BY <1>2, <2>1 DEF TraceEvent
<1> HIDE DEF e
<1>7. OwnID' /\ KnownLog' /\ Ordered'
  BY <1>1, <1>5 DEF OwnID, KnownLog, Ordered
<1>8. KnownLost'
  BY <1>1, <1>2, <1>5, <1>6 DEF KnownLost
<1>9. Newest'
  <2> SUFFICES ASSUME NEW h \in Goroutine, event'[h] # None
               PROVE  /\ \A i \in Entry : log[i].trace = event'[h].trace =>
                            /\ log[i].sequence < event'[h].sequence
                            /\ log[i].elapsed <= event'[h].elapsed
                      /\ \A x \in lost' : x.trace = event'[h].trace => x.sequence < event'[h].sequence
    BY <1>1, <1>5 DEF Newest
  <2>1. event'[h] = event[h] /\ event[h] # None /\ event[h].trace # e.trace
    BY <1>2, <1>3
  <2> QED
    BY <1>1, <2>1 DEF Newest
<1>10. Disjoint'
  BY <1>1, <1>4, <1>5, <1>6 DEF Disjoint
<1>11. Complete'
  <2> SUFFICES ASSUME NEW u \in Started, NEW k \in 1 .. sequence[u]
               PROVE  InLog(u, k) \/ InLost(u, k)' \/ InWrite(u, k)'
    BY <1>1, <1>5 DEF Complete, InLog
  <2>1. CASE InLog(u, k) \/ InLost(u, k)
    BY <1>1, <2>1 DEF InLost
  <2>2. CASE InWrite(u, k)
    <3>1. PICK h \in Goroutine : event[h] # None /\ event[h].trace = u /\ event[h].sequence = k
      BY <2>2 DEF InWrite
    <3>2. CASE h = g
      <4>1. e.trace = u /\ e.sequence = k
        BY <3>1, <3>2 DEF e
      <4> QED
        BY <1>1, <4>1 DEF InLost
    <3>3. CASE h # g
      BY <1>3, <3>1, <3>3 DEF InWrite
    <3> QED
      BY <3>2, <3>3
  <2> QED
    BY <2>1, <2>2 DEF Complete
<1> QED
  BY <1>7, <1>8, <1>9, <1>10, <1>11

-----------------------------------------------------------------------------
(* The invariant is kept by every action, and by a step that changes       *)
(* nothing.                                                                *)

LEMMA WriteEventStep ==
    ASSUME IInv, NEW g \in Goroutine, WriteEvent(g)
    PROVE  IInv'
<1>1. ControlInv /\ pc[g] = "write" /\ event[g] \in TraceEvent
  BY DEF IInv, ControlInv, EventInv, TypeOK, WriteEvent
<1>2. log' \in Seq(TraceEvent)
  BY <1>1, Push DEF WriteEvent, ControlInv, TypeOK
<1>3. ControlInv'
  BY <1>1, <1>2, InsideControl DEF WriteEvent, Goto, Place, ControlInv, TypeOK
<1> QED
  BY <1>3, WriteEventNumber DEF IInv

LEMMA WriteFailsStep ==
    ASSUME IInv, NEW g \in Goroutine, WriteFails(g)
    PROVE  IInv'
<1>1. ControlInv /\ pc[g] = "write" /\ event[g] \in TraceEvent
  BY DEF IInv, ControlInv, EventInv, TypeOK, WriteFails
<1>2. lost' \subseteq TraceEvent
  BY <1>1 DEF WriteFails, ControlInv, TypeOK
<1>3. ControlInv'
  BY <1>1, <1>2, InsideControl DEF WriteFails, Goto, Place, ControlInv, TypeOK
<1> QED
  BY <1>3, WriteFailsNumber DEF IInv

(* CountDropped, Flush and HandlerReturns. *)
LEMMA QuietStep ==
    ASSUME IInv, NEW g \in Goroutine, NEW l \in {"unlock", "handler"},
           pc[g] \in {"failed", "flush", "handler"},
           pc' = [pc EXCEPT ![g] = l], dropped' \in Nat,
           UNCHANGED <<traceVars, stack, event, now, log, lost, closed>>
    PROVE  IInv'
<1>1. ControlInv /\ event = [event EXCEPT ![g] = None]
  BY NoEvent DEF IInv
<1>2. ControlInv'
  BY <1>1, InsideControl DEF Place, ControlInv, TypeOK
<1>3. NumberInv'
  BY <1>1, NumberFrame DEF traceVars, ControlInv, TypeOK
<1> QED
  BY <1>2, <1>3 DEF IInv

LEMMA CountDroppedStep ==
    ASSUME IInv, NEW g \in Goroutine, CountDropped(g)
    PROVE  IInv'
<1>1. dropped' \in Nat
  BY DEF IInv, ControlInv, TypeOK, CountDropped
<1> QED
  BY <1>1, QuietStep DEF CountDropped, HandleFailure, Goto

LEMMA FlushStep ==
    ASSUME IInv, NEW g \in Goroutine, Flush(g)
    PROVE  IInv'
<1>1. dropped' \in Nat
  BY DEF IInv, ControlInv, TypeOK, Flush
<1> QED
  BY <1>1, QuietStep DEF Flush, HandleFailure, Goto

LEMMA HandlerReturnsStep ==
    ASSUME IInv, NEW g \in Goroutine, HandlerReturns(g)
    PROVE  IInv'
<1>1. dropped' \in Nat
  BY DEF IInv, ControlInv, TypeOK, HandlerReturns
<1> QED
  BY <1>1, QuietStep DEF HandlerReturns, Goto

(* A step of no goroutine: the clock, Close, and stuttering. *)
LEMMA EnvironmentStep ==
    ASSUME IInv, UNCHANGED <<traceVars, stack, pc, event, log, lost, dropped>>,
           now' \in Nat, now <= now', closed' \in BOOLEAN
    PROVE  IInv'
<1> USE DEF IInv, ControlInv, traceVars, identity
<1>1. TypeOK'
  BY DEF TypeOK
<1>2. StackInv' /\ MutexInv'
  BY DEF StackInv, MutexInv, Places, Holding, Started
<1>3. StartInv'
  BY DEF StartInv, Started, TypeOK
<1>4. EventInv'
  <2> SUFFICES ASSUME NEW g \in Goroutine, pc[g] = "write"
               PROVE  event[g].elapsed <= now' - startedAt[Current(g)]
    BY DEF EventInv, Current, Depth
  <2>1. event[g] \in TraceEvent /\ event[g].elapsed <= now - startedAt[Current(g)]
    BY DEF EventInv, TypeOK
  <2>2. Current(g) \in Started
    BY CurrentTrace
  <2>3. startedAt[Current(g)] \in Nat /\ now \in Nat /\ event[g].elapsed \in Nat
    BY <2>1, <2>2 DEF Started, TypeOK, TraceEvent
  <2> QED
    BY <2>1, <2>3
<1>5. NumberInv'
  BY NumberFrame
<1> QED
  BY <1>1, <1>2, <1>3, <1>4, <1>5

LEMMA ControlStep ==
    ASSUME IInv, ControlInv',
           UNCHANGED <<identity, sequence, event, now, log, lost>>
    PROVE  IInv'
<1>1. now \in Nat
  BY DEF IInv, ControlInv, TypeOK
<1> QED
  BY <1>1, NumberFrame DEF IInv

LEMMA StepIInv == IInv /\ [Next]_vars => IInv'
<1> SUFFICES ASSUME IInv, [Next]_vars PROVE IInv'
  OBVIOUS
<1>1. ControlInv
  BY DEF IInv
<1>2. ASSUME NEW t \in Trace, Start(t) PROVE IInv'
  BY <1>1, <1>2, StartControl, StartNumber DEF IInv
<1>3. ASSUME NEW g \in Goroutine, NEW t \in Trace, CallEvent(g, t) \/ CallFlush(g, t) PROVE IInv'
  <2>1. PICK l \in {"lock", "lockFlush"} : Enter(g, t, l) /\ submitted' \in Nat
    BY <1>1, <1>3 DEF CallEvent, CallFlush, ControlInv, TypeOK
  <2>2. ControlInv'
    BY <1>1, <2>1, EnterControl
  <2> QED
    BY <2>1, <2>2, ControlStep DEF Enter
<1>4. ASSUME NEW g \in Goroutine, Lock(g) PROVE IInv'
  BY <1>1, <1>4, LockControl, ControlStep DEF Lock
<1>5. ASSUME NEW g \in Goroutine, Stamp(g) PROVE IInv'
  BY <1>1, <1>5, StampControl, StampNumber DEF IInv
<1>6. ASSUME NEW g \in Goroutine, Unlock(g) PROVE IInv'
  BY <1>1, <1>6, UnlockControl, ControlStep DEF Unlock
<1>7. ASSUME NEW g \in Goroutine, Work(g) PROVE IInv'
  BY <1>5, <1>6, <1>7, WriteEventStep, WriteFailsStep, CountDroppedStep, FlushStep,
     HandlerReturnsStep DEF Work
<1>8. ASSUME CloseTracer \/ Tick \/ UNCHANGED vars PROVE IInv'
  <2>1. now \in Nat /\ closed \in BOOLEAN
    BY <1>1 DEF ControlInv, TypeOK
  <2>2. UNCHANGED <<traceVars, stack, pc, event, log, lost, dropped>>
    BY <1>8 DEF CloseTracer, Tick, vars
  <2>3. now' \in Nat /\ now <= now' /\ closed' \in BOOLEAN
    <3>1. now' = now \/ now' = now + 1
      BY <1>8 DEF CloseTracer, Tick, vars
    <3>2. closed' = TRUE \/ closed' = closed
      BY <1>8 DEF CloseTracer, Tick, vars
    <3>3. now' \in Nat /\ now <= now'
      BY <2>1, <3>1
    <3>4. closed' \in BOOLEAN
      BY <2>1, <3>2, Zenon
    <3> QED
      BY <3>3, <3>4
  <2> QED
    BY <2>2, <2>3, EnvironmentStep
<1> QED
  BY <1>2, <1>3, <1>4, <1>7, <1>8 DEF Next

(* Everything below is read off this. *)
LEMMA Invariance == Spec => []IInv
BY InitIInv, StepIInv, PTL DEF Spec

-----------------------------------------------------------------------------
(* The variables keep their types: in particular, an event is never given  *)
(* a negative elapsed time nor the number zero.                            *)
THEOREM TypeCorrect == Spec => []TypeOK
<1>1. IInv => TypeOK
  BY DEF IInv, ControlInv
<1> QED
  BY <1>1, Invariance, PTL

(* In the log the events of a trace are in the order of their numbers and  *)
(* of their elapsed times: trace.mu covers stamping and writing.           *)
THEOREM LogStaysInSequence == Spec => []LogInSequence
<1>1. IInv => LogInSequence
  BY DEF IInv, NumberInv, Ordered, LogInSequence, Entry
<1> QED
  BY <1>1, Invariance, PTL

(* The gaps of a timeline are the dropped events of its trace, and at most *)
(* the one that is being written.                                          *)
THEOREM GapsAreAccountedFor == Spec => []GapAccounting
<1>1. IInv => GapAccounting
  <2> SUFFICES ASSUME IInv, ~TrustIncomingTraceID, NEW t \in Started
               PROVE  LET id == traceID[t]
                      IN  /\ 1 .. sequence[t] = Logged(id) \cup Lost(id) \cup InFlight(id)
                          /\ Logged(id) \cap Lost(id) = {}
                          /\ InFlight(id) \cap (Logged(id) \cup Lost(id)) = {}
    BY DEF GapAccounting
  <2> USE DEF IInv, ControlInv, NumberInv
  <2>1. traceID[t] = t /\ t \in Trace /\ sequence[t] \in Nat
    BY DEF OwnID, Started, TypeOK
  <2>2. /\ \A i \in Entry : log[i] \in TraceEvent
        /\ \A g \in Goroutine : event[g] # None => event[g] \in TraceEvent
        /\ \A e \in lost : e \in TraceEvent
    BY ElementOfSeq, LenProperties DEF TypeOK, Entry
  <2>3. /\ \A n : n \in Logged(t) <=> InLog(t, n)
        /\ \A n : n \in Lost(t) <=> InLost(t, n)
        /\ \A n : n \in InFlight(t) <=> InWrite(t, n)
    BY DEF Logged, Lost, InFlight, InLog, InLost, InWrite, Entry
  <2>4. \A n \in 1 .. sequence[t] : InLog(t, n) \/ InLost(t, n) \/ InWrite(t, n)
    BY DEF Complete
  <2>5. ASSUME NEW n, InLog(t, n) PROVE n \in 1 .. sequence[t]
    BY <2>1, <2>2, <2>5 DEF InLog, KnownLog, TraceEvent
  <2>6. ASSUME NEW n, InLost(t, n) PROVE n \in 1 .. sequence[t]
    BY <2>1, <2>2, <2>6 DEF InLost, KnownLost, TraceEvent
  <2>7. ASSUME NEW n, InWrite(t, n) PROVE n \in 1 .. sequence[t]
    <3>1. PICK g \in Goroutine : event[g] # None /\ event[g].trace = t /\ event[g].sequence = n
      BY <2>7 DEF InWrite
    <3>2. pc[g] = "write"
      BY <3>1 DEF EventInv
    <3>3. n = sequence[t] /\ n \in Nat \ {0}
      BY <2>2, <3>1, <3>2, WrittenEvent DEF TraceEvent
    <3> QED
      BY <3>3
  <2>8. ASSUME NEW n PROVE ~(InLog(t, n) /\ InLost(t, n))
    BY DEF InLog, InLost, Disjoint
  <2>9. ASSUME NEW n, InWrite(t, n) PROVE ~InLog(t, n) /\ ~InLost(t, n)
    <3>1. PICK g \in Goroutine : event[g] # None /\ event[g].trace = t /\ event[g].sequence = n
      BY <2>9 DEF InWrite
    <3>2. n \in Nat
      BY <2>2, <3>1 DEF TraceEvent
    <3> QED
      BY <3>1, <3>2 DEF InLog, InLost, Newest
  <2>10. 1 .. sequence[t] = Logged(t) \cup Lost(t) \cup InFlight(t)
    BY <2>3, <2>4, <2>5, <2>6, <2>7
  <2>11. Logged(t) \cap Lost(t) = {} /\ InFlight(t) \cap (Logged(t) \cup Lost(t)) = {}
    BY <2>3, <2>8, <2>9
  <2> QED
    BY <2>1, <2>10, <2>11
<1> QED
  BY <1>1, Invariance, PTL

-----------------------------------------------------------------------------
(* The count of dropped events.                                            *)

Failed == {g \in Goroutine : pc[g] = "failed"}
CountInv ==
    ~TrustIncomingTraceID =>
        /\ IsFiniteSet(lost) /\ IsFiniteSet(Failed)
        /\ Cardinality(lost) = dropped + Cardinality(Failed)

LEMMA StepCountInv == IInv /\ CountInv /\ [Next]_vars => CountInv'
<1> SUFFICES ASSUME IInv, CountInv, [Next]_vars, ~TrustIncomingTraceID
             PROVE  CountInv'
  BY DEF CountInv
<1> USE DEF CountInv
<1>1. pc \in [Goroutine -> Place] /\ dropped \in Nat
  BY DEF IInv, ControlInv, TypeOK
<1>2. Cardinality(lost) \in Nat /\ Cardinality(Failed) \in Nat
  BY FS_CardinalityType
<1>3. ASSUME UNCHANGED <<lost, dropped>>,
             \A g \in Goroutine : pc'[g] = "failed" <=> pc[g] = "failed"
      PROVE  CountInv'
  <2>1. Failed' = Failed
    BY <1>3 DEF Failed
  <2> QED
    BY <1>3, <2>1
<1>4. ASSUME NEW g \in Goroutine, NEW l \in Place \ {"failed"}, pc[g] # "failed",
             pc' = [pc EXCEPT ![g] = l], UNCHANGED <<lost, dropped>>
      PROVE  CountInv'
  BY <1>1, <1>3, <1>4
<1>5. ASSUME NEW g \in Goroutine, WriteFails(g) PROVE CountInv'
  <2>1. /\ lost' = lost \cup {event[g]} /\ pc' = [pc EXCEPT ![g] = "failed"]
        /\ pc[g] = "write" /\ dropped' = dropped
    BY <1>5 DEF WriteFails, Goto
  <2>2. event[g] \notin lost
    <3>1. event[g] \in TraceEvent /\ event[g] # None
      BY <2>1, WrittenEvent
    <3>2. event[g].sequence \in Nat
      BY <3>1 DEF TraceEvent
    <3> QED
      BY <3>1, <3>2 DEF IInv, NumberInv, Newest
  <2>3. Failed' = Failed \cup {g} /\ g \notin Failed
    BY <1>1, <2>1 DEF Failed
  <2>4. /\ IsFiniteSet(lost') /\ Cardinality(lost') = Cardinality(lost) + 1
        /\ IsFiniteSet(Failed') /\ Cardinality(Failed') = Cardinality(Failed) + 1
    BY <2>1, <2>2, <2>3, FS_AddElement
  <2> QED
    BY <1>1, <1>2, <2>1, <2>4
<1>6. ASSUME NEW g \in Goroutine, CountDropped(g) PROVE CountInv'
  <2>1. /\ pc[g] = "failed" /\ dropped' = dropped + 1 /\ lost' = lost
        /\ pc' = [pc EXCEPT ![g] = IF FailOnError THEN "unlock" ELSE "handler"]
    BY <1>6 DEF CountDropped, HandleFailure, Goto
  <2>2. Failed' = Failed \ {g} /\ g \in Failed
    BY <1>1, <2>1 DEF Failed
  <2>3. IsFiniteSet(Failed') /\ Cardinality(Failed') = Cardinality(Failed) - 1
    BY <2>2, FS_RemoveElement
  <2> QED
    BY <1>1, <1>2, <2>1, <2>3
<1>7. ASSUME NEW g \in Goroutine, NEW t \in Trace, CallEvent(g, t) \/ CallFlush(g, t) PROVE CountInv'
  BY <1>4, <1>7 DEF CallEvent, CallFlush, Enter, Goto, Place
<1>8. ASSUME NEW g \in Goroutine, Lock(g) PROVE CountInv'
  <2>1. (IF pc[g] = "lock" THEN "stamp" ELSE "flush") \in Place \ {"failed"} /\ pc[g] # "failed"
    BY <1>8 DEF Lock, Place
  <2> QED
    BY <1>4, <1>8, <2>1 DEF Lock, Goto
<1>9. ASSUME NEW g \in Goroutine, Stamp(g) \/ WriteEvent(g) PROVE CountInv'
  BY <1>4, <1>9 DEF Stamp, WriteEvent, Goto, Place
<1>10. ASSUME NEW g \in Goroutine, Flush(g) \/ HandlerReturns(g) PROVE CountInv'
  BY <1>4, <1>10 DEF Flush, HandlerReturns, HandleFailure, Goto, Place
<1>11. ASSUME NEW g \in Goroutine, Unlock(g) PROVE CountInv'
  <2>1. (IF Depth(g) = 1 THEN "idle" ELSE "handler") \in Place \ {"failed"} /\ pc[g] # "failed"
    BY <1>11 DEF Unlock, Place
  <2> QED
    BY <1>4, <1>11, <2>1 DEF Unlock, Goto
<1>12. ASSUME \/ \E t \in Trace : Start(t)
              \/ CloseTracer \/ Tick \/ UNCHANGED vars
       PROVE  CountInv'
  BY <1>3, <1>12 DEF Start, CloseTracer, Tick, vars
<1> QED
  BY <1>5, <1>6, <1>7, <1>8, <1>9, <1>10, <1>11, <1>12 DEF Next, Work

(* Whichever traces and goroutines drop events at once, DroppedEventCount  *)
(* misses none and counts none twice.                                      *)
THEOREM DropsAreCounted == Spec => []DroppedCountIsExact
<1>1. Init => CountInv
  <2> SUFFICES ASSUME Init PROVE CountInv
    OBVIOUS
  <2>1. lost = {} /\ Failed = {} /\ dropped = 0
    BY DEF Init, Failed
  <2> QED
    BY <2>1, FS_EmptySet DEF CountInv
<1>2. CountInv => DroppedCountIsExact
  BY DEF CountInv, DroppedCountIsExact, Failed
<1> QED
  BY <1>1, <1>2, Invariance, StepCountInv, PTL DEF Spec

=============================================================================
