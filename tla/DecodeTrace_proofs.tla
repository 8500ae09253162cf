------------------------- MODULE DecodeTrace_proofs -------------------------
(***************************************************************************)
(* Proofs about DecodeTrace, for any window and any number of workers,      *)
(* steps and reads: the flows of the trace are in order, it holds the       *)
(* window and nothing else, only a failed step loses events, and what       *)
(* trace_summary says of the reads of a step is true of it.                 *)
(***************************************************************************)
EXTENDS DecodeTrace, SequenceTheorems, FiniteSetTheorems, WellFoundedInduction, TLAPS

-----------------------------------------------------------------------------
(* The inductive invariant                                                  *)

States == {"queued", "reading", "ended", "broken", "done", "failed"}

EventSet == [kind : Kinds, thread : Threads, flow : Nat,
             step : {NoStep} \union 0..(MaxSteps - 1), start : Nat, stop : Nat]

ReadSet == [step : 0..(MaxSteps - 1), flow : Nat, state : States,
            thread : Threads \union {Nobody}, start : Nat]

MainTyped ==
    /\ pc \in {"between", "step", "leaving", "closing", "closed"}
    /\ step \in 0..MaxSteps /\ (pc = "step" => step < MaxSteps)
    /\ recording \in BOOLEAN /\ raised \in BOOLEAN
    /\ began \in 0..Len(events)
    /\ written \in {NoStep} \union 0..Len(events)

ListsTyped ==
    /\ events \in Seq(EventSet) /\ reads \in Seq(ReadSet)
    /\ named \subseteq Threads /\ flows \in Nat

Bounded ==
    /\ \A p \in DOMAIN events : /\ events[p].flow <= flows
                                /\ events[p].start <= Len(events)
                                /\ events[p].stop <= Len(events)
    /\ \A i \in DOMAIN reads : reads[i].flow <= flows /\ reads[i].start <= Len(events)

\* Events that a flow has when its read is in a state.
Passed(state) ==
    CASE state = "queued" -> {"s"}
      [] state = "reading" -> {"s", "t"}
      [] state \in {"ended", "broken"} -> {"s", "t", "SSD_read"}
      [] state \in {"done", "failed"} -> {"s", "t", "SSD_read", "f"}

\* The event belongs to the read.
IsOf(event, read) ==
    /\ event.flow = read.flow /\ event.step = read.step
    /\ event.thread = IF event.kind = "s" THEN Main ELSE read.thread

\* Each traced read has a flow of its own ...
OneReadPerFlow ==
    \A i, j \in DOMAIN reads : Traced(i) /\ reads[i].flow = reads[j].flow => i = j

\* ... whose events are exactly those that its state tells.
EventsHaveReads ==
    \A p \in DOMAIN events :
        /\ events[p].kind \in {"s"} \union DOMAIN Before => events[p].flow # 0
        /\ events[p].flow # 0 =>
            \E i \in DOMAIN reads : /\ IsOf(events[p], reads[i])
                                    /\ events[p].kind \in Passed(reads[i].state)

ReadsHaveEvents ==
    \A i \in DOMAIN reads : Traced(i) =>
        \A kind \in Passed(reads[i].state) :
            \E p \in DOMAIN events : events[p].kind = kind /\ IsOf(events[p], reads[i])

\* What is recorded belongs to the window.
WindowInv ==
    /\ recording => pc = "step" /\ Selected(step)
    /\ \A i \in DOMAIN reads : Traced(i) => Selected(reads[i].step)

\* Only reads of the current step are under way, and after it only if it raised.
JoinedInv ==
    /\ \A i \in DOMAIN reads : /\ reads[i].step <= step
                               /\ pc = "between" => reads[i].step < step
                               /\ reads[i].step < step => reads[i].state = "done"
                               /\ pc \notin {"between", "step"} /\ reads[i].state # "done"
                                    => raised
    /\ written # NoStep => pc \in {"closing", "closed"}

IInv ==
    /\ MainTyped /\ ListsTyped /\ Bounded
    /\ OneReadPerFlow /\ EventsHaveReads /\ ReadsHaveEvents /\ FlowsInOrder
    /\ WindowInv /\ OnlyTheWindow
    /\ JoinedInv /\ OnlyAFailedStepLosesEvents

-----------------------------------------------------------------------------
(* An event is appended                                                     *)

\* What Appended does to the list: the event is its last, an event that names
\* the thread may come before it, and nothing else changes.
LEMMA AppendedFacts ==
    ASSUME events \in Seq(EventSet), NEW thread \in Threads, NEW event \in EventSet,
           Appended(thread, event)
    PROVE  /\ events' \in Seq(EventSet)
           /\ Len(events') \in Nat /\ Len(events') > Len(events)
           /\ \A p \in DOMAIN events : p \in DOMAIN events' /\ events'[p] = events[p]
           /\ Len(events') \in DOMAIN events' /\ events'[Len(events')] = event
           /\ \A p \in DOMAIN events' :
                \/ p \in DOMAIN events
                \/ p = Len(events')
                \/ p > Len(events) /\ events'[p] = Thread(thread)
<1>1. Thread(thread) \in EventSet
  BY DEF Thread, EventSet, Kinds, Threads
<1>2. CASE thread \in named
  <2>1. events' = Append(events, event)
    BY <1>2 DEF Appended
  <2> QED
    BY <2>1
<1>3. CASE thread \notin named
  <2>1. events' = events \o <<Thread(thread), event>>
    BY <1>3 DEF Appended
  <2> DEFINE two == <<Thread(thread), event>>
  <2>2. two \in Seq(EventSet) /\ Len(two) = 2 /\ two[1] = Thread(thread) /\ two[2] = event
    BY <1>1
  <2> HIDE DEF two
  <2>3. events' \in Seq(EventSet) /\ Len(events') = Len(events) + 2
    BY <2>1, <2>2 DEF two
  <2>4. \A p \in 1..(Len(events) + 2) :
            events'[p] = IF p <= Len(events) THEN events[p] ELSE two[p - Len(events)]
    BY <2>1, <2>2 DEF two
  <2>5. /\ DOMAIN events = 1..Len(events) /\ DOMAIN events' = 1..(Len(events) + 2)
        /\ Len(events) \in Nat
    BY <2>3
  <2>6. events'[Len(events) + 2] = event /\ events'[Len(events) + 1] = Thread(thread)
    BY <2>2, <2>4, <2>5
  <2> QED
    BY <2>3, <2>4, <2>5, <2>6
<1> QED
  BY <1>2, <1>3

\* An event of the recorder is one, if its parts are typed.
LEMMA EventTyped ==
    ASSUME events \in Seq(EventSet), NEW kind \in Kinds, NEW thread \in Threads,
           NEW flow \in Nat, NEW index \in 0..(MaxSteps - 1), NEW start \in Nat,
           NEW stop \in Nat
    PROVE  /\ Event(kind, thread, flow, index, start, stop) \in EventSet
           /\ Event(kind, thread, flow, index, start, stop).kind = kind
           /\ Event(kind, thread, flow, index, start, stop).thread = thread
           /\ Event(kind, thread, flow, index, start, stop).flow = flow
           /\ Event(kind, thread, flow, index, start, stop).step = index
           /\ Event(kind, thread, flow, index, start, stop).start = start
           /\ Event(kind, thread, flow, index, start, stop).stop = stop
BY DEF Event, EventSet

\* However ts + dur is rounded, it is not below ts, and above now by at most one.
LEMMA EndsAre ==
    ASSUME events \in Seq(EventSet), NEW start \in Nat, start <= Len(events),
           NEW stop \in Ends(start)
    PROVE  stop \in Nat /\ start <= stop /\ Len(events) <= stop /\ stop <= Len(events) + 1
<1>1. Len(events) \in Nat
  OBVIOUS
<1> QED
  BY <1>1 DEF Ends, Now

\* A worker's event, however rounded.
LEMMA RecordedFacts ==
    ASSUME NEW i, NEW kind, NEW w, NEW stops \in SUBSET Ends(reads[i].start),
           Recorded(i, kind, w, stops)
    PROVE  \E stop \in Ends(reads[i].start) :
              IF Traced(i)
              THEN Appended(w, Event(kind, w, reads[i].flow, reads[i].step, reads[i].start, stop))
              ELSE UNCHANGED <<events, named>>
BY DEF Recorded, Ends

\* Bounded, the window and the loss of events depend on the appended event only.
LEMMA AppendedKeeps ==
    ASSUME TraceAssumption, MainTyped, ListsTyped, Bounded, OnlyTheWindow,
           OnlyAFailedStepLosesEvents,
           NEW thread \in Threads, NEW event \in EventSet, Appended(thread, event),
           flows' \in Nat, flows <= flows', event.flow <= flows',
           event.start <= Len(events'), event.stop <= Len(events'),
           Selected(event.step),
           written' = written, raised' \in {raised, TRUE}, step' \in 0..MaxSteps,
           written # NoStep => raised /\ event.step = step /\ step' = step
    PROVE  /\ events' \in Seq(EventSet) /\ named' \subseteq Threads
           /\ \A p \in DOMAIN events' : /\ events'[p].flow <= flows'
                                        /\ events'[p].start <= Len(events')
                                        /\ events'[p].stop <= Len(events')
           /\ OnlyTheWindow' /\ OnlyAFailedStepLosesEvents'
           /\ written' \in {NoStep} \union 0..Len(events')
           /\ Len(events') \in Nat /\ Len(events') > Len(events)
<1>a. events \in Seq(EventSet) /\ flows \in Nat /\ DOMAIN events = 1..Len(events) /\ Len(events) \in Nat
  BY DEF ListsTyped
<1>b. \A p \in DOMAIN events : events[p] \in EventSet
  BY <1>a
<1>1. /\ events' \in Seq(EventSet)
      /\ Len(events') \in Nat /\ Len(events') > Len(events)
      /\ \A p \in DOMAIN events : p \in DOMAIN events' /\ events'[p] = events[p]
      /\ Len(events') \in DOMAIN events' /\ events'[Len(events')] = event
      /\ \A p \in DOMAIN events' :
           \/ p \in DOMAIN events
           \/ p = Len(events')
           \/ p > Len(events) /\ events'[p] = Thread(thread)
  BY <1>a, AppendedFacts
<1>2. named' \subseteq Threads
  BY DEF Appended, ListsTyped
<1>3. /\ Thread(thread).flow = 0 /\ Thread(thread).start = 0 /\ Thread(thread).stop = 0
      /\ Thread(thread).step = NoStep
  BY DEF Thread
<1>4. ASSUME NEW p \in DOMAIN events'
      PROVE  /\ events'[p].flow <= flows'
             /\ events'[p].start <= Len(events') /\ events'[p].stop <= Len(events')
  <2>1. CASE p \in DOMAIN events
    <3>1. /\ events[p].flow <= flows /\ events[p].start <= Len(events)
          /\ events[p].stop <= Len(events)
      BY <2>1 DEF Bounded
    <3>2. events[p].flow \in Nat /\ events[p].start \in Nat /\ events[p].stop \in Nat
      BY <2>1, <1>b DEF EventSet
    <3> QED
      BY <3>1, <3>2, <2>1, <1>1, <1>a
  <2>2. CASE p = Len(events')
    BY <2>2, <1>1
  <2>3. CASE events'[p] = Thread(thread)
    BY <2>3, <1>3, <1>1
  <2> QED
    BY <2>1, <2>2, <2>3, <1>1
<1>5. OnlyTheWindow'
  <2> SUFFICES ASSUME NEW p \in DOMAIN events', events'[p].step # NoStep
               PROVE  events'[p].step >= DecodeStart /\ events'[p].step < DecodeStop
    BY DEF OnlyTheWindow
  <2>1. CASE p \in DOMAIN events
    BY <2>1, <1>1 DEF OnlyTheWindow
  <2>2. CASE p = Len(events')
    <3>1. events'[p] = event
      BY <2>2, <1>1
    <3>2. event.step \in {NoStep} \union 0..(MaxSteps - 1)
      BY DEF EventSet
    <3> QED
      BY <3>1, <3>2 DEF Selected, TraceAssumption, NoStep
  <2> QED
    BY <2>1, <2>2, <1>1, <1>3
<1>6. written' \in {NoStep} \union 0..Len(events')
  BY <1>1, <1>a DEF MainTyped
<1>7. OnlyAFailedStepLosesEvents'
  <2> SUFFICES ASSUME written # NoStep, NEW p \in (written + 1)..Len(events')
               PROVE  raised /\ events'[p].step \in {step, NoStep} /\ step' = step
    BY DEF OnlyAFailedStepLosesEvents, MainTyped
  <2>1. written \in 0..Len(events)
    BY DEF MainTyped
  <2>2. p \in DOMAIN events'
    BY <2>1, <1>1, <1>a
  <2>3. CASE p \in DOMAIN events
    BY <2>3, <2>1, <1>1, <1>a DEF OnlyAFailedStepLosesEvents
  <2> QED
    BY <2>2, <2>3, <1>1, <1>3
<1> QED
  BY <1>1, <1>2, <1>4, <1>5, <1>6, <1>7

-----------------------------------------------------------------------------
(* The flows                                                                *)

\* A worker moves a read on: the event that this adds comes after those that
\* the read has, and no other read has events of its flow.
LEMMA MovedFlow ==
    ASSUME ListsTyped, OneReadPerFlow, EventsHaveReads, ReadsHaveEvents, FlowsInOrder,
           NEW i \in DOMAIN reads, NEW w \in Workers, NEW kind \in DOMAIN Before,
           NEW event \in EventSet, NEW state \in States,
           IF Traced(i) THEN Appended(w, event) ELSE UNCHANGED <<events, named>>,
           event.kind = kind, IsOf(event, reads[i]) \/ reads[i].state = "queued",
           event.flow = reads[i].flow, event.step = reads[i].step, event.thread = w,
           reads' \in Seq(ReadSet), DOMAIN reads' = DOMAIN reads,
           \A j \in DOMAIN reads : j # i => reads'[j] = reads[j],
           reads'[i].flow = reads[i].flow, reads'[i].step = reads[i].step,
           reads'[i].state = state, reads'[i].thread = w,
           reads[i].state = "queued" \/ reads[i].thread = w,
           Passed(state) = Passed(reads[i].state) \union {kind},
           kind \notin Passed(reads[i].state), Before[kind] \in Passed(reads[i].state)
    PROVE  OneReadPerFlow' /\ EventsHaveReads' /\ ReadsHaveEvents' /\ FlowsInOrder'
<1>a. /\ events \in Seq(EventSet) /\ flows \in Nat /\ reads \in Seq(ReadSet)
      /\ DOMAIN events = 1..Len(events) /\ Len(events) \in Nat
  BY DEF ListsTyped
<1>b. /\ \A p \in DOMAIN events : events[p] \in EventSet
      /\ \A j \in DOMAIN reads : reads[j] \in ReadSet
  BY <1>a
<1>c. DOMAIN Before = {"t", "SSD_read", "f"} /\ kind # "s"
  BY DEF Before
<1>d. w \in Threads
  BY DEF Threads
<1>1. \A j \in DOMAIN reads : reads'[j].flow = reads[j].flow /\ reads'[j].step = reads[j].step
  OBVIOUS
<1>2. OneReadPerFlow'
  BY <1>1 DEF OneReadPerFlow, Traced
<1>3. reads[i].state = "queued" => Passed(reads[i].state) = {"s"}
  BY DEF Passed
<1>4. \* An event of a read is one of it afterwards.
      ASSUME NEW e, NEW j \in DOMAIN reads, IsOf(e, reads[j]), e.kind \in Passed(reads[j].state)
      PROVE  IsOf(e, reads'[j]) /\ e.kind \in Passed(reads'[j].state)
  <2>1. CASE j = i
    <3>1. e.kind \in Passed(reads'[j].state)
      BY <2>1, <1>4
    <3>2. e.kind = "s" \/ reads[i].thread = w
      BY <1>3, <1>4, <2>1
    <3> QED
      BY <2>1, <1>4, <3>1, <3>2 DEF IsOf
  <2> QED
    BY <2>1, <1>4
<1>5. CASE ~Traced(i)
  <2>1. events' = events
    BY <1>5
  <2>2. FlowsInOrder'
    BY <2>1 DEF FlowsInOrder
  <2>3. EventsHaveReads'
    BY <2>1, <1>4 DEF EventsHaveReads
  <2>4. ReadsHaveEvents'
    <3> SUFFICES ASSUME NEW j \in DOMAIN reads, reads[j].flow # 0, NEW k \in Passed(reads'[j].state)
                 PROVE  \E p \in DOMAIN events : events[p].kind = k /\ IsOf(events[p], reads'[j])
      <4>1. DOMAIN reads' = DOMAIN reads
        OBVIOUS
      <4>2. \A j \in DOMAIN reads : Traced(j)' <=> reads[j].flow # 0
        BY <1>1, <4>1 DEF Traced
      <4>3. ReadsHaveEvents' <=>
              \A j \in DOMAIN reads : Traced(j)' =>
                  \A k \in Passed(reads'[j].state) :
                      \E p \in DOMAIN events : events[p].kind = k /\ IsOf(events[p], reads'[j])
        BY ONLY <2>1, <4>1 DEF ReadsHaveEvents
      <4> QED
        BY <4>2, <4>3
    <3>1. j # i
      BY <1>5 DEF Traced
    <3> QED
      BY <3>1 DEF ReadsHaveEvents, Traced
  <2> QED
    BY <1>2, <2>2, <2>3, <2>4
<1>6. CASE Traced(i)
  <2>1. /\ Len(events') \in Nat /\ Len(events') > Len(events)
        /\ \A p \in DOMAIN events : p \in DOMAIN events' /\ events'[p] = events[p]
        /\ Len(events') \in DOMAIN events' /\ events'[Len(events')] = event
        /\ \A p \in DOMAIN events' :
             \/ p \in DOMAIN events
             \/ p = Len(events')
             \/ p > Len(events) /\ events'[p] = Thread(w)
        /\ events' \in Seq(EventSet)
    BY <1>6, <1>a, <1>d, AppendedFacts
  <2>2. Thread(w).flow = 0 /\ Thread(w).kind = "thread"
    BY DEF Thread
  <2>3. event.flow # 0 /\ reads[i].flow # 0
    BY <1>6 DEF Traced
  <2>4. IsOf(event, reads'[i]) /\ event.kind \in Passed(reads'[i].state)
    BY <1>c DEF IsOf
  <2>5. EventsHaveReads'
    <3> SUFFICES ASSUME NEW p \in DOMAIN events'
                 PROVE  /\ events'[p].kind \in {"s"} \union DOMAIN Before => events'[p].flow # 0
                        /\ events'[p].flow # 0 =>
                             \E j \in DOMAIN reads : /\ IsOf(events'[p], reads'[j])
                                                     /\ events'[p].kind \in Passed(reads'[j].state)
      BY DEF EventsHaveReads
    <3>1. CASE p \in DOMAIN events
      <4>1. events'[p] = events[p]
        BY <3>1, <2>1
      <4>2. events[p].kind \in {"s"} \union DOMAIN Before => events[p].flow # 0
        BY <3>1 DEF EventsHaveReads
      <4>3. ASSUME events[p].flow # 0
            PROVE  \E j \in DOMAIN reads : /\ IsOf(events[p], reads'[j])
                                           /\ events[p].kind \in Passed(reads'[j].state)
        <5>1. PICK j \in DOMAIN reads : /\ IsOf(events[p], reads[j])
                                        /\ events[p].kind \in Passed(reads[j].state)
          BY <3>1, <4>3 DEF EventsHaveReads
        <5> QED
          BY <5>1, <1>4
      <4> QED
        BY <4>1, <4>2, <4>3
    <3>2. CASE p = Len(events')
      BY <3>2, <2>1, <2>3, <2>4
    <3>3. CASE events'[p] = Thread(w)
      BY <3>3, <2>2, <1>c
    <3> QED
      BY <3>1, <3>2, <3>3, <2>1
  <2>6. ReadsHaveEvents'
    <3> SUFFICES ASSUME NEW j \in DOMAIN reads, reads[j].flow # 0, NEW k \in Passed(reads'[j].state)
                 PROVE  \E p \in DOMAIN events' : events'[p].kind = k /\ IsOf(events'[p], reads'[j])
      BY <1>1 DEF ReadsHaveEvents, Traced
    <3>1. CASE j = i /\ k = kind
      BY <3>1, <2>1, <2>4
    <3>2. CASE ~(j = i /\ k = kind)
      <4>1. k \in Passed(reads[j].state)
        BY <3>2
      <4>2. PICK p \in DOMAIN events : events[p].kind = k /\ IsOf(events[p], reads[j])
        BY <4>1 DEF ReadsHaveEvents, Traced
      <4>3. IsOf(events[p], reads'[j])
        BY <4>1, <4>2, <1>4
      <4> QED
        BY <4>2, <4>3, <2>1
    <3> QED
      BY <3>1, <3>2
  <2>7. \* No event of the flow has this kind yet.
        ASSUME NEW q \in DOMAIN events, events[q].kind = kind, events[q].flow = event.flow
        PROVE  FALSE
    <3>1. PICK j \in DOMAIN reads : /\ IsOf(events[q], reads[j])
                                    /\ events[q].kind \in Passed(reads[j].state)
      BY <2>7, <2>3 DEF EventsHaveReads
    <3>2. reads[j].flow = reads[i].flow
      BY <3>1, <2>7 DEF IsOf
    <3>3. j = i
      BY <3>2, <2>3 DEF OneReadPerFlow, Traced
    <3> QED
      BY <3>1, <3>3, <2>7
  <2>8. \* The event that must come before is there.
        PICK before \in DOMAIN events : /\ events[before].kind = Before[kind]
                                        /\ IsOf(events[before], reads[i])
    BY <1>6 DEF ReadsHaveEvents
  <2>9. /\ events[before].flow = event.flow /\ events[before].step = event.step
        /\ events[before].thread = IF events[before].kind = "s" THEN Main ELSE w
    <3>1. reads[i].state = "queued" => events[before].kind = "s"
      BY <2>8, <1>3
    <3> QED
      BY <3>1, <2>8 DEF IsOf
  <2>10. FlowsInOrder'
    <3> SUFFICES ASSUME NEW p \in DOMAIN events'
                 PROVE  /\ \A q \in DOMAIN events' :
                              /\ events'[q].kind = events'[p].kind
                              /\ events'[q].flow = events'[p].flow
                              /\ events'[p].flow # 0
                              => q = p
                        /\ events'[p].kind \in DOMAIN Before =>
                              \E q \in 1..(p - 1) :
                                  /\ events'[q].kind = Before[events'[p].kind]
                                  /\ events'[q].flow = events'[p].flow
                                  /\ events'[q].step = events'[p].step
                                  /\ events'[q].thread = IF events'[q].kind = "s" THEN Main
                                                         ELSE events'[p].thread
      BY DEF FlowsInOrder
    <3>1. ASSUME NEW q \in DOMAIN events',
                 events'[q].kind = events'[p].kind, events'[q].flow = events'[p].flow,
                 events'[p].flow # 0
          PROVE  q = p
      <4>1. CASE p \in DOMAIN events /\ q \in DOMAIN events
        BY <4>1, <3>1, <2>1 DEF FlowsInOrder
      <4>2. CASE p \in DOMAIN events /\ q \notin DOMAIN events
        BY <4>2, <3>1, <2>1, <2>2, <2>7
      <4>3. CASE p \notin DOMAIN events
        <5>1. p = Len(events')
          BY <4>3, <3>1, <2>1, <2>2
        <5>2. q \notin DOMAIN events
          BY <5>1, <3>1, <2>1, <2>7
        <5> QED
          BY <5>1, <5>2, <3>1, <2>1, <2>2
      <4> QED
        BY <4>1, <4>2, <4>3
    <3>2. ASSUME events'[p].kind \in DOMAIN Before
          PROVE  \E q \in 1..(p - 1) :
                    /\ events'[q].kind = Before[events'[p].kind]
                    /\ events'[q].flow = events'[p].flow
                    /\ events'[q].step = events'[p].step
                    /\ events'[q].thread = IF events'[q].kind = "s" THEN Main
                                           ELSE events'[p].thread
      <4>1. CASE p \in DOMAIN events
        <5>1. events'[p] = events[p]
          BY <4>1, <2>1
        <5>2. PICK q \in 1..(p - 1) :
                    /\ events[q].kind = Before[events[p].kind]
                    /\ events[q].flow = events[p].flow /\ events[q].step = events[p].step
                    /\ events[q].thread = IF events[q].kind = "s" THEN Main
                                          ELSE events[p].thread
          BY <4>1, <5>1, <3>2 DEF FlowsInOrder
        <5>3. q \in DOMAIN events
          BY <1>a, <4>1
        <5>4. events'[q] = events[q]
          BY <5>3, <2>1
        <5> QED
          BY <5>1, <5>2, <5>4
      <4>2. CASE p = Len(events')
        <5>1. before \in 1..(p - 1) /\ events'[before] = events[before]
          BY <4>2, <2>1, <2>8, <1>a
        <5>2. events'[p] = event
          BY <4>2, <2>1
        <5> QED
          BY <5>1, <5>2, <2>8, <2>9
      <4>3. CASE events'[p] = Thread(w)
        BY <4>3, <3>2, <2>2, <1>c
      <4> QED
        BY <4>1, <4>2, <4>3, <2>1
    <3> QED
      BY <3>1, <3>2
  <2> QED
    BY <1>2, <2>5, <2>6, <2>10
<1> QED
  BY <1>5, <1>6

\* An event without a flow leaves the flows alone.
LEMMA PlainEvent ==
    ASSUME ListsTyped, OneReadPerFlow, EventsHaveReads, ReadsHaveEvents, FlowsInOrder,
           NEW thread \in Threads, NEW event \in EventSet, Appended(thread, event),
           event.flow = 0, event.kind \notin {"s"} \union DOMAIN Before,
           reads' = reads
    PROVE  OneReadPerFlow' /\ EventsHaveReads' /\ ReadsHaveEvents' /\ FlowsInOrder'
<1>a. /\ events \in Seq(EventSet) /\ DOMAIN events = 1..Len(events) /\ Len(events) \in Nat
  BY DEF ListsTyped
<1>1. /\ Len(events') \in Nat /\ Len(events') > Len(events)
      /\ \A p \in DOMAIN events : p \in DOMAIN events' /\ events'[p] = events[p]
      /\ \A p \in DOMAIN events' :
           \/ p \in DOMAIN events
           \/ /\ events'[p].flow = 0
              /\ events'[p].kind \notin {"s"} \union DOMAIN Before
  <2>1. Thread(thread).flow = 0 /\ Thread(thread).kind \notin {"s"} \union DOMAIN Before
    BY DEF Thread, Before
  <2> QED
    BY <1>a, <2>1, AppendedFacts
<1>2. OneReadPerFlow'
  BY DEF OneReadPerFlow, Traced
<1>3. EventsHaveReads'
  <2> SUFFICES ASSUME NEW p \in DOMAIN events'
               PROVE  /\ events'[p].kind \in {"s"} \union DOMAIN Before => events'[p].flow # 0
                      /\ events'[p].flow # 0 =>
                           \E j \in DOMAIN reads : /\ IsOf(events'[p], reads[j])
                                                   /\ events'[p].kind \in Passed(reads[j].state)
    BY DEF EventsHaveReads
  <2>1. CASE p \in DOMAIN events
    <3>1. events'[p] = events[p]
      BY <2>1, <1>1
    <3> QED
      BY <2>1, <3>1 DEF EventsHaveReads
  <2> QED
    BY <2>1, <1>1
<1>4. ReadsHaveEvents'
  <2> SUFFICES ASSUME NEW i \in DOMAIN reads, reads[i].flow # 0, NEW k \in Passed(reads[i].state)
               PROVE  \E p \in DOMAIN events' : events'[p].kind = k /\ IsOf(events'[p], reads[i])
    BY DEF ReadsHaveEvents, Traced
  <2>1. PICK p \in DOMAIN events : events[p].kind = k /\ IsOf(events[p], reads[i])
    BY DEF ReadsHaveEvents, Traced
  <2> QED
    BY <2>1, <1>1
<1>5. FlowsInOrder'
  <2>1. ASSUME NEW p \in DOMAIN events', NEW q \in DOMAIN events',
               events'[q].kind = events'[p].kind, events'[q].flow = events'[p].flow,
               events'[p].flow # 0
        PROVE  q = p
    BY <2>1, <1>1 DEF FlowsInOrder
  <2>2. ASSUME NEW p \in DOMAIN events', events'[p].kind \in DOMAIN Before
        PROVE  \E q \in 1..(p - 1) :
                  /\ events'[q].kind = Before[events'[p].kind]
                  /\ events'[q].flow = events'[p].flow
                  /\ events'[q].step = events'[p].step
                  /\ events'[q].thread = IF events'[q].kind = "s" THEN Main
                                         ELSE events'[p].thread
    <3>1. p \in DOMAIN events /\ events'[p] = events[p]
      BY <2>2, <1>1
    <3>2. PICK q \in 1..(p - 1) :
              /\ events[q].kind = Before[events[p].kind]
              /\ events[q].flow = events[p].flow /\ events[q].step = events[p].step
              /\ events[q].thread = IF events[q].kind = "s" THEN Main
                                    ELSE events[p].thread
      BY <2>2, <3>1 DEF FlowsInOrder
    <3>3. events'[q] = events[q]
      BY <3>1, <1>1, <1>a
    <3> QED
      BY <3>1, <3>2, <3>3
  <2> QED
    BY <2>1, <2>2 DEF FlowsInOrder
<1> QED
  BY <1>2, <1>3, <1>4, <1>5

-----------------------------------------------------------------------------
(* The main thread                                                          *)

\* A step is left, by its end or by an exception.
LEMMA StepLeftFacts ==
    ASSUME TraceAssumption, IInv, pc = "step", NEW next, StepLeft(next),
           raised' \in {raised, TRUE}, step' = step \/ step' = step + 1
    PROVE  /\ events' \in Seq(EventSet) /\ named' \subseteq Threads
           /\ Bounded' /\ OneReadPerFlow' /\ EventsHaveReads' /\ ReadsHaveEvents'
           /\ FlowsInOrder' /\ OnlyTheWindow' /\ OnlyAFailedStepLosesEvents'
           /\ written' = NoStep /\ Len(events') >= Len(events) /\ Len(events') \in Nat
<1>a. /\ events \in Seq(EventSet) /\ flows \in Nat /\ reads \in Seq(ReadSet)
      /\ named \subseteq Threads
      /\ DOMAIN events = 1..Len(events) /\ Len(events) \in Nat
  BY DEF IInv, ListsTyped
<1>b. /\ written = NoStep /\ written' = written /\ reads' = reads /\ flows' = flows
      /\ step \in 0..(MaxSteps - 1)
  BY DEF StepLeft, IInv, JoinedInv, MainTyped, TraceAssumption
<1>c. OnlyAFailedStepLosesEvents'
  BY <1>b DEF OnlyAFailedStepLosesEvents
<1>1. CASE recording
  <2>0. PICK stop \in Ends(began) :
            Appended(Main, Event("decode_step", Main, 0, step, began, stop))
    BY <1>1 DEF StepLeft, StepRecorded
  <2> DEFINE event == Event("decode_step", Main, 0, step, began, stop)
  <2>1. /\ Appended(Main, event) /\ Main \in Threads
    BY <2>0 DEF Threads
  <2>2. began \in Nat /\ began <= Len(events)
    BY <1>a DEF IInv, MainTyped
  <2>e. stop \in Nat /\ stop <= Len(events) + 1
    BY <1>a, <2>2, EndsAre
  <2>3. /\ event \in EventSet
        /\ event.flow = 0 /\ event.kind = "decode_step" /\ event.step = step
        /\ event.start = began /\ event.stop = stop
    <3>1. "decode_step" \in Kinds /\ 0 \in Nat
      BY DEF Kinds
    <3>2. /\ step \in 0..(MaxSteps - 1) /\ began \in Nat /\ Main \in Threads
          /\ events \in Seq(EventSet) /\ stop \in Nat
      BY <1>a, <1>b, <2>1, <2>2, <2>e
    <3>3. event \in EventSet
      BY <3>1, <3>2, EventTyped
    <3>4. /\ event.flow = 0 /\ event.kind = "decode_step" /\ event.step = step
          /\ event.start = began /\ event.stop = stop
      BY DEF Event
    <3> QED
      BY <3>3, <3>4
  <2> HIDE DEF event
  <2>4. Selected(step)
    BY <1>1 DEF IInv, WindowInv
  <2>5. event.kind \notin {"s"} \union DOMAIN Before
    BY <2>3 DEF Before
  <2>6. OneReadPerFlow' /\ EventsHaveReads' /\ ReadsHaveEvents' /\ FlowsInOrder'
    BY <2>1, <2>3, <2>5, <1>b, PlainEvent DEF IInv
  <2>7. flows' \in Nat /\ flows <= flows' /\ event.flow <= flows'
    BY <2>3, <1>a, <1>b
  <2>8. Len(events') > Len(events) /\ Len(events') \in Nat
    BY <2>1, <2>3, <1>a, AppendedFacts
  <2>9. event.start <= Len(events') /\ event.stop <= Len(events')
    BY <2>2, <2>3, <2>8, <2>e, <1>a
  <2>10. Selected(event.step) /\ step' \in 0..MaxSteps
    BY <2>3, <2>4, <1>b DEF TraceAssumption
  <2>11. /\ events' \in Seq(EventSet) /\ named' \subseteq Threads
         /\ \A p \in DOMAIN events' : /\ events'[p].flow <= flows'
                                      /\ events'[p].start <= Len(events')
                                      /\ events'[p].stop <= Len(events')
         /\ OnlyTheWindow'
    BY <2>1, <2>3, <2>7, <2>9, <2>10, <1>b, AppendedKeeps DEF IInv
  <2>12. ASSUME NEW i \in DOMAIN reads
         PROVE  reads[i].flow <= flows /\ reads[i].start <= Len(events')
    <3>1. reads[i].flow <= flows /\ reads[i].start <= Len(events)
      BY DEF IInv, Bounded
    <3>2. reads[i] \in ReadSet
      BY <1>a
    <3>3. reads[i].start \in Nat
      BY <3>2 DEF ReadSet
    <3> QED
      BY <3>1, <3>3, <2>8, <1>a
  <2>13. Bounded'
    BY <2>11, <2>12, <1>b DEF Bounded
  <2> QED
    BY <1>b, <1>c, <2>6, <2>8, <2>11, <2>13, <1>a
<1>2. CASE ~recording
  <2>1. events' = events /\ named' = named
    BY <1>2 DEF StepLeft
  <2> QED
    <3>1. Bounded' /\ OneReadPerFlow' /\ FlowsInOrder' /\ OnlyTheWindow'
      BY <2>1, <1>b DEF IInv, Bounded, OneReadPerFlow, FlowsInOrder, OnlyTheWindow, Traced
    <3>2. EventsHaveReads'
      BY <2>1, <1>b DEF IInv, EventsHaveReads
    <3>3. ReadsHaveEvents'
      BY <2>1, <1>b DEF IInv, ReadsHaveEvents, Traced
    <3> QED
      BY <2>1, <1>a, <1>b, <1>c, <3>1, <3>2, <3>3
<1> QED
  BY <1>1, <1>2

\* Steps that leave both lists alone keep what is said of them.
LEMMA ListsKept ==
    ASSUME IInv, UNCHANGED <<events, named, flows, reads>>
    PROVE  /\ ListsTyped' /\ Bounded' /\ OneReadPerFlow' /\ EventsHaveReads'
           /\ ReadsHaveEvents' /\ FlowsInOrder' /\ OnlyTheWindow'
<1>1. ListsTyped' /\ Bounded' /\ OneReadPerFlow' /\ FlowsInOrder' /\ OnlyTheWindow'
  BY DEF IInv, ListsTyped, Bounded, OneReadPerFlow, FlowsInOrder, OnlyTheWindow, Traced
<1>2. EventsHaveReads'
  BY DEF IInv, EventsHaveReads
<1>3. ReadsHaveEvents'
  BY DEF IInv, ReadsHaveEvents, Traced
<1> QED
  BY <1>1, <1>2, <1>3

\* The steps of a read are numbers.
LEMMA ReadTypes ==
    ASSUME IInv, TraceAssumption
    PROVE  /\ step \in 0..MaxSteps /\ MaxSteps \in Nat /\ Len(events) \in Nat
           /\ DOMAIN events = 1..Len(events)
           /\ \A i \in DOMAIN reads : reads[i] \in ReadSet /\ reads[i].step \in Nat
<1>1. reads \in Seq(ReadSet) /\ events \in Seq(EventSet)
  BY DEF IInv, ListsTyped
<1>2. \A i \in DOMAIN reads : reads[i] \in ReadSet
  BY <1>1
<1>3. MaxSteps \in Nat /\ step \in 0..MaxSteps
  BY DEF TraceAssumption, IInv, MainTyped
<1>4. ASSUME NEW i \in DOMAIN reads
      PROVE  reads[i].step \in Nat
  <2>1. reads[i].step \in 0..(MaxSteps - 1)
    BY <1>2 DEF ReadSet
  <2> QED
    BY <2>1, <1>3
<1> QED
  BY <1>1, <1>2, <1>3, <1>4

\* A step begins: only then can recording be switched on.
LEMMA BeginStepKeeps ==
    ASSUME TraceAssumption, IInv, BeginStep
    PROVE  IInv'
<1>1. ListsTyped' /\ Bounded' /\ OneReadPerFlow' /\ EventsHaveReads' /\ ReadsHaveEvents'
      /\ FlowsInOrder' /\ OnlyTheWindow'
  BY ListsKept DEF BeginStep
<1>2. MainTyped'
  BY ReadTypes DEF IInv, MainTyped, BeginStep
<1>3. WindowInv'
  BY DEF IInv, WindowInv, MainTyped, BeginStep, Selected, Traced
<1>4. JoinedInv' /\ OnlyAFailedStepLosesEvents'
  BY ReadTypes DEF IInv, JoinedInv, OnlyAFailedStepLosesEvents, BeginStep
<1> QED
  BY <1>1, <1>2, <1>3, <1>4 DEF IInv

\* A step that ends has joined all of its reads.
LEMMA EndStepKeeps ==
    ASSUME TraceAssumption, IInv, EndStep
    PROVE  IInv'
<1>1. pc = "step" /\ StepLeft("between") /\ raised' \in {raised, TRUE} /\ step' = step + 1
  BY DEF EndStep
<1>2. /\ events' \in Seq(EventSet) /\ named' \subseteq Threads
      /\ Bounded' /\ OneReadPerFlow' /\ EventsHaveReads' /\ ReadsHaveEvents'
      /\ FlowsInOrder' /\ OnlyTheWindow' /\ OnlyAFailedStepLosesEvents'
      /\ written' = NoStep /\ Len(events') >= Len(events) /\ Len(events') \in Nat
  BY <1>1, StepLeftFacts
<1>3. ListsTyped'
  BY <1>1, <1>2 DEF IInv, ListsTyped, StepLeft
<1>4. MainTyped'
  <2>1. pc' = "between" /\ recording' = FALSE /\ began' = began /\ raised' = raised
    BY DEF EndStep, StepLeft
  <2>2. step' \in 0..MaxSteps /\ began' \in 0..Len(events')
    BY <1>1, <1>2, <2>1, ReadTypes DEF IInv, MainTyped
  <2> QED
    BY <2>1, <2>2, <1>2 DEF IInv, MainTyped
<1>5. WindowInv'
  BY <1>1 DEF IInv, WindowInv, StepLeft, Traced
<1>6. JoinedInv'
  <2>1. reads' = reads /\ pc' = "between"
    BY <1>1 DEF StepLeft
  <2>2. ASSUME NEW i \in DOMAIN reads
        PROVE  reads[i].step < step + 1 /\ reads[i].state = "done"
    <3>1. reads[i].step <= step /\ (reads[i].step < step => reads[i].state = "done")
      BY DEF IInv, JoinedInv
    <3>2. reads[i].step = step => reads[i].state = "done"
      BY DEF EndStep, AllJoined, ReadsOf
    <3> QED
      BY <3>1, <3>2, ReadTypes
  <2> QED
    BY <2>1, <2>2, <1>1, <1>2, ReadTypes DEF JoinedInv
<1> QED
  BY <1>2, <1>3, <1>4, <1>5, <1>6 DEF IInv

\* A step that raises leaves its reads to the workers.
LEMMA RaiseKeeps ==
    ASSUME TraceAssumption, IInv, Raise
    PROVE  IInv'
<1>1. /\ pc = "step" /\ StepLeft("leaving") /\ raised' \in {raised, TRUE} /\ step' = step
      /\ raised' = TRUE
  BY DEF Raise
<1>2. /\ events' \in Seq(EventSet) /\ named' \subseteq Threads
      /\ Bounded' /\ OneReadPerFlow' /\ EventsHaveReads' /\ ReadsHaveEvents'
      /\ FlowsInOrder' /\ OnlyTheWindow' /\ OnlyAFailedStepLosesEvents'
      /\ written' = NoStep /\ Len(events') >= Len(events) /\ Len(events') \in Nat
  BY <1>1, StepLeftFacts
<1>3. ListsTyped'
  BY <1>1, <1>2 DEF IInv, ListsTyped, StepLeft
<1>4. MainTyped'
  <2>1. pc' = "leaving" /\ recording' = FALSE /\ began' = began
    BY <1>1 DEF StepLeft
  <2>2. step' \in 0..MaxSteps /\ began' \in 0..Len(events')
    BY <1>1, <1>2, <2>1, ReadTypes DEF IInv, MainTyped
  <2> QED
    BY <1>1, <2>1, <2>2, <1>2 DEF IInv, MainTyped
<1>5. WindowInv'
  BY <1>1 DEF IInv, WindowInv, StepLeft, Traced
<1>6. JoinedInv'
  BY <1>1, <1>2 DEF IInv, JoinedInv, StepLeft
<1> QED
  BY <1>2, <1>3, <1>4, <1>5, <1>6 DEF IInv

\* After the last step: all reads are done unless a step raised.
LEMMA LeavingKeeps ==
    ASSUME TraceAssumption, IInv, EndGeneration \/ Write \/ WriteFails \/ CloseRuntime
    PROVE  IInv'
<1>0. UNCHANGED <<step, recording, began, events, named, flows, reads>>
  BY DEF EndGeneration, Write, WriteFails, CloseRuntime
<1>1. ListsTyped' /\ Bounded' /\ OneReadPerFlow' /\ EventsHaveReads' /\ ReadsHaveEvents'
      /\ FlowsInOrder' /\ OnlyTheWindow'
  BY <1>0, ListsKept
<1>2. MainTyped'
  <2>1. /\ pc' \in {"leaving", "closing", "closed"} /\ raised' \in BOOLEAN
        /\ written' \in {written, Len(events)}
    BY DEF EndGeneration, Write, WriteFails, CloseRuntime, IInv, MainTyped
  <2> QED
    BY <1>0, <2>1, ReadTypes DEF IInv, MainTyped
<1>3. WindowInv'
  <2>1. pc # "step"
    BY DEF EndGeneration, Write, WriteFails, CloseRuntime
  <2> QED
    BY <1>0, <2>1 DEF IInv, WindowInv, Traced, Selected
<1>4. JoinedInv'
  <2>1. CASE EndGeneration
    BY <1>0, <2>1 DEF IInv, JoinedInv, EndGeneration
  <2>2. CASE Write
    BY <1>0, <2>2 DEF IInv, JoinedInv, Write
  <2>3. CASE WriteFails
    BY <1>0, <2>3 DEF IInv, JoinedInv, WriteFails
  <2>4. CASE CloseRuntime
    BY <1>0, <2>4 DEF IInv, JoinedInv, CloseRuntime
  <2> QED
    BY <2>1, <2>2, <2>3, <2>4
<1>5. OnlyAFailedStepLosesEvents'
  <2>1. CASE EndGeneration
    BY <1>0, <2>1 DEF IInv, JoinedInv, OnlyAFailedStepLosesEvents, EndGeneration
  <2>2. CASE Write
    BY <1>0, <2>2, ReadTypes DEF OnlyAFailedStepLosesEvents, Write
  <2>3. CASE WriteFails
    BY <1>0, <2>3 DEF IInv, OnlyAFailedStepLosesEvents, WriteFails
  <2>4. CASE CloseRuntime
    BY <1>0, <2>4 DEF IInv, OnlyAFailedStepLosesEvents, CloseRuntime
  <2> QED
    BY <2>1, <2>2, <2>3, <2>4
<1> QED
  BY <1>1, <1>2, <1>3, <1>4, <1>5 DEF IInv

\* What Append does to the reads.
LEMMA SubmittedFacts ==
    ASSUME TraceAssumption, IInv, pc = "step", NEW flow \in Nat, reads' = Submitted(flow)
    PROVE  /\ reads' \in Seq(ReadSet) /\ Len(reads) + 1 \in DOMAIN reads'
           /\ \A i \in DOMAIN reads : i \in DOMAIN reads' /\ reads'[i] = reads[i]
           /\ \A i \in DOMAIN reads' : i \in DOMAIN reads \/ i = Len(reads) + 1
           /\ Len(reads) + 1 \notin DOMAIN reads
           /\ reads'[Len(reads) + 1] = [step |-> step, flow |-> flow, state |-> "queued",
                                        thread |-> Nobody, start |-> 0]
<1> DEFINE new == [step |-> step, flow |-> flow, state |-> "queued", thread |-> Nobody, start |-> 0]
<1>1. step \in 0..(MaxSteps - 1)
  BY ReadTypes DEF IInv, MainTyped
<1>2. new \in ReadSet
  BY <1>1 DEF ReadSet, States
<1>3. reads \in Seq(ReadSet) /\ reads' = Append(reads, new)
  BY DEF IInv, ListsTyped, Submitted
<1> HIDE DEF new
<1>4. /\ reads' \in Seq(ReadSet) /\ Len(reads') = Len(reads) + 1 /\ Len(reads) \in Nat
      /\ \A i \in 1..Len(reads) : reads'[i] = reads[i]
      /\ reads'[Len(reads) + 1] = new
  BY <1>2, <1>3
<1>5. DOMAIN reads = 1..Len(reads) /\ DOMAIN reads' = 1..(Len(reads) + 1)
  BY <1>3, <1>4
<1> QED
  BY <1>4, <1>5 DEF new

\* A read is submitted: its flow, if it has one, is a new one.
LEMMA SubmitKeeps ==
    ASSUME TraceAssumption, IInv, Submit
    PROVE  IInv'
<1>a. /\ pc = "step" /\ UNCHANGED mainState /\ step \in 0..(MaxSteps - 1)
      /\ pc' = pc /\ step' = step /\ recording' = recording /\ began' = began
      /\ written' = written /\ raised' = raised
  BY ReadTypes DEF Submit, IInv, MainTyped, mainState
<1>b. events \in Seq(EventSet) /\ flows \in Nat /\ named \subseteq Threads
  BY DEF IInv, ListsTyped
<1>c. /\ written = NoStep
      /\ \A i \in DOMAIN reads : reads[i].step <= step
                                 /\ (reads[i].step < step => reads[i].state = "done")
  BY <1>a DEF IInv, JoinedInv
<1> DEFINE flow == IF recording THEN flows + 1 ELSE 0
           new == Len(reads) + 1
<1>1. flow \in Nat /\ reads' = Submitted(flow) /\ flows' \in {flows, flows + 1} /\ flow <= flows'
  BY <1>b DEF Submit
<1>2. /\ reads' \in Seq(ReadSet) /\ new \in DOMAIN reads' /\ new \notin DOMAIN reads
      /\ \A i \in DOMAIN reads : i \in DOMAIN reads' /\ reads'[i] = reads[i]
      /\ \A i \in DOMAIN reads' : i \in DOMAIN reads \/ i = new
      /\ reads'[new].step = step /\ reads'[new].flow = flow /\ reads'[new].state = "queued"
      /\ reads'[new].start = 0
  <2> HIDE DEF flow
  <2>1. /\ reads' \in Seq(ReadSet) /\ new \in DOMAIN reads' /\ new \notin DOMAIN reads
        /\ \A i \in DOMAIN reads : i \in DOMAIN reads' /\ reads'[i] = reads[i]
        /\ \A i \in DOMAIN reads' : i \in DOMAIN reads \/ i = new
        /\ reads'[new] = [step |-> step, flow |-> flow, state |-> "queued",
                          thread |-> Nobody, start |-> 0]
    BY <1>a, <1>1, SubmittedFacts
  <2> HIDE DEF new
  <2> QED
    BY <2>1
<1>3. \A i \in DOMAIN reads : reads[i].flow <= flows /\ reads[i].flow \in Nat /\ reads[i].start \in Nat
                              /\ reads[i].start <= Len(events)
  BY ReadTypes DEF IInv, Bounded, ReadSet
<1>4. \A p \in DOMAIN events : events[p].flow <= flows /\ events[p].flow \in Nat
  <2>1. \A p \in DOMAIN events : events[p] \in EventSet
    BY <1>b
  <2> QED
    BY <2>1 DEF IInv, Bounded, EventSet
<1> HIDE DEF new, flow
<1>5. JoinedInv'
  <2>1. ASSUME NEW i \in DOMAIN reads'
        PROVE  /\ reads'[i].step <= step
               /\ reads'[i].step < step => reads'[i].state = "done"
    <3>1. CASE i \in DOMAIN reads
      BY <3>1, <1>2, <1>c
    <3>2. CASE i = new
      BY <3>2, <1>2, ReadTypes
    <3> QED
      BY <3>1, <3>2, <1>2
  <2> QED
    BY <2>1, <1>a, <1>c DEF JoinedInv
<1>6. WindowInv'
  <2>1. recording => Selected(step)
    BY DEF IInv, WindowInv
  <2>2. ASSUME NEW i \in DOMAIN reads', reads'[i].flow # 0
        PROVE  Selected(reads'[i].step)
    <3>1. CASE i \in DOMAIN reads
      BY <3>1, <2>2, <1>2 DEF IInv, WindowInv, Traced
    <3>2. CASE i = new
      BY <3>2, <2>1, <2>2, <1>2 DEF flow
    <3> QED
      BY <3>1, <3>2, <1>2
  <2> QED
    BY <2>1, <2>2, <1>a DEF WindowInv, Traced, Selected
<1>7. OneReadPerFlow'
  <2> SUFFICES ASSUME NEW i \in DOMAIN reads', NEW j \in DOMAIN reads',
                      reads'[i].flow # 0, reads'[i].flow = reads'[j].flow
               PROVE  i = j
    BY DEF OneReadPerFlow, Traced
  <2>1. flow # 0 => flow = flows + 1
    BY DEF flow
  <2>2. CASE i \in DOMAIN reads /\ j \in DOMAIN reads
    BY <2>2, <1>2 DEF IInv, OneReadPerFlow, Traced
  <2>3. CASE i \in DOMAIN reads /\ j = new
    BY <2>3, <2>1, <1>2, <1>3, <1>b
  <2>4. CASE i = new /\ j \in DOMAIN reads
    BY <2>4, <2>1, <1>2, <1>3, <1>b
  <2> QED
    BY <2>2, <2>3, <2>4, <1>2
<1>8. CASE recording
  <2> DEFINE event == Event("s", Main, flows + 1, step, Now, Now)
  <2>1. /\ Appended(Main, event) /\ Main \in Threads /\ flows' = flows + 1 /\ flow = flows + 1
    BY <1>8 DEF Submit, Threads, flow
  <2>2. /\ event.kind = "s" /\ event.thread = Main /\ event.flow = flows + 1 /\ event.step = step
        /\ event.start = Len(events) /\ event.stop = Len(events)
    BY DEF Event, Now
  <2>3. event \in EventSet
    <3>1. "s" \in Kinds
      BY DEF Kinds
    <3>2. flows + 1 \in Nat /\ Now \in Nat
      BY <1>b DEF Now
    <3> QED
      BY <3>1, <3>2, <2>1, <1>a, <1>b, EventTyped
  <2> HIDE DEF event
  <2>4. /\ events' \in Seq(EventSet) /\ Len(events') \in Nat /\ Len(events') > Len(events)
        /\ \A p \in DOMAIN events : p \in DOMAIN events' /\ events'[p] = events[p]
        /\ Len(events') \in DOMAIN events' /\ events'[Len(events')] = event
        /\ \A p \in DOMAIN events' :
             \/ p \in DOMAIN events
             \/ p = Len(events')
             \/ p > Len(events) /\ events'[p] = Thread(Main)
    BY <2>1, <2>3, <1>b, AppendedFacts
  <2>5. /\ named' \subseteq Threads
        /\ \A p \in DOMAIN events' : /\ events'[p].flow <= flows'
                                     /\ events'[p].start <= Len(events')
                                     /\ events'[p].stop <= Len(events')
        /\ OnlyTheWindow' /\ OnlyAFailedStepLosesEvents'
        /\ written' \in {NoStep} \union 0..Len(events')
    <3>1. flows' \in Nat /\ flows <= flows' /\ event.flow <= flows'
      BY <2>1, <2>2, <1>b
    <3>2. event.start <= Len(events') /\ event.stop <= Len(events')
      BY <2>2, <2>4, ReadTypes
    <3>3. Selected(event.step) /\ step' \in 0..MaxSteps /\ raised' \in {raised, TRUE}
      BY <2>2, <1>8, <1>a, ReadTypes DEF IInv, WindowInv
    <3> QED
      BY <2>1, <2>3, <3>1, <3>2, <3>3, <1>a, <1>c, AppendedKeeps DEF IInv
  <2>6. Bounded'
    <3>1. ASSUME NEW i \in DOMAIN reads'
          PROVE  reads'[i].flow <= flows' /\ reads'[i].start <= Len(events')
      <4>1. CASE i \in DOMAIN reads
        BY <4>1, <1>2, <1>3, <2>1, <2>4, <1>b, ReadTypes
      <4>2. CASE i = new
        BY <4>2, <1>1, <1>2, <2>4
      <4> QED
        BY <4>1, <4>2, <1>2
    <3> QED
      BY <3>1, <2>5 DEF Bounded
  <2>7. MainTyped' /\ ListsTyped'
    <3>1. began \in 0..Len(events')
      BY <2>4, ReadTypes DEF IInv, MainTyped
    <3> QED
      BY <3>1, <2>1, <2>4, <2>5, <1>a, <1>b, <1>2 DEF IInv, MainTyped, ListsTyped
  <2>8. /\ Thread(Main).flow = 0 /\ Thread(Main).kind = "thread"
        /\ IsOf(event, reads'[new]) /\ event.kind \in Passed(reads'[new].state)
        /\ Passed(reads'[new].state) = {"s"}
        /\ DOMAIN Before = {"t", "SSD_read", "f"}
    BY <1>2, <2>1, <2>2 DEF Thread, IsOf, Passed, Before
  <2>9. EventsHaveReads'
    <3> SUFFICES ASSUME NEW p \in DOMAIN events'
                 PROVE  /\ events'[p].kind \in {"s"} \union DOMAIN Before => events'[p].flow # 0
                        /\ events'[p].flow # 0 =>
                             \E j \in DOMAIN reads' : /\ IsOf(events'[p], reads'[j])
                                                      /\ events'[p].kind \in Passed(reads'[j].state)
      BY DEF EventsHaveReads
    <3>1. CASE p \in DOMAIN events
      <4>1. events'[p] = events[p]
        BY <3>1, <2>4
      <4>2. events[p].kind \in {"s"} \union DOMAIN Before => events[p].flow # 0
        BY <3>1 DEF IInv, EventsHaveReads
      <4>3. ASSUME events[p].flow # 0
            PROVE  \E j \in DOMAIN reads' : /\ IsOf(events[p], reads'[j])
                                            /\ events[p].kind \in Passed(reads'[j].state)
        <5>1. PICK j \in DOMAIN reads : /\ IsOf(events[p], reads[j])
                                        /\ events[p].kind \in Passed(reads[j].state)
          BY <3>1, <4>3 DEF IInv, EventsHaveReads
        <5> QED
          BY <5>1, <1>2
      <4> QED
        BY <4>1, <4>2, <4>3
    <3>2. CASE p = Len(events')
      <4>1. events'[p].flow # 0
        BY <3>2, <2>2, <2>4, <1>b
      <4> QED
        BY <3>2, <4>1, <2>4, <2>8, <1>2
    <3>3. CASE events'[p] = Thread(Main)
      BY <3>3, <2>8
    <3> QED
      BY <3>1, <3>2, <3>3, <2>4
  <2>10. ReadsHaveEvents'
    <3> SUFFICES ASSUME NEW j \in DOMAIN reads', reads'[j].flow # 0, NEW k \in Passed(reads'[j].state)
                 PROVE  \E p \in DOMAIN events' : events'[p].kind = k /\ IsOf(events'[p], reads'[j])
      BY DEF ReadsHaveEvents, Traced
    <3>1. CASE j = new
      BY <3>1, <2>2, <2>4, <2>8
    <3>2. CASE j \in DOMAIN reads
      <4>1. PICK p \in DOMAIN events : events[p].kind = k /\ IsOf(events[p], reads[j])
        BY <3>2, <1>2 DEF IInv, ReadsHaveEvents, Traced
      <4> QED
        BY <3>2, <4>1, <2>4, <1>2
    <3> QED
      BY <3>1, <3>2, <1>2
  <2>11. FlowsInOrder'
    <3>1. ASSUME NEW p \in DOMAIN events', NEW q \in DOMAIN events',
                 events'[q].kind = events'[p].kind, events'[q].flow = events'[p].flow,
                 events'[p].flow # 0
          PROVE  q = p
      <4>1. CASE p \in DOMAIN events /\ q \in DOMAIN events
        BY <4>1, <3>1, <2>4 DEF IInv, FlowsInOrder
      <4>2. CASE p \in DOMAIN events /\ q \notin DOMAIN events
        BY <4>2, <3>1, <2>2, <2>4, <2>8, <1>4, <1>b
      <4>3. CASE p \notin DOMAIN events /\ q \in DOMAIN events
        BY <4>3, <3>1, <2>2, <2>4, <2>8, <1>4, <1>b
      <4>4. CASE p \notin DOMAIN events /\ q \notin DOMAIN events
        BY <4>4, <3>1, <2>4, <2>8
      <4> QED
        BY <4>1, <4>2, <4>3, <4>4
    <3>2. ASSUME NEW p \in DOMAIN events', events'[p].kind \in DOMAIN Before
          PROVE  \E q \in 1..(p - 1) :
                    /\ events'[q].kind = Before[events'[p].kind]
                    /\ events'[q].flow = events'[p].flow
                    /\ events'[q].step = events'[p].step
                    /\ events'[q].thread = IF events'[q].kind = "s" THEN Main
                                           ELSE events'[p].thread
      <4>1. p \in DOMAIN events /\ events'[p] = events[p]
        BY <3>2, <2>2, <2>4, <2>8
      <4>2. PICK q \in 1..(p - 1) :
                /\ events[q].kind = Before[events[p].kind]
                /\ events[q].flow = events[p].flow /\ events[q].step = events[p].step
                /\ events[q].thread = IF events[q].kind = "s" THEN Main
                                      ELSE events[p].thread
        BY <3>2, <4>1 DEF IInv, FlowsInOrder
      <4>3. events'[q] = events[q]
        BY <4>1, <2>4, ReadTypes
      <4> QED
        BY <4>1, <4>2, <4>3
    <3> QED
      BY <3>1, <3>2 DEF FlowsInOrder
  <2> QED
    BY <1>5, <1>6, <1>7, <2>5, <2>6, <2>7, <2>9, <2>10, <2>11 DEF IInv
<1>9. CASE ~recording
  <2>1. events' = events /\ named' = named /\ flows' = flows /\ flow = 0
    BY <1>9 DEF Submit, flow
  <2>2. MainTyped' /\ ListsTyped'
    BY <2>1, <1>a, <1>2 DEF IInv, MainTyped, ListsTyped
  <2>3. Bounded'
    BY <2>1, <1>1, <1>2, ReadTypes DEF IInv, Bounded
  <2>4. EventsHaveReads'
    <3> SUFFICES ASSUME NEW p \in DOMAIN events
                 PROVE  /\ events[p].kind \in {"s"} \union DOMAIN Before => events[p].flow # 0
                        /\ events[p].flow # 0 =>
                             \E j \in DOMAIN reads' : /\ IsOf(events[p], reads'[j])
                                                      /\ events[p].kind \in Passed(reads'[j].state)
      BY <2>1 DEF EventsHaveReads
    <3>1. ASSUME events[p].flow # 0
          PROVE  \E j \in DOMAIN reads' : /\ IsOf(events[p], reads'[j])
                                          /\ events[p].kind \in Passed(reads'[j].state)
      <4>1. PICK j \in DOMAIN reads : /\ IsOf(events[p], reads[j])
                                      /\ events[p].kind \in Passed(reads[j].state)
        BY <3>1 DEF IInv, EventsHaveReads
      <4> QED
        BY <4>1, <1>2
    <3> QED
      BY <3>1 DEF IInv, EventsHaveReads
  <2>5. ReadsHaveEvents'
    <3> SUFFICES ASSUME NEW j \in DOMAIN reads', reads'[j].flow # 0, NEW k \in Passed(reads'[j].state)
                 PROVE  \E p \in DOMAIN events : events[p].kind = k /\ IsOf(events[p], reads'[j])
      BY <2>1 DEF ReadsHaveEvents, Traced
    <3>1. j \in DOMAIN reads /\ reads'[j] = reads[j]
      BY <2>1, <1>2
    <3> QED
      BY <3>1 DEF IInv, ReadsHaveEvents, Traced
  <2>6. FlowsInOrder' /\ OnlyTheWindow' /\ OnlyAFailedStepLosesEvents'
    BY <2>1, <1>a DEF IInv, FlowsInOrder, OnlyTheWindow, OnlyAFailedStepLosesEvents
  <2> QED
    BY <1>5, <1>6, <1>7, <2>2, <2>3, <2>4, <2>5, <2>6 DEF IInv
<1> QED
  BY <1>8, <1>9

-----------------------------------------------------------------------------
(* The workers                                                              *)

\* A worker moves a read on, with an event of its flow if it has one.
LEMMA MovedKeeps ==
    ASSUME TraceAssumption, IInv, UNCHANGED <<mainState, flows>>,
           NEW i \in DOMAIN reads, NEW w \in Workers, NEW kind \in DOMAIN Before,
           NEW stops \in SUBSET Ends(reads[i].start), Recorded(i, kind, w, stops),
           NEW state \in States,
           reads[i].state # "done", reads[i].step < step => state = "done",
           reads' \in Seq(ReadSet), DOMAIN reads' = DOMAIN reads,
           \A j \in DOMAIN reads : j # i => reads'[j] = reads[j],
           reads'[i].flow = reads[i].flow, reads'[i].step = reads[i].step,
           reads'[i].state = state, reads'[i].thread = w,
           reads'[i].start \in {reads[i].start, Len(events')},
           reads[i].state = "queued" \/ reads[i].thread = w,
           Passed(state) = Passed(reads[i].state) \union {kind},
           kind \notin Passed(reads[i].state), Before[kind] \in Passed(reads[i].state)
    PROVE  IInv'
<1>a. /\ pc' = pc /\ step' = step /\ recording' = recording /\ began' = began
      /\ written' = written /\ raised' = raised /\ flows' = flows
  BY DEF mainState
<1>b. /\ events \in Seq(EventSet) /\ flows \in Nat /\ named \subseteq Threads
  BY DEF IInv, ListsTyped
<1>c. /\ reads[i] \in ReadSet /\ reads[i].step \in 0..(MaxSteps - 1) /\ reads[i].flow \in Nat
      /\ reads[i].start \in Nat /\ reads[i].step \in Nat
      /\ reads[i].start <= Len(events) /\ reads[i].flow <= flows
  <2>1. reads[i] \in ReadSet /\ reads[i].step \in Nat
    BY ReadTypes
  <2> QED
    BY <2>1 DEF ReadSet, IInv, Bounded
<1>d. reads[i].step = step
  <2>1. reads[i].step <= step /\ (reads[i].step < step => reads[i].state = "done")
    BY DEF IInv, JoinedInv
  <2> QED
    BY <2>1, <1>c, ReadTypes
<1>e. kind \in Kinds /\ w \in Threads
  BY DEF Before, Kinds, Threads
<1>f. PICK stop \in Ends(reads[i].start) :
          IF Traced(i)
          THEN Appended(w, Event(kind, w, reads[i].flow, reads[i].step, reads[i].start, stop))
          ELSE UNCHANGED <<events, named>>
  BY RecordedFacts
<1>g. stop \in Nat /\ stop <= Len(events) + 1
  BY <1>b, <1>c, EndsAre
<1> DEFINE event == Event(kind, w, reads[i].flow, reads[i].step, reads[i].start, stop)
<1>1. /\ event \in EventSet /\ event.kind = kind /\ event.thread = w
      /\ event.flow = reads[i].flow /\ event.step = reads[i].step
      /\ event.start = reads[i].start /\ event.stop = stop
  <2>1. event \in EventSet
    BY <1>b, <1>c, <1>e, <1>g, EventTyped
  <2> QED
    BY <2>1 DEF Event
<1>2. IF Traced(i) THEN Appended(w, event) ELSE UNCHANGED <<events, named>>
  BY <1>f
<1> HIDE DEF event
<1>3. IsOf(event, reads[i]) \/ reads[i].state = "queued"
  <2>1. kind # "s"
    BY DEF Before
  <2> QED
    BY <1>1, <2>1 DEF IsOf
<1>4. OneReadPerFlow' /\ EventsHaveReads' /\ ReadsHaveEvents' /\ FlowsInOrder'
  BY <1>1, <1>2, <1>3, MovedFlow DEF IInv
<1>5. written # NoStep => raised
  BY DEF IInv, JoinedInv
<1>6. WindowInv'
  <2>1. \A j \in DOMAIN reads : reads'[j].flow = reads[j].flow /\ reads'[j].step = reads[j].step
    OBVIOUS
  <2> QED
    BY <1>a, <2>1 DEF IInv, WindowInv, Traced, Selected
<1>7. JoinedInv'
  <2> SUFFICES ASSUME NEW j \in DOMAIN reads
               PROVE  /\ reads'[j].step <= step
                      /\ pc = "between" => reads'[j].step < step
                      /\ reads'[j].step < step => reads'[j].state = "done"
                      /\ pc \notin {"between", "step"} /\ reads'[j].state # "done" => raised
    BY <1>a DEF IInv, JoinedInv
  <2>1. CASE j = i
    BY <2>1 DEF IInv, JoinedInv
  <2>2. CASE j # i
    BY <2>2 DEF IInv, JoinedInv
  <2> QED
    BY <2>1, <2>2
<1>8. /\ events' \in Seq(EventSet) /\ named' \subseteq Threads
      /\ \A p \in DOMAIN events' : /\ events'[p].flow <= flows'
                                   /\ events'[p].start <= Len(events')
                                   /\ events'[p].stop <= Len(events')
      /\ OnlyTheWindow' /\ OnlyAFailedStepLosesEvents'
      /\ written' \in {NoStep} \union 0..Len(events')
      /\ Len(events') \in Nat /\ Len(events') >= Len(events)
  <2>1. CASE Traced(i)
    <3>1. Appended(w, event) /\ Selected(event.step)
      BY <2>1, <1>1, <1>2 DEF IInv, WindowInv
    <3>2. /\ flows' \in Nat /\ flows <= flows' /\ event.flow <= flows'
          /\ step' \in 0..MaxSteps /\ raised' \in {raised, TRUE}
      BY <1>a, <1>b, <1>c, <1>1, ReadTypes
    <3>3. Len(events') \in Nat /\ Len(events') > Len(events)
      BY <3>1, <1>1, <1>b, <1>e, AppendedFacts
    <3>4. event.start <= Len(events') /\ event.stop <= Len(events')
      BY <3>3, <1>1, <1>c, <1>g, ReadTypes
    <3>5. /\ events' \in Seq(EventSet) /\ named' \subseteq Threads
          /\ \A p \in DOMAIN events' : /\ events'[p].flow <= flows'
                                       /\ events'[p].start <= Len(events')
                                       /\ events'[p].stop <= Len(events')
          /\ OnlyTheWindow' /\ OnlyAFailedStepLosesEvents'
          /\ written' \in {NoStep} \union 0..Len(events')
      BY <3>1, <3>2, <3>4, <1>1, <1>a, <1>d, <1>e, <1>5, AppendedKeeps DEF IInv
    <3> QED
      BY <3>3, <3>5, ReadTypes
  <2>2. CASE ~Traced(i)
    <3>1. events' = events /\ named' = named
      BY <2>2, <1>2
    <3>2. OnlyTheWindow' /\ OnlyAFailedStepLosesEvents'
      BY <3>1, <1>a DEF IInv, OnlyTheWindow, OnlyAFailedStepLosesEvents
    <3>3. \A p \in DOMAIN events' : /\ events'[p].flow <= flows'
                                    /\ events'[p].start <= Len(events')
                                    /\ events'[p].stop <= Len(events')
      BY <3>1, <1>a DEF IInv, Bounded
    <3>4. written' \in {NoStep} \union 0..Len(events')
      BY <3>1, <1>a DEF IInv, MainTyped
    <3> QED
      BY <3>1, <3>2, <3>3, <3>4, <1>b, ReadTypes
  <2> QED
    BY <2>1, <2>2
<1>9. MainTyped' /\ ListsTyped'
  <2>1. began \in 0..Len(events')
    BY <1>8, ReadTypes DEF IInv, MainTyped
  <2> QED
    BY <2>1, <1>8, <1>a, <1>b DEF IInv, MainTyped, ListsTyped
<1>10. Bounded'
  <2>1. ASSUME NEW j \in DOMAIN reads
        PROVE  reads'[j].flow <= flows /\ reads'[j].start <= Len(events')
    <3>1. CASE j = i
      BY <3>1, <1>c, <1>8, ReadTypes
    <3>2. CASE j # i
      <4>1. reads[j].flow <= flows /\ reads[j].start <= Len(events)
        BY DEF IInv, Bounded
      <4>2. reads[j].start \in Nat
        BY ReadTypes DEF ReadSet
      <4> QED
        BY <3>2, <4>1, <4>2, <1>8, ReadTypes
    <3> QED
      BY <3>1, <3>2
  <2> QED
    BY <2>1, <1>8, <1>a DEF Bounded
<1> QED
  BY <1>4, <1>6, <1>7, <1>8, <1>9, <1>10 DEF IInv

\* A worker takes up a read.
LEMMA StartSpanKeeps ==
    ASSUME TraceAssumption, IInv, NEW w \in Workers, NEW i \in DOMAIN reads, StartSpan(w, i)
    PROVE  IInv'
<1>1. /\ reads[i].state = "queued" /\ Recorded(i, "t", w, {Now}) /\ UNCHANGED <<mainState, flows>>
      /\ reads' = [reads EXCEPT ![i] = [@ EXCEPT !.state = "reading", !.thread = w,
                                                !.start = Len(events')]]
  BY DEF StartSpan
<1>2. reads \in Seq(ReadSet) /\ reads[i] \in ReadSet
  BY ReadTypes DEF IInv, ListsTyped
<1>3. Len(events') \in Nat
  <2>1. CASE Traced(i)
    <3>1. reads[i].flow \in Nat /\ reads[i].step \in 0..(MaxSteps - 1) /\ reads[i].start \in Nat
      BY <1>2 DEF ReadSet
    <3>2. "t" \in Kinds /\ w \in Threads /\ events \in Seq(EventSet)
      BY DEF Kinds, Threads, IInv, ListsTyped
    <3> DEFINE event == Event("t", w, reads[i].flow, reads[i].step, reads[i].start, Now)
    <3>3. event \in EventSet
      BY <3>1, <3>2, ReadTypes, EventTyped DEF Now
    <3>4. Appended(w, event)
      BY <1>1, <2>1 DEF Recorded
    <3> QED
      BY <3>2, <3>3, <3>4, AppendedFacts
  <2>2. CASE ~Traced(i)
    BY <1>1, <2>2, ReadTypes DEF Recorded
  <2> QED
    BY <2>1, <2>2
<1> DEFINE next == [reads[i] EXCEPT !.state = "reading", !.thread = w, !.start = Len(events')]
<1>4. /\ next \in ReadSet /\ next.flow = reads[i].flow /\ next.step = reads[i].step
      /\ next.state = "reading" /\ next.thread = w /\ next.start = Len(events')
  BY <1>2, <1>3 DEF ReadSet, States, Threads
<1>5. reads' = [reads EXCEPT ![i] = next]
  BY <1>1
<1> HIDE DEF next
<1>6. /\ reads' \in Seq(ReadSet) /\ DOMAIN reads' = DOMAIN reads /\ reads'[i] = next
      /\ \A j \in DOMAIN reads : j # i => reads'[j] = reads[j]
  BY <1>2, <1>4, <1>5
<1>7. /\ Passed("reading") = Passed(reads[i].state) \union {"t"}
      /\ "t" \notin Passed(reads[i].state) /\ Before["t"] \in Passed(reads[i].state)
      /\ "t" \in DOMAIN Before
  BY <1>1 DEF Passed, Before
<1>8. /\ reads[i].state # "done" /\ "reading" \in States
      /\ reads[i].step < step => "reading" = "done"
  BY <1>1 DEF States, IInv, JoinedInv
<1>9. {Now} \in SUBSET Ends(reads[i].start)
  BY DEF Ends
<1> QED
  BY <1>1, <1>4, <1>6, <1>7, <1>8, <1>9, MovedKeeps

\* What Advance does to the reads.
LEMMA AdvancedFacts ==
    ASSUME TraceAssumption, IInv, NEW i \in DOMAIN reads, NEW state \in States,
           NEW w \in Workers, Advance(i, state, w)
    PROVE  /\ reads' \in Seq(ReadSet) /\ DOMAIN reads' = DOMAIN reads
           /\ reads'[i].flow = reads[i].flow /\ reads'[i].step = reads[i].step
           /\ reads'[i].state = state /\ reads'[i].thread = w
           /\ reads'[i].start = reads[i].start
           /\ \A j \in DOMAIN reads : j # i => reads'[j] = reads[j]
<1> DEFINE next == [reads[i] EXCEPT !.state = state, !.thread = w]
<1>1. reads \in Seq(ReadSet) /\ reads[i] \in ReadSet
  BY ReadTypes DEF IInv, ListsTyped
<1>2. /\ next \in ReadSet /\ next.flow = reads[i].flow /\ next.step = reads[i].step
      /\ next.state = state /\ next.thread = w /\ next.start = reads[i].start
  BY <1>1 DEF ReadSet, Threads
<1>3. reads' = [reads EXCEPT ![i] = next]
  BY DEF Advance
<1> HIDE DEF next
<1> QED
  BY <1>1, <1>2, <1>3

\* A worker has read, or failed to.
LEMMA EndSpanKeeps ==
    ASSUME TraceAssumption, IInv, NEW w \in Workers, NEW i \in DOMAIN reads, EndSpan(w, i)
    PROVE  IInv'
<1>1. /\ reads[i].state = "reading" /\ reads[i].thread = w
      /\ Recorded(i, "SSD_read", w, Ends(reads[i].start)) /\ UNCHANGED <<mainState, flows>>
  BY DEF EndSpan, Has
<1>2. PICK state \in {"ended", "broken"} : Advance(i, state, w)
  BY DEF EndSpan
<1>3. /\ Passed(state) = Passed(reads[i].state) \union {"SSD_read"}
      /\ "SSD_read" \notin Passed(reads[i].state)
      /\ Before["SSD_read"] \in Passed(reads[i].state) /\ "SSD_read" \in DOMAIN Before
  BY <1>1, <1>2 DEF Passed, Before
<1>4. /\ reads[i].state # "done" /\ state \in States
      /\ reads[i].step < step => state = "done"
  BY <1>1 DEF States, IInv, JoinedInv
<1> QED
  BY <1>1, <1>2, <1>3, <1>4, AdvancedFacts, MovedKeeps

\* The flow ends, and the future has its result.
LEMMA EndFlowKeeps ==
    ASSUME TraceAssumption, IInv, NEW w \in Workers, NEW i \in DOMAIN reads, EndFlow(w, i)
    PROVE  IInv'
<1> DEFINE state == IF reads[i].state = "ended" THEN "done" ELSE "failed"
<1>1. /\ reads[i].state \in {"ended", "broken"} /\ reads[i].thread = w
      /\ Recorded(i, "f", w, {Now}) /\ Advance(i, state, w)
      /\ UNCHANGED <<mainState, flows>>
  BY DEF EndFlow, Has
<1>2. PICK s \in {"done", "failed"} : s = state
  OBVIOUS
<1>3. Advance(i, s, w)
  BY <1>1, <1>2
<1>4. /\ Passed(s) = Passed(reads[i].state) \union {"f"}
      /\ "f" \notin Passed(reads[i].state)
      /\ Before["f"] \in Passed(reads[i].state) /\ "f" \in DOMAIN Before
  BY <1>1 DEF Passed, Before
<1>5. /\ reads[i].state # "done" /\ s \in States
      /\ reads[i].step < step => s = "done"
  BY <1>1 DEF States, IInv, JoinedInv
<1>6. {Now} \in SUBSET Ends(reads[i].start)
  BY DEF Ends
<1> HIDE DEF state
<1> QED
  BY <1>1, <1>3, <1>4, <1>5, <1>6, AdvancedFacts, MovedKeeps

-----------------------------------------------------------------------------
(* The theorems                                                             *)

\* The invariant is inductive.
THEOREM Invariance == Spec => []IInv
<1> SUFFICES ASSUME TraceAssumption
             PROVE  Spec => []IInv
  BY TraceAssumption
<1>1. Init => IInv
  <2> SUFFICES ASSUME Init
               PROVE  IInv
    OBVIOUS
  <2> DEFINE first == Thread(Main)
  <2>1. /\ first \in EventSet /\ first.flow = 0 /\ first.step = NoStep /\ first.kind = "thread"
        /\ first.start = 0 /\ first.stop = 0
    BY DEF Thread, EventSet, Kinds, Threads
  <2>2. events = <<first>> /\ reads = <<>>
    BY DEF Init
  <2> HIDE DEF first
  <2>3. events \in Seq(EventSet) /\ Len(events) = 1 /\ DOMAIN events = {1} /\ events[1] = first
    BY <2>1, <2>2
  <2>4. reads \in Seq(ReadSet) /\ DOMAIN reads = {}
    BY <2>2
  <2>5. MainTyped /\ ListsTyped
    <3>1. step \in 0..MaxSteps /\ began \in 0..Len(events)
      BY <2>3 DEF Init, TraceAssumption
    <3>2. MainTyped
      BY <3>1 DEF Init, MainTyped
    <3>3. ListsTyped
      BY <2>3, <2>4 DEF Init, ListsTyped, Threads
    <3> QED
      BY <3>2, <3>3
  <2>6. Bounded /\ OneReadPerFlow /\ ReadsHaveEvents
    BY <2>1, <2>3, <2>4 DEF Init, Bounded, OneReadPerFlow, ReadsHaveEvents
  <2>7. EventsHaveReads /\ FlowsInOrder
    BY <2>1, <2>3 DEF EventsHaveReads, FlowsInOrder, Before
  <2>8. WindowInv /\ OnlyTheWindow /\ JoinedInv /\ OnlyAFailedStepLosesEvents
    BY <2>1, <2>3, <2>4 DEF Init, WindowInv, OnlyTheWindow, JoinedInv, OnlyAFailedStepLosesEvents
  <2> QED
    BY <2>5, <2>6, <2>7, <2>8 DEF IInv
<1>2. IInv /\ [Next]_vars => IInv'
  <2> SUFFICES ASSUME IInv, [Next]_vars
               PROVE  IInv'
    OBVIOUS
  <2>1. CASE BeginStep
    BY <2>1, BeginStepKeeps
  <2>2. CASE Submit
    BY <2>2, SubmitKeeps
  <2>3. CASE EndStep
    BY <2>3, EndStepKeeps
  <2>4. CASE Raise
    BY <2>4, RaiseKeeps
  <2>5. CASE EndGeneration \/ Write \/ WriteFails \/ CloseRuntime
    BY <2>5, LeavingKeeps
  <2>6. ASSUME NEW w \in Workers, Work(w)
        PROVE  IInv'
    BY <2>6, StartSpanKeeps, EndSpanKeeps, EndFlowKeeps DEF Work
  <2>7. CASE UNCHANGED vars
    <3>1. /\ UNCHANGED <<events, named, flows, reads>> /\ pc' = pc /\ step' = step
          /\ recording' = recording /\ began' = began /\ written' = written /\ raised' = raised
      BY <2>7 DEF vars, mainState
    <3>2. ListsTyped' /\ Bounded' /\ OneReadPerFlow' /\ EventsHaveReads' /\ ReadsHaveEvents'
          /\ FlowsInOrder' /\ OnlyTheWindow'
      BY <3>1, ListsKept
    <3>3. MainTyped' /\ WindowInv' /\ JoinedInv' /\ OnlyAFailedStepLosesEvents'
      BY <3>1 DEF IInv, MainTyped, WindowInv, JoinedInv, OnlyAFailedStepLosesEvents, Traced, Selected
    <3> QED
      BY <3>2, <3>3 DEF IInv
  <2> QED
    BY <2>1, <2>2, <2>3, <2>4, <2>5, <2>6, <2>7 DEF Next
<1> QED
  BY <1>1, <1>2, PTL DEF Spec

\* The variables have their types.
THEOREM TypeCorrect == Spec => []TypeOK
<1> SUFFICES ASSUME TraceAssumption
             PROVE  Spec => []TypeOK
  BY TraceAssumption
<1>1. IInv => TypeOK
  <2> SUFFICES ASSUME IInv
               PROVE  TypeOK
    OBVIOUS
  <2> DEFINE E == [kind : Kinds, thread : Threads, flow : 0..flows,
                   step : {NoStep} \union 0..(MaxSteps - 1),
                   start : 0..Len(events), stop : 0..Len(events)]
             R == [step : 0..(MaxSteps - 1), flow : 0..flows,
                   state : {"queued", "reading", "ended", "broken", "done", "failed"},
                   thread : Threads \union {Nobody}, start : 0..Len(events)]
  <2>1. events \in Seq(EventSet) /\ reads \in Seq(ReadSet) /\ named \subseteq Threads /\ flows \in Nat
    BY DEF IInv, ListsTyped
  <2>2. ASSUME NEW p \in DOMAIN events
        PROVE  events[p] \in E
    <3>1. events[p] \in EventSet
      BY <2>1
    <3>2. events[p].flow <= flows /\ events[p].start <= Len(events) /\ events[p].stop <= Len(events)
      BY DEF IInv, Bounded
    <3>3. events[p].flow \in 0..flows /\ events[p].start \in 0..Len(events)
          /\ events[p].stop \in 0..Len(events)
      BY <2>1, <3>1, <3>2, ReadTypes DEF EventSet
    <3> QED
      BY <3>1, <3>3 DEF EventSet
  <2>3. ASSUME NEW i \in DOMAIN reads
        PROVE  reads[i] \in R
    <3>1. reads[i] \in ReadSet
      BY <2>1
    <3>2. reads[i].flow <= flows /\ reads[i].start <= Len(events)
      BY DEF IInv, Bounded
    <3>3. reads[i].flow \in 0..flows /\ reads[i].start \in 0..Len(events)
      BY <2>1, <3>1, <3>2, ReadTypes DEF ReadSet
    <3> QED
      BY <3>1, <3>3 DEF ReadSet, States
  <2> HIDE DEF E, R
  <2>4. events \in Seq(E) /\ reads \in Seq(R)
    BY <2>1, <2>2, <2>3
  <2> QED
    BY <2>1, <2>4 DEF TypeOK, IInv, MainTyped, E, R
<1> QED
  BY <1>1, Invariance, PTL

\* Every flow is submitted by the main thread, then taken up, read and ended by
\* one worker, each at most once, in whatever order the workers append.
THEOREM FlowsCorrect == Spec => []FlowsInOrder
BY Invariance, PTL DEF IInv

\* Nothing but the window is recorded, however a step of it ends.
THEOREM WindowCorrect == Spec => []OnlyTheWindow
BY Invariance, PTL DEF IInv

\* The written file misses no event, but those of reads that were under way
\* when a step raised.
THEOREM LossCorrect == Spec => []OnlyAFailedStepLosesEvents
BY Invariance, PTL DEF IInv

-----------------------------------------------------------------------------
(* A fold over a finite set                                                 *)

\* A set of numbers with 0 and every successor has them all.
LEMMA SetInduction ==
    ASSUME NEW S \in SUBSET Nat, 0 \in S, \A n \in S : n + 1 \in S
    PROVE  S = Nat
<1> DEFINE R == {ss \in Nat \X Nat : ss[1] < ss[2]}
           T == Nat \ S
<1>1. IsWellFoundedOn(R, Nat)
  BY NatLessThanWellFounded DEF OpToRel
<1>2. ASSUME T # {} PROVE FALSE
  <2>1. T \subseteq Nat
    OBVIOUS
  <2> HIDE DEF R, T
  <2>2. PICK m \in T : \A k \in T : <<k, m>> \notin R
    BY <1>1, <1>2, <2>1, WFMin
  <2> USE DEF T
  <2>3. m \in Nat \ {0} /\ m - 1 \in Nat /\ m - 1 + 1 = m
    BY <2>2
  <2>4. m - 1 \notin S
    BY <2>2, <2>3
  <2>5. <<m - 1, m>> \in R
    BY <2>3 DEF R
  <2> QED
    BY <2>2, <2>3, <2>4, <2>5
<1> QED
  BY <1>2

\* The fold of each set in D, of which the element of last is folded last.
FoldsOn(g, base, last, take, D) ==
    \A s \in D : g[s] = IF s = {} THEN base ELSE take[last[s]][g[s \ {last[s]}]]

\* The subsets of no more than k elements.
UpTo(P, k) == {s \in SUBSET P : Cardinality(s) <= k}

\* The fold exists, and stays in the set its steps stay in.
LEMMA FoldExists ==
    ASSUME NEW P, IsFiniteSet(P), NEW Q, NEW base \in Q,
           NEW last, \A s \in SUBSET P : s # {} => last[s] \in s,
           NEW take, \A x \in P, q \in Q : take[x][q] \in Q
    PROVE  \E g \in [SUBSET P -> Q] : FoldsOn(g, base, last, take, SUBSET P)
<1> DEFINE Exist(k) == \E g \in [UpTo(P, k) -> Q] : FoldsOn(g, base, last, take, UpTo(P, k))
           T == {k \in Nat : Exist(k)}
<1> HIDE DEF Exist
<1>0. \A s \in SUBSET P : IsFiniteSet(s) /\ Cardinality(s) \in Nat /\ (Cardinality(s) = 0 <=> s = {})
  BY FS_Subset, FS_CardinalityType, FS_EmptySet
<1>1. 0 \in T
  <2> DEFINE g == [s \in UpTo(P, 0) |-> base]
  <2>1. \A s \in UpTo(P, 0) : s = {}
    BY <1>0 DEF UpTo
  <2>2. g \in [UpTo(P, 0) -> Q] /\ \A s \in UpTo(P, 0) : g[s] = base
    OBVIOUS
  <2> HIDE DEF g
  <2>3. FoldsOn(g, base, last, take, UpTo(P, 0))
    BY <2>1, <2>2 DEF FoldsOn
  <2> QED
    BY <2>2, <2>3 DEF Exist
<1>2. ASSUME NEW k \in T PROVE k + 1 \in T
  <2>1. k \in Nat /\ Exist(k)
    OBVIOUS
  <2>2. PICK f \in [UpTo(P, k) -> Q] : FoldsOn(f, base, last, take, UpTo(P, k))
    BY <2>1 DEF Exist
  <2> DEFINE D == UpTo(P, k + 1)
             Folded(s) == IF s = {} THEN base ELSE take[last[s]][f[s \ {last[s]}]]
             g == [s \in D |-> Folded(s)]
  <2>3. ASSUME NEW s \in D, s # {}
        PROVE  last[s] \in P /\ s \ {last[s]} \in UpTo(P, k)
    <3>1. s \in SUBSET P /\ Cardinality(s) <= k + 1
      BY DEF UpTo
    <3>2. last[s] \in s
      BY <2>3, <3>1
    <3>3. IsFiniteSet(s) /\ Cardinality(s) \in Nat
      BY <1>0, <3>1
    <3>4. Cardinality(s \ {last[s]}) = Cardinality(s) - 1
      BY <3>2, <3>3, FS_RemoveElement
    <3> QED
      BY <2>1, <3>1, <3>2, <3>3, <3>4 DEF UpTo
  <2>4. \A s \in D : g[s] = Folded(s)
    OBVIOUS
  <2>5. ASSUME NEW s \in D PROVE Folded(s) \in Q
    <3>1. CASE s = {}
      BY <3>1
    <3>2. CASE s # {}
      <4>1. last[s] \in P /\ f[s \ {last[s]}] \in Q
        BY <2>3, <3>2
      <4> QED
        BY <3>2, <4>1
    <3> QED
      BY <3>1, <3>2
  <2>6. g \in [D -> Q]
    <3> HIDE DEF Folded, D
    <3> QED
      BY <2>5
  <2>7. ASSUME NEW s \in UpTo(P, k) PROVE s \in D /\ g[s] = f[s]
    <3>1. s \in D
      BY <1>0, <2>1 DEF UpTo
    <3>2. f[s] = Folded(s)
      BY <2>2 DEF FoldsOn
    <3> QED
      BY <2>4, <3>1, <3>2
  <2> HIDE DEF g, D
  <2>8. FoldsOn(g, base, last, take, D)
    <3>1. ASSUME NEW s \in D
          PROVE  g[s] = IF s = {} THEN base ELSE take[last[s]][g[s \ {last[s]}]]
      <4>1. CASE s = {}
        BY <2>4, <4>1
      <4>2. CASE s # {}
        <5>1. g[s \ {last[s]}] = f[s \ {last[s]}]
          BY <2>3, <2>7, <4>2
        <5> QED
          BY <2>4, <4>2, <5>1
      <4> QED
        BY <4>1, <4>2
    <3> HIDE DEF Folded
    <3> QED
      BY <3>1 DEF FoldsOn
  <2> QED
    BY <2>1, <2>6, <2>8 DEF Exist, D
<1>3. T \in SUBSET Nat
  OBVIOUS
<1> HIDE DEF T
<1>4. T = Nat
  BY <1>1, <1>2, <1>3, SetInduction
<1>5. PICK n \in Nat : n = Cardinality(P)
  BY FS_CardinalityType
<1>6. UpTo(P, n) = SUBSET P
  BY <1>5, FS_Subset DEF UpTo
<1>7. Exist(n)
  BY <1>4 DEF T
<1> QED
  BY <1>6, <1>7 DEF Exist

-----------------------------------------------------------------------------
(* The points of a sweep                                                    *)

\* The points of some spans.
Opens(p) == [span |-> p, at |-> events[p].start, change |-> 1]
Closes(p) == [span |-> p, at |-> events[p].stop, change |-> -1]
Points(spans) == UNION {{Opens(p), Closes(p)} : p \in spans}

\* Spans from lo to hi that begin before hi.
Timed(spans, lo, hi) ==
    /\ IsFiniteSet(spans) /\ lo \in Nat /\ hi \in Nat
    /\ \A p \in spans : /\ events[p].start \in lo..(hi - 1)
                        /\ events[p].stop \in events[p].start..hi

\* The points of a span are its start and its stop, within the time of all.
LEMMA PointsAre ==
    ASSUME NEW spans, NEW lo, NEW hi, Timed(spans, lo, hi)
    PROVE  /\ IsFiniteSet(Points(spans))
           /\ \A x \in Points(spans) :
                 /\ x.span \in spans /\ x.at \in Nat /\ lo <= x.at /\ x.at <= hi
                 /\ x.change \in {1, -1}
                 /\ x = IF x.change = 1 THEN Opens(x.span) ELSE Closes(x.span)
                 /\ x.change = 1 => x.at < hi
           /\ \A p \in spans : Opens(p) \in Points(spans) /\ Closes(p) \in Points(spans)
<1>1. IsFiniteSet(Points(spans))
  <2> DEFINE pairs == {{Opens(p), Closes(p)} : p \in spans}
  <2>1. IsFiniteSet(pairs)
    <3>1. [p \in spans |-> {Opens(p), Closes(p)}] \in Surjection(spans, pairs)
      BY DEF Surjection
    <3>2. IsFiniteSet(spans)
      BY DEF Timed
    <3> HIDE DEF pairs
    <3> QED
      BY <3>1, <3>2, FS_Surjection
  <2>2. ASSUME NEW pair \in pairs PROVE IsFiniteSet(pair)
    <3>1. PICK p \in spans : pair = {Opens(p), Closes(p)}
      OBVIOUS
    <3>2. {Opens(p), Closes(p)} = {Opens(p)} \cup {Closes(p)}
      OBVIOUS
    <3>3. IsFiniteSet({Opens(p)} \cup {Closes(p)})
      BY FS_Singleton, FS_AddElement
    <3> QED
      BY <3>1, <3>2, <3>3
  <2> HIDE DEF pairs
  <2>3. IsFiniteSet(UNION pairs)
    BY <2>1, <2>2, FS_UNION
  <2> QED
    BY <2>3 DEF pairs, Points
<1>2. ASSUME NEW x \in Points(spans)
      PROVE  /\ x.span \in spans /\ x.at \in Nat /\ lo <= x.at /\ x.at <= hi
             /\ x.change \in {1, -1}
             /\ x = IF x.change = 1 THEN Opens(x.span) ELSE Closes(x.span)
             /\ x.change = 1 => x.at < hi
  <2>1. PICK p \in spans : x = Opens(p) \/ x = Closes(p)
    BY DEF Points
  <2>2. /\ events[p].start \in lo..(hi - 1) /\ events[p].stop \in events[p].start..hi
        /\ lo \in Nat /\ hi \in Nat
    BY DEF Timed
  <2>3. CASE x = Opens(p)
    <3>1. x.span = p /\ x.at = events[p].start /\ x.change = 1
      BY <2>3 DEF Opens
    <3> QED
      BY <2>2, <2>3, <3>1
  <2>4. CASE x = Closes(p)
    <3>1. x.span = p /\ x.at = events[p].stop /\ x.change = -1
      BY <2>4 DEF Closes
    <3>2. -1 # 1
      OBVIOUS
    <3> QED
      BY <2>2, <2>4, <3>1, <3>2
  <2> QED
    BY <2>1, <2>3, <2>4
<1> QED
  BY <1>1, <1>2 DEF Points

\* Of some points there is one that none of them is later than.
LEMMA LatestIs ==
    ASSUME NEW spans, NEW lo, NEW hi, Timed(spans, lo, hi),
           NEW s \in SUBSET Points(spans), s # {}
    PROVE  Latest(s) \in s /\ \A y \in s : ~Earlier(Latest(s), y)
<1> DEFINE key(x) == 3 * (hi - x.at) + (1 - x.change)
           keys == {key(x) : x \in s}
           R == {ss \in Nat \X Nat : ss[1] < ss[2]}
<1>1. ASSUME NEW x \in s
      PROVE  x.at \in Nat /\ x.change \in {1, -1} /\ x.at <= hi /\ hi \in Nat /\ key(x) \in Nat
  <2>1. x.at \in Nat /\ x.change \in {1, -1} /\ x.at <= hi /\ hi \in Nat
    <3>1. x \in Points(spans)
      OBVIOUS
    <3> QED
      BY <3>1, PointsAre DEF Timed
  <2>2. PICK at \in Nat, change \in {1, -1} : at = x.at /\ change = x.change
    BY <2>1
  <2>3. 3 * (hi - at) + (1 - change) \in Nat
    BY <2>1, <2>2
  <2> QED
    BY <2>1, <2>2, <2>3
<1>2. IsWellFoundedOn(R, Nat)
  BY NatLessThanWellFounded DEF OpToRel
<1>3. keys \subseteq Nat /\ keys # {}
  BY <1>1
<1>4. PICK m \in keys : \A n \in keys : <<n, m>> \notin R
  <2> HIDE DEF keys, R
  <2> QED
    BY <1>2, <1>3, WFMin
<1>5. PICK x \in s : m = key(x)
  OBVIOUS
<1>6. ASSUME NEW y \in s PROVE ~Earlier(x, y)
  <2>1. key(y) \in keys /\ key(y) \in Nat /\ key(x) \in Nat
    BY <1>1
  <2>2. ~(key(y) < key(x))
    BY <1>4, <1>5, <2>1
  <2>3. PICK at \in Nat, change \in {1, -1} : at = x.at /\ change = x.change
    BY <1>1
  <2>4. PICK yat \in Nat, ychange \in {1, -1} : yat = y.at /\ ychange = y.change
    BY <1>1
  <2>5. ~(3 * (hi - yat) + (1 - ychange) < 3 * (hi - at) + (1 - change)) /\ hi \in Nat
    BY <1>1, <2>2, <2>3, <2>4
  <2>6. ~(at < yat \/ (at = yat /\ change < ychange))
    BY <2>5
  <2> QED
    BY <2>3, <2>4, <2>6 DEF Earlier
<1>7. Latest(s) = CHOOSE z \in s : \A y \in s : ~Earlier(z, y)
  BY DEF Latest
<1> QED
  BY <1>6, <1>7

\* The state of a sweep, and the sweep over some points of the spans.
SweepStates == [active : Int, previous : Nat, peak : Int, union : Int]
AtRest == [active |-> 0, previous |-> 0, peak |-> 0, union |-> 0]
Sweeps(g, D) ==
    \A s \in D : g[s] = IF s = {} THEN AtRest ELSE Sweep(Latest(s), g[s \ {Latest(s)}])

LEMMA SweepTyped ==
    ASSUME NEW x, x.at \in Nat, x.change \in Int, NEW q \in SweepStates
    PROVE  Sweep(x, q) \in SweepStates
<1>1. PICK d \in Int, u \in Int : d = q.active + x.change
                                  /\ u = q.union + (IF q.active > 0 THEN x.at - q.previous ELSE 0)
  BY DEF SweepStates
<1>2. PICK k \in Int : k = IF d > q.peak THEN d ELSE q.peak
  BY <1>1 DEF SweepStates
<1>3. Sweep(x, q) = [active |-> d, previous |-> x.at, peak |-> k, union |-> u]
  BY <1>1, <1>2 DEF Sweep
<1> QED
  BY <1>3 DEF SweepStates

\* What _interval_stats returns is the end of such a sweep.
LEMMA StatsAreSwept ==
    ASSUME NEW spans, NEW lo, NEW hi, Timed(spans, lo, hi)
    PROVE  \E g : Sweeps(g, SUBSET Points(spans)) /\ IntervalStats(spans) = g[Points(spans)]
<1> DEFINE P == Points(spans)
           last == [s \in SUBSET P |-> Latest(s)]
           take == [x \in P |-> [q \in SweepStates |-> Sweep(x, q)]]
<1>1. IsFiniteSet(P) /\ \A x \in P : x.at \in Nat /\ x.change \in Int
  BY PointsAre
<1>2. \A s \in SUBSET P : s # {} => Latest(s) \in s
  BY LatestIs
<1>3. ASSUME NEW x \in P, NEW q \in SweepStates PROVE Sweep(x, q) \in SweepStates
  BY <1>1, SweepTyped
<1>4. AtRest \in SweepStates
  BY DEF AtRest, SweepStates
<1> HIDE DEF P
<1>5. PICK h \in [SUBSET P -> SweepStates] : FoldsOn(h, AtRest, last, take, SUBSET P)
  <2>1. \A s \in SUBSET P : s # {} => last[s] \in s
    BY <1>2
  <2>2. \A x \in P, q \in SweepStates : take[x][q] \in SweepStates
    BY <1>3
  <2> HIDE DEF last, take
  <2> QED
    BY <1>1, <1>4, <2>1, <2>2, FoldExists
<1>6. ASSUME NEW s \in SUBSET P
      PROVE  h[s] = IF s = {} THEN AtRest ELSE Sweep(Latest(s), h[s \ {Latest(s)}])
  <2>1. CASE s = {}
    BY <1>5, <2>1 DEF FoldsOn
  <2>2. CASE s # {}
    <3>1. last[s] = Latest(s) /\ Latest(s) \in P /\ s \ {Latest(s)} \in SUBSET P
      BY <1>2, <2>2
    <3>2. h[s \ {Latest(s)}] \in SweepStates
      BY <3>1
    <3>3. h[s] = take[Latest(s)][h[s \ {Latest(s)}]]
      BY <1>5, <2>2, <3>1 DEF FoldsOn
    <3> QED
      BY <2>2, <3>1, <3>2, <3>3
  <2> QED
    BY <2>1, <2>2
<1> DEFINE Folds(f) == f = [s \in SUBSET P |-> IF s = {} THEN AtRest
                                               ELSE LET x == Latest(s) IN Sweep(x, f[s \ {x}])]
<1>7. PICK g : Folds(g) /\ IntervalStats(spans) = g[P]
  <2> DEFINE iter[s \in SUBSET P] ==
                 IF s = {} THEN AtRest ELSE LET x == Latest(s) IN Sweep(x, iter[s \ {x}])
  <2>1. IntervalStats(spans) = iter[P]
    BY DEF IntervalStats, MapThenFoldSet, P, Points, Opens, Closes, AtRest
  <2>2. Folds(h)
    BY <1>6
  <2>3. Folds(iter)
    BY <2>2
  <2> HIDE DEF iter, Folds
  <2> QED
    BY <2>1, <2>3
<1>8. \A s \in SUBSET P : g[s] = IF s = {} THEN AtRest ELSE Sweep(Latest(s), g[s \ {Latest(s)}])
  BY <1>7
<1> HIDE DEF Folds
<1>9. Sweeps(g, SUBSET P)
  BY <1>8 DEF Sweeps
<1> QED
  BY <1>7, <1>9 DEF P

-----------------------------------------------------------------------------
(* What is active                                                           *)

\* The spans that are active at a time, the times at which one is, and the spans
\* of which a start or an end has been taken.
ActiveAt(spans, time) == {p \in spans : events[p].start <= time /\ time < events[p].stop}
ActiveTimes(spans, lo, hi) == {time \in lo..(hi - 1) : ActiveAt(spans, time) # {}}
Opened(spans, s) == {p \in spans : Opens(p) \in s}
Closed(spans, s) == {p \in spans : Closes(p) \in s}

\* Points that a sweep has taken: with one it has taken every earlier one.
Taken(spans, s) ==
    /\ s \in SUBSET Points(spans)
    /\ \A x \in s, y \in Points(spans) : Earlier(y, x) => y \in s

\* The sweep has taken just the points up to this time.
Upto(spans, s, time) ==
    /\ \A x \in s : x.at <= time
    /\ \A x \in Points(spans) : x.at <= time => x \in s

\* Sets of spans are finite.
LEMMA SpanSets ==
    ASSUME NEW spans, IsFiniteSet(spans), NEW s, NEW time
    PROVE  /\ IsFiniteSet(Opened(spans, s)) /\ IsFiniteSet(Closed(spans, s))
           /\ IsFiniteSet(ActiveAt(spans, time))
           /\ Cardinality(Opened(spans, s)) \in Nat /\ Cardinality(Closed(spans, s)) \in Nat
           /\ Cardinality(ActiveAt(spans, time)) \in Nat
           /\ Cardinality(ActiveAt(spans, time)) = 0 <=> ActiveAt(spans, time) = {}
<1>1. /\ Opened(spans, s) \in SUBSET spans /\ Closed(spans, s) \in SUBSET spans
      /\ ActiveAt(spans, time) \in SUBSET spans
  BY DEF Opened, Closed, ActiveAt
<1>2. \A T \in SUBSET spans : IsFiniteSet(T) /\ Cardinality(T) \in Nat /\ (Cardinality(T) = 0 <=> T = {})
  BY FS_Subset, FS_CardinalityType, FS_EmptySet
<1> QED
  BY <1>1, <1>2

\* At such a time the active spans are the opened ones that are not closed.
LEMMA ActiveIsCounted ==
    ASSUME NEW spans, NEW lo, NEW hi, Timed(spans, lo, hi), NEW s \in SUBSET Points(spans),
           NEW time \in Nat, Upto(spans, s, time)
    PROVE  Cardinality(ActiveAt(spans, time))
               = Cardinality(Opened(spans, s)) - Cardinality(Closed(spans, s))
<1> DEFINE o == Opened(spans, s)
           c == Closed(spans, s)
<1>1. ASSUME NEW p \in spans
      PROVE  /\ p \in o <=> events[p].start <= time
             /\ p \in c <=> events[p].stop <= time
             /\ events[p].start \in Nat /\ events[p].stop \in Nat
             /\ events[p].start <= events[p].stop
  <2>1. Opens(p) \in Points(spans) /\ Closes(p) \in Points(spans)
    BY PointsAre
  <2>2. Opens(p).at = events[p].start /\ Closes(p).at = events[p].stop
    BY DEF Opens, Closes
  <2>3. /\ events[p].start \in Nat /\ events[p].stop \in Nat /\ events[p].start <= events[p].stop
    BY DEF Timed
  <2>4. (Opens(p) \in s <=> Opens(p).at <= time) /\ (Closes(p) \in s <=> Closes(p).at <= time)
    BY <2>1 DEF Upto
  <2> QED
    BY <2>2, <2>3, <2>4 DEF Opened, Closed
<1>2. o \subseteq spans /\ c \subseteq spans
  BY DEF Opened, Closed
<1> HIDE DEF o, c
<1>3. c \subseteq o
  BY <1>1, <1>2
<1>4. ActiveAt(spans, time) = o \ c
  BY <1>1, <1>2 DEF ActiveAt
<1>5. o \cap c = c
  BY <1>3
<1>6. IsFiniteSet(o) /\ Cardinality(o \ c) = Cardinality(o) - Cardinality(o \cap c)
  BY SpanSets, FS_Difference DEF Timed, o
<1> QED
  BY <1>4, <1>5, <1>6 DEF o, c

\* What the state of the sweep says, when some points have been taken.
SweptTo(spans, lo, hi, s, state) ==
    /\ state \in SweepStates
    /\ state.active = Cardinality(Opened(spans, s)) - Cardinality(Closed(spans, s))
    /\ \A x \in s : x.at <= state.previous
    /\ state.previous = 0 \/ \E x \in s : x.at = state.previous
    /\ state.union = Cardinality(ActiveTimes(spans, lo, state.previous))
    /\ state.peak >= 0 /\ state.active <= state.peak
    /\ \A time \in lo..(state.previous - 1) : Cardinality(ActiveAt(spans, time)) <= state.peak
    /\ \/ state.peak = 0
       \/ \E time \in lo..(hi - 1) : state.peak <= Cardinality(ActiveAt(spans, time))

LEMMA RestIsSwept ==
    ASSUME NEW spans, NEW lo, NEW hi, Timed(spans, lo, hi)
    PROVE  SweptTo(spans, lo, hi, {}, AtRest)
<1>1. Opened(spans, {}) = {} /\ Closed(spans, {}) = {}
  BY DEF Opened, Closed
<1>2. lo..(0 - 1) = {}
  BY DEF Timed
<1>3. ActiveTimes(spans, lo, 0) = {}
  BY <1>2 DEF ActiveTimes
<1>4. Cardinality({}) = 0
  BY FS_EmptySet
<1> QED
  BY <1>1, <1>2, <1>3, <1>4 DEF SweptTo, AtRest, SweepStates

-----------------------------------------------------------------------------
(* A point is taken                                                         *)

\* Without its latest point, what has been taken had been taken before it.
LEMMA TakenBefore ==
    ASSUME NEW spans, NEW lo, NEW hi, Timed(spans, lo, hi),
           NEW s, Taken(spans, s), s # {}
    PROVE  /\ Latest(s) \in s /\ \A y \in s : ~Earlier(Latest(s), y)
           /\ Taken(spans, s \ {Latest(s)})
<1>1. s \in SUBSET Points(spans)
  BY DEF Taken
<1>2. Latest(s) \in s /\ \A y \in s : ~Earlier(Latest(s), y)
  BY <1>1, LatestIs
<1> QED
  BY <1>1, <1>2 DEF Taken

\* From the point before up to this one the same spans are active.
LEMMA SameUntil ==
    ASSUME NEW spans, NEW lo, NEW hi, Timed(spans, lo, hi),
           NEW s, Taken(spans, s), s # {},
           NEW x, x = Latest(s), NEW before, before = s \ {x},
           NEW state, SweptTo(spans, lo, hi, before, state)
    PROVE  /\ state.previous \in Nat /\ x.at \in Nat /\ state.previous <= x.at
           /\ \A time \in state.previous..(x.at - 1) :
                 Cardinality(ActiveAt(spans, time)) = state.active
<1>1. x \in s /\ (\A y \in s : ~Earlier(x, y)) /\ Taken(spans, before)
  BY TakenBefore
<1>2. \A y \in Points(spans) : y.at \in Nat
  BY PointsAre
<1>3. s \in SUBSET Points(spans) /\ before \in SUBSET Points(spans)
  BY <1>1 DEF Taken
<1>4. /\ state.previous \in Nat /\ \A y \in before : y.at <= state.previous
      /\ state.previous = 0 \/ \E y \in before : y.at = state.previous
      /\ state.active = Cardinality(Opened(spans, before)) - Cardinality(Closed(spans, before))
  BY DEF SweptTo, SweepStates
<1>5. x.at \in Nat
  BY <1>1, <1>2, <1>3
<1>6. state.previous <= x.at
  <2>1. CASE state.previous = 0
    BY <1>5, <2>1
  <2>2. ASSUME NEW y \in before, y.at = state.previous PROVE state.previous <= x.at
    <3>1. ~(x.at < y.at) /\ y.at \in Nat
      BY <1>1, <1>2, <1>3 DEF Earlier
    <3> QED
      BY <1>5, <2>2, <3>1
  <2> QED
    BY <1>4, <2>1, <2>2
<1>7. ASSUME NEW time \in state.previous..(x.at - 1)
      PROVE  Cardinality(ActiveAt(spans, time)) = state.active
  <2>1. time \in Nat /\ state.previous <= time /\ time < x.at
    BY <1>4, <1>5
  <2>2. ASSUME NEW y \in before PROVE y.at <= time
    BY <1>2, <1>3, <1>4, <2>1
  <2>3. ASSUME NEW y \in Points(spans), y.at <= time PROVE y \in before
    <3>1. y.at < x.at
      BY <1>2, <1>5, <2>1, <2>3
    <3>2. Earlier(y, x) /\ y # x
      BY <3>1, <1>5 DEF Earlier
    <3> QED
      BY <1>1, <3>2 DEF Taken
  <2>4. Upto(spans, before, time)
    BY <2>2, <2>3 DEF Upto
  <2> QED
    BY <1>3, <1>4, <2>1, <2>4, ActiveIsCounted
<1> QED
  BY <1>4, <1>5, <1>6, <1>7

\* The count of a point: a start opens its span and a stop closes it.
LEMMA CountChanges ==
    ASSUME NEW spans, NEW lo, NEW hi, Timed(spans, lo, hi),
           NEW s \in SUBSET Points(spans), NEW x \in s
    PROVE  Cardinality(Opened(spans, s)) - Cardinality(Closed(spans, s))
               = Cardinality(Opened(spans, s \ {x})) - Cardinality(Closed(spans, s \ {x})) + x.change
<1> DEFINE before == s \ {x}
<1>1. /\ x.span \in spans /\ x.change \in {1, -1}
      /\ x = IF x.change = 1 THEN Opens(x.span) ELSE Closes(x.span)
  BY PointsAre
<1>2. \A p : /\ Opens(p).span = p /\ Opens(p).change = 1
             /\ Closes(p).span = p /\ Closes(p).change = -1
  BY DEF Opens, Closes
<1>3. IsFiniteSet(spans)
  BY DEF Timed
<1>4. /\ IsFiniteSet(Opened(spans, before)) /\ IsFiniteSet(Closed(spans, before))
      /\ Cardinality(Opened(spans, before)) \in Nat /\ Cardinality(Closed(spans, before)) \in Nat
  BY <1>3, SpanSets
<1>5. CASE x.change = 1
  <2>1. x = Opens(x.span)
    BY <1>1, <1>5
  <2>2. \A p : Closes(p) # x
    BY <1>2, <1>5
  <2>3. \A p : Opens(p) = x => p = x.span
    BY <1>2, <2>1
  <2>4. Closed(spans, s) = Closed(spans, before)
    BY <2>2 DEF Closed
  <2>5. Opened(spans, s) = Opened(spans, before) \cup {x.span} /\ x.span \notin Opened(spans, before)
    BY <1>1, <2>1, <2>3 DEF Opened
  <2>6. Cardinality(Opened(spans, s)) = Cardinality(Opened(spans, before)) + 1
    BY <1>4, <2>5, FS_AddElement
  <2> QED
    BY <1>4, <1>5, <2>4, <2>6
<1>6. CASE x.change = -1
  <2>1. x = Closes(x.span) /\ -1 # 1
    BY <1>1, <1>6
  <2>2. \A p : Opens(p) # x
    BY <1>2, <1>6, <2>1
  <2>3. \A p : Closes(p) = x => p = x.span
    BY <1>2, <2>1
  <2>4. Opened(spans, s) = Opened(spans, before)
    BY <2>2 DEF Opened
  <2>5. Closed(spans, s) = Closed(spans, before) \cup {x.span} /\ x.span \notin Closed(spans, before)
    BY <1>1, <2>1, <2>3 DEF Closed
  <2>6. Cardinality(Closed(spans, s)) = Cardinality(Closed(spans, before)) + 1
    BY <1>4, <2>5, FS_AddElement
  <2> QED
    BY <1>4, <1>6, <2>4, <2>6
<1> QED
  BY <1>1, <1>5, <1>6

\* When a start has been taken, what has been opened and not closed is active.
LEMMA ActiveAtStart ==
    ASSUME NEW spans, NEW lo, NEW hi, Timed(spans, lo, hi),
           NEW s, Taken(spans, s), s # {}, NEW x, x = Latest(s), x.change = 1
    PROVE  /\ x.at \in lo..(hi - 1)
           /\ Cardinality(Opened(spans, s)) - Cardinality(Closed(spans, s))
                  <= Cardinality(ActiveAt(spans, x.at))
<1> DEFINE o == Opened(spans, s)
           c == Closed(spans, s)
           a == ActiveAt(spans, x.at)
<1>1. x \in s /\ (\A y \in s : ~Earlier(x, y)) /\ s \in SUBSET Points(spans)
  BY TakenBefore DEF Taken
<1>2. \A y \in Points(spans) : /\ y.at \in Nat /\ lo <= y.at
                               /\ y.change = 1 => y.at < hi
  BY PointsAre
<1>3. x.at \in Nat /\ lo \in Nat /\ hi \in Nat /\ x.at \in lo..(hi - 1)
  BY <1>1, <1>2 DEF Timed
<1>4. ASSUME NEW p \in o, p \notin c PROVE p \in a
  <2>1. p \in spans /\ Opens(p) \in s /\ Closes(p) \notin s
    BY <1>4 DEF Opened, Closed
  <2>2. Closes(p) \in Points(spans)
    BY <2>1, PointsAre
  <2>3. Opens(p).at = events[p].start /\ Closes(p).at = events[p].stop /\ Closes(p).change = -1
    BY DEF Opens, Closes
  <2>4. ~(x.at < events[p].start)
    BY <1>1, <2>1, <2>3 DEF Earlier
  <2>5. ~(events[p].stop <= x.at)
    <3>1. ~Earlier(Closes(p), x)
      BY <1>1, <2>1, <2>2 DEF Taken
    <3>2. ~(events[p].stop < x.at) /\ ~(events[p].stop = x.at /\ -1 < 1)
      BY <2>3, <3>1 DEF Earlier
    <3>3. events[p].stop \in Nat
      BY <1>2, <2>2, <2>3
    <3> QED
      BY <1>3, <3>2, <3>3
  <2>6. events[p].start \in Nat /\ events[p].stop \in Nat
    BY <1>1, <1>2, <2>1, <2>2, <2>3
  <2> QED
    BY <1>3, <2>1, <2>4, <2>5, <2>6 DEF ActiveAt
<1>5. IsFiniteSet(spans)
  BY DEF Timed
<1>6. /\ IsFiniteSet(o) /\ IsFiniteSet(c) /\ IsFiniteSet(a)
      /\ Cardinality(o) \in Nat /\ Cardinality(c) \in Nat /\ Cardinality(a) \in Nat
  BY <1>5, SpanSets
<1> HIDE DEF o, c, a
<1>7. Cardinality(o \ c) = Cardinality(o) - Cardinality(o \cap c)
  BY <1>6, FS_Difference
<1>8. IsFiniteSet(o \cap c) /\ Cardinality(o \cap c) <= Cardinality(c)
  BY <1>6, FS_Intersection
<1>9. Cardinality(o \cap c) \in Nat
  BY <1>8, FS_CardinalityType
<1>10. o \ c \in SUBSET a
  BY <1>4
<1>11. Cardinality(o \ c) <= Cardinality(a)
  BY <1>6, <1>10, FS_Subset
<1>12. Cardinality(o) - Cardinality(c) <= Cardinality(a)
  BY <1>6, <1>7, <1>8, <1>9, <1>11
<1> QED
  BY <1>3, <1>12 DEF o, c, a

\* The time at which a span is active, up to the point that is taken.
LEMMA UnionGrows ==
    ASSUME NEW spans, NEW lo \in Nat, IsFiniteSet(spans), NEW from \in Nat, NEW to \in Nat, from <= to,
           NEW active \in Int, active > 0 => lo <= from,
           \A time \in from..(to - 1) : Cardinality(ActiveAt(spans, time)) = active
    PROVE  /\ Cardinality(ActiveTimes(spans, lo, from)) \in Nat
           /\ Cardinality(ActiveTimes(spans, lo, to))
                  = Cardinality(ActiveTimes(spans, lo, from))
                    + (IF active > 0 THEN to - from ELSE 0)
<1> DEFINE before == ActiveTimes(spans, lo, from)
           after == ActiveTimes(spans, lo, to)
<1>1. IsFiniteSet(before) /\ Cardinality(before) \in Nat
  <2>1. before \in SUBSET (lo..(from - 1))
    BY DEF ActiveTimes
  <2>2. IsFiniteSet(lo..(from - 1))
    BY FS_Interval
  <2> HIDE DEF before
  <2> QED
    BY <2>1, <2>2, FS_Subset, FS_CardinalityType
<1>2. \A time \in from..(to - 1) : ActiveAt(spans, time) # {} <=> active > 0
  <2>1. ASSUME NEW time \in from..(to - 1) PROVE ActiveAt(spans, time) # {} <=> active > 0
    <3>1. /\ Cardinality(ActiveAt(spans, time)) \in Nat
          /\ Cardinality(ActiveAt(spans, time)) = 0 <=> ActiveAt(spans, time) = {}
      BY SpanSets
    <3> QED
      BY <3>1
  <2> QED
    BY <2>1
<1>3. \A time : time \in lo..(to - 1) <=> \/ time \in lo..(from - 1)
                                          \/ time \in from..(to - 1) /\ lo <= time
  OBVIOUS
<1>4. CASE active > 0
  <2>1. lo <= from
    BY <1>4
  <2>2. after = before \cup (from..(to - 1))
    <3>1. \A time : time \in after <=> \/ time \in before
                                       \/ time \in from..(to - 1)
      BY <1>2, <1>3, <1>4, <2>1 DEF ActiveTimes
    <3> HIDE DEF after, before
    <3> QED
      BY <3>1
  <2>3. before \cap (from..(to - 1)) = {}
    BY DEF ActiveTimes
  <2>4. IsFiniteSet(from..(to - 1)) /\ Cardinality(from..(to - 1)) = to - from
    <3>1. to - 1 \in Int /\ from \in Int
      OBVIOUS
    <3>2. /\ IsFiniteSet(from..(to - 1))
          /\ Cardinality(from..(to - 1)) = IF from > to - 1 THEN 0 ELSE to - 1 - from + 1
      BY <3>1, FS_Interval
    <3> QED
      BY <3>2
  <2>5. Cardinality({}) = 0
    BY FS_EmptySet
  <2> HIDE DEF before, after
  <2>6. Cardinality(after) = Cardinality(before) + Cardinality(from..(to - 1)) - Cardinality({})
    BY <1>1, <2>2, <2>3, <2>4, FS_Union
  <2> QED
    BY <1>1, <1>4, <2>4, <2>5, <2>6 DEF before, after
<1>5. CASE ~(active > 0)
  <2>1. \A time : time \in after <=> time \in before
    BY <1>2, <1>3, <1>5 DEF ActiveTimes
  <2> HIDE DEF before, after
  <2>2. after = before
    BY <2>1
  <2> QED
    BY <1>1, <1>5, <2>2 DEF before, after
<1> QED
  BY <1>4, <1>5

\* Taking a point keeps what the state says.
LEMMA SweepKeeps ==
    ASSUME NEW spans, NEW lo, NEW hi, Timed(spans, lo, hi),
           NEW s, Taken(spans, s), s # {},
           NEW state, SweptTo(spans, lo, hi, s \ {Latest(s)}, state)
    PROVE  SweptTo(spans, lo, hi, s, Sweep(Latest(s), state))
<1> DEFINE next == Sweep(Latest(s), state)
<1>1. PICK x, before : x = Latest(s) /\ before = s \ {x}
  OBVIOUS
<1>2. x \in s /\ (\A y \in s : ~Earlier(x, y)) /\ s \in SUBSET Points(spans)
  BY <1>1, TakenBefore DEF Taken
<1>3. /\ x.at \in Nat /\ lo <= x.at /\ x.at <= hi /\ x.change \in {1, -1}
      /\ lo \in Nat /\ hi \in Nat /\ IsFiniteSet(spans)
  BY <1>2, PointsAre DEF Timed
<1>4. SweptTo(spans, lo, hi, before, state)
  BY <1>1
<1>5. /\ state.previous \in Nat /\ state.previous <= x.at
      /\ \A time \in state.previous..(x.at - 1) :
            Cardinality(ActiveAt(spans, time)) = state.active
  BY <1>1, <1>4, SameUntil
<1>6. /\ state \in SweepStates
      /\ state.active = Cardinality(Opened(spans, before)) - Cardinality(Closed(spans, before))
      /\ state.active \in Int /\ state.peak \in Int /\ state.union \in Int
      /\ state.union = Cardinality(ActiveTimes(spans, lo, state.previous))
      /\ state.peak >= 0 /\ state.active <= state.peak
      /\ \A time \in lo..(state.previous - 1) : Cardinality(ActiveAt(spans, time)) <= state.peak
      /\ \/ state.peak = 0
         \/ \E time \in lo..(hi - 1) : state.peak <= Cardinality(ActiveAt(spans, time))
  BY <1>4 DEF SweptTo, SweepStates
<1>7. /\ next.active = state.active + x.change /\ next.previous = x.at
      /\ next.peak = IF next.active > state.peak THEN next.active ELSE state.peak
      /\ next.union = state.union + (IF state.active > 0 THEN x.at - state.previous ELSE 0)
      /\ next \in SweepStates
  <2>1. Sweep(x, state) \in SweepStates
    BY <1>3, <1>6, SweepTyped
  <2> QED
    BY <1>1, <2>1 DEF Sweep
<1> HIDE DEF next
<1>8. next.active = Cardinality(Opened(spans, s)) - Cardinality(Closed(spans, s))
  BY <1>1, <1>2, <1>6, <1>7, CountChanges
<1>9. \A y \in s : y.at <= x.at
  <2>1. \A y \in Points(spans) : y.at \in Nat
    BY PointsAre
  <2> QED
    BY <1>2, <1>3, <2>1 DEF Earlier
<1>10. state.active > 0 => lo <= state.previous
  <2>1. ASSUME state.active > 0 PROVE lo <= state.previous
    <3>1. Opened(spans, before) # {}
      <4>1. Cardinality({}) = 0 /\ Cardinality(Closed(spans, before)) \in Nat
        BY <1>3, FS_EmptySet, SpanSets
      <4> QED
        BY <1>6, <2>1, <4>1
    <3>2. PICK p : Opens(p) \in before
      BY <3>1 DEF Opened
    <3>3. Opens(p) \in Points(spans) /\ Opens(p).at <= state.previous
      BY <1>1, <1>2, <1>4, <3>2 DEF SweptTo
    <3>4. Opens(p).at \in Nat /\ lo <= Opens(p).at
      BY <3>3, PointsAre
    <3> QED
      BY <1>3, <1>5, <3>3, <3>4
  <2> QED
    BY <2>1
<1>11. next.union = Cardinality(ActiveTimes(spans, lo, x.at))
  <2>1. PICK from \in Nat, to \in Nat, active \in Int :
            from = state.previous /\ to = x.at /\ active = state.active
    BY <1>3, <1>5, <1>6
  <2>2. from <= to /\ (active > 0 => lo <= from)
        /\ \A time \in from..(to - 1) : Cardinality(ActiveAt(spans, time)) = active
    BY <1>5, <1>10, <2>1
  <2>3. /\ lo \in Nat /\ IsFiniteSet(spans) /\ from \in Nat /\ to \in Nat /\ active \in Int
    BY <1>3, <2>1
  <2>4. Cardinality(ActiveTimes(spans, lo, to))
            = Cardinality(ActiveTimes(spans, lo, from)) + (IF active > 0 THEN to - from ELSE 0)
    BY ONLY <2>2, <2>3, UnionGrows
  <2> QED
    BY <1>6, <1>7, <2>1, <2>4
<1>12. next.peak >= 0 /\ next.active <= next.peak /\ state.peak <= next.peak /\ next.peak \in Int
  BY <1>3, <1>6, <1>7
<1>13. ASSUME NEW time \in lo..(x.at - 1)
       PROVE  Cardinality(ActiveAt(spans, time)) <= next.peak
  <2>1. Cardinality(ActiveAt(spans, time)) \in Nat
    BY <1>3, SpanSets
  <2>2. CASE time \in lo..(state.previous - 1)
    BY <1>6, <1>12, <2>1, <2>2
  <2>3. CASE time \in state.previous..(x.at - 1)
    BY <1>5, <1>6, <1>12, <2>1, <2>3
  <2> QED
    BY <1>3, <1>5, <2>2, <2>3
<1>14. next.peak = 0 \/ \E time \in lo..(hi - 1) : next.peak <= Cardinality(ActiveAt(spans, time))
  <2>1. CASE next.peak = state.peak
    BY <1>6, <2>1
  <2>2. CASE next.peak # state.peak
    <3>1. next.peak = next.active /\ next.active > state.peak
      BY <1>7, <2>2
    <3>2. x.change = 1
      BY <1>3, <1>6, <1>7, <3>1
    <3>3. /\ x.at \in lo..(hi - 1)
          /\ Cardinality(Opened(spans, s)) - Cardinality(Closed(spans, s))
                 <= Cardinality(ActiveAt(spans, x.at))
      BY <1>1, <3>2, ActiveAtStart
    <3>4. next.peak <= Cardinality(ActiveAt(spans, x.at))
      BY <1>8, <3>1, <3>3
    <3> QED
      BY <3>3, <3>4
  <2> QED
    BY <2>1, <2>2
<1>15. SweptTo(spans, lo, hi, s, next)
  BY <1>2, <1>7, <1>8, <1>9, <1>11, <1>12, <1>13, <1>14 DEF SweptTo
<1> QED
  BY <1>15 DEF next

\* So at its end it says what is true of all the spans.
LEMMA SweepIsRight ==
    ASSUME NEW spans, NEW lo, NEW hi, Timed(spans, lo, hi),
           NEW g, Sweeps(g, SUBSET Points(spans))
    PROVE  SweptTo(spans, lo, hi, Points(spans), g[Points(spans)])
<1> DEFINE P == Points(spans)
           Right(s) == SweptTo(spans, lo, hi, s, g[s])
           T == {k \in Nat : \A s \in UpTo(P, k) : Taken(spans, s) => Right(s)}
<1>0. IsFiniteSet(P) /\ \A s \in SUBSET P : IsFiniteSet(s) /\ Cardinality(s) \in Nat
                                            /\ (Cardinality(s) = 0 <=> s = {})
  BY PointsAre, FS_Subset, FS_CardinalityType, FS_EmptySet
<1>1. ASSUME NEW s \in SUBSET P, s = {} PROVE Right(s)
  <2>1. g[s] = AtRest
    BY <1>1 DEF Sweeps
  <2> QED
    BY <1>1, <2>1, RestIsSwept
<1>2. 0 \in T
  BY <1>0, <1>1 DEF UpTo
<1>3. ASSUME NEW k \in T PROVE k + 1 \in T
  <2> SUFFICES ASSUME NEW s \in UpTo(P, k + 1), Taken(spans, s), s # {} PROVE Right(s)
    BY <1>1 DEF UpTo
  <2>1. s \in SUBSET P /\ Cardinality(s) <= k + 1 /\ k \in Nat
    BY DEF UpTo
  <2>2. Latest(s) \in s /\ Taken(spans, s \ {Latest(s)})
    BY TakenBefore
  <2>3. s \ {Latest(s)} \in UpTo(P, k)
    <3>1. Cardinality(s \ {Latest(s)}) = Cardinality(s) - 1
      BY <1>0, <2>1, <2>2, FS_RemoveElement
    <3> QED
      BY <1>0, <2>1, <3>1 DEF UpTo
  <2>4. Right(s \ {Latest(s)})
    BY <2>2, <2>3
  <2>5. g[s] = Sweep(Latest(s), g[s \ {Latest(s)}])
    BY <2>1 DEF Sweeps
  <2>6. SweptTo(spans, lo, hi, s, Sweep(Latest(s), g[s \ {Latest(s)}]))
    BY <2>4, SweepKeeps
  <2> QED
    BY <2>5, <2>6
<1>4. T \in SUBSET Nat
  OBVIOUS
<1> HIDE DEF T
<1>5. T = Nat
  BY <1>2, <1>3, <1>4, SetInduction
<1>6. PICK n \in Nat : n = Cardinality(P)
  BY <1>0
<1>7. P \in UpTo(P, n) /\ Taken(spans, P)
  BY <1>6 DEF UpTo, Taken
<1> QED
  BY <1>5, <1>7 DEF T

\* _interval_stats returns the time at which a span is active and the most that are at
\* once, for every finite set of spans: in any order, nested, touching or of no length,
\* each from its ts to what its ts + dur came out as.
THEOREM StatsAreRight ==
    ASSUME NEW spans, NEW lo, NEW hi, Timed(spans, lo, hi)
    PROVE  /\ IntervalStats(spans).union
                  = Cardinality({time \in lo..(hi - 1) : ActiveAt(spans, time) # {}})
           /\ IntervalStats(spans).peak
                  = Max({Cardinality(ActiveAt(spans, time)) : time \in lo..(hi - 1)} \union {0})
<1> DEFINE P == Points(spans)
           times == lo..(hi - 1)
           counts == {Cardinality(ActiveAt(spans, time)) : time \in times} \union {0}
<1>1. PICK g : Sweeps(g, SUBSET P) /\ IntervalStats(spans) = g[P]
  BY StatsAreSwept
<1>2. PICK state : state = IntervalStats(spans) /\ SweptTo(spans, lo, hi, P, state)
  BY <1>1, SweepIsRight
<1>3. lo \in Nat /\ hi \in Nat /\ IsFiniteSet(spans)
  BY DEF Timed
<1>4. state.previous \in Nat /\ state.previous <= hi
  <2>1. \A x \in P : x.at \in Nat /\ x.at <= hi
    BY PointsAre
  <2>2. state.previous \in Nat /\ (state.previous = 0 \/ \E x \in P : x.at = state.previous)
    BY <1>2 DEF SweptTo, SweepStates
  <2> HIDE DEF P
  <2> QED
    BY <1>3, <2>1, <2>2
<1>5. ASSUME NEW time \in times, ~(time < state.previous)
      PROVE  ActiveAt(spans, time) = {}
  <2>1. ASSUME NEW p \in ActiveAt(spans, time) PROVE FALSE
    <3>1. p \in spans /\ time < events[p].stop
      BY DEF ActiveAt
    <3>2. Closes(p) \in P /\ Closes(p).at = events[p].stop
      BY <3>1, PointsAre DEF Closes
    <3>3. events[p].stop <= state.previous
      BY <1>2, <3>2 DEF SweptTo
    <3>4. events[p].stop \in Nat
      <4>1. Closes(p).at \in Nat
        BY <3>2, PointsAre
      <4> QED
        BY <3>2, <4>1
    <3> QED
      BY <1>3, <1>4, <1>5, <3>1, <3>3, <3>4
  <2> QED
    BY <2>1
<1>6. state.union = Cardinality({time \in times : ActiveAt(spans, time) # {}})
  <2>1. \A time : time \in lo..(state.previous - 1) => time \in times
    BY <1>3, <1>4
  <2>2. \A time \in times : time < state.previous => time \in lo..(state.previous - 1)
    BY <1>3, <1>4
  <2>3. ActiveTimes(spans, lo, state.previous) = {time \in times : ActiveAt(spans, time) # {}}
    BY <1>5, <2>1, <2>2 DEF ActiveTimes
  <2> QED
    BY <1>2, <2>3 DEF SweptTo
<1>7. state.peak \in Int /\ state.peak >= 0
  BY <1>2 DEF SweptTo, SweepStates
<1>8. ASSUME NEW n \in counts PROVE n \in Nat /\ n <= state.peak
  <2>1. CASE n = 0
    BY <1>7, <2>1
  <2>2. ASSUME NEW time \in times, n = Cardinality(ActiveAt(spans, time))
        PROVE  n \in Nat /\ n <= state.peak
    <3>1. /\ Cardinality(ActiveAt(spans, time)) \in Nat
          /\ Cardinality(ActiveAt(spans, time)) = 0 <=> ActiveAt(spans, time) = {}
      BY <1>3, SpanSets
    <3>2. CASE time < state.previous
      <4>1. time \in lo..(state.previous - 1)
        BY <1>3, <1>4, <3>2
      <4> QED
        BY <1>2, <2>2, <3>1, <4>1 DEF SweptTo
    <3>3. CASE ~(time < state.previous)
      BY <1>5, <1>7, <2>2, <3>1, <3>3
    <3> QED
      BY <3>2, <3>3
  <2> QED
    BY <2>1, <2>2
<1>9. state.peak \in counts
  <2>1. CASE state.peak = 0
    BY <2>1
  <2>2. ASSUME NEW time \in times, state.peak <= Cardinality(ActiveAt(spans, time))
        PROVE  state.peak \in counts
    <3>1. Cardinality(ActiveAt(spans, time)) \in counts
      OBVIOUS
    <3>2. Cardinality(ActiveAt(spans, time)) <= state.peak /\ Cardinality(ActiveAt(spans, time)) \in Nat
      BY <1>8, <3>1
    <3>3. state.peak = Cardinality(ActiveAt(spans, time))
      BY <1>7, <2>2, <3>2
    <3> QED
      BY <3>1, <3>3
  <2> QED
    BY <1>2, <2>1, <2>2 DEF SweptTo
<1> HIDE DEF counts
<1>10. state.peak = Max(counts)
  <2>1. PICK m \in counts : m = Max(counts) /\ \A n \in counts : m >= n
    <3>1. \E x \in counts : \A y \in counts : x >= y
      BY <1>7, <1>8, <1>9
    <3> QED
      BY <3>1 DEF Max
  <2>2. m >= state.peak /\ m <= state.peak /\ m \in Nat
    BY <1>8, <1>9, <2>1
  <2> QED
    BY <1>7, <2>1, <2>2
<1> QED
  BY <1>2, <1>6, <1>10 DEF counts

-----------------------------------------------------------------------------
(* The times                                                                *)

\* The root of a step, and the span of a read.
IsRoot(p) == events[p].kind = "decode_step"
IsRead(p) == events[p].kind = "SSD_read"
Begun(i) == reads[i].state # "queued"

\* An event is recorded when it ends, and its end is rounded up by one at most.
EventTimes ==
    \A p \in DOMAIN events : /\ events[p].start <= events[p].stop
                             /\ events[p].start < p /\ events[p].stop <= p

\* The span of a traced read starts when the read was taken up.
SpansAreReads ==
    \A q \in DOMAIN events, i \in DOMAIN reads :
        IsRead(q) /\ events[q].flow = reads[i].flow => events[q].start = reads[i].start

\* The reads of the step are taken up after it began, and a span that was
\* recorded since then is of this step.
StepTimes ==
    /\ \A i \in DOMAIN reads : Begun(i) /\ reads[i].step = step => began <= reads[i].start
    /\ pc = "step" =>
         \A p \in DOMAIN events : IsRoot(p) \/ IsRead(p) => events[p].step = step \/ p <= began

\* A root is of a step that was left.  The reads of its step are taken up after it
\* starts and those of later steps after it ends; the spans of earlier steps are
\* recorded before it starts and, unless it raised, its own before it ends.
RootTimes ==
    \A p \in DOMAIN events : IsRoot(p) =>
        /\ events[p].step \in 0..step
        /\ events[p].step = step => pc \notin {"between", "step"}
        /\ \A i \in DOMAIN reads : Begun(i) =>
              /\ reads[i].step = events[p].step => events[p].start <= reads[i].start
              /\ reads[i].step > events[p].step => events[p].stop <= reads[i].start
        /\ \A q \in DOMAIN events : IsRead(q) =>
              /\ events[q].step < events[p].step => q <= events[p].start
              /\ events[q].step = events[p].step /\ events[p].step < step => q <= events[p].stop

\* All reads of the window are traced.
TracedInv ==
    /\ pc = "step" => (recording <=> Selected(step))
    /\ \A i \in DOMAIN reads : Selected(reads[i].step) => Traced(i)

TimeInv == EventTimes /\ SpansAreReads /\ StepTimes /\ RootTimes /\ TracedInv

\* The numbers in the lists.
LEMMA TimeTypes ==
    ASSUME TraceAssumption, IInv
    PROVE  /\ step \in Nat /\ began \in Nat /\ began <= Len(events) /\ Len(events) \in Nat
           /\ flows \in Nat /\ DOMAIN events = 1..Len(events)
           /\ \A p \in DOMAIN events :
                 /\ events[p] \in EventSet /\ events[p].step \in Int
                 /\ events[p].start \in Nat /\ events[p].start <= Len(events)
                 /\ events[p].stop \in Nat /\ events[p].stop <= Len(events)
                 /\ events[p].flow \in Nat /\ events[p].flow <= flows
           /\ \A i \in DOMAIN reads :
                 /\ reads[i].step \in Nat /\ reads[i].step <= step /\ reads[i].flow \in Nat
                 /\ reads[i].start \in Nat /\ reads[i].start <= Len(events)
<1>1. /\ step \in 0..MaxSteps /\ MaxSteps \in Nat /\ Len(events) \in Nat
      /\ DOMAIN events = 1..Len(events)
      /\ \A i \in DOMAIN reads : reads[i] \in ReadSet /\ reads[i].step \in Nat
  BY ReadTypes
<1>2. step \in Nat /\ began \in Nat /\ began <= Len(events) /\ flows \in Nat
  BY <1>1 DEF IInv, MainTyped, ListsTyped
<1>3. ASSUME NEW p \in DOMAIN events
      PROVE  /\ events[p] \in EventSet /\ events[p].step \in Int
             /\ events[p].start \in Nat /\ events[p].start <= Len(events)
             /\ events[p].stop \in Nat /\ events[p].stop <= Len(events)
             /\ events[p].flow \in Nat /\ events[p].flow <= flows
  <2>1. events[p] \in EventSet
    BY DEF IInv, ListsTyped
  <2>2. /\ events[p].start <= Len(events) /\ events[p].stop <= Len(events)
        /\ events[p].flow <= flows
    BY DEF IInv, Bounded
  <2>3. events[p].step \in {NoStep} \union 0..(MaxSteps - 1)
    BY <2>1 DEF EventSet
  <2> QED
    BY <2>1, <2>2, <2>3, <1>1 DEF EventSet, NoStep
<1>4. ASSUME NEW i \in DOMAIN reads
      PROVE  /\ reads[i].step \in Nat /\ reads[i].step <= step /\ reads[i].flow \in Nat
             /\ reads[i].start \in Nat /\ reads[i].start <= Len(events)
  <2>1. reads[i].step <= step /\ reads[i].start <= Len(events)
    BY DEF IInv, JoinedInv, Bounded
  <2> QED
    BY <1>1, <2>1 DEF ReadSet
<1> QED
  BY <1>1, <1>2, <1>3, <1>4

\* A step of the main thread or none that leaves both lists alone.
LEMMA QuietTimes ==
    ASSUME TraceAssumption, IInv, TimeInv, UNCHANGED <<events, reads>>,
           \/ /\ step' = step /\ began' = began /\ pc' \in {pc, "leaving", "closing", "closed"}
              /\ recording' = recording \/ pc' # "step"
           \/ /\ step' = step + 1 /\ began' = began /\ pc = "step" /\ pc' = "between"
           \/ /\ step' = step /\ began' = Len(events) /\ pc = "between" /\ pc' = "step"
              /\ recording' = (recording \/ Selected(step))
    PROVE  TimeInv'
<1>0. events' = events /\ reads' = reads
  OBVIOUS
<1>1. EventTimes'
  BY <1>0 DEF TimeInv, EventTimes
<1>2. SpansAreReads'
  BY <1>0 DEF TimeInv, SpansAreReads, IsRead
<1>3. /\ pc = "between" => \A i \in DOMAIN reads : reads[i].step < step
      /\ recording => pc = "step"
      /\ recording \in BOOLEAN
  BY DEF IInv, JoinedInv, WindowInv, MainTyped
<1>4. StepTimes'
  <2>1. ASSUME NEW i \in DOMAIN reads, reads[i].state # "queued", reads[i].step = step'
        PROVE  began' <= reads[i].start
    <3>1. (step' = step /\ pc # "between") \/ (began' = began /\ step' = step)
      BY <1>3, <2>1, TimeTypes
    <3>2. began' = began /\ step' = step
      BY <3>1
    <3> QED
      BY <2>1, <3>2 DEF TimeInv, StepTimes, Begun
  <2>2. ASSUME pc' = "step", NEW p \in DOMAIN events, IsRoot(p) \/ IsRead(p)
        PROVE  events[p].step = step' \/ p <= began'
    <3>1. CASE pc = "step"
      BY <2>2, <3>1 DEF TimeInv, StepTimes
    <3>2. CASE pc # "step"
      BY <2>2, <3>2, TimeTypes
    <3> QED
      BY <3>1, <3>2
  <2> QED
    BY <1>0, <2>1, <2>2 DEF StepTimes, Begun, IsRoot, IsRead
<1>5. RootTimes'
  <2> SUFFICES ASSUME NEW p \in DOMAIN events, events[p].kind = "decode_step"
               PROVE  /\ events[p].step \in 0..step'
                      /\ events[p].step = step' => pc' \notin {"between", "step"}
                      /\ \A i \in DOMAIN reads : reads[i].state # "queued" =>
                            /\ reads[i].step = events[p].step => events[p].start <= reads[i].start
                            /\ reads[i].step > events[p].step => events[p].stop <= reads[i].start
                      /\ \A q \in DOMAIN events : events[q].kind = "SSD_read" =>
                            /\ events[q].step < events[p].step => q <= events[p].start
                            /\ events[q].step = events[p].step /\ events[p].step < step'
                                  => q <= events[p].stop
    BY <1>0 DEF RootTimes, Begun, IsRoot, IsRead
  <2>1. /\ events[p].step \in 0..step
        /\ events[p].step = step => pc \notin {"between", "step"}
        /\ \A i \in DOMAIN reads : reads[i].state # "queued" =>
              /\ reads[i].step = events[p].step => events[p].start <= reads[i].start
              /\ reads[i].step > events[p].step => events[p].stop <= reads[i].start
        /\ \A q \in DOMAIN events : events[q].kind = "SSD_read" =>
              /\ events[q].step < events[p].step => q <= events[p].start
              /\ events[q].step = events[p].step /\ events[p].step < step => q <= events[p].stop
    BY DEF TimeInv, RootTimes, Begun, IsRoot, IsRead
  <2>2. events[p].step < step' => events[p].step < step
    BY <2>1, TimeTypes
  <2>3. /\ events[p].step \in 0..step'
        /\ events[p].step = step' => pc' \notin {"between", "step"}
    BY <2>1, TimeTypes
  <2> QED
    BY <2>1, <2>2, <2>3
<1>6. TracedInv'
  <2>1. pc' = "step" => (recording' <=> Selected(step'))
    BY <1>3 DEF TimeInv, TracedInv, Selected
  <2> QED
    BY <1>0, <2>1 DEF TimeInv, TracedInv, Selected, Traced
<1> QED
  BY <1>1, <1>2, <1>4, <1>5, <1>6 DEF TimeInv

\* An event that ends now is appended, to what the recorder has.
LEMMA AppendedTimes ==
    ASSUME TraceAssumption, IInv, EventTimes, NEW thread \in Threads, NEW event \in EventSet,
           Appended(thread, event), event.start <= event.stop, event.start <= Len(events),
           event.stop <= Len(events) + 1
    PROVE  EventTimes'
<1>1. /\ Len(events') \in Nat /\ Len(events') > Len(events) /\ Len(events) \in Nat
      /\ \A p \in DOMAIN events : p \in DOMAIN events' /\ events'[p] = events[p]
      /\ events'[Len(events')] = event
      /\ events' \in Seq(EventSet)
      /\ \A p \in DOMAIN events' :
           p \in DOMAIN events \/ p = Len(events') \/ events'[p] = Thread(thread)
  BY AppendedFacts, TimeTypes DEF IInv, ListsTyped
<1> SUFFICES ASSUME NEW p \in DOMAIN events'
             PROVE  /\ events'[p].start <= events'[p].stop
                    /\ events'[p].start < p /\ events'[p].stop <= p
  BY DEF EventTimes
<1>2. CASE p \in DOMAIN events
  BY <1>1, <1>2 DEF EventTimes
<1>3. CASE p = Len(events')
  <2>1. event.start \in Nat /\ event.stop \in Nat
    BY DEF EventSet
  <2> QED
    BY <2>1, <1>1, <1>3
<1>4. CASE events'[p] = Thread(thread)
  <2>1. p \in 1..Len(events')
    BY <1>1
  <2> QED
    BY <1>4, <2>1, <1>1 DEF Thread
<1> QED
  BY <1>1, <1>2, <1>3, <1>4

\* A read is submitted: it is not begun.
LEMMA SubmitTimes ==
    ASSUME TraceAssumption, IInv, TimeInv, Submit
    PROVE  TimeInv'
<1>a. /\ pc = "step" /\ pc' = pc /\ step' = step /\ recording' = recording /\ began' = began
      /\ step \in 0..(MaxSteps - 1)
  BY ReadTypes DEF Submit, mainState, IInv, MainTyped
<1> DEFINE flow == IF recording THEN flows + 1 ELSE 0
           new == Len(reads) + 1
<1>1. flow \in Nat /\ reads' = Submitted(flow)
  BY TimeTypes DEF Submit
<1>2. /\ \A i \in DOMAIN reads : i \in DOMAIN reads' /\ reads'[i] = reads[i]
      /\ \A i \in DOMAIN reads' : i \in DOMAIN reads \/ i = new
      /\ reads'[new] = [step |-> step, flow |-> flow, state |-> "queued",
                        thread |-> Nobody, start |-> 0]
  BY <1>1, <1>a, SubmittedFacts
<1>3. /\ reads'[new].step = step /\ reads'[new].flow = flow /\ reads'[new].state = "queued"
  BY <1>2
<1>4. /\ EventTimes'
      /\ \A p \in DOMAIN events : p \in DOMAIN events' /\ events'[p] = events[p]
      /\ \A p \in DOMAIN events' : p \in DOMAIN events \/ ~(IsRoot(p)' \/ IsRead(p)')
  <2>1. CASE recording
    <3> DEFINE event == Event("s", Main, flow, step, Now, Now)
    <3>1. Appended(Main, event) /\ Main \in Threads
      BY <2>1 DEF Submit, Threads
    <3>2. event \in EventSet /\ event.kind = "s" /\ event.start = Len(events) /\ event.stop = Len(events)
      <4>1. "s" \in Kinds /\ Now \in Nat /\ Now = Len(events) /\ events \in Seq(EventSet)
        BY TimeTypes DEF Kinds, IInv, ListsTyped, Now
      <4> QED
        BY <4>1, <3>1, <1>1, <1>a, EventTyped
    <3> HIDE DEF event
    <3>3. EventTimes'
      BY <3>1, <3>2, AppendedTimes, TimeTypes DEF TimeInv
    <3>4. /\ \A p \in DOMAIN events : p \in DOMAIN events' /\ events'[p] = events[p]
          /\ events'[Len(events')] = event
          /\ \A p \in DOMAIN events' :
                p \in DOMAIN events \/ p = Len(events') \/ events'[p] = Thread(Main)
      BY <3>1, <3>2, AppendedFacts DEF IInv, ListsTyped
    <3>5. Thread(Main).kind = "thread"
      BY DEF Thread
    <3>6. ASSUME NEW p \in DOMAIN events', p \notin DOMAIN events
          PROVE  events'[p].kind \in {"s", "thread"}
      BY <3>2, <3>4, <3>5, <3>6
    <3>7. \A p \in DOMAIN events' : p \in DOMAIN events \/ ~(IsRoot(p)' \/ IsRead(p)')
      BY <3>6 DEF IsRoot, IsRead
    <3> QED
      BY <3>3, <3>4, <3>7
  <2>2. CASE ~recording
    <3>1. events' = events
      BY <2>2 DEF Submit
    <3>2. EventTimes'
      BY <3>1 DEF TimeInv, EventTimes
    <3> QED
      BY <3>1, <3>2
  <2> QED
    BY <2>1, <2>2
<1>5. SpansAreReads'
  <2> SUFFICES ASSUME NEW q \in DOMAIN events', NEW i \in DOMAIN reads',
                      IsRead(q)', events'[q].flow = reads'[i].flow
               PROVE  events'[q].start = reads'[i].start
    BY DEF SpansAreReads
  <2>1. q \in DOMAIN events /\ events'[q] = events[q] /\ events[q].kind = "SSD_read"
    BY <1>4 DEF IsRead
  <2>2. events[q].flow # 0 /\ events[q].flow \in Nat /\ events[q].flow <= flows /\ flows \in Nat
    <3>1. events[q].flow # 0
      BY <2>1 DEF IInv, EventsHaveReads, Before
    <3> QED
      BY <2>1, <3>1, TimeTypes
  <2>3. i \in DOMAIN reads /\ reads'[i] = reads[i]
    BY <1>2, <1>3, <2>1, <2>2
  <2> QED
    BY <2>1, <2>3 DEF TimeInv, SpansAreReads, IsRead
<1>6. StepTimes'
  <2>1. ASSUME NEW i \in DOMAIN reads', reads'[i].state # "queued", reads'[i].step = step
        PROVE  began <= reads'[i].start
    <3>1. i \in DOMAIN reads /\ reads'[i] = reads[i]
      BY <1>2, <1>3, <2>1
    <3> QED
      BY <2>1, <3>1 DEF TimeInv, StepTimes, Begun
  <2>2. ASSUME NEW p \in DOMAIN events', IsRoot(p)' \/ IsRead(p)'
        PROVE  events'[p].step = step \/ p <= began
    <3>1. p \in DOMAIN events /\ events'[p] = events[p] /\ (IsRoot(p) \/ IsRead(p))
      BY <1>4, <2>2 DEF IsRoot, IsRead
    <3> QED
      BY <3>1, <1>a DEF TimeInv, StepTimes
  <2> QED
    BY <1>a, <2>1, <2>2 DEF StepTimes, Begun
<1>7. RootTimes'
  <2> SUFFICES ASSUME NEW p \in DOMAIN events', IsRoot(p)'
               PROVE  /\ events'[p].step \in 0..step
                      /\ events'[p].step # step
                      /\ \A i \in DOMAIN reads' : reads'[i].state # "queued" =>
                            /\ reads'[i].step = events'[p].step => events'[p].start <= reads'[i].start
                            /\ reads'[i].step > events'[p].step => events'[p].stop <= reads'[i].start
                      /\ \A q \in DOMAIN events' : IsRead(q)' =>
                            /\ events'[q].step < events'[p].step => q <= events'[p].start
                            /\ events'[q].step = events'[p].step /\ events'[p].step < step
                                  => q <= events'[p].stop
    BY <1>a DEF RootTimes, Begun
  <2>1. p \in DOMAIN events /\ events'[p] = events[p] /\ IsRoot(p)
    BY <1>4 DEF IsRoot
  <2>2. ASSUME NEW i \in DOMAIN reads', reads'[i].state # "queued"
        PROVE  /\ reads'[i].step = events[p].step => events[p].start <= reads'[i].start
               /\ reads'[i].step > events[p].step => events[p].stop <= reads'[i].start
    <3>1. i \in DOMAIN reads /\ reads'[i] = reads[i]
      BY <1>2, <1>3, <2>2
    <3> QED
      BY <2>1, <2>2, <3>1 DEF TimeInv, RootTimes, Begun
  <2>3. ASSUME NEW q \in DOMAIN events', IsRead(q)'
        PROVE  /\ events'[q].step < events[p].step => q <= events[p].start
               /\ events'[q].step = events[p].step /\ events[p].step < step => q <= events[p].stop
    <3>1. q \in DOMAIN events /\ events'[q] = events[q] /\ IsRead(q)
      BY <1>4, <2>3 DEF IsRead
    <3> QED
      BY <2>1, <3>1 DEF TimeInv, RootTimes
  <2>4. events[p].step \in 0..step /\ events[p].step # step
    BY <2>1, <1>a DEF TimeInv, RootTimes
  <2> QED
    BY <2>1, <2>2, <2>3, <2>4
<1>8. TracedInv'
  <2> SUFFICES ASSUME NEW i \in DOMAIN reads', Selected(reads'[i].step)
               PROVE  reads'[i].flow # 0
    BY <1>a DEF TimeInv, TracedInv, Selected, Traced
  <2>1. CASE i \in DOMAIN reads
    BY <2>1, <1>2 DEF TimeInv, TracedInv, Traced
  <2>2. CASE i = new
    <3>1. recording
      BY <2>2, <1>3, <1>a DEF TimeInv, TracedInv
    <3> QED
      BY <3>1, <2>2, <1>3, TimeTypes
  <2> QED
    BY <2>1, <2>2, <1>2
<1> QED
  BY <1>4, <1>5, <1>6, <1>7, <1>8 DEF TimeInv

\* A worker moves a read on, and takes it up at this time if it was in the queue.
LEMMA MovedTimes ==
    ASSUME TraceAssumption, IInv, TimeInv, UNCHANGED mainState,
           NEW i \in DOMAIN reads, NEW w \in Workers, NEW kind \in DOMAIN Before,
           NEW stops \in SUBSET Ends(reads[i].start), Recorded(i, kind, w, stops),
           NEW state, state # "queued",
           DOMAIN reads' = DOMAIN reads, \A j \in DOMAIN reads : j # i => reads'[j] = reads[j],
           reads'[i].flow = reads[i].flow, reads'[i].step = reads[i].step,
           reads'[i].state = state, reads[i].state # "done",
           reads'[i].start = IF reads[i].state = "queued" THEN Len(events') ELSE reads[i].start,
           kind = "SSD_read" => reads[i].state # "queued"
    PROVE  TimeInv'
<1>a. /\ pc' = pc /\ step' = step /\ recording' = recording /\ began' = began
  BY DEF mainState
<1>b. reads[i].step = step /\ step \in 0..(MaxSteps - 1)
  <2>1. reads[i].step <= step /\ (reads[i].step < step => reads[i].state = "done")
    BY DEF IInv, JoinedInv
  <2>2. reads[i].step \in 0..(MaxSteps - 1)
    BY ReadTypes DEF ReadSet
  <2> QED
    BY <2>1, <2>2, TimeTypes
<1>c. \A j \in DOMAIN reads : reads'[j].step = reads[j].step /\ reads'[j].flow = reads[j].flow
  OBVIOUS
<1>d. PICK stop \in Ends(reads[i].start) :
          IF Traced(i)
          THEN Appended(w, Event(kind, w, reads[i].flow, reads[i].step, reads[i].start, stop))
          ELSE UNCHANGED <<events, named>>
  BY RecordedFacts
<1>e. stop \in Nat /\ reads[i].start <= stop /\ stop <= Len(events) + 1
  <2>1. reads[i].start \in Nat /\ reads[i].start <= Len(events) /\ events \in Seq(EventSet)
    BY TimeTypes DEF IInv, ListsTyped
  <2> QED
    BY <2>1, EndsAre
<1> DEFINE event == Event(kind, w, reads[i].flow, step, reads[i].start, stop)
<1>1. /\ EventTimes'
      /\ Len(events') \in Nat /\ Len(events') >= Len(events)
      /\ \A p \in DOMAIN events : p \in DOMAIN events' /\ events'[p] = events[p]
      /\ \A p \in DOMAIN events' :
            \/ p \in DOMAIN events
            \/ events'[p].kind = "thread"
            \/ Traced(i) /\ events'[p] = event
  <2>1. CASE Traced(i)
    <3>1. Appended(w, event) /\ w \in Threads
      <4>1. Appended(w, Event(kind, w, reads[i].flow, reads[i].step, reads[i].start, stop))
        BY <1>d, <2>1
      <4> QED
        BY <4>1, <1>b DEF Threads
    <3>2. event \in EventSet /\ event.start = reads[i].start /\ event.stop = stop
      <4>1. kind \in Kinds /\ events \in Seq(EventSet) /\ reads[i].flow \in Nat /\ reads[i].start \in Nat
        BY TimeTypes DEF Kinds, Before, IInv, ListsTyped
      <4>2. event \in EventSet
        <5>1. w \in Threads /\ step \in 0..(MaxSteps - 1) /\ stop \in Nat
          BY <3>1, <1>b, <1>e
        <5> QED
          BY <4>1, <5>1, EventTyped
      <4> QED
        BY <4>2 DEF Event
    <3> HIDE DEF event
    <3>3. EventTimes'
      BY <3>1, <3>2, <1>e, AppendedTimes, TimeTypes DEF TimeInv
    <3>4. /\ \A p \in DOMAIN events : p \in DOMAIN events' /\ events'[p] = events[p]
          /\ events'[Len(events')] = event
          /\ Len(events') \in Nat /\ Len(events') > Len(events)
          /\ \A p \in DOMAIN events' :
                p \in DOMAIN events \/ p = Len(events') \/ events'[p] = Thread(w)
      BY <3>1, <3>2, AppendedFacts DEF IInv, ListsTyped
    <3>5. Thread(w).kind = "thread"
      BY DEF Thread
    <3> QED
      BY <2>1, <3>3, <3>4, <3>5, TimeTypes
  <2>2. CASE ~Traced(i)
    <3>1. events' = events
      BY <2>2, <1>d
    <3>2. EventTimes'
      BY <3>1 DEF TimeInv, EventTimes
    <3> QED
      BY <3>1, <3>2, TimeTypes
  <2> QED
    BY <2>1, <2>2
<1>2. /\ event.kind = kind /\ event.flow = reads[i].flow /\ event.step = step
      /\ event.start = reads[i].start
  BY DEF Event
<1> HIDE DEF event
<1>3. kind # "thread" /\ kind # "decode_step"
  BY DEF Before
<1>4. ASSUME NEW p \in DOMAIN events', IsRoot(p)'
      PROVE  p \in DOMAIN events /\ events'[p] = events[p] /\ IsRoot(p)
  BY <1>1, <1>2, <1>3, <1>4 DEF IsRoot
<1>5. ASSUME NEW q \in DOMAIN events', IsRead(q)'
      PROVE  \/ q \in DOMAIN events /\ events'[q] = events[q] /\ IsRead(q)
             \/ Traced(i) /\ events'[q] = event /\ kind = "SSD_read"
  BY <1>1, <1>2, <1>3, <1>5 DEF IsRead
<1>6. \* The other reads, and this one if it is in the queue, have no span of their own now.
      ASSUME NEW q \in DOMAIN events, IsRead(q), NEW j \in DOMAIN reads,
             events[q].flow = reads[j].flow
      PROVE  Traced(j) /\ (j = i => reads[i].state # "queued")
  <2>1. events[q].kind = "SSD_read" /\ events[q].flow # 0
    BY <1>6 DEF IsRead, IInv, EventsHaveReads, Before
  <2>2. PICK k \in DOMAIN reads : /\ IsOf(events[q], reads[k])
                                  /\ events[q].kind \in Passed(reads[k].state)
    BY <2>1 DEF IInv, EventsHaveReads
  <2>3. Traced(j) /\ j = k
    BY <1>6, <2>1, <2>2 DEF IsOf, IInv, OneReadPerFlow, Traced
  <2>4. reads[k].state # "queued"
    BY <2>1, <2>2 DEF Passed
  <2> QED
    BY <2>3, <2>4
<1>7. SpansAreReads'
  <2> SUFFICES ASSUME NEW q \in DOMAIN events', NEW j \in DOMAIN reads,
                      IsRead(q)', events'[q].flow = reads[j].flow
               PROVE  events'[q].start = reads'[j].start
    BY <1>c DEF SpansAreReads
  <2>1. CASE q \in DOMAIN events /\ events'[q] = events[q] /\ IsRead(q)
    <3>1. j = i => reads[i].state # "queued"
      BY <2>1, <1>6
    <3>2. reads'[j].start = reads[j].start
      BY <3>1
    <3> QED
      BY <2>1, <3>2 DEF TimeInv, SpansAreReads
  <2>2. CASE Traced(i) /\ events'[q] = event /\ kind = "SSD_read"
    <3>1. i = j
      BY <2>2, <1>2 DEF IInv, OneReadPerFlow, Traced
    <3> QED
      BY <2>2, <3>1, <1>2
  <2> QED
    BY <2>1, <2>2, <1>5
<1>8. ASSUME NEW j \in DOMAIN reads, reads'[j].state # "queued"
      PROVE  \/ Begun(j) /\ reads'[j].start = reads[j].start
             \/ reads'[j].start = Len(events')
  BY <1>8 DEF Begun
<1>9. StepTimes'
  <2>1. ASSUME NEW j \in DOMAIN reads, reads'[j].state # "queued", reads[j].step = step
        PROVE  began <= reads'[j].start
    <3>1. CASE Begun(j) /\ reads'[j].start = reads[j].start
      BY <2>1, <3>1 DEF TimeInv, StepTimes
    <3>2. CASE reads'[j].start = Len(events')
      BY <3>2, <1>1, TimeTypes
    <3> QED
      BY <2>1, <3>1, <3>2, <1>8
  <2>2. ASSUME pc = "step", NEW p \in DOMAIN events', IsRoot(p)' \/ IsRead(p)'
        PROVE  events'[p].step = step \/ p <= began
    <3>1. CASE p \in DOMAIN events /\ events'[p] = events[p] /\ (IsRoot(p) \/ IsRead(p))
      BY <2>2, <3>1 DEF TimeInv, StepTimes
    <3>2. CASE events'[p] = event
      BY <3>2, <1>2
    <3> QED
      BY <2>2, <3>1, <3>2, <1>4, <1>5
  <2> QED
    BY <1>a, <1>c, <2>1, <2>2 DEF StepTimes, Begun
<1>10. RootTimes'
  <2> SUFFICES ASSUME NEW p \in DOMAIN events', IsRoot(p)'
               PROVE  /\ events'[p].step \in 0..step
                      /\ events'[p].step = step => pc \notin {"between", "step"}
                      /\ \A j \in DOMAIN reads : reads'[j].state # "queued" =>
                            /\ reads[j].step = events'[p].step => events'[p].start <= reads'[j].start
                            /\ reads[j].step > events'[p].step => events'[p].stop <= reads'[j].start
                      /\ \A q \in DOMAIN events' : IsRead(q)' =>
                            /\ events'[q].step < events'[p].step => q <= events'[p].start
                            /\ events'[q].step = events'[p].step /\ events'[p].step < step
                                  => q <= events'[p].stop
    BY <1>a, <1>c DEF RootTimes, Begun
  <2>1. p \in DOMAIN events /\ events'[p] = events[p] /\ IsRoot(p)
    BY <1>4
  <2>2. ASSUME NEW j \in DOMAIN reads, reads'[j].state # "queued"
        PROVE  /\ reads[j].step = events[p].step => events[p].start <= reads'[j].start
               /\ reads[j].step > events[p].step => events[p].stop <= reads'[j].start
    <3>1. CASE Begun(j) /\ reads'[j].start = reads[j].start
      BY <2>1, <3>1 DEF TimeInv, RootTimes
    <3>2. CASE reads'[j].start = Len(events')
      BY <2>1, <3>2, <1>1, TimeTypes
    <3> QED
      BY <2>2, <3>1, <3>2, <1>8
  <2>3. events[p].step \in 0..step /\ (events[p].step = step => pc \notin {"between", "step"})
    BY <2>1 DEF TimeInv, RootTimes
  <2>4. ASSUME NEW q \in DOMAIN events', IsRead(q)'
        PROVE  /\ events'[q].step < events[p].step => q <= events[p].start
               /\ events'[q].step = events[p].step /\ events[p].step < step => q <= events[p].stop
    <3>1. CASE q \in DOMAIN events /\ events'[q] = events[q] /\ IsRead(q)
      BY <2>1, <3>1 DEF TimeInv, RootTimes
    <3>2. CASE events'[q] = event
      BY <3>2, <2>1, <2>3, <1>2, TimeTypes
    <3> QED
      BY <2>4, <3>1, <3>2, <1>5
  <2> QED
    BY <2>1, <2>2, <2>3, <2>4
<1>11. TracedInv'
  <2>1. \A j \in DOMAIN reads : Selected(reads[j].step) => reads[j].flow # 0
    BY DEF TimeInv, TracedInv, Traced
  <2> QED
    BY <1>a, <1>c, <2>1 DEF TimeInv, TracedInv, Selected, Traced
<1> QED
  BY <1>1, <1>7, <1>9, <1>10, <1>11 DEF TimeInv

\* A step is left: its root has the time from its beginning to now.
LEMMA StepLeftTimes ==
    ASSUME TraceAssumption, IInv, TimeInv, pc = "step", NEW next, StepLeft(next),
           \/ step' = step + 1 /\ next = "between"
           \/ step' = step /\ next = "leaving"
    PROVE  TimeInv'
<1>a. /\ pc' = next /\ recording' = FALSE /\ began' = began /\ reads' = reads
      /\ step \in 0..(MaxSteps - 1)
  BY ReadTypes DEF StepLeft, IInv, MainTyped
<1>1. CASE ~recording
  <2>1. events' = events
    BY <1>1 DEF StepLeft
  <2> QED
    BY <1>a, <2>1, QuietTimes
<1>2. CASE recording
  <2>0. PICK stop \in Ends(began) :
            Appended(Main, Event("decode_step", Main, 0, step, began, stop))
    BY <1>2 DEF StepLeft, StepRecorded
  <2>e. stop \in Nat /\ began <= stop /\ Len(events) <= stop /\ stop <= Len(events) + 1
    <3>1. began \in Nat /\ began <= Len(events) /\ events \in Seq(EventSet)
      BY TimeTypes DEF IInv, ListsTyped
    <3> QED
      BY <3>1, EndsAre
  <2> DEFINE event == Event("decode_step", Main, 0, step, began, stop)
  <2>1. Appended(Main, event) /\ Main \in Threads
    BY <2>0 DEF Threads
  <2>2. /\ event \in EventSet /\ event.kind = "decode_step" /\ event.step = step
        /\ event.start = began /\ event.stop = stop
    <3>1. "decode_step" \in Kinds /\ began \in Nat /\ 0 \in Nat /\ events \in Seq(EventSet)
      BY TimeTypes DEF Kinds, IInv, ListsTyped
    <3> QED
      BY <3>1, <2>1, <2>e, <1>a, EventTyped
  <2> HIDE DEF event
  <2>3. EventTimes'
    BY <2>1, <2>2, <2>e, AppendedTimes, TimeTypes DEF TimeInv
  <2>4. /\ \A p \in DOMAIN events : p \in DOMAIN events' /\ events'[p] = events[p]
        /\ Len(events') \in DOMAIN events' /\ events'[Len(events')] = event
        /\ \A p \in DOMAIN events' :
              p \in DOMAIN events \/ p = Len(events') \/ events'[p] = Thread(Main)
    BY <2>1, <2>2, AppendedFacts DEF IInv, ListsTyped
  <2>5. Thread(Main).kind = "thread"
    BY DEF Thread
  <2>6. ASSUME NEW p \in DOMAIN events', IsRoot(p)'
        PROVE  \/ p \in DOMAIN events /\ events'[p] = events[p] /\ IsRoot(p)
               \/ events'[p] = event
    BY <2>4, <2>5, <2>6 DEF IsRoot
  <2>7. ASSUME NEW q \in DOMAIN events', IsRead(q)'
        PROVE  q \in DOMAIN events /\ events'[q] = events[q] /\ IsRead(q)
    BY <2>2, <2>4, <2>5, <2>7 DEF IsRead
  <2>8. SpansAreReads'
    <3> SUFFICES ASSUME NEW q \in DOMAIN events', NEW j \in DOMAIN reads,
                        IsRead(q)', events'[q].flow = reads[j].flow
                 PROVE  events'[q].start = reads[j].start
      BY <1>a DEF SpansAreReads
    <3> QED
      BY <2>7 DEF TimeInv, SpansAreReads
  <2>9. StepTimes'
    <3>1. ASSUME NEW j \in DOMAIN reads, reads[j].state # "queued", reads[j].step = step'
          PROVE  began <= reads[j].start
      <4>1. step' = step
        BY <3>1, TimeTypes
      <4> QED
        BY <3>1, <4>1 DEF TimeInv, StepTimes, Begun
    <3>2. pc' # "step"
      BY <1>a
    <3> QED
      BY <1>a, <3>1, <3>2 DEF StepTimes, Begun
  <2>10. RootTimes'
    <3> SUFFICES ASSUME NEW p \in DOMAIN events', IsRoot(p)'
                 PROVE  /\ events'[p].step \in 0..step'
                        /\ events'[p].step = step' => pc' \notin {"between", "step"}
                        /\ \A j \in DOMAIN reads : reads[j].state # "queued" =>
                              /\ reads[j].step = events'[p].step => events'[p].start <= reads[j].start
                              /\ reads[j].step > events'[p].step => events'[p].stop <= reads[j].start
                        /\ \A q \in DOMAIN events' : IsRead(q)' =>
                              /\ events'[q].step < events'[p].step => q <= events'[p].start
                              /\ events'[q].step = events'[p].step /\ events'[p].step < step'
                                    => q <= events'[p].stop
      BY <1>a DEF RootTimes, Begun
    <3>1. CASE p \in DOMAIN events /\ events'[p] = events[p] /\ IsRoot(p)
      <4>1. /\ events[p].step \in 0..step /\ events[p].step # step
            /\ \A j \in DOMAIN reads : reads[j].state # "queued" =>
                  /\ reads[j].step = events[p].step => events[p].start <= reads[j].start
                  /\ reads[j].step > events[p].step => events[p].stop <= reads[j].start
        BY <3>1 DEF TimeInv, RootTimes, Begun
      <4>2. events[p].step < step /\ events[p].step < step'
        BY <3>1, <4>1, TimeTypes
      <4>3. ASSUME NEW q \in DOMAIN events', IsRead(q)'
            PROVE  /\ events'[q].step < events[p].step => q <= events[p].start
                   /\ events'[q].step = events[p].step => q <= events[p].stop
        <5>1. q \in DOMAIN events /\ events'[q] = events[q] /\ IsRead(q)
          BY <2>7, <4>3
        <5> QED
          BY <3>1, <4>2, <5>1 DEF TimeInv, RootTimes
      <4>4. events[p].step \in 0..step' /\ events[p].step # step'
        BY <4>1, <4>2, TimeTypes
      <4> QED
        BY <3>1, <4>1, <4>3, <4>4
    <3>2. CASE events'[p] = event
      <4>1. step \in 0..step' /\ (step = step' => pc' \notin {"between", "step"})
        BY <1>a, TimeTypes
      <4>2. ASSUME NEW j \in DOMAIN reads, reads[j].state # "queued"
            PROVE  /\ reads[j].step = step => began <= reads[j].start
                   /\ ~(reads[j].step > step)
        BY <4>2, TimeTypes DEF TimeInv, StepTimes, Begun
      <4>3. ASSUME NEW q \in DOMAIN events', IsRead(q)'
            PROVE  /\ events'[q].step < step => q <= began
                   /\ q <= stop
        <5>1. q \in DOMAIN events /\ events'[q] = events[q] /\ IsRead(q)
          BY <2>7, <4>3
        <5>2. events[q].step = step \/ q <= began
          BY <5>1 DEF TimeInv, StepTimes
        <5> QED
          BY <5>1, <5>2, <2>e, TimeTypes
      <4> QED
        BY <3>2, <2>2, <4>1, <4>2, <4>3
    <3> QED
      BY <3>1, <3>2, <2>6
  <2>11. TracedInv'
    <3>1. \A j \in DOMAIN reads : Selected(reads[j].step) => reads[j].flow # 0
      BY DEF TimeInv, TracedInv, Traced
    <3>2. pc' # "step"
      BY <1>a
    <3> QED
      BY <1>a, <3>1, <3>2 DEF TracedInv, Selected, Traced
  <2> QED
    BY <2>3, <2>8, <2>9, <2>10, <2>11 DEF TimeInv
<1> QED
  BY <1>1, <1>2 DEF IInv, MainTyped

\* The times are kept by every step.
LEMMA TimesKept ==
    ASSUME TraceAssumption, IInv, TimeInv, [Next]_vars
    PROVE  TimeInv'
<1>1. CASE BeginStep
  <2>1. /\ step' = step /\ began' = Len(events) /\ pc = "between" /\ pc' = "step"
        /\ recording' = (recording \/ Selected(step)) /\ UNCHANGED <<events, reads>>
    BY <1>1 DEF BeginStep
  <2> QED
    BY <2>1, QuietTimes
<1>2. CASE Submit
  BY <1>2, SubmitTimes
<1>3. CASE EndStep
  <2>1. pc = "step" /\ StepLeft("between") /\ step' = step + 1
    BY <1>3 DEF EndStep
  <2> QED
    BY <2>1, StepLeftTimes
<1>4. CASE Raise
  <2>1. pc = "step" /\ StepLeft("leaving") /\ step' = step
    BY <1>4 DEF Raise
  <2> QED
    BY <2>1, StepLeftTimes
<1>5. CASE EndGeneration \/ Write \/ WriteFails \/ CloseRuntime \/ UNCHANGED vars
  <2>1. /\ step' = step /\ began' = began /\ pc' \in {pc, "leaving", "closing", "closed"}
        /\ recording' = recording /\ events' = events /\ reads' = reads
    BY <1>5 DEF EndGeneration, Write, WriteFails, CloseRuntime, vars, mainState
  <2> QED
    BY <2>1, QuietTimes
<1>6. ASSUME NEW w \in Workers, NEW i \in DOMAIN reads, StartSpan(w, i)
      PROVE  TimeInv'
  <2>1. /\ reads[i].state = "queued" /\ Recorded(i, "t", w, {Now}) /\ UNCHANGED mainState
        /\ reads' = [reads EXCEPT ![i] = [@ EXCEPT !.state = "reading", !.thread = w,
                                                  !.start = Len(events')]]
    BY <1>6 DEF StartSpan
  <2>2. reads \in Seq(ReadSet) /\ reads[i] \in ReadSet
    BY ReadTypes DEF IInv, ListsTyped
  <2>3. /\ reads'[i].flow = reads[i].flow /\ reads'[i].step = reads[i].step
        /\ reads'[i].state = "reading" /\ reads'[i].start = Len(events')
        /\ DOMAIN reads' = DOMAIN reads
        /\ \A j \in DOMAIN reads : j # i => reads'[j] = reads[j]
    BY <2>1, <2>2 DEF ReadSet
  <2>4. "t" \in DOMAIN Before /\ {Now} \in SUBSET Ends(reads[i].start)
    BY DEF Before, Ends
  <2> QED
    BY <2>1, <2>3, <2>4, MovedTimes
<1>7. ASSUME NEW w \in Workers, NEW i \in DOMAIN reads, EndSpan(w, i)
      PROVE  TimeInv'
  <2>1. /\ reads[i].state = "reading" /\ UNCHANGED mainState
        /\ Recorded(i, "SSD_read", w, Ends(reads[i].start))
    BY <1>7 DEF EndSpan, Has
  <2>2. PICK state \in {"ended", "broken"} : Advance(i, state, w)
    BY <1>7 DEF EndSpan
  <2>3. /\ reads'[i].flow = reads[i].flow /\ reads'[i].step = reads[i].step
        /\ reads'[i].state = state /\ reads'[i].start = reads[i].start
        /\ DOMAIN reads' = DOMAIN reads
        /\ \A j \in DOMAIN reads : j # i => reads'[j] = reads[j]
    BY <2>2, AdvancedFacts DEF States
  <2>4. "SSD_read" \in DOMAIN Before /\ state # "queued"
    BY DEF Before
  <2> QED
    BY <2>1, <2>3, <2>4, MovedTimes
<1>8. ASSUME NEW w \in Workers, NEW i \in DOMAIN reads, EndFlow(w, i)
      PROVE  TimeInv'
  <2>1. /\ reads[i].state \in {"ended", "broken"} /\ Recorded(i, "f", w, {Now}) /\ UNCHANGED mainState
        /\ Advance(i, IF reads[i].state = "ended" THEN "done" ELSE "failed", w)
    BY <1>8 DEF EndFlow, Has
  <2>2. PICK state \in {"done", "failed"} : Advance(i, state, w)
    BY <2>1
  <2>3. /\ reads'[i].flow = reads[i].flow /\ reads'[i].step = reads[i].step
        /\ reads'[i].state = state /\ reads'[i].start = reads[i].start
        /\ DOMAIN reads' = DOMAIN reads
        /\ \A j \in DOMAIN reads : j # i => reads'[j] = reads[j]
    BY <2>2, AdvancedFacts DEF States
  <2>4. /\ "f" \in DOMAIN Before /\ state # "queued" /\ "f" # "SSD_read"
        /\ {Now} \in SUBSET Ends(reads[i].start)
    BY DEF Before, Ends
  <2> QED
    BY <2>1, <2>3, <2>4, MovedTimes
<1> QED
  BY <1>1, <1>2, <1>3, <1>4, <1>5, <1>6, <1>7, <1>8 DEF Next, Work

\* The times are an invariant.
THEOREM TimesCorrect == Spec => []TimeInv
<1> SUFFICES ASSUME TraceAssumption
             PROVE  Spec => []TimeInv
  BY TraceAssumption
<1>1. Init => TimeInv
  <2> SUFFICES ASSUME Init
               PROVE  TimeInv
    OBVIOUS
  <2>1. /\ DOMAIN events = {1} /\ DOMAIN reads = {} /\ events[1] = Thread(Main)
        /\ pc = "between"
    BY DEF Init
  <2>2. /\ Thread(Main).kind = "thread" /\ Thread(Main).start = 0 /\ Thread(Main).stop = 0
    BY DEF Thread
  <2> QED
    BY <2>1, <2>2 DEF TimeInv, EventTimes, SpansAreReads, StepTimes, RootTimes, TracedInv,
                      IsRoot, IsRead, Begun
<1>2. IInv /\ TimeInv /\ [Next]_vars => TimeInv'
  BY TimesKept
<1> QED
  BY <1>1, <1>2, Invariance, PTL DEF Spec

-----------------------------------------------------------------------------
(* The summary                                                              *)

\* A span in the trace is of a read that was begun, of its step and its start.
LEMMA SpanHasRead ==
    ASSUME TraceAssumption, IInv, TimeInv, NEW p \in DOMAIN events, IsRead(p)
    PROVE  \E i \in DOMAIN reads :
              /\ Begun(i) /\ Traced(i) /\ reads[i].flow = events[p].flow
              /\ reads[i].step = events[p].step /\ reads[i].start = events[p].start
<1>1. events[p].kind = "SSD_read" /\ events[p].flow # 0
  BY DEF IsRead, IInv, EventsHaveReads, Before
<1>2. PICK i \in DOMAIN reads : IsOf(events[p], reads[i]) /\ events[p].kind \in Passed(reads[i].state)
  BY <1>1 DEF IInv, EventsHaveReads
<1>3. Begun(i)
  BY <1>1, <1>2 DEF Passed, Begun
<1>4. reads[i].flow = events[p].flow /\ reads[i].step = events[p].step
  BY <1>2 DEF IsOf
<1>5. reads[i].start = events[p].start
  BY <1>4 DEF TimeInv, SpansAreReads
<1> QED
  BY <1>1, <1>3, <1>4, <1>5 DEF Traced

\* A span that starts in a root is of its step, even if the step raised.
LEMMA FoundIsOfStep ==
    ASSUME TraceAssumption, IInv, TimeInv, NEW r \in DOMAIN events, IsRoot(r),
           NEW p \in DOMAIN events, IsRead(p),
           events[r].start <= events[p].start, events[p].start < events[r].stop
    PROVE  events[p].step = events[r].step
<1>1. PICK i \in DOMAIN reads : /\ Begun(i) /\ reads[i].step = events[p].step
                                /\ reads[i].start = events[p].start
  BY SpanHasRead
<1>2. ~(events[p].step > events[r].step)
  BY <1>1, TimeTypes DEF TimeInv, RootTimes
<1>3. ~(events[p].step < events[r].step)
  <2>1. events[p].step < events[r].step => p <= events[r].start
    BY DEF TimeInv, RootTimes
  <2>2. events[p].start < p
    BY DEF TimeInv, EventTimes
  <2> QED
    BY <2>1, <2>2, TimeTypes
<1> QED
  BY <1>2, <1>3, TimeTypes

\* A span of the step of a root is over when it ends, if the step did not raise.
LEMMA FoundIsInside ==
    ASSUME TraceAssumption, IInv, TimeInv, NEW r \in DOMAIN events, IsRoot(r),
           events[r].step < step, NEW p \in DOMAIN events, IsRead(p),
           events[p].step = events[r].step
    PROVE  /\ events[r].start <= events[p].start /\ events[p].start < events[r].stop
           /\ events[p].start <= events[p].stop /\ events[p].stop <= events[r].stop
<1>1. PICK i \in DOMAIN reads : /\ Begun(i) /\ reads[i].step = events[p].step
                                /\ reads[i].start = events[p].start
  BY SpanHasRead
<1>2. events[r].start <= events[p].start /\ p <= events[r].stop
  BY <1>1 DEF TimeInv, RootTimes
<1>3. events[p].start <= events[p].stop /\ events[p].start < p /\ events[p].stop <= p
  BY DEF TimeInv, EventTimes
<1> QED
  BY <1>2, <1>3, TimeTypes

\* The reads of a root whose step is over: one span for each read of the step.
LEMMA FoundAreReads ==
    ASSUME TraceAssumption, IInv, TimeInv, written # NoStep,
           NEW r \in File, r \in DOMAIN events, IsRoot(r), events[r].step < step
    PROVE  Cardinality(ReadsInside(events[r])) = Cardinality(ReadsOf(events[r].step))
<1> DEFINE found == ReadsInside(events[r])
           own == ReadsOf(events[r].step)
           ofFlow(i, p) == reads[i].flow = events[p].flow
<1>a. written \in Nat /\ written <= Len(events) /\ File \subseteq DOMAIN events
  BY TimeTypes DEF IInv, MainTyped, File
<1>b. events[r].step \in 0..step /\ Selected(events[r].step)
  <2>1. events[r].step \in 0..step
    BY DEF TimeInv, RootTimes
  <2> QED
    BY <2>1, TimeTypes DEF IInv, OnlyTheWindow, Selected, NoStep
<1>1. IsFiniteSet(found)
  <2>1. found \subseteq 1..written /\ IsFiniteSet(1..written)
    BY <1>a, FS_Interval DEF ReadsInside, File
  <2> QED
    BY <2>1, FS_Subset
<1>2. ASSUME NEW p \in found
      PROVE  \E i \in own : ofFlow(i, p)
  <2>1. p \in DOMAIN events /\ IsRead(p) /\ events[r].start <= events[p].start
        /\ events[p].start < events[r].stop
    BY <1>a DEF ReadsInside, IsRead
  <2>2. events[p].step = events[r].step
    BY <2>1, FoundIsOfStep
  <2> QED
    BY <2>1, <2>2, SpanHasRead DEF ReadsOf
<1>3. ASSUME NEW i \in own
      PROVE  Traced(i) /\ \E p \in found : ofFlow(i, p)
  <2>1. i \in DOMAIN reads /\ reads[i].step = events[r].step
    BY DEF ReadsOf
  <2>2. reads[i].state = "done" /\ Traced(i)
    BY <1>b, <2>1 DEF IInv, JoinedInv, TimeInv, TracedInv
  <2>3. PICK p \in DOMAIN events : events[p].kind = "SSD_read" /\ IsOf(events[p], reads[i])
    BY <2>1, <2>2 DEF IInv, ReadsHaveEvents, Passed
  <2>4. IsRead(p) /\ events[p].step = events[r].step /\ ofFlow(i, p)
    BY <2>1, <2>3 DEF IsOf, IsRead
  <2>5. p \in File
    <3>1. p \in (written + 1)..Len(events) => events[p].step \in {step, NoStep}
      BY DEF IInv, OnlyAFailedStepLosesEvents
    <3>2. events[p].step \notin {step, NoStep}
      BY <1>b, <2>4, TimeTypes DEF NoStep
    <3> QED
      BY <3>1, <3>2, <1>a, TimeTypes DEF File
  <2>6. events[r].start <= events[p].start /\ events[p].start < events[r].stop
    BY <2>4, FoundIsInside
  <2>7. p \in found
    BY <2>3, <2>5, <2>6 DEF ReadsInside
  <2> QED
    BY <2>2, <2>4, <2>7
<1>4. ASSUME NEW p \in found, NEW i \in own, NEW j \in own, ofFlow(i, p), ofFlow(j, p)
      PROVE  i = j
  BY <1>3, <1>4 DEF IInv, OneReadPerFlow, ReadsOf
<1>5. ASSUME NEW p \in found, NEW q \in found, NEW i \in own, ofFlow(i, p), ofFlow(i, q)
      PROVE  p = q
  <2>1. events[p].kind = "SSD_read" /\ events[q].kind = "SSD_read" /\ events[q].flow = events[p].flow
    BY <1>5 DEF ReadsInside
  <2>2. events[p].flow # 0
    BY <1>3, <1>5 DEF Traced
  <2>3. p \in DOMAIN events /\ q \in DOMAIN events
    BY <1>a DEF ReadsInside
  <2> QED
    BY <2>1, <2>2, <2>3 DEF IInv, FlowsInOrder
<1> HIDE DEF found, own, ofFlow
<1> DEFINE f == [p \in found |-> CHOOSE i \in own : ofFlow(i, p)]
<1>6. \A p \in found : f[p] \in own /\ ofFlow(f[p], p)
  BY <1>2
<1>7. f \in [found -> own]
  BY <1>6
<1> HIDE DEF f
<1>8. f \in Surjection(found, own)
  <2>1. ASSUME NEW i \in own PROVE \E p \in found : f[p] = i
    BY <1>3, <1>4, <1>6
  <2> QED
    BY <1>7, <2>1 DEF Surjection
<1>9. f \in Injection(found, own)
  BY <1>5, <1>6, <1>7 DEF Injection, IsInjective
<1>10. Cardinality(own) = Cardinality(found)
  BY <1>1, <1>8, <1>9, FS_Surjection
<1> QED
  BY <1>10 DEF found, own

\* SummaryIsTrue, of one root.
SummarisedRight(root) ==
    LET found == ReadsInside(root)
        Active(time) == {p \in found : events[p].start <= time /\ time < events[p].stop}
        times == root.start..(root.stop - 1)
        sum == IntervalStats(found)
    IN  /\ \A p \in found : events[p].step = root.step
        /\ root.step < step =>
            /\ Cardinality(found) = Cardinality(ReadsOf(root.step))
            /\ sum.union = Cardinality({time \in times : Active(time) # {}})
            /\ sum.peak = Max({Cardinality(Active(time)) : time \in times} \union {0})

\* What the summary says of the reads of a step is true, in whatever order the
\* workers began, ended and recorded them and however their ends were rounded.
THEOREM SummaryCorrect == Spec => []SummaryIsTrue
<1> SUFFICES ASSUME TraceAssumption
             PROVE  Spec => []SummaryIsTrue
  BY TraceAssumption
<1>1. IInv /\ TimeInv => SummaryIsTrue
  <2> SUFFICES ASSUME IInv, TimeInv, written # NoStep
               PROVE  \A root \in Roots : SummarisedRight(root)
    BY DEF SummaryIsTrue, SummarisedRight
  <2>a. written \in Nat /\ written <= Len(events) /\ File \subseteq DOMAIN events
    BY TimeTypes DEF IInv, MainTyped, File
  <2>1. ASSUME NEW r \in File, events[r].kind = "decode_step"
        PROVE  SummarisedRight(events[r])
    <3> DEFINE found == ReadsInside(events[r])
    <3>1. r \in DOMAIN events /\ IsRoot(r)
      BY <2>a, <2>1 DEF IsRoot
    <3>2. ASSUME NEW p \in found
          PROVE  /\ p \in DOMAIN events /\ IsRead(p) /\ events[r].start <= events[p].start
                 /\ events[p].start < events[r].stop /\ events[p].step = events[r].step
      <4>1. p \in DOMAIN events /\ IsRead(p) /\ events[r].start <= events[p].start
            /\ events[p].start < events[r].stop
        BY <2>a DEF ReadsInside, IsRead
      <4> QED
        BY <4>1, <3>1, FoundIsOfStep
    <3>3. ASSUME events[r].step < step
          PROVE  /\ Cardinality(found) = Cardinality(ReadsOf(events[r].step))
                 /\ Timed(found, events[r].start, events[r].stop)
      <4>1. Cardinality(found) = Cardinality(ReadsOf(events[r].step))
        BY <3>1, <3>3, FoundAreReads
      <4>2. IsFiniteSet(found)
        <5>1. found \subseteq 1..written /\ IsFiniteSet(1..written)
          BY <2>a, FS_Interval DEF ReadsInside, File
        <5> QED
          BY <5>1, FS_Subset
      <4>3. ASSUME NEW p \in found
            PROVE  /\ events[p].start \in events[r].start..(events[r].stop - 1)
                   /\ events[p].stop \in events[p].start..events[r].stop
        <5>1. events[p].start <= events[p].stop /\ events[p].stop <= events[r].stop
          BY <3>1, <3>2, <3>3, FoundIsInside
        <5> QED
          BY <5>1, <3>1, <3>2, TimeTypes
      <4>4. events[r].start \in Nat /\ events[r].stop \in Nat
        BY <3>1, TimeTypes
      <4> HIDE DEF found
      <4> QED
        BY <4>1, <4>2, <4>3, <4>4 DEF Timed
    <3>4. ASSUME events[r].step < step
          PROVE  /\ IntervalStats(found).union
                        = Cardinality({time \in events[r].start..(events[r].stop - 1) :
                                          ActiveAt(found, time) # {}})
                 /\ IntervalStats(found).peak
                        = Max({Cardinality(ActiveAt(found, time)) :
                                  time \in events[r].start..(events[r].stop - 1)} \union {0})
      <4> HIDE DEF found
      <4>1. PICK spans, lo, hi : spans = found /\ lo = events[r].start /\ hi = events[r].stop
        OBVIOUS
      <4>2. Timed(spans, lo, hi)
        BY <3>3, <3>4, <4>1
      <4>3. /\ IntervalStats(spans).union
                  = Cardinality({time \in lo..(hi - 1) : ActiveAt(spans, time) # {}})
            /\ IntervalStats(spans).peak
                  = Max({Cardinality(ActiveAt(spans, time)) : time \in lo..(hi - 1)} \union {0})
        BY ONLY <4>2, StatsAreRight
      <4> QED
        BY ONLY <4>1, <4>3
    <3> QED
      BY <3>2, <3>3, <3>4 DEF ActiveAt, SummarisedRight
  <2>2. ASSUME NEW root \in Roots
        PROVE  \E r \in File : events[r].kind = "decode_step" /\ root = events[r]
    BY DEF Roots
  <2> QED
    BY <2>1, <2>2
<1> QED
  BY <1>1, Invariance, TimesCorrect, PTL

=============================================================================
