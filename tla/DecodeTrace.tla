---------------------------- MODULE DecodeTrace ----------------------------
(***************************************************************************)
(* The trace recorder of a one-shot generation.  The main thread opens a    *)
(* trace, runs decode steps of which a window is recorded, submits expert   *)
(* reads in them and joins the reads before it goes on; the I/O workers     *)
(* append their events to the same list.  A step ends when all of its reads *)
(* are done, or the whole generation by an exception of the main thread.    *)
(* Leaving the with-block writes the list once, before the runtime is       *)
(* closed and with it the pool.                                             *)
(*                                                                          *)
(* The length of the list stands for the time: an event is appended when    *)
(* what it describes ends, and two that nothing comes between are at the    *)
(* same time.  The file has the start and the length of a span as floats,   *)
(* and their sum, which is the end that trace_summary takes, may come out   *)
(* above the time of the end.  Spans within a step are left out.  What      *)
(* trace_summary says of the reads of each step is computed from the file.  *)
(***************************************************************************)
EXTENDS Integers, Sequences, FiniteSetsExt, Folds

CONSTANTS
    Workers,      \* threads of the pool
    Main,         \* the main thread
    Nobody,       \* no thread
    DecodeStart,  \* first step of the window
    DecodeStop,   \* first step after it
    MaxSteps,     \* bound: decode steps
    MaxReads      \* bound: reads of all steps

ASSUME TraceAssumption ==
    /\ Main \notin Workers /\ Nobody \notin Workers \union {Main}
    /\ DecodeStart \in Nat /\ DecodeStop \in Nat /\ DecodeStart < DecodeStop
    /\ MaxSteps \in Nat /\ MaxReads \in Nat

NoStep == -1
Threads == Workers \union {Main}
Kinds == {"thread", "s", "t", "SSD_read", "f", "decode_step"}

VARIABLES
    pc,         \* the main thread: in the with-block, in a step, leaving, ...
    step,       \* decode index
    recording,  \* DecodeTrace.recording
    began,      \* start of the span of the step
    events,     \* DecodeTrace._events
    named,      \* DecodeTrace._named_threads
    flows,      \* DecodeTrace._flow_ids
    reads,      \* reads submitted so far: step, flow or 0, state, thread, start
    written,    \* number of events in the written file, NoStep if there is none
    raised      \* the generation ended with an exception

mainState == <<pc, step, recording, began, written, raised>>
vars == <<mainState, events, named, flows, reads>>

Now == Len(events)

\* What ts + dur may come out as, for a span from start to now.  The error is far
\* below the clock's unit, so only its order with what is at the same time can
\* change: below it or exact, the end is put at its time, and above it at the next
\* one, where it still comes before what starts then.  Without a length it is exact.
Ends(start) == {Now} \union (IF start < Now THEN {Now + 1} ELSE {})

\* ts is start, and ts + dur is stop.
Event(kind, thread, flow, index, start, stop) ==
    [kind |-> kind, thread |-> thread, flow |-> flow, step |-> index,
     start |-> start, stop |-> stop]

Thread(thread) == [kind |-> "thread", thread |-> thread, flow |-> 0, step |-> NoStep,
                   start |-> 0, stop |-> 0]

\* _register_thread before the first event of a thread.
Appended(thread, event) ==
    /\ events' = IF thread \in named THEN Append(events, event)
                 ELSE events \o <<Thread(thread), event>>
    /\ named' = named \union {thread}

Init ==
    /\ pc = "between" /\ step = 0 /\ recording = FALSE /\ began = 0
    /\ events = <<Thread(Main)>> /\ named = {Main}
    /\ flows = 0 /\ reads = <<>>
    /\ written = NoStep /\ raised = FALSE

ReadsOf(index) == {i \in DOMAIN reads : reads[i].step = index}
Pending(r) == r.state \in {"queued", "reading", "ended", "broken"}

-----------------------------------------------------------------------------
(* The main thread                                                           *)

Selected(index) == DecodeStart <= index /\ index < DecodeStop

BeginStep ==
    /\ pc = "between" /\ step < MaxSteps
    /\ recording' = (recording \/ Selected(step))
    /\ began' = Len(events)
    /\ pc' = "step"
    /\ UNCHANGED <<step, written, raised, events, named, flows, reads>>

Submitted(flow) == Append(reads, [step |-> step, flow |-> flow, state |-> "queued",
                                  thread |-> Nobody, start |-> 0])

\* Mutated: the start of the flow is appended by the worker.
SubmitWithoutStart ==
    /\ pc = "step" /\ Len(reads) < MaxReads
    /\ flows' = IF recording THEN flows + 1 ELSE flows
    /\ reads' = Submitted(IF recording THEN flows + 1 ELSE 0)
    /\ UNCHANGED <<mainState, events, named>>

\* NativeExpertPool.submit: the flow starts before the worker can know of it.
Submit ==
    /\ pc = "step" /\ Len(reads) < MaxReads
    /\ IF recording
       THEN /\ flows' = flows + 1
            /\ reads' = Submitted(flows + 1)
            /\ Appended(Main, Event("s", Main, flows + 1, step, Now, Now))
       ELSE /\ reads' = Submitted(0)
            /\ UNCHANGED <<events, named, flows>>
    /\ UNCHANGED mainState

\* Mutated: the step does not wait for reads that were started.
AllJoinedOrRunning == \A i \in ReadsOf(step) : reads[i].state \notin {"queued", "failed"}

\* finish has the result of every read of the step.
AllJoined == \A i \in ReadsOf(step) : reads[i].state = "done"

StepRecorded ==
    \E stop \in Ends(began) : Appended(Main, Event("decode_step", Main, 0, step, began, stop))

\* Mutated: recording goes on after the step.
StepLeftRecording(next) ==
    /\ IF recording THEN StepRecorded ELSE UNCHANGED <<events, named>>
    /\ pc' = next
    /\ UNCHANGED <<recording, began, written, flows, reads>>

\* The finally clauses of span and decode_step.
StepLeft(next) ==
    /\ IF recording THEN StepRecorded ELSE UNCHANGED <<events, named>>
    /\ recording' = FALSE
    /\ pc' = next
    /\ UNCHANGED <<began, written, flows, reads>>

EndStep ==
    /\ pc = "step" /\ AllJoined
    /\ StepLeft("between")
    /\ step' = step + 1
    /\ UNCHANGED raised

\* A read failed, a kernel did, or Ctrl-C.
Raise ==
    /\ pc = "step"
    /\ StepLeft("leaving")
    /\ raised' = TRUE
    /\ UNCHANGED step

\* The generation has its last token, or raises between two steps.
EndGeneration ==
    /\ pc = "between"
    /\ pc' = "leaving"
    /\ raised' \in BOOLEAN
    /\ UNCHANGED <<step, recording, began, written, events, named, flows, reads>>

\* close and write: recording is off, and the list as it is now replaces the file.
Write ==
    /\ pc = "leaving"
    /\ written' = Len(events)
    /\ pc' = "closing"
    /\ UNCHANGED <<step, recording, began, raised, events, named, flows, reads>>

\* The temporary file cannot be written: it is removed, and an earlier file stays.
WriteFails ==
    /\ pc = "leaving"
    /\ raised' = TRUE /\ pc' = "closing"
    /\ UNCHANGED <<step, recording, began, written, events, named, flows, reads>>

\* NativeExpertPool.close waits for the workers.
CloseRuntime ==
    /\ pc = "closing"
    /\ \A i \in DOMAIN reads : ~Pending(reads[i])
    /\ pc' = "closed"
    /\ UNCHANGED <<step, recording, began, written, raised, events, named, flows, reads>>

-----------------------------------------------------------------------------
(* A worker                                                                  *)

Traced(i) == reads[i].flow # 0

Advance(i, state, thread) ==
    reads' = [reads EXCEPT ![i].state = state, ![i].thread = thread]

Recorded(i, kind, w, stops) ==
    IF Traced(i)
    THEN \E stop \in stops :
            Appended(w, Event(kind, w, reads[i].flow, reads[i].step, reads[i].start, stop))
    ELSE UNCHANGED <<events, named>>

Has(w, i, state) == reads[i].state = state /\ reads[i].thread = w
Idle(w) == \A i \in DOMAIN reads : Pending(reads[i]) => reads[i].thread # w

\* The first read in the queue is taken up.
StartSpan(w, i) ==
    /\ Idle(w) /\ reads[i].state = "queued"
    /\ \A j \in 1..(i - 1) : reads[j].state # "queued"
    /\ Recorded(i, "t", w, {Now})
    /\ reads' = [reads EXCEPT ![i] = [@ EXCEPT !.state = "reading", !.thread = w,
                                              !.start = Len(events')]]
    /\ UNCHANGED <<mainState, flows>>

\* load_into returns or raises; the span is closed either way.
EndSpan(w, i) ==
    /\ Has(w, i, "reading")
    /\ Recorded(i, "SSD_read", w, Ends(reads[i].start))
    /\ \E state \in {"ended", "broken"} : Advance(i, state, w)
    /\ UNCHANGED <<mainState, flows>>

\* The finally clause of _run_traced_load; then the future has its result.
EndFlow(w, i) ==
    /\ Has(w, i, "ended") \/ Has(w, i, "broken")
    /\ Recorded(i, "f", w, {Now})
    /\ Advance(i, IF reads[i].state = "ended" THEN "done" ELSE "failed", w)
    /\ UNCHANGED <<mainState, flows>>

Work(w) ==
    \E i \in DOMAIN reads :
        StartSpan(w, i) \/ EndSpan(w, i) \/ EndFlow(w, i)

Next ==
    \/ BeginStep \/ Submit \/ EndStep \/ Raise \/ EndGeneration
    \/ Write \/ WriteFails \/ CloseRuntime
    \/ \E w \in Workers : Work(w)

Spec == Init /\ [][Next]_vars

-----------------------------------------------------------------------------
(* trace_summary                                                             *)

File == 1..written

\* The decode_step spans, and the reads that start in one.
Roots == {events[p] : p \in {q \in File : events[q].kind = "decode_step"}}

ReadsInside(root) ==
    {p \in File : /\ events[p].kind = "SSD_read"
                  /\ root.start <= events[p].start /\ events[p].start < root.stop}

\* Mutated: of points at the same time the starts come first.
EarlierStartFirst(x, y) == x.at < y.at \/ (x.at = y.at /\ x.change > y.change)

\* Points are taken by time, at the same time the ends first.
Earlier(x, y) == x.at < y.at \/ (x.at = y.at /\ x.change < y.change)

\* Of some points, one that is taken after all the others.
Latest(points) == CHOOSE x \in points : \A y \in points : ~Earlier(x, y)

\* A point is taken: the time since the one before counts if a span was open.
Sweep(point, state) ==
    LET active == state.active + point.change
    IN  [active |-> active, previous |-> point.at,
         peak |-> IF active > state.peak THEN active ELSE state.peak,
         union |-> state.union + (IF state.active > 0 THEN point.at - state.previous ELSE 0)]

\* _interval_stats: a sweep over the starts and ends of some spans.
IntervalStats(spans) ==
    MapThenFoldSet(Sweep, [active |-> 0, previous |-> 0, peak |-> 0, union |-> 0],
                   LAMBDA point : point, Latest,
                   UNION {{[span |-> p, at |-> events[p].start, change |-> 1],
                           [span |-> p, at |-> events[p].stop, change |-> -1]} : p \in spans})

-----------------------------------------------------------------------------
(* Properties                                                                *)

\* Types of the variables.
TypeOK ==
    /\ pc \in {"between", "step", "leaving", "closing", "closed"}
    /\ step \in 0..MaxSteps /\ recording \in BOOLEAN /\ raised \in BOOLEAN
    /\ events \in Seq([kind : Kinds, thread : Threads, flow : 0..flows,
                       step : {NoStep} \union 0..(MaxSteps - 1),
                       start : 0..Len(events), stop : 0..Len(events)])
    /\ began \in 0..Len(events)
    /\ named \subseteq Threads
    /\ flows \in Nat
    /\ reads \in Seq([step : 0..(MaxSteps - 1), flow : 0..flows,
                      state : {"queued", "reading", "ended", "broken", "done",
                               "failed"},
                      thread : Threads \union {Nobody}, start : 0..Len(events)])
    /\ written \in {NoStep} \union 0..Len(events)

\* What must come before an event of a flow.
Before == [t |-> "s", SSD_read |-> "t", f |-> "SSD_read"]

\* Every flow starts in the main thread and is then taken up, read and ended by
\* one worker, in this order, at most once each, in whatever order the workers
\* append: Perfetto and the summary connect a submission with its read by it.
FlowsInOrder ==
    \A p \in DOMAIN events :
        /\ \A q \in DOMAIN events :
              /\ events[q].kind = events[p].kind /\ events[q].flow = events[p].flow
              /\ events[p].flow # 0
              => q = p
        /\ events[p].kind \in DOMAIN Before =>
              \E q \in 1..(p - 1) :
                  /\ events[q].kind = Before[events[p].kind]
                  /\ events[q].flow = events[p].flow /\ events[q].step = events[p].step
                  /\ events[q].thread = IF events[q].kind = "s" THEN Main
                                        ELSE events[p].thread

\* What the summary says of the reads of a step that ended: it finds exactly the
\* reads of this step, by their time, all of them done within the step; their
\* union is the time at which one was active, and its peak the largest number
\* active at once: two reads that only touch overlap if rounding put the end of
\* the one above the start of the other, and not otherwise.  However the end of
\* the step was rounded, and if it raised, no other step's reads are counted.
SummaryIsTrue ==
    written # NoStep =>
        \A root \in Roots :
            LET found == ReadsInside(root)
                Active(time) == {p \in found : events[p].start <= time /\ time < events[p].stop}
                times == root.start..(root.stop - 1)
                sum == IntervalStats(found)
            IN  /\ \A p \in found : events[p].step = root.step
                /\ root.step < step =>
                    /\ Cardinality(found) = Cardinality(ReadsOf(root.step))
                    /\ sum.union = Cardinality({time \in times : Active(time) # {}})
                    /\ sum.peak = Max({Cardinality(Active(time)) : time \in times} \union {0})

\* Nothing but the window is recorded, however a step of it ends.
OnlyTheWindow ==
    \A p \in DOMAIN events :
        events[p].step # NoStep =>
            events[p].step >= DecodeStart /\ events[p].step < DecodeStop

\* The file has every event of the generation; only reads that were under way
\* when a step raised may end after it was written, and their flows stay open.
OnlyAFailedStepLosesEvents ==
    written # NoStep =>
        \A p \in (written + 1)..Len(events) :
            raised /\ events[p].step \in {step, NoStep}

=============================================================================
