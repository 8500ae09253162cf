-------------------------- MODULE Assembler_proofs --------------------------
(***************************************************************************)
(* Proofs about Assembler, for any plan of shards and any number of kills   *)
(* and failures: what the progress files say is on the disk, a shard under  *)
(* its final name is whole, and what the runtime accepts is complete.  That *)
(* the download completes is left to TLC.                                   *)
(***************************************************************************)
EXTENDS Assembler, FiniteSetTheorems, TLAPS

-----------------------------------------------------------------------------
(* The inductive invariant                                                  *)

Places == {"queued", "creating", "fetch", "writing", "record", "unlink", "done",
           "failed", "refused"}

WorkerSet == [pc : Places, op : Nat, done : Nat, attempts : Nat]

MainTyped ==
    /\ plan \in BOOLEAN /\ index \in BOOLEAN
    /\ support \in [SupportFiles -> {"absent", "writing", "torn", "whole"}]
    /\ final \subseteq Shards
    /\ contract \in {"absent", "torn", "unvalidated", "validated"}
    /\ report \in {"absent", "torn", "whole"}
    /\ stage \in Resting \union {"plan", "support", "shards", "index", "contract",
                               "reporting", "stamping"}
    /\ crashes \in Nat /\ faults \in Nat

ShardsTyped ==
    /\ partial \in [Shards -> {"absent", "short", "sized"}]
    /\ progress \in [Shards -> Positions \union {NoProgress}]
    /\ worker \in [Shards -> WorkerSet]
    /\ DOMAIN bytes = Shards

\* Where the progress file says that a shard is.
At(s) == IF progress[s] = NoProgress THEN [op |-> 1, done |-> 0] ELSE progress[s]

Within(s) ==
    /\ bytes[s] \in [ChunksOf(s) -> {"zero", "torn", "right"}]
    /\ At(s).op \in 1..(Len(Chunks[s]) + 1)
    /\ worker[s].op \in 1..(Len(Chunks[s]) + 1)
    /\ worker[s].attempts <= Retries
    /\ worker[s].pc # "failed" => worker[s].attempts < Retries

\* A progress file has its partial file beside it, or the final one.
PartialInv(s) ==
    /\ progress[s] # NoProgress => partial[s] = "sized" \/ s \in final
    /\ s \in final => partial[s] = "absent"

\* A worker is where the progress file is.
WorkerInv(s) ==
    /\ worker[s].pc \in {"fetch", "writing", "record"} =>
          /\ s \notin final /\ partial[s] = "sized"
          /\ worker[s].op = At(s).op /\ worker[s].done = At(s).done
    /\ worker[s].pc \in {"writing", "record"} => Here(s) \in ChunksOf(s)
    /\ worker[s].pc = "record" => bytes[s][Here(s)] = "right"
    /\ worker[s].pc = "creating" => s \notin final /\ partial[s] = "short"
    /\ worker[s].pc \in {"unlink", "done"} => s \in final

\* What is recorded is on the disk, and of the rest only the chunk after it can be.
BytesInv(s) ==
    /\ \A c \in Recorded(s) : bytes[s][c] = "right"
    /\ s \notin final =>
          \A c \in ChunksOf(s) :
              bytes[s][c] = "right" => c \in Recorded(s) \/ c = <<At(s).op, At(s).done + 1>>
    /\ s \in final => \A c \in ChunksOf(s) : bytes[s][c] = "right"

ShardInv(s) == Within(s) /\ PartialInv(s) /\ WorkerInv(s) /\ BytesInv(s)

\* Only a complete download is audited, and it stays complete.
AcceptInv ==
    /\ stage = "index" => final = Shards
    /\ report # "absent" \/ contract = "validated" \/ stage \in {"reporting", "stamping"}
          => index /\ final = Shards

IInv == MainTyped /\ ShardsTyped /\ (\A s \in Shards : ShardInv(s)) /\ AcceptInv

-----------------------------------------------------------------------------
(* Lemmas                                                                   *)

\* The chunks of a shard.
LEMMA ChunkFacts ==
    ASSUME AssemblerAssumption, NEW s \in Shards
    PROVE  /\ Chunks[s] \in Seq(Nat \ {0}) /\ Len(Chunks[s]) \in Nat
           /\ DOMAIN Chunks[s] = 1..Len(Chunks[s])
           /\ \A op \in DOMAIN Chunks[s] : Chunks[s][op] \in Nat
           /\ \A c \in ChunksOf(s) : /\ c = <<c[1], c[2]>>
                                     /\ c[1] \in DOMAIN Chunks[s] /\ c[1] \in Nat
                                     /\ c[2] \in 1..Chunks[s][c[1]] /\ c[2] \in Nat
<1>1. Chunks[s] \in Seq(Nat \ {0})
  BY DEF AssemblerAssumption
<1>2. \A op \in DOMAIN Chunks[s] : Chunks[s][op] \in Nat
  BY <1>1
<1>3. ASSUME NEW c \in ChunksOf(s)
      PROVE  /\ c = <<c[1], c[2]>> /\ c[1] \in DOMAIN Chunks[s] /\ c[1] \in Nat
             /\ c[2] \in 1..Chunks[s][c[1]] /\ c[2] \in Nat
  <2>1. PICK op \in DOMAIN Chunks[s] : c \in {op} \X (1..Chunks[s][op])
    BY DEF ChunksOf
  <2> QED
    BY <2>1, <1>1, <1>2
<1> QED
  BY <1>1, <1>2, <1>3

\* The parts of a worker's and of a progress file's state.
LEMMA StateTypes ==
    ASSUME AssemblerAssumption, ShardsTyped, NEW s \in Shards
    PROVE  /\ worker[s] \in WorkerSet /\ worker[s].pc \in Places
           /\ worker[s].op \in Nat /\ worker[s].done \in Nat /\ worker[s].attempts \in Nat
           /\ progress[s] \in Positions \union {NoProgress}
           /\ At(s) \in Positions /\ At(s).op \in Nat /\ At(s).done \in Nat
           /\ partial[s] \in {"absent", "short", "sized"}
           /\ Retries \in Nat /\ Retries > 0
<1>1. worker[s] \in WorkerSet /\ progress[s] \in Positions \union {NoProgress}
      /\ partial[s] \in {"absent", "short", "sized"}
  BY DEF ShardsTyped
<1>2. worker[s].pc \in Places /\ worker[s].op \in Nat /\ worker[s].done \in Nat
      /\ worker[s].attempts \in Nat
  BY <1>1 DEF WorkerSet
<1>3. At(s) \in Positions
  BY <1>1 DEF At, Positions
<1>4. At(s).op \in Nat /\ At(s).done \in Nat
  BY <1>3 DEF Positions
<1> QED
  BY <1>1, <1>2, <1>3, <1>4 DEF AssemblerAssumption

\* Only the state of a worker is changed.
LEMMA SetFacts ==
    ASSUME AssemblerAssumption, ShardsTyped, NEW s \in Shards, NEW pc \in Places, Set(s, pc)
    PROVE  /\ worker' \in [Shards -> WorkerSet]
           /\ worker'[s].pc = pc /\ worker'[s].op = worker[s].op
           /\ worker'[s].done = worker[s].done /\ worker'[s].attempts = worker[s].attempts
           /\ \A t \in Shards : t # s => worker'[t] = worker[t]
<1> DEFINE next == [worker[s] EXCEPT !.pc = pc]
<1>1. /\ next \in WorkerSet /\ next.pc = pc /\ next.op = worker[s].op
      /\ next.done = worker[s].done /\ next.attempts = worker[s].attempts
  BY StateTypes DEF WorkerSet
<1>2. worker' = [worker EXCEPT ![s] = next]
  BY DEF Set
<1> HIDE DEF next
<1> QED
  BY <1>1, <1>2 DEF ShardsTyped

\* A worker goes on at a position.
LEMMA WorkerAt ==
    ASSUME ShardsTyped, NEW s \in Shards, NEW op \in Nat, NEW done \in Nat,
           worker' = [worker EXCEPT ![s] = [pc |-> "fetch", op |-> op, done |-> done,
                                            attempts |-> 0]]
    PROVE  /\ worker' \in [Shards -> WorkerSet]
           /\ worker'[s].pc = "fetch" /\ worker'[s].op = op /\ worker'[s].done = done
           /\ worker'[s].attempts = 0
           /\ \A t \in Shards : t # s => worker'[t] = worker[t]
BY DEF ShardsTyped, WorkerSet, Places

\* A shard is resumed where its progress file is.
LEMMA ResumedAt ==
    ASSUME NEW s \in Shards
    PROVE  Resumed(s) = [pc |-> "fetch", op |-> At(s).op, done |-> At(s).done, attempts |-> 0]
BY DEF Resumed, At

\* A shard that nothing is done to.
LEMMA OtherShard ==
    ASSUME NEW t \in Shards, ShardInv(t), worker'[t] = worker[t], bytes'[t] = bytes[t],
           progress'[t] = progress[t], partial'[t] = partial[t], t \in final' <=> t \in final
    PROVE  ShardInv(t)'
<1>1. At(t)' = At(t) /\ Recorded(t)' = Recorded(t) /\ Here(t)' = Here(t)
  BY DEF At, Recorded, Here
<1> QED
  BY <1>1 DEF ShardInv, Within, PartialInv, WorkerInv, BytesInv

\* A step of one worker.
LEMMA ShardStep ==
    ASSUME IInv, NEW s \in Shards, UNCHANGED <<sources, stamps, stage, crashes>>,
           faults' \in Nat, final' \in {final, final \union {s}},
           ShardsTyped', ShardInv(s)',
           \A t \in Shards : t # s => /\ worker'[t] = worker[t] /\ bytes'[t] = bytes[t]
                                      /\ progress'[t] = progress[t] /\ partial'[t] = partial[t]
    PROVE  IInv'
<1>1. \A t \in Shards : t # s => (t \in final' <=> t \in final)
  OBVIOUS
<1>2. \A t \in Shards : ShardInv(t)'
  BY <1>1, OtherShard DEF IInv
<1>3. MainTyped' /\ AcceptInv'
  BY DEF IInv, MainTyped, AcceptInv, sources, stamps
<1> QED
  BY <1>2, <1>3 DEF IInv

-----------------------------------------------------------------------------
(* The steps of a worker                                                    *)

\* Taken up, and skipped, resumed, refused or created.
LEMMA TakeKeeps ==
    ASSUME AssemblerAssumption, IInv, NEW s \in Shards,
           Skip(s) \/ Resume(s) \/ Refuse(s) \/ Create(s)
    PROVE  IInv'
<1>0. /\ UNCHANGED <<sources, stamps, stage, crashes>> /\ final' = final /\ bytes' = bytes
      /\ progress' = progress /\ faults' = faults
  BY DEF Skip, Resume, Refuse, Create, data, bounds
<1>a. /\ faults' \in Nat /\ ShardInv(s) /\ ShardsTyped
      /\ At(s)' = At(s) /\ Recorded(s)' = Recorded(s)
  BY <1>0 DEF IInv, MainTyped, At, Recorded
<1>1. CASE Skip(s)
  <2>1. s \in final /\ Set(s, "done") /\ partial' = partial
    BY <1>1 DEF Skip, data
  <2>2. /\ worker' \in [Shards -> WorkerSet]
        /\ worker'[s].pc = "done" /\ worker'[s].op = worker[s].op
        /\ worker'[s].attempts = worker[s].attempts /\ worker[s].pc = "queued"
        /\ \A t \in Shards : t # s => worker'[t] = worker[t]
    BY <1>1, <1>a, <2>1, SetFacts DEF Places, Skip, Take
  <2>3. ShardsTyped'
    BY <1>0, <1>a, <2>1, <2>2 DEF ShardsTyped
  <2>4. ShardInv(s)'
    BY <1>0, <1>a, <2>1, <2>2 DEF ShardInv, Within, PartialInv, WorkerInv, BytesInv
  <2> QED
    BY <1>0, <1>a, <2>1, <2>2, <2>3, <2>4, ShardStep
<1>2. CASE Resume(s)
  <2>1. s \notin final /\ partial[s] = "sized" /\ partial' = partial
    BY <1>2 DEF Resume, data
  <2>2. /\ worker' \in [Shards -> WorkerSet]
        /\ worker'[s].pc = "fetch" /\ worker'[s].op = At(s).op /\ worker'[s].done = At(s).done
        /\ worker'[s].attempts = 0
        /\ \A t \in Shards : t # s => worker'[t] = worker[t]
    <3>1. worker' = [worker EXCEPT ![s] = [pc |-> "fetch", op |-> At(s).op,
                                           done |-> At(s).done, attempts |-> 0]]
      BY <1>2, ResumedAt DEF Resume
    <3> QED
      BY <3>1, <1>a, StateTypes, WorkerAt
  <2>3. ShardsTyped'
    BY <1>0, <1>a, <2>1, <2>2 DEF ShardsTyped
  <2>4. ShardInv(s)'
    <3>1. Within(s)'
      BY <1>0, <1>a, <2>2, StateTypes DEF ShardInv, Within
    <3>2. PartialInv(s)' /\ WorkerInv(s)' /\ BytesInv(s)'
      BY <1>0, <1>a, <2>1, <2>2 DEF ShardInv, PartialInv, WorkerInv, BytesInv
    <3> QED
      BY <3>1, <3>2 DEF ShardInv
  <2> QED
    BY <1>0, <1>a, <2>1, <2>2, <2>3, <2>4, ShardStep
<1>3. CASE Refuse(s)
  <2>1. Set(s, "refused") /\ partial' = partial
    BY <1>3 DEF Refuse, data
  <2>2. /\ worker' \in [Shards -> WorkerSet]
        /\ worker'[s].pc = "refused" /\ worker'[s].op = worker[s].op
        /\ worker'[s].attempts = worker[s].attempts /\ worker[s].pc = "queued"
        /\ \A t \in Shards : t # s => worker'[t] = worker[t]
    BY <1>3, <1>a, <2>1, SetFacts DEF Places, Refuse, Take
  <2>3. ShardsTyped'
    BY <1>0, <1>a, <2>1, <2>2 DEF ShardsTyped
  <2>4. ShardInv(s)'
    BY <1>0, <1>a, <2>1, <2>2 DEF ShardInv, Within, PartialInv, WorkerInv, BytesInv
  <2> QED
    BY <1>0, <1>a, <2>1, <2>2, <2>3, <2>4, ShardStep
<1>4. CASE Create(s)
  <2>1. /\ s \notin final /\ partial[s] = "absent" /\ Set(s, "creating")
        /\ partial' = [partial EXCEPT ![s] = "short"]
    BY <1>4 DEF Create
  <2>2. /\ worker' \in [Shards -> WorkerSet]
        /\ worker'[s].pc = "creating" /\ worker'[s].op = worker[s].op
        /\ worker'[s].attempts = worker[s].attempts /\ worker[s].pc = "queued"
        /\ \A t \in Shards : t # s => worker'[t] = worker[t]
    BY <1>4, <1>a, <2>1, SetFacts DEF Places, Create, Take
  <2>3. /\ partial' \in [Shards -> {"absent", "short", "sized"}] /\ partial'[s] = "short"
        /\ \A t \in Shards : t # s => partial'[t] = partial[t]
    BY <2>1, <1>a DEF ShardsTyped
  <2>4. ShardsTyped'
    BY <1>0, <1>a, <2>2, <2>3 DEF ShardsTyped
  <2>5. ShardInv(s)'
    BY <1>0, <1>a, <2>1, <2>2, <2>3 DEF ShardInv, Within, PartialInv, WorkerInv, BytesInv
  <2> QED
    BY <1>0, <1>a, <2>2, <2>3, <2>4, <2>5, ShardStep
<1> QED
  BY <1>1, <1>2, <1>3, <1>4

\* The file gets its size: there is no progress file yet.
LEMMA TruncateKeeps ==
    ASSUME AssemblerAssumption, IInv, NEW s \in Shards, Truncate(s)
    PROVE  IInv'
<1>0. /\ UNCHANGED <<sources, stamps, stage, crashes>> /\ final' = final
      /\ progress' = progress /\ faults' = faults /\ worker[s].pc = "creating"
      /\ partial' = [partial EXCEPT ![s] = "sized"]
      /\ bytes' = [bytes EXCEPT ![s] = Filled(s, "zero")]
      /\ worker' = [worker EXCEPT ![s] = Resumed(s)]
  BY DEF Truncate, bounds
<1>1. ShardInv(s) /\ ShardsTyped /\ faults' \in Nat
  BY <1>0 DEF IInv, MainTyped
<1>2. /\ s \notin final /\ partial[s] = "short" /\ progress[s] = NoProgress
      /\ Recorded(s)' = {} /\ At(s)' = At(s)
  BY <1>0, <1>1 DEF ShardInv, WorkerInv, PartialInv, Recorded, At
<1>3. /\ worker' \in [Shards -> WorkerSet]
      /\ worker'[s].pc = "fetch" /\ worker'[s].op = At(s).op /\ worker'[s].done = At(s).done
      /\ worker'[s].attempts = 0
      /\ \A t \in Shards : t # s => worker'[t] = worker[t]
  <2>1. worker' = [worker EXCEPT ![s] = [pc |-> "fetch", op |-> At(s).op,
                                         done |-> At(s).done, attempts |-> 0]]
    BY <1>0, ResumedAt
  <2> QED
    BY <2>1, <1>1, StateTypes, WorkerAt
<1>4. /\ partial' \in [Shards -> {"absent", "short", "sized"}] /\ partial'[s] = "sized"
      /\ DOMAIN bytes' = Shards /\ bytes'[s] = Filled(s, "zero")
      /\ \A t \in Shards : t # s => partial'[t] = partial[t] /\ bytes'[t] = bytes[t]
  BY <1>0, <1>1 DEF ShardsTyped
<1>5. ShardsTyped'
  BY <1>0, <1>1, <1>3, <1>4 DEF ShardsTyped
<1>6. /\ bytes'[s] \in [ChunksOf(s) -> {"zero", "torn", "right"}]
      /\ \A c \in ChunksOf(s) : bytes'[s][c] = "zero"
  BY <1>4 DEF Filled
<1>7. ShardInv(s)'
  <2>1. Within(s)'
    BY <1>1, <1>2, <1>3, <1>6, StateTypes DEF ShardInv, Within
  <2>2. PartialInv(s)' /\ WorkerInv(s)' /\ BytesInv(s)'
    BY <1>0, <1>2, <1>3, <1>4, <1>6 DEF PartialInv, WorkerInv, BytesInv
  <2> QED
    BY <2>1, <2>2 DEF ShardInv
<1> QED
  BY <1>0, <1>1, <1>3, <1>4, <1>5, <1>7, ShardStep

\* The chunk being written is not one that is recorded.
LEMMA ChunkKeeps ==
    ASSUME AssemblerAssumption, IInv, NEW s \in Shards, BeginChunk(s) \/ EndChunk(s)
    PROVE  IInv'
<1>1. PICK value \in {"torn", "right"}, pc \in {"writing", "record"} :
          /\ bytes' = [bytes EXCEPT ![s][Here(s)] = value]
          /\ Set(s, pc) /\ (pc = "record" => value = "right")
  BY DEF BeginChunk, EndChunk
<1>2. /\ UNCHANGED <<sources, stamps, stage, crashes>> /\ final' = final /\ partial' = partial
      /\ progress' = progress /\ faults' = faults /\ worker[s].pc \in {"fetch", "writing"}
      /\ worker[s].pc = "fetch" => Here(s) \in ChunksOf(s)
  BY DEF BeginChunk, EndChunk, bounds
<1>3. ShardInv(s) /\ ShardsTyped /\ faults' \in Nat /\ At(s)' = At(s) /\ Recorded(s)' = Recorded(s)
  BY <1>2 DEF IInv, MainTyped, At, Recorded
<1>4. /\ worker' \in [Shards -> WorkerSet]
      /\ worker'[s].pc = pc /\ worker'[s].op = worker[s].op
      /\ worker'[s].done = worker[s].done /\ worker'[s].attempts = worker[s].attempts
      /\ \A t \in Shards : t # s => worker'[t] = worker[t]
  BY <1>1, <1>3, SetFacts DEF Places
<1>5. Here(s) \in ChunksOf(s) /\ s \notin final /\ partial[s] = "sized"
      /\ worker[s].op = At(s).op /\ worker[s].done = At(s).done /\ Here(s)' = Here(s)
  BY <1>2, <1>3, <1>4 DEF ShardInv, WorkerInv, Here
<1>6. Here(s) \notin Recorded(s)
  <2>1. Here(s)[1] = worker[s].op /\ Here(s)[2] = worker[s].done + 1
    BY DEF Here
  <2> QED
    BY <2>1, <1>3, <1>5, StateTypes DEF Recorded, At
<1>7. /\ DOMAIN bytes' = Shards /\ bytes'[s] = [bytes[s] EXCEPT ![Here(s)] = value]
      /\ \A t \in Shards : t # s => bytes'[t] = bytes[t]
  BY <1>1, <1>3 DEF ShardsTyped
<1>8. /\ bytes'[s] \in [ChunksOf(s) -> {"zero", "torn", "right"}] /\ bytes'[s][Here(s)] = value
      /\ \A c \in ChunksOf(s) : c # Here(s) => bytes'[s][c] = bytes[s][c]
  <2>1. bytes[s] \in [ChunksOf(s) -> {"zero", "torn", "right"}]
    BY <1>3 DEF ShardInv, Within
  <2> QED
    BY <2>1, <1>5, <1>7
<1>9. ShardsTyped'
  BY <1>2, <1>3, <1>4, <1>7 DEF ShardsTyped
<1>10. ShardInv(s)'
  <2>1. Within(s)'
    BY <1>2, <1>3, <1>4, <1>8 DEF ShardInv, Within
  <2>2. PartialInv(s)'
    BY <1>2, <1>3 DEF ShardInv, PartialInv
  <2>3. WorkerInv(s)'
    BY <1>1, <1>2, <1>3, <1>4, <1>5, <1>8 DEF ShardInv, WorkerInv
  <2>4. BytesInv(s)'
    <3>1. \A c \in Recorded(s) : c \in ChunksOf(s)
      BY DEF Recorded
    <3>2. Here(s) = <<At(s).op, At(s).done + 1>>
      BY <1>5 DEF Here
    <3> QED
      BY <3>1, <3>2, <1>2, <1>3, <1>5, <1>6, <1>8 DEF ShardInv, BytesInv
  <2> QED
    BY <2>1, <2>2, <2>3, <2>4 DEF ShardInv
<1> QED
  BY <1>2, <1>3, <1>4, <1>7, <1>9, <1>10, ShardStep

\* Recording a chunk, or going on to the next operation, records what was
\* downloaded and nothing else.
LEMMA AdvanceKeeps ==
    ASSUME AssemblerAssumption, IInv, NEW s \in Shards, Record(s) \/ NextOperation(s)
    PROVE  IInv'
<1>0. /\ UNCHANGED <<sources, stamps, stage, crashes>> /\ final' = final /\ partial' = partial
      /\ bytes' = bytes /\ faults' = faults
  BY DEF Record, NextOperation, bounds
<1>1. ShardInv(s) /\ ShardsTyped /\ faults' \in Nat
  BY <1>0 DEF IInv, MainTyped
<1>2. worker[s].pc \in {"fetch", "record"}
  BY DEF Record, NextOperation
<1>3. s \notin final /\ partial[s] = "sized" /\ worker[s].op = At(s).op /\ worker[s].done = At(s).done
  BY <1>1, <1>2 DEF ShardInv, WorkerInv
<1>4. ASSUME NEW op \in Nat \ {0}, NEW done \in Nat, Advanced(s, op, done),
             op \in 1..(Len(Chunks[s]) + 1),
             \A c \in ChunksOf(s) :
                c[1] < op \/ (c[1] = op /\ c[2] <= done) =>
                    c \in Recorded(s) \/ bytes[s][c] = "right",
             \A c \in ChunksOf(s) :
                c \in Recorded(s) \/ c = <<At(s).op, At(s).done + 1>> =>
                    c[1] < op \/ (c[1] = op /\ c[2] <= done)
      PROVE  IInv'
  <2>1. /\ worker' \in [Shards -> WorkerSet]
        /\ worker'[s].pc = "fetch" /\ worker'[s].op = op /\ worker'[s].done = done
        /\ worker'[s].attempts = 0
        /\ \A t \in Shards : t # s => worker'[t] = worker[t]
    BY <1>1, <1>4, WorkerAt DEF Advanced
  <2>2. [op |-> op, done |-> done] \in Positions
    BY DEF Positions
  <2>3. /\ progress' \in [Shards -> Positions \union {NoProgress}]
        /\ progress'[s] = [op |-> op, done |-> done]
        /\ \A t \in Shards : t # s => progress'[t] = progress[t]
    BY <1>1, <1>4, <2>2 DEF Advanced, ShardsTyped
  <2>4. progress'[s] # NoProgress
    BY <2>2, <2>3 DEF AssemblerAssumption, Positions
  <2>5. At(s)'.op = op /\ At(s)'.done = done
    BY <2>3, <2>4 DEF At
  <2>6. Recorded(s)' = {c \in ChunksOf(s) : c[1] < op \/ (c[1] = op /\ c[2] <= done)}
    BY <2>3, <2>4 DEF Recorded
  <2>7. ShardsTyped'
    BY <1>0, <1>1, <2>1, <2>3 DEF ShardsTyped
  <2>8. Within(s)'
    BY <1>0, <1>1, <1>4, <2>1, <2>5, StateTypes DEF ShardInv, Within
  <2>9. PartialInv(s)' /\ WorkerInv(s)'
    BY <1>0, <1>1, <1>3, <2>1, <2>5 DEF ShardInv, PartialInv, WorkerInv
  <2>10. BytesInv(s)'
    <3>1. ASSUME NEW c \in Recorded(s)'
          PROVE  bytes[s][c] = "right"
      BY <3>1, <2>6, <1>4, <1>1 DEF ShardInv, BytesInv
    <3>2. ASSUME NEW c \in ChunksOf(s), bytes[s][c] = "right"
          PROVE  c \in Recorded(s)'
      BY <3>2, <2>6, <1>1, <1>3, <1>4 DEF ShardInv, BytesInv
    <3> QED
      BY <3>1, <3>2, <1>0, <1>3 DEF BytesInv
  <2> QED
    BY <1>0, <1>1, <2>1, <2>3, <2>7, <2>8, <2>9, <2>10, ShardStep DEF ShardInv
<1>5. \A c \in ChunksOf(s) : c \in Recorded(s) <=>
         c[1] < At(s).op \/ (c[1] = At(s).op /\ c[2] <= At(s).done)
  BY <1>1, StateTypes, ChunkFacts DEF Recorded, At
<1>6. CASE Record(s)
  <2>1. Advanced(s, At(s).op, At(s).done + 1) /\ worker[s].pc = "record"
    BY <1>3, <1>6 DEF Record
  <2>2. Here(s) \in ChunksOf(s) /\ bytes[s][Here(s)] = "right" /\ Here(s) = <<At(s).op, At(s).done + 1>>
    BY <2>1, <1>1, <1>3 DEF ShardInv, WorkerInv, Here
  <2>3. /\ At(s).op \in Nat \ {0} /\ At(s).done + 1 \in Nat /\ At(s).done \in Nat
        /\ At(s).op \in 1..(Len(Chunks[s]) + 1)
    BY <1>1, StateTypes, ChunkFacts DEF ShardInv, Within
  <2>4. ASSUME NEW c \in ChunksOf(s),
               c[1] < At(s).op \/ (c[1] = At(s).op /\ c[2] <= At(s).done + 1)
        PROVE  c \in Recorded(s) \/ bytes[s][c] = "right"
    <3>1. c = <<c[1], c[2]>> /\ c[1] \in Nat /\ c[2] \in Nat
      BY ChunkFacts
    <3>2. CASE c[1] = At(s).op /\ c[2] = At(s).done + 1
      BY <3>1, <3>2, <2>2
    <3> QED
      BY <3>1, <3>2, <2>3, <2>4, <1>5
  <2>5. ASSUME NEW c \in ChunksOf(s), c \in Recorded(s) \/ c = <<At(s).op, At(s).done + 1>>
        PROVE  c[1] < At(s).op \/ (c[1] = At(s).op /\ c[2] <= At(s).done + 1)
    <3>1. c[1] \in Nat /\ c[2] \in Nat
      BY ChunkFacts
    <3> QED
      BY <3>1, <2>3, <2>5, <1>5
  <2> QED
    BY <2>1, <2>3, <2>4, <2>5, <1>4
<1>7. CASE NextOperation(s)
  <2>1. /\ Advanced(s, At(s).op + 1, 0) /\ At(s).op \in DOMAIN Chunks[s]
        /\ At(s).done >= Chunks[s][At(s).op]
    BY <1>3, <1>7 DEF NextOperation
  <2>2. /\ At(s).op + 1 \in Nat \ {0} /\ 0 \in Nat /\ At(s).op \in Nat /\ At(s).done \in Nat
        /\ At(s).op + 1 \in 1..(Len(Chunks[s]) + 1) /\ Chunks[s][At(s).op] \in Nat
    <3>1. At(s).op \in Nat /\ At(s).done \in Nat
      BY <1>1, StateTypes
    <3>2. /\ Len(Chunks[s]) \in Nat /\ Chunks[s][At(s).op] \in Nat
          /\ At(s).op \in 1..Len(Chunks[s])
      BY <2>1, ChunkFacts
    <3>3. PICK k \in Nat, n \in Nat : k = At(s).op /\ n = Len(Chunks[s])
      BY <3>1, <3>2
    <3>4. k + 1 \in Nat \ {0} /\ k + 1 \in 1..(n + 1)
      BY <3>2, <3>3
    <3> QED
      BY <3>1, <3>2, <3>3, <3>4
  <2>3. ASSUME NEW c \in ChunksOf(s), c[1] < At(s).op + 1 \/ (c[1] = At(s).op + 1 /\ c[2] <= 0)
        PROVE  c \in Recorded(s) \/ bytes[s][c] = "right"
    <3>1. c[1] \in Nat /\ c[2] \in 1..Chunks[s][c[1]] /\ c[2] \in Nat /\ Chunks[s][c[1]] \in Nat
      BY ChunkFacts
    <3>2. c[1] < At(s).op \/ c[1] = At(s).op
      <4>1. PICK n \in Nat, k \in Nat : n = c[1] /\ k = At(s).op
        BY <3>1, <2>2
      <4>2. n < k + 1 \/ (n = k + 1 /\ c[2] <= 0)
        BY <2>3, <4>1
      <4>3. ~(c[2] <= 0)
        BY <3>1
      <4>4. n < k \/ n = k
        BY ONLY <4>1, <4>2, <4>3
      <4> QED
        BY ONLY <4>1, <4>4
    <3>3. CASE c[1] = At(s).op
      <4>1. c[2] \in 1..Chunks[s][At(s).op]
        BY <3>1, <3>3
      <4> QED
        BY <4>1, <3>1, <3>3, <2>1, <2>2, <1>5
    <3> QED
      BY <3>2, <3>3, <1>5
  <2>4. ASSUME NEW c \in ChunksOf(s), c \in Recorded(s) \/ c = <<At(s).op, At(s).done + 1>>
        PROVE  c[1] < At(s).op + 1 \/ (c[1] = At(s).op + 1 /\ c[2] <= 0)
    <3>1. c[1] \in Nat /\ c[2] \in Nat
      BY ChunkFacts
    <3> QED
      BY <3>1, <2>2, <2>4, <1>5
  <2> QED
    BY <2>1, <2>2, <2>3, <2>4, <1>4
<1> QED
  BY <1>6, <1>7

\* A shard is renamed when its operations are done.
LEMMA RenameKeeps ==
    ASSUME AssemblerAssumption, IInv, NEW s \in Shards, Rename(s)
    PROVE  IInv'
<1>0. /\ UNCHANGED <<sources, stamps, stage, crashes>> /\ faults' = faults /\ bytes' = bytes
      /\ progress' = progress /\ final' = final \union {s} /\ Set(s, "unlink")
      /\ partial' = [partial EXCEPT ![s] = "absent"]
      /\ worker[s].pc = "fetch" /\ worker[s].op > Len(Chunks[s])
  BY DEF Rename, bounds
<1>1. ShardInv(s) /\ ShardsTyped /\ faults' \in Nat /\ At(s)' = At(s) /\ Recorded(s)' = Recorded(s)
  BY <1>0 DEF IInv, MainTyped, At, Recorded
<1>2. /\ worker' \in [Shards -> WorkerSet]
      /\ worker'[s].pc = "unlink" /\ worker'[s].op = worker[s].op
      /\ worker'[s].attempts = worker[s].attempts
      /\ \A t \in Shards : t # s => worker'[t] = worker[t]
  BY <1>0, <1>1, SetFacts DEF Places
<1>3. /\ partial' \in [Shards -> {"absent", "short", "sized"}] /\ partial'[s] = "absent"
      /\ \A t \in Shards : t # s => partial'[t] = partial[t]
  BY <1>0, <1>1 DEF ShardsTyped
<1>4. ShardsTyped'
  BY <1>0, <1>1, <1>2, <1>3 DEF ShardsTyped
<1>5. ASSUME NEW c \in ChunksOf(s)
      PROVE  bytes[s][c] = "right"
  <2>1. worker[s].op = At(s).op
    BY <1>0, <1>1 DEF ShardInv, WorkerInv
  <2>2. c[1] \in 1..Len(Chunks[s]) /\ c[1] \in Nat /\ Len(Chunks[s]) \in Nat
    BY ChunkFacts
  <2>3. c[1] < At(s).op
    BY <1>0, <1>1, <2>1, <2>2, StateTypes
  <2>4. progress[s] # NoProgress
    BY <2>2, <2>3 DEF At
  <2>5. c \in Recorded(s)
    BY <2>3, <2>4 DEF Recorded, At
  <2> QED
    BY <2>5, <1>1 DEF ShardInv, BytesInv
<1>6. ShardInv(s)'
  <2>1. Within(s)'
    BY <1>0, <1>1, <1>2 DEF ShardInv, Within
  <2>2. PartialInv(s)' /\ WorkerInv(s)'
    BY <1>0, <1>2, <1>3 DEF PartialInv, WorkerInv
  <2>3. BytesInv(s)'
    BY <1>0, <1>1, <1>5 DEF ShardInv, BytesInv
  <2> QED
    BY <2>1, <2>2, <2>3 DEF ShardInv
<1> QED
  BY <1>0, <1>1, <1>2, <1>3, <1>4, <1>6, ShardStep

\* The progress file of a shard under its final name goes.
LEMMA UnlinkKeeps ==
    ASSUME AssemblerAssumption, IInv, NEW s \in Shards, Unlink(s)
    PROVE  IInv'
<1>0. /\ UNCHANGED <<sources, stamps, stage, crashes>> /\ faults' = faults /\ bytes' = bytes
      /\ final' = final /\ partial' = partial /\ Set(s, "done")
      /\ progress' = [progress EXCEPT ![s] = NoProgress] /\ worker[s].pc = "unlink"
  BY DEF Unlink, bounds
<1>1. ShardInv(s) /\ ShardsTyped /\ faults' \in Nat
  BY <1>0 DEF IInv, MainTyped
<1>2. /\ worker' \in [Shards -> WorkerSet]
      /\ worker'[s].pc = "done" /\ worker'[s].op = worker[s].op
      /\ worker'[s].attempts = worker[s].attempts
      /\ \A t \in Shards : t # s => worker'[t] = worker[t]
  BY <1>0, <1>1, SetFacts DEF Places
<1>3. /\ progress' \in [Shards -> Positions \union {NoProgress}] /\ progress'[s] = NoProgress
      /\ \A t \in Shards : t # s => progress'[t] = progress[t]
  BY <1>0, <1>1 DEF ShardsTyped
<1>4. ShardsTyped'
  BY <1>0, <1>1, <1>2, <1>3 DEF ShardsTyped
<1>5. s \in final /\ Recorded(s)' = {} /\ At(s)'.op = 1
  BY <1>0, <1>1, <1>3 DEF ShardInv, WorkerInv, Recorded, At
<1>6. ShardInv(s)'
  <2>1. Within(s)'
    BY <1>0, <1>1, <1>2, <1>5, ChunkFacts DEF ShardInv, Within
  <2>2. PartialInv(s)' /\ WorkerInv(s)' /\ BytesInv(s)'
    BY <1>0, <1>1, <1>2, <1>3, <1>5 DEF ShardInv, PartialInv, WorkerInv, BytesInv
  <2> QED
    BY <2>1, <2>2 DEF ShardInv
<1> QED
  BY <1>0, <1>1, <1>2, <1>3, <1>4, <1>6, ShardStep

\* An attempt at a range fails, or a call on the local disk: what is on the disk
\* stays as it is.
LEMMA FailKeeps ==
    ASSUME AssemblerAssumption, IInv, NEW s \in Shards, FailChunk(s) \/ LocalFails(s)
    PROVE  IInv'
<1>0. /\ UNCHANGED <<sources, stamps, stage, crashes>> /\ faults' = faults + 1
      /\ bytes' = bytes /\ final' = final /\ partial' = partial /\ progress' = progress
  BY DEF FailChunk, LocalFails, data
<1>1. /\ ShardInv(s) /\ ShardsTyped /\ faults' \in Nat
      /\ At(s)' = At(s) /\ Recorded(s)' = Recorded(s)
  BY <1>0 DEF IInv, MainTyped, At, Recorded
<1>2. /\ worker' \in [Shards -> WorkerSet]
      /\ worker'[s].pc \in {"fetch", "failed"}
      /\ worker'[s].pc = "fetch" => worker[s].pc = "writing"
      /\ worker'[s].op = worker[s].op /\ worker'[s].done = worker[s].done
      /\ worker'[s].attempts <= Retries
      /\ worker'[s].pc # "failed" => worker'[s].attempts < Retries
      /\ \A t \in Shards : t # s => worker'[t] = worker[t]
  <2>1. CASE FailChunk(s)
    <3> DEFINE attempts == worker[s].attempts + 1
               next == [worker[s] EXCEPT !.attempts = attempts,
                                         !.pc = IF attempts = Retries THEN "failed" ELSE "fetch"]
    <3>1. worker[s].pc = "writing" /\ worker' = [worker EXCEPT ![s] = next]
      BY <2>1 DEF FailChunk
    <3>2. worker[s].attempts < Retries /\ worker[s].attempts \in Nat /\ Retries \in Nat
      BY <1>1, <3>1, StateTypes DEF ShardInv, Within
    <3>3. attempts \in Nat /\ attempts <= Retries
      BY <3>2
    <3>4. /\ next \in WorkerSet /\ next.op = worker[s].op /\ next.done = worker[s].done
          /\ next.attempts = attempts
          /\ next.pc = IF attempts = Retries THEN "failed" ELSE "fetch"
      <4> HIDE DEF attempts
      <4> QED
        BY <3>3, <1>1, StateTypes DEF WorkerSet, Places
    <3>5. next.pc # "failed" => attempts < Retries
      BY <3>2, <3>3, <3>4
    <3> HIDE DEF next, attempts
    <3> QED
      BY <3>1, <3>3, <3>4, <3>5, <1>1 DEF ShardsTyped
  <2>2. CASE LocalFails(s)
    <3>1. Set(s, "failed") /\ worker[s].pc # "failed"
      BY <2>2 DEF LocalFails
    <3>2. worker[s].attempts <= Retries
      BY <1>1 DEF ShardInv, Within
    <3> QED
      BY <3>1, <3>2, <1>1, SetFacts DEF Places
  <2> QED
    BY <2>1, <2>2
<1>3. ShardsTyped'
  BY <1>0, <1>1, <1>2 DEF ShardsTyped
<1>4. ShardInv(s)'
  <2>1. Within(s)'
    BY <1>0, <1>1, <1>2 DEF ShardInv, Within
  <2>2. PartialInv(s)' /\ BytesInv(s)'
    BY <1>0, <1>1 DEF ShardInv, PartialInv, BytesInv
  <2>3. WorkerInv(s)'
    BY <1>0, <1>1, <1>2 DEF ShardInv, WorkerInv
  <2> QED
    BY <2>1, <2>2, <2>3 DEF ShardInv
<1> QED
  BY <1>0, <1>1, <1>2, <1>3, <1>4, ShardStep

-----------------------------------------------------------------------------
(* The main thread, validate, and a kill                                    *)

\* Steps that touch no shard.
LEMMA ShardsKept ==
    ASSUME IInv, UNCHANGED <<partial, bytes, final, progress>>, worker' = worker
    PROVE  ShardsTyped' /\ \A s \in Shards : ShardInv(s)'
<1>1. \A s \in Shards : ShardInv(s)'
  BY OtherShard DEF IInv
<1>2. ShardsTyped'
  BY DEF IInv, ShardsTyped
<1> QED
  BY <1>1, <1>2

\* A new run, after a kill too, has no worker at a shard.
LEMMA QueuedKeeps ==
    ASSUME AssemblerAssumption, IInv, UNCHANGED <<partial, bytes, final, progress>>,
           worker' = Queued
    PROVE  ShardsTyped' /\ \A s \in Shards : ShardInv(s)'
<1>1. worker' \in [Shards -> WorkerSet]
  BY DEF Queued, WorkerSet, Places
<1>2. ShardsTyped'
  BY <1>1 DEF IInv, ShardsTyped
<1>3. ASSUME NEW s \in Shards
      PROVE  ShardInv(s)'
  <2>1. /\ worker'[s].pc = "queued" /\ worker'[s].op = 1 /\ worker'[s].attempts = 0
        /\ At(s)' = At(s) /\ Recorded(s)' = Recorded(s) /\ ShardInv(s)
    BY DEF Queued, At, Recorded, IInv
  <2>2. Within(s)'
    BY <2>1, StateTypes, ChunkFacts DEF IInv, ShardInv, Within
  <2>3. PartialInv(s)' /\ WorkerInv(s)' /\ BytesInv(s)'
    BY <2>1 DEF ShardInv, PartialInv, WorkerInv, BytesInv
  <2> QED
    BY <2>2, <2>3 DEF ShardInv
<1> QED
  BY <1>2, <1>3

\* The main thread of a run: the index is written when every shard is there.
LEMMA MainKeeps ==
    ASSUME AssemblerAssumption, IInv, Main \/ MainRaises
    PROVE  IInv'
<1>1. /\ UNCHANGED <<partial, bytes, final, progress>> /\ worker' = worker /\ report' = report
      /\ crashes' = crashes /\ faults' \in {faults, faults + 1}
      /\ plan' \in {plan, TRUE} /\ index' \in {index, TRUE}
      /\ contract' \in {contract, "unvalidated"}
      /\ stage' \in {stage, "support", "shards", "index", "raised", "contract", "complete"}
      /\ stage' \notin {"reporting", "stamping"}
  BY DEF Main, MainRaises, LoadPlan, BeginShards, EndShards, WriteIndex, WriteContract,
     BeginSupport, EndSupport, data, stamps, bounds, sources
<1>2. support' \in [SupportFiles -> {"absent", "writing", "torn", "whole"}]
  <2>1. \/ support' = support
        \/ \E f \in SupportFiles : \/ support' = [support EXCEPT ![f] = "writing"]
                                   \/ support' = [support EXCEPT ![f] = "whole"]
    BY DEF Main, MainRaises, LoadPlan, BeginShards, EndShards, WriteIndex, WriteContract,
       BeginSupport, EndSupport, sources
  <2> QED
    BY <2>1 DEF IInv, MainTyped
<1>3. ShardsTyped' /\ \A s \in Shards : ShardInv(s)'
  BY <1>1, ShardsKept
<1>4. MainTyped'
  <2>1. plan' \in BOOLEAN /\ index' \in BOOLEAN
    BY <1>1 DEF IInv, MainTyped
  <2>2. /\ contract' \in {"absent", "torn", "unvalidated", "validated"}
        /\ report' \in {"absent", "torn", "whole"} /\ final' \subseteq Shards
        /\ crashes' \in Nat /\ faults' \in Nat
    BY <1>1 DEF IInv, MainTyped
  <2>3. stage' \in Resting \union {"plan", "support", "shards", "index", "contract",
                                 "reporting", "stamping"}
    BY <1>1 DEF IInv, MainTyped, Resting
  <2> QED
    BY <2>1, <2>2, <2>3, <1>2 DEF MainTyped
<1>5. stage' = "index" => final = Shards
  <2>1. CASE EndShards
    <3>1. stage' = "index" => AllDone
      BY <2>1 DEF EndShards
    <3>2. \A s \in Shards : worker[s].pc = "done" => s \in final
      BY DEF IInv, ShardInv, WorkerInv
    <3> QED
      BY <3>1, <3>2 DEF AllDone, IInv, MainTyped
  <2>2. CASE ~EndShards
    BY <2>2 DEF Main, MainRaises, LoadPlan, BeginShards, WriteIndex, WriteContract,
       BeginSupport, EndSupport, IInv, AcceptInv
  <2> QED
    BY <2>1, <2>2
<1>6. AcceptInv'
  <2>1. index => index'
    BY <1>1
  <2>2. contract' = "validated" => contract = "validated"
    BY <1>1
  <2> QED
    BY <2>1, <2>2, <1>1, <1>5 DEF IInv, AcceptInv
<1> QED
  BY <1>3, <1>4, <1>6 DEF IInv

\* A run starts, or is killed.
LEMMA RunKeeps ==
    ASSUME AssemblerAssumption, IInv, StartRun \/ Crash
    PROVE  IInv'
<1>1. /\ UNCHANGED <<partial, bytes, final, progress, plan, index, contract, report, faults>>
      /\ worker' = Queued /\ crashes' \in {crashes, crashes + 1}
      /\ stage' \in {"plan", "stopped"}
      /\ \/ support' = support
         \/ support' = [f \in SupportFiles |-> IF support[f] = "writing" THEN "torn" ELSE support[f]]
  BY DEF StartRun, Crash, sources, data, stamps, bounds
<1>2. support' \in [SupportFiles -> {"absent", "writing", "torn", "whole"}]
  BY <1>1 DEF IInv, MainTyped
<1>3. ShardsTyped' /\ \A s \in Shards : ShardInv(s)'
  BY <1>1, QueuedKeeps
<1>4. MainTyped' /\ AcceptInv'
  BY <1>1, <1>2 DEF IInv, MainTyped, AcceptInv, Resting
<1> QED
  BY <1>3, <1>4 DEF IInv

\* What is validated has its index and every shard.
LEMMA ValidateKeeps ==
    ASSUME AssemblerAssumption, IInv, Validate
    PROVE  IInv'
<1>1. /\ UNCHANGED <<partial, bytes, final, progress, plan, support, index, faults, crashes>>
      /\ worker' = worker /\ index /\ final = Shards
      /\ stage' \in {"reporting", "raised", "stamping", "validated"}
      /\ report' \in {report, "torn", "whole"} /\ contract' \in {contract, "torn", "validated"}
  BY DEF Validate, BeginReport, StampRaises, BeginStamp, Stamp, Auditable, sources, data, bounds,
     IInv, AcceptInv
<1>2. ShardsTyped' /\ \A s \in Shards : ShardInv(s)'
  BY <1>1, ShardsKept
<1>3. MainTyped' /\ AcceptInv'
  BY <1>1 DEF IInv, MainTyped, AcceptInv, Resting
<1> QED
  BY <1>2, <1>3 DEF IInv

-----------------------------------------------------------------------------
(* The theorems                                                             *)

\* The invariant is inductive.
THEOREM Invariance == Spec => []IInv
<1> SUFFICES ASSUME AssemblerAssumption
             PROVE  Spec => []IInv
  BY AssemblerAssumption
<1>1. Init => IInv
  <2> SUFFICES ASSUME Init
               PROVE  IInv
    OBVIOUS
  <2>1. MainTyped /\ AcceptInv
    BY DEF Init, MainTyped, AcceptInv, Resting
  <2>2. ShardsTyped
    BY DEF Init, ShardsTyped, Queued, WorkerSet, Places
  <2>3. ASSUME NEW s \in Shards
        PROVE  ShardInv(s)
    <3>1. /\ bytes[s] \in [ChunksOf(s) -> {"zero", "torn", "right"}]
          /\ \A c \in ChunksOf(s) : bytes[s][c] = "zero"
      BY DEF Init, Filled
    <3>2. /\ At(s).op = 1 /\ Recorded(s) = {} /\ worker[s].op = 1 /\ worker[s].pc = "queued"
          /\ worker[s].attempts = 0 /\ s \notin final /\ progress[s] = NoProgress
      BY DEF Init, At, Recorded, Queued
    <3>3. Within(s)
      BY <3>1, <3>2, <2>2, StateTypes, ChunkFacts DEF Within
    <3>4. PartialInv(s) /\ WorkerInv(s) /\ BytesInv(s)
      BY <3>1, <3>2 DEF PartialInv, WorkerInv, BytesInv
    <3> QED
      BY <3>3, <3>4 DEF ShardInv
  <2> QED
    BY <2>1, <2>2, <2>3 DEF IInv
<1>2. IInv /\ [Next]_vars => IInv'
  <2> SUFFICES ASSUME IInv, [Next]_vars
               PROVE  IInv'
    OBVIOUS
  <2>1. CASE StartRun \/ Crash
    BY <2>1, RunKeeps
  <2>2. CASE Main \/ MainRaises
    BY <2>2, MainKeeps
  <2>3. ASSUME NEW s \in Shards, Download(s) \/ FailChunk(s) \/ LocalFails(s)
        PROVE  IInv'
    BY <2>3, TakeKeeps, TruncateKeeps, ChunkKeeps, AdvanceKeeps, RenameKeeps, UnlinkKeeps,
       FailKeeps DEF Download
  <2>4. CASE Validate
    BY <2>4, ValidateKeeps
  <2>5. CASE UNCHANGED vars
    <3>1. /\ UNCHANGED <<partial, bytes, final, progress>> /\ worker' = worker
          /\ UNCHANGED <<plan, support, index, contract, report, stage, crashes, faults>>
      BY <2>5 DEF vars, sources, data, stamps, bounds
    <3>2. ShardsTyped' /\ \A s \in Shards : ShardInv(s)'
      BY <3>1, ShardsKept
    <3>3. MainTyped' /\ AcceptInv'
      BY <3>1 DEF IInv, MainTyped, AcceptInv
    <3> QED
      BY <3>2, <3>3 DEF IInv
  <2> QED
    BY <2>1, <2>2, <2>3, <2>4, <2>5 DEF Next
<1> QED
  BY <1>1, <1>2, PTL DEF Spec

\* The variables have their types.
THEOREM TypeCorrect == Spec => []TypeOK
<1> SUFFICES ASSUME AssemblerAssumption
             PROVE  Spec => []TypeOK
  BY AssemblerAssumption
<1>1. IInv => TypeOK
  <2> SUFFICES ASSUME IInv
               PROVE  TypeOK
    OBVIOUS
  <2>1. ASSUME NEW s \in Shards
        PROVE  /\ bytes[s] \in [ChunksOf(s) -> {"zero", "torn", "right"}]
               /\ worker[s].pc \in {"queued", "creating", "fetch", "writing", "record",
                                    "unlink", "done", "failed", "refused"}
               /\ worker[s].op \in 1..(Len(Chunks[s]) + 1)
               /\ worker[s].done \in Nat /\ worker[s].attempts \in 0..Retries
    BY StateTypes DEF IInv, ShardInv, Within, Places
  <2> QED
    BY <2>1 DEF TypeOK, IInv, MainTyped, ShardsTyped
<1> QED
  BY <1>1, Invariance, PTL

\* What a progress file declares is in the file: a resumed shard has no hole.
THEOREM ProgressCorrect == Spec => []ProgressIsTrue
<1>1. IInv => ProgressIsTrue
  BY DEF IInv, ShardInv, BytesInv, ProgressIsTrue
<1> QED
  BY <1>1, Invariance, PTL

\* A kill loses at most one chunk of a shard.
THEOREM LossCorrect == Spec => []LosesOneChunk
<1>1. IInv => LosesOneChunk
  <2> SUFFICES ASSUME IInv, NEW s \in Shards, s \notin final
               PROVE  Cardinality({c \in ChunksOf(s) : bytes[s][c] = "right"} \ Recorded(s)) <= 1
    BY DEF LosesOneChunk
  <2> DEFINE lost == {c \in ChunksOf(s) : bytes[s][c] = "right"} \ Recorded(s)
             next == <<At(s).op, At(s).done + 1>>
  <2>1. lost \subseteq {next}
    BY DEF IInv, ShardInv, BytesInv
  <2> HIDE DEF lost, next
  <2>2. lost = {} \/ lost = {next}
    BY <2>1
  <2>3. Cardinality({}) = 0 /\ Cardinality({next}) = 1
    BY FS_EmptySet, FS_Singleton
  <2>4. Cardinality(lost) <= 1
    BY <2>2, <2>3
  <2> QED
    BY <2>4 DEF lost
<1> QED
  BY <1>1, Invariance, PTL

\* A shard under its final name is whole: a run that skips it is right.
THEOREM FinalCorrect == Spec => []FinalIsRight
<1>1. IInv => FinalIsRight
  BY DEF IInv, MainTyped, ShardInv, BytesInv, FinalIsRight
<1> QED
  BY <1>1, Invariance, PTL

\* What the runtime accepts is a complete download, with nothing beside it.
THEOREM AcceptedCorrect == Spec => []AcceptedIsComplete
<1>1. IInv => AcceptedIsComplete
  BY DEF IInv, AcceptInv, ShardInv, PartialInv, BytesInv, AcceptedIsComplete
<1> QED
  BY <1>1, Invariance, PTL

=============================================================================
