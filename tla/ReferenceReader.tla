---------------------------- MODULE ReferenceReader ----------------------------
(***************************************************************************)
(* The Python path to the experts of one layer, against which the native    *)
(* data plane is tested: the plan of byte ranges made from a shard's        *)
(* header, the reader that loads one expert with pread, and the cache of    *)
(* the least recently used experts above it.  The shard is a native one, or *)
(* its ScaleX image with one record per expert.                             *)
(*                                                                          *)
(* A file is a sequence of cells: a scale is its value, a weight is a       *)
(* number of its own, the bytes of an encoded record are numbers that only  *)
(* this record has (ScaleCodec decodes the record itself).                  *)
(***************************************************************************)
EXTENDS ScaleCodec, SequencesExt

CONSTANTS
    Experts,     \* experts of a layer, 0..Experts-1
    Capacity,    \* of the cache
    Samples,     \* shards: the scales of each expert, the order of the tensors in the file
    MaxRequests(_), \* bound: calls of ensure, for each sample
    Routes(_),   \* the expert ids of a call, for each sample
    MaxShort,    \* bound: preads that return less than was asked for
    MaxFaults    \* bound: preads that fail

ASSUME ReaderAssumption ==
    /\ Experts \in Nat \ {0}
    /\ Capacity \in 1..Experts
    /\ {MaxShort, MaxFaults} \subseteq Nat

Ids == 0..(Experts - 1)

VARIABLES
    sample, \* the shard before any conversion
    file,   \* its cells on disk
    plan,   \* the NativeExpertSource of each expert
    cache,  \* _experts: the loaded experts, oldest first
    asked,  \* the distinct experts of the call
    todo,   \* those not yet ensured
    load,   \* the load under way
    hits, misses, evictions,
    reads,  \* counters of the reader
    closed, \* the reader is closed
    calls,  \* calls so far
    recent, \* history: experts by their last hit or completed load
    failed, \* history: loads that raised
    short   \* short preads so far

shard == <<sample, file, plan>>
lru == <<cache, hits, misses, evictions, recent>>
vars == <<shard, lru, asked, todo, load, reads, closed, calls, failed, short>>

-----------------------------------------------------------------------------
(* The shard                                                                 *)

\* EXPERT_COMPONENTS and EXPERT_PARTS: the tensors of an expert in the order of the plan.
Components == <<"down_proj", "gate_proj", "up_proj">>
Parts == <<"weight_packed", "weight_scale">>
\* _SCALE_COMPONENTS: their order in a ScaleX record.
RecordComponents == <<"gate_proj", "down_proj", "up_proj">>

Tensor(e, component, part) == [expert |-> e, component |-> component, part |-> part]
TensorsOf(e) == {Tensor(e, c, p) : c \in ToSet(Components), p \in ToSet(Parts)}

\* A sample: every expert has scales for each of its three components, and every
\* tensor of an expert lies in the shard once.
ASSUME SamplesAssumption ==
    \A s \in Samples :
        /\ s.scales \in [Ids -> Seq(Byte)]
        /\ \A e \in Ids : \E n \in 1..Len(s.scales[e]) : Len(s.scales[e]) = 3 * n
        /\ s.order \in Seq(UNION {TensorsOf(e) : e \in Ids})
        /\ \A i, j \in DOMAIN s.order : s.order[i] = s.order[j] => i = j
        /\ \A e \in Ids : TensorsOf(e) \subseteq ToSet(s.order)
        /\ Routes(s) \subseteq Seq(Ids)
        /\ MaxRequests(s) \in Nat

\* Of the scales of an expert, those of a component: they are listed in record order.
ScalesOf(scales, c) ==
    LET k == CHOOSE i \in 1..3 : RecordComponents[i] = c
        n == Len(scales) \div 3
    IN  SubSeq(scales, (k - 1) * n + 1, k * n)

WeightCell(t) == 100 * (t.expert + 1) + (CHOOSE k \in 1..3 : RecordComponents[k] = t.component)
RecordCells(e, encoded) == [k \in 1..encoded |-> 10000 * (e + 1) + k]

\* The content of a tensor before any conversion.
Original(t) ==
    IF t.part = "weight_scale" THEN ScalesOf(sample.scales[t.expert], t.component)
    ELSE <<WeightCell(t)>>

Flatten(s, Content(_)) == FlattenSeq([i \in DOMAIN s |-> Content(s[i])])

-----------------------------------------------------------------------------
(* build_native_expert_source_plan                                           *)

\* Adjacent tensors of an expert are one range.
Coalesce(tensors) ==
    LET ends == {t.offset + t.length : t \in tensors}
        starts == {t.offset : t \in tensors}
        Run(first) ==
            LET last == Min({x \in ends : x > first /\ x \notin starts})
            IN  [offset |-> first, length |-> last - first,
                 tensors |-> {t \in tensors : first <= t.offset /\ t.offset < last}]
        runs == {Run(first) : first \in starts \ ends}
    IN  [i \in 1..Cardinality(runs) |->
            CHOOSE run \in runs : Cardinality({r \in runs : r.offset < run.offset}) = i - 1]

\* An expert in a native shard: each tensor where the header says it is.
NativeSource(e) ==
    LET order == sample.order
        offset[i \in 1..Len(order)] ==
            IF i = 1 THEN 0 ELSE offset[i - 1] + Len(Original(order[i - 1]))
        Placed(i) == [name |-> order[i], length |-> Len(Original(order[i])), offset |-> offset[i]]
    IN  [ranges |-> Coalesce({Placed(i) : i \in {j \in DOMAIN order : order[j].expert = e}}),
         record |-> <<>>]

\* compress_scalex_layer: the encoded scales, then the weights, in record order.
ScaleXCells(e, record) ==
    RecordCells(e, EncodedBytes(record))
        \o Flatten(RecordComponents, LAMBDA c : Original(Tensor(e, c, "weight_packed")))

\* An expert in a ScaleX shard is one range, whatever the order of the native one.
ScaleXSource(e, cells, record) ==
    LET offset[i \in 1..Experts] ==
            IF i = 1 THEN 0 ELSE offset[i - 1] + Len(cells[i - 2])
    IN  [ranges |-> <<[offset |-> offset[e + 1], length |-> Len(cells[e]), tensors |-> {}]>>,
         record |-> record]

IsScaleX == plan[0].record # <<>>

\* slot_bytes, without the weights: the largest row of the layer.
SlotRowBytes ==
    Max({RowBytes(EncodedBytes(plan[e].record), plan[e].record.raw) : e \in Ids})

\* Native, or converted if every expert has a record that can be indexed.
Shard ==
    \/ /\ file = Flatten(sample.order, Original)
       /\ plan = [e \in Ids |-> NativeSource(e)]
    \/ \E records \in {[e \in Ids |-> Encode(sample.scales[e])]} :
       \E cells \in {[e \in Ids |-> ScaleXCells(e, records[e])]} :
          /\ \A e \in Ids : Indexable(records[e])
          /\ file = FlattenSeq([i \in 1..Experts |-> cells[i - 1]])
          /\ plan = [e \in Ids |-> ScaleXSource(e, cells, records[e])]

NoTensors == [t \in {} |-> <<>>]
NotLoading == [expert |-> -1, range |-> 1, got |-> <<>>, begun |-> FALSE,
               tensors |-> NoTensors, before |-> 0]

Init ==
    /\ sample \in Samples
    /\ Shard
    /\ cache = <<>> /\ asked = <<>> /\ todo = <<>>
    /\ load = NotLoading
    /\ hits = 0 /\ misses = 0 /\ evictions = 0
    /\ reads = [loads |-> 0, logical |-> 0, system |-> 0, bytes |-> 0]
    /\ closed = FALSE /\ calls = 0
    /\ recent = <<>> /\ failed = 0 /\ short = 0

-----------------------------------------------------------------------------
(* ExpertLRU.ensure                                                          *)

Resident == {cache[i].expert : i \in DOMAIN cache}
Loading == load.expert \in Ids
Idle == asked = <<>>

\* dict.fromkeys: the first of equal ids.
Distinct(s) ==
    LET seen[i \in 0..Len(s)] ==
            IF i = 0 THEN <<>>
            ELSE IF Contains(seen[i - 1], s[i]) THEN seen[i - 1] ELSE Append(seen[i - 1], s[i])
    IN  seen[Len(s)]

\* A call with more distinct experts than the capacity raises ContractError and
\* changes nothing.
Ensure(route) ==
    /\ Idle /\ calls < MaxRequests(sample)
    /\ calls' = calls + 1
    /\ IF Len(Distinct(route)) > Capacity THEN UNCHANGED <<asked, todo>>
       ELSE asked' = Distinct(route) /\ todo' = Distinct(route)
    /\ UNCHANGED <<shard, lru, load, reads, closed, failed, short>>

Touched(e) == Append(RemoveFirst(recent, e), e)

\* Mutated: an expert that is resident stays where it is.
HitInPlace ==
    /\ todo # <<>> /\ ~Loading /\ Head(todo) \in Resident
    /\ hits' = hits + 1
    /\ recent' = Touched(Head(todo))
    /\ todo' = Tail(todo)
    /\ UNCHANGED <<shard, cache, misses, evictions, asked, load, reads, closed, calls, failed, short>>

\* A resident expert becomes the most recent one.
Hit ==
    /\ todo # <<>> /\ ~Loading
    /\ \E i \in DOMAIN cache :
          /\ cache[i].expert = Head(todo)
          /\ cache' = Append(RemoveAt(cache, i), cache[i])
    /\ hits' = hits + 1
    /\ recent' = Touched(Head(todo))
    /\ todo' = Tail(todo)
    /\ UNCHANGED <<shard, misses, evictions, asked, load, reads, closed, calls, failed, short>>

\* Mutated: what evicts an expert is not counted as a miss.
MissAsEviction ==
    /\ todo # <<>> /\ ~Loading /\ Head(todo) \notin Resident
    /\ IF Len(cache) = Capacity
       THEN cache' = Tail(cache) /\ evictions' = evictions + 1 /\ UNCHANGED misses
       ELSE misses' = misses + 1 /\ UNCHANGED <<cache, evictions>>
    /\ load' = [NotLoading EXCEPT !.expert = Head(todo), !.before = reads.bytes]
    /\ UNCHANGED <<shard, hits, asked, todo, reads, closed, calls, recent, failed, short>>

\* Another expert is loaded, after the oldest one has gone if the cache is full.
Miss ==
    /\ todo # <<>> /\ ~Loading /\ Head(todo) \notin Resident
    /\ misses' = misses + 1
    /\ IF Len(cache) = Capacity
       THEN cache' = Tail(cache) /\ evictions' = evictions + 1
       ELSE UNCHANGED <<cache, evictions>>
    /\ load' = [NotLoading EXCEPT !.expert = Head(todo), !.before = reads.bytes]
    /\ UNCHANGED <<shard, hits, asked, todo, reads, closed, calls, recent, failed, short>>

Return ==
    /\ ~Idle /\ todo = <<>>
    /\ asked' = <<>>
    /\ UNCHANGED <<shard, lru, todo, load, reads, closed, calls, failed, short>>

\* An exception of the load leaves ensure.
Raise ==
    /\ load' = NotLoading /\ asked' = <<>> /\ todo' = <<>>
    /\ failed' = failed + 1
    /\ UNCHANGED <<shard, lru, closed, calls, short>>

-----------------------------------------------------------------------------
(* NativeExpertReader.load                                                   *)

Source == plan[load.expert]
Wanted == Source.ranges[load.range]

\* _fd, then a logical read.
BeginRange ==
    /\ Loading /\ ~load.begun /\ load.range <= Len(Source.ranges)
    /\ IF closed THEN Raise /\ UNCHANGED reads
       ELSE /\ load' = [load EXCEPT !.begun = TRUE, !.got = <<>>]
            /\ reads' = [reads EXCEPT !.logical = @ + 1]
            /\ UNCHANGED <<shard, lru, asked, todo, closed, calls, failed, short>>

Remaining == Wanted.length - Len(load.got)

\* Mutated: the next pread begins at the beginning of the range again.
PreadAgain(n) ==
    /\ Loading /\ load.begun /\ n <= Remaining
    /\ n < Remaining => short < MaxShort
    /\ short' = short + (IF n < Remaining THEN 1 ELSE 0)
    /\ load' = [load EXCEPT !.got = @ \o SubSeq(file, Wanted.offset + 1, Wanted.offset + n)]
    /\ reads' = [reads EXCEPT !.system = @ + 1, !.bytes = @ + n]
    /\ UNCHANGED <<shard, lru, asked, todo, closed, calls, failed>>

\* A pread returns what was asked for or less.
Pread(n) ==
    /\ Loading /\ load.begun /\ n <= Remaining
    /\ n < Remaining => short < MaxShort
    /\ short' = short + (IF n < Remaining THEN 1 ELSE 0)
    /\ LET cursor == Wanted.offset + Len(load.got)
       IN  load' = [load EXCEPT !.got = @ \o SubSeq(file, cursor + 1, cursor + n)]
    /\ reads' = [reads EXCEPT !.system = @ + 1, !.bytes = @ + n]
    /\ UNCHANGED <<shard, lru, asked, todo, closed, calls, failed>>

\* It meets the end of the file, or raises OSError.
PreadFails ==
    /\ Loading /\ load.begun /\ Remaining > 0
    /\ failed < MaxFaults
    /\ \E end \in 0..1 : reads' = [reads EXCEPT !.system = @ + end]
    /\ Raise

\* The tensors of a range: by their offsets in it, or those of a record.
SlicesOf(range, got) ==
    [t \in {x.name : x \in range.tensors} |->
        LET placed == CHOOSE x \in range.tensors : x.name = t
            relative == placed.offset - range.offset
        IN  SubSeq(got, relative + 1, relative + placed.length)]

Decoded(e, record, got) ==
    LET scales == Decode(record)
        weights == SubSeq(got, EncodedBytes(record) + 1, Len(got))
    IN  [t \in TensorsOf(e) |->
            LET k == CHOOSE i \in 1..3 : RecordComponents[i] = t.component
            IN  IF t.part = "weight_scale" THEN ScalesOf(scales, t.component)
                ELSE SubSeq(weights, k, k)]

IsRecord(e, got) ==
    LET encoded == EncodedBytes(Source.record)
    IN  /\ Len(got) >= encoded /\ SubSeq(got, 1, encoded) = RecordCells(e, encoded)
        /\ Decodable(Source.record)

\* The tensors of the ranges so far, and those of another one.
Joined(tensors, more) ==
    [t \in DOMAIN tensors \union DOMAIN more |-> IF t \in DOMAIN more THEN more[t] ELSE tensors[t]]

EndRange ==
    /\ Loading /\ load.begun /\ Remaining = 0
    /\ IF IsScaleX /\ ~IsRecord(load.expert, load.got) THEN Raise /\ UNCHANGED reads
       ELSE /\ LET tensors == IF IsScaleX THEN Decoded(load.expert, Source.record, load.got)
                              ELSE SlicesOf(Wanted, load.got)
               IN  load' = [load EXCEPT !.begun = FALSE, !.range = @ + 1,
                                        !.tensors = Joined(@, tensors)]
            /\ UNCHANGED <<shard, lru, asked, todo, reads, closed, calls, failed, short>>

\* The expert is complete and becomes the most recent one.
EndLoad ==
    /\ Loading /\ ~load.begun /\ load.range > Len(Source.ranges)
    /\ IF DOMAIN load.tensors # TensorsOf(load.expert) THEN Raise /\ UNCHANGED reads
       ELSE /\ cache' = Append(cache, [expert |-> load.expert, tensors |-> load.tensors,
                                       bytes |-> reads.bytes - load.before])
            /\ recent' = Touched(load.expert)
            /\ reads' = [reads EXCEPT !.loads = @ + 1]
            /\ todo' = Tail(todo)
            /\ load' = NotLoading
            /\ UNCHANGED <<shard, hits, misses, evictions, asked, closed, calls, failed, short>>

\* Experts that are resident can still be had from a closed reader's cache.
CloseReader ==
    /\ Idle /\ ~closed /\ calls > 0
    /\ closed' = TRUE
    /\ UNCHANGED <<shard, lru, asked, todo, load, reads, calls, failed, short>>

Next ==
    \/ \E route \in Routes(sample) : Ensure(route)
    \/ Hit
    \/ Miss
    \/ Return
    \/ BeginRange
    \/ \E n \in 1..Len(file) : Pread(n)
    \/ PreadFails
    \/ EndRange
    \/ EndLoad
    \/ CloseReader

Spec == Init /\ [][Next]_vars

-----------------------------------------------------------------------------
(* Properties                                                                *)

\* Types of the variables; the cache has room for all it holds.
TypeOK ==
    /\ sample \in Samples /\ closed \in BOOLEAN
    /\ Len(cache) \in 0..Capacity /\ \A i \in 1..Len(cache) : cache[i].expert \in Ids
    /\ {recent, asked, todo} \subseteq Seq(Ids)
    /\ load.expert \in Ids \union {-1} /\ load.range \in Nat \ {0} /\ load.begun \in BOOLEAN
    /\ {hits, misses, evictions, calls, failed, short} \subseteq Nat
    /\ reads \in [loads : Nat, logical : Nat, system : Nat, bytes : Nat]

BytesOf(ranges) == FoldLeft(LAMBDA sum, range : sum + range.length, 0, ranges)

\* Every loaded expert has the tensors it had before any conversion, whatever the
\* order of the shard, the codec of its scales and the sizes of the preads; the
\* bytes it is charged with are those of its ranges (decode_mode_a undoes
\* encode_mode_a; ranges, relative offsets and record order agree).
CacheHoldsTheOriginals ==
    \A i \in DOMAIN cache :
        LET loaded == cache[i]
        IN  /\ loaded.tensors = [t \in TensorsOf(loaded.expert) |-> Original(t)]
            /\ loaded.bytes = BytesOf(plan[loaded.expert].ranges)

\* When ensure returns, all it was asked for is resident: what an expert of the
\* call evicts is never another one of the call.  The cache holds the most
\* recently used experts, also after loads that failed once their victim was gone.
ServesItsRequest ==
    /\ todo = <<>> => ToSet(asked) \subseteq Resident
    /\ IsSuffix([i \in DOMAIN cache |-> cache[i].expert], recent)
    /\ Len(cache) <= Capacity

\* The counters of cache and reader tell one story: an eviction for every
\* load that the cache no longer holds, a failed load counted as a miss only.
CountersAddUp ==
    /\ reads.loads = misses - failed - (IF Loading THEN 1 ELSE 0)
    /\ reads.loads = evictions + Len(cache)
    /\ short = 0 /\ failed = 0 /\ (Loading => ~load.begun) => reads.system = reads.logical

\* The directory of a row names for each tile of scales exactly the exceptions
\* that lie in it, within its sixteen bits; the record, padded to an even length, and
\* the directory fill the row that mode_b_indexed_nbytes computed without them, so
\* that every row fits the slot the plan sizes.
RowsAreIndexed ==
    IsScaleX => \A e \in Ids :
        LET record == plan[e].record
            prefix == TilePrefix(record)
            row == PaddedBytes(record) + 2 * Cardinality(DOMAIN prefix)
        IN  /\ Decodable(record)
            /\ \A t \in 1..Tiles(record.raw) :
                   {i \in DOMAIN record.positions : prefix[t - 1] < i /\ i <= prefix[t]}
                     = {i \in DOMAIN record.positions : record.positions[i] \div TileScales = t - 1}
            /\ \A t \in DOMAIN prefix : prefix[t] <= MaxDirectory
            /\ row <= SlotRowBytes

=============================================================================
