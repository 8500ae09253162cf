-------------------------- MODULE NativeExpertSSD --------------------------
(***************************************************************************)
(* The expert data plane of one loaded runtime: every MoE layer owns a     *)
(* fixed bank of wired slots (NativeExpertSSD), the layers of a model share *)
(* one pool of I/O workers (NativeExpertPool), and the main thread walks    *)
(* the layers of a pass: prepare plans the route and submits a read per     *)
(* missing expert, the workers write straight into the slots, finish joins  *)
(* the reads, commits the Python map and the counters one after another and *)
(* queues a lazy GPU kernel over the slots.  The kernel runs when something *)
(* later forces it: the next layer's route materialisation or the           *)
(* evaluation of the logits.                                                *)
(*                                                                          *)
(* Layers 1..NTarget are the target model, layer NTarget + 1 is the MTP     *)
(* drafter with a pool of its own.  The main thread may raise between any   *)
(* two of its steps.  A failed pass is never retried: the command line      *)
(* closes the runtime on every exception.                                   *)
(***************************************************************************)
EXTENDS Integers, FiniteSets

CONSTANTS
    NTarget,      \* number of MoE layers of the target model
    Experts,      \* routed experts of a layer
    Slots,        \* rows of one layer's slot bank (its capacity)
    NoSlot,       \* "not resident"
    Garbage,      \* zeros, or bytes of a read that has not completed
    Unread,       \* an expert the last kernel of a layer did not use
    TopK,         \* experts one row routes to
    Workers,      \* threads of a pool
    MaxPasses     \* bound: forward passes in a behaviour

ASSUME SizesAssumption ==
    /\ NTarget \in Nat \ {0}
    /\ TopK \in Nat \ {0}
    /\ Workers \in Nat \ {0}
    /\ MaxPasses \in Nat

ASSUME SentinelAssumption ==
    /\ NoSlot \notin Slots
    /\ Garbage \notin Experts
    /\ Unread \notin Experts \union {Garbage}

ASSUME BankAssumption ==
    /\ IsFiniteSet(Experts)
    /\ IsFiniteSet(Slots)
    \* resolve_runtime_profile refuses a capacity below the routed top-k
    /\ Cardinality(Slots) >= TopK

Layers == 1..(NTarget + 1)
MTPLayer == NTarget + 1
Pools == {"target", "mtp"}
PoolOf(l) == IF l = MTPLayer THEN "mtp" ELSE "target"

\* Where an expert sits in a bank; NoSlot when it is not resident.
Rows == [Experts -> Slots \union {NoSlot}]
NoRows == [e \in Experts |-> NoSlot]
Resident(rows) == {e \in Experts : rows[e] # NoSlot}
OneExpertPerSlot(rows) ==
    \A e, f \in Resident(rows) : rows[e] = rows[f] => e = f

VARIABLES
    pc,        \* the main thread
    layer,     \* the MoE layer it works on
    width,     \* token rows of the pass
    policy,    \* native route-cache state of each layer
    mapping,   \* _expert_to_slot of each layer
    content,   \* whose bytes each slot of each layer holds
    plan,      \* the NativeRoutePlan between prepare and finish
    committed, \* the updates of _finish_refill made for that plan, in order
    reads,     \* the future of each expert of the plan
    kernel,    \* rows the queued, not yet executed, kernel of a layer gathers
    served,    \* what the last executed kernel of a layer found, per expert
    wired,     \* layers whose bank is active and wired
    closed,    \* pools that are shut down
    stats,     \* hits, misses and evictions of each layer
    loads,     \* expert loads recorded by each pool
    asked,     \* history: unique experts of the routes each layer has planned
    passes,    \* passes started
    failure    \* why the main thread raised

main == <<pc, layer, width, passes, failure>>
bank == <<policy, mapping, stats, loads, asked>>
gpu == <<kernel, served>>
vars == <<main, bank, gpu, content, plan, committed, reads, wired, closed>>

Futures == {"none", "queued", "running", "done", "failed"}
NoReads == [e \in Experts |-> "none"]
NoPlan == [route |-> {}, proposed |-> NoRows, missing |-> {}, evictions |-> 0]
InFlight == {e \in Experts : reads[e] \in {"queued", "running"}}
Running == {e \in Experts : reads[e] = "running"}

-----------------------------------------------------------------------------
Init ==
    /\ pc = "idle" /\ layer = 1 /\ width = 1 /\ passes = 0 /\ failure = "none"
    /\ policy = [l \in Layers |-> NoRows]
    /\ mapping = [l \in Layers |-> NoRows]
    /\ content = [l \in Layers |-> [s \in Slots |-> Garbage]]
    /\ plan = NoPlan
    /\ committed = 0
    /\ reads = NoReads
    /\ kernel = [l \in Layers |-> NoRows]
    /\ served = [l \in Layers |-> [e \in Experts |-> Unread]]
    /\ wired = Layers
    /\ closed = {}
    /\ stats = [l \in Layers |-> [hits |-> 0, misses |-> 0, evictions |-> 0]]
    /\ loads = [p \in Pools |-> 0]
    /\ asked = [l \in Layers |-> 0]

-----------------------------------------------------------------------------
(* External: mx._expert_ssd_route_cache_plan.  The call waits for the GPU   *)
(* work upstream of the routed indices, so every queued kernel executes;    *)
(* then the native policy maps the routed experts: a resident one keeps its *)
(* row, a missing one takes a free row or the row of an evicted expert, and *)
(* no more experts are evicted than the missing ones need.                  *)

\* Mutated: the route is planned before the GPU has run the queued kernels.
RunNoKernels == UNCHANGED gpu

RunKernels ==
    /\ served' = [l \in Layers |->
                    IF kernel[l] = NoRows THEN served[l]
                    ELSE [e \in Experts |-> IF kernel[l][e] = NoSlot THEN Unread
                                            ELSE content[l][kernel[l][e]]]]
    /\ kernel' = [l \in Layers |-> NoRows]

Missing(rows, route) == route \ Resident(rows)
Evicted(rows, planned) == Resident(rows) \ Resident(planned)

RouteCachePlans(rows, route) ==
    {planned \in Rows :
        /\ route \subseteq Resident(planned)
        /\ \A e \in Resident(planned) \ Missing(rows, route) : planned[e] = rows[e]
        /\ OneExpertPerSlot(planned)
        /\ \/ Evicted(rows, planned) = {}
           \/ Cardinality(Resident(planned)) = Cardinality(Slots)}

\* The expert ids one pass can route to: top-k of each of its rows.
Routes(rows) ==
    {route \in SUBSET Experts : Cardinality(route) \in TopK..(rows * TopK)}

-----------------------------------------------------------------------------
(* The main thread                                                          *)

\* generate: a target pass over one prompt token, a draft once the target has
\* run, or the two-row verification that follows a draft.
StartPass(l, w) ==
    /\ pc = "idle" /\ passes < MaxPasses
    /\ \/ l = 1 /\ w = 1
       \/ l = MTPLayer /\ w = 1 /\ passes > 0
       \/ l = 1 /\ w = 2 /\ layer = MTPLayer
    /\ pc' = "route" /\ layer' = l /\ width' = w /\ passes' = passes + 1
    /\ UNCHANGED <<bank, gpu, content, plan, committed, reads, wired, closed, failure>>

\* Mutated: the evicted experts stay in the proposed map.
ProposedKeepsEvicted(route, planned) ==
    [e \in Experts |-> IF e \in route THEN planned[e] ELSE mapping[layer][e]]

\* The copy of _expert_to_slot without the evicted, with the routed experts.
Proposed(route, planned) ==
    [e \in Experts |->
        IF e \in route THEN planned[e]
        ELSE IF e \in Evicted(policy[layer], planned) THEN NoSlot
        ELSE mapping[layer][e]]

\* NativeExpertSSD.prepare up to the reads: the native call moves the policy and
\* executes the queued kernels, and the plan is made from what it returns.
PlanRoute(route, planned) ==
    /\ pc = "route" /\ layer \in wired
    /\ Cardinality(route) <= Cardinality(Slots)
    /\ LET missing == Missing(policy[layer], route)
       IN  /\ plan' = [route |-> route,
                       proposed |-> Proposed(route, planned),
                       missing |-> missing,
                       evictions |-> Cardinality(Evicted(policy[layer], planned))]
           /\ pc' = IF missing = {} THEN "join" ELSE "submit"
    /\ policy' = [policy EXCEPT ![layer] = planned]
    /\ asked' = [asked EXCEPT ![layer] = @ + Cardinality(route)]
    /\ RunKernels
    /\ UNCHANGED <<layer, width, passes, failure, mapping, stats, loads, content,
                   committed, reads, wired, closed>>

\* prepare raises ContractError: more unique experts than slots.  The native
\* policy was called by then; what it did with a route it has no room for is its
\* own, and any of its states may be left.
PrepareRaises(route) ==
    /\ pc = "route" /\ layer \in wired
    /\ Cardinality(route) > Cardinality(Slots)
    /\ \E left \in Rows : policy' = [policy EXCEPT ![layer] = left]
    /\ RunKernels
    /\ pc' = "failed" /\ failure' = "capacity"
    /\ UNCHANGED <<layer, width, passes, mapping, stats, loads, asked, content, plan,
                   committed, reads, wired, closed>>

ToSubmit == {e \in plan.missing : reads[e] = "none"}

\* prepare submits a read per missing expert; the first ones may run, and end,
\* before the last one is submitted.
SubmitRead(e) ==
    /\ pc = "submit" /\ PoolOf(layer) \notin closed
    /\ e \in ToSubmit
    /\ reads' = [reads EXCEPT ![e] = "queued"]
    /\ pc' = IF ToSubmit = {e} THEN "join" ELSE pc
    /\ UNCHANGED <<layer, width, passes, failure, bank, gpu, content, plan, committed,
                   wired, closed>>

\* Mutated: finish goes on when one of the reads is there.
SomeRead == plan.missing = {} \/ \E e \in plan.missing : reads[e] = "done"

AllRead == \A e \in plan.missing : reads[e] = "done"

\* _finish_refill makes its five updates one after another, each a point at which
\* the main thread may be interrupted.
Commit(update) ==
    /\ pc = "join" /\ committed = update - 1
    /\ committed' = update
    /\ UNCHANGED <<main, gpu, policy, asked, content, plan, reads, wired, closed>>

\* NativeExpertPool.record_loads, once every future has a result.
RecordLoads ==
    /\ AllRead
    /\ Commit(1)
    /\ loads' = [loads EXCEPT ![PoolOf(layer)] = @ + Cardinality(plan.missing)]
    /\ UNCHANGED <<mapping, stats>>

CommitMap ==
    /\ Commit(2)
    /\ mapping' = [mapping EXCEPT ![layer] = plan.proposed]
    /\ UNCHANGED <<stats, loads>>

Count(counter, n) ==
    /\ stats' = [stats EXCEPT ![layer][counter] = @ + n]
    /\ UNCHANGED <<mapping, loads>>

\* Mutated: hits and misses are confused in the difference.
CountHitsBackwards ==
    Commit(3) /\ Count("hits", Cardinality(plan.missing) - Cardinality(plan.route))

CountHits ==
    Commit(3) /\ Count("hits", Cardinality(plan.route) - Cardinality(plan.missing))

CountMisses == Commit(4) /\ Count("misses", Cardinality(plan.missing))

\* Mutated: every read is taken to have evicted an expert.
CountMissesAsEvictions == Commit(5) /\ Count("evictions", Cardinality(plan.missing))

CountEvictions == Commit(5) /\ Count("evictions", plan.evictions)

CommitStep == RecordLoads \/ CommitMap \/ CountHits \/ CountMisses \/ CountEvictions

\* plan.remapped: the row of each routed expert.
Remapped == [e \in Experts |-> IF e \in plan.route THEN plan.proposed[e] ELSE NoSlot]

\* finish after _finish_refill: the lazy kernel, and on to the next layer.
Finish ==
    /\ pc = "join" /\ committed = 5
    /\ kernel' = [kernel EXCEPT ![layer] = Remapped]
    /\ plan' = NoPlan
    /\ committed' = 0
    /\ reads' = NoReads
    /\ IF layer >= NTarget THEN pc' = "eval" /\ layer' = layer
                           ELSE pc' = "route" /\ layer' = layer + 1
    /\ UNCHANGED <<width, passes, failure, bank, served, content, wired, closed>>

\* Mutated: a single failed read raises nothing and is not read again.
TwoReadsFailed == Cardinality({e \in plan.missing : reads[e] = "failed"}) > 1

SomeReadFailed == \E e \in plan.missing : reads[e] = "failed"

Raised(why) ==
    /\ pc' = "failed" /\ failure' = why
    /\ UNCHANGED <<layer, width, passes, bank, gpu, content, plan, committed, reads,
                   wired, closed>>

\* future.result() re-raises the failure of a read; the other reads go on.
FinishRaises == pc = "join" /\ SomeReadFailed /\ Raised("read")

\* mx.eval of the logits ends the pass, or finds them non-finite.
Eval ==
    /\ pc = "eval"
    /\ RunKernels
    /\ \/ pc' = "idle" /\ failure' = failure
       \/ pc' = "failed" /\ failure' = "logits"
    /\ UNCHANGED <<layer, width, passes, bank, content, plan, committed, reads,
                   wired, closed>>

\* Anything else the main thread raises in the middle of a pass: a later submit,
\* the shared experts between prepare and finish, the geometry checks of the
\* kernels before or after the refill, a KeyboardInterrupt at any point.
Raise == pc \in {"route", "submit", "join", "eval"} /\ Raised("raised")

-----------------------------------------------------------------------------
(* TargetRuntime.close, called in the finally clause of the command line     *)

\* Mutated: close may come while a pass is joining its reads.
MayCloseInPass == pc \in {"idle", "join", "failed"}

MayClose == pc \in {"idle", "failed"}

StartClose ==
    /\ MayClose
    /\ pc' = "closing"
    /\ UNCHANGED <<layer, width, passes, failure, bank, gpu, content, plan, committed,
                   reads, wired, closed>>

\* NativeExpertSSD.close: unwire the bank, without a look at the reads.
CloseLayer(l) ==
    /\ pc = "closing" /\ l \in wired
    /\ \A m \in wired : l <= m
    /\ l = MTPLayer => "target" \in closed
    /\ wired' = wired \ {l}
    /\ UNCHANGED <<main, bank, gpu, content, plan, committed, reads, closed>>

WorkersIdle(p) == PoolOf(layer) = p => InFlight = {}

\* NativeExpertPool.close: shutdown(wait=True, cancel_futures=False).
ClosePool(p) ==
    /\ pc = "closing" /\ p \notin closed
    /\ \A l \in wired : PoolOf(l) # p
    /\ WorkersIdle(p)
    /\ closed' = closed \union {p}
    /\ pc' = IF p = "mtp" THEN "closed" ELSE pc
    /\ UNCHANGED <<layer, width, passes, failure, bank, gpu, content, plan, committed,
                   reads, wired>>

-----------------------------------------------------------------------------
(* The workers: load_into of one expert, straight into its slot              *)

Write(slot, bytes) == content' = [content EXCEPT ![layer][slot] = bytes]

StartRead(e) ==
    /\ reads[e] = "queued"
    /\ Cardinality(Running) < Workers
    /\ reads' = [reads EXCEPT ![e] = "running"]
    /\ Write(plan.proposed[e], Garbage)
    /\ UNCHANGED <<main, bank, gpu, plan, committed, wired, closed>>

EndRead(e) ==
    /\ reads[e] = "running"
    /\ reads' = [reads EXCEPT ![e] = "done"]
    /\ Write(plan.proposed[e], e)
    /\ UNCHANGED <<main, bank, gpu, plan, committed, wired, closed>>

\* Mutated: the worker swallows the error and the future has a result.
FailReadSilently(e) ==
    /\ reads[e] = "running"
    /\ reads' = [reads EXCEPT ![e] = "done"]
    /\ UNCHANGED <<main, bank, gpu, content, plan, committed, wired, closed>>

FailRead(e) ==
    /\ reads[e] = "running"
    /\ reads' = [reads EXCEPT ![e] = "failed"]
    /\ UNCHANGED <<main, bank, gpu, content, plan, committed, wired, closed>>

-----------------------------------------------------------------------------
PlanStep ==
    /\ pc = "route"
    /\ \E route \in Routes(width) :
        \/ \E planned \in RouteCachePlans(policy[layer], route) : PlanRoute(route, planned)
        \/ PrepareRaises(route)

PassStep ==
    \/ PlanStep
    \/ \E e \in Experts : SubmitRead(e)
    \/ CommitStep
    \/ Finish
    \/ FinishRaises
    \/ Eval

CloseStep ==
    \/ \E l \in Layers : CloseLayer(l)
    \/ \E p \in Pools : ClosePool(p)

ReadStep(e) == StartRead(e) \/ EndRead(e) \/ FailRead(e)

Next ==
    \/ \E l \in Layers, w \in {1, 2} : StartPass(l, w)
    \/ PassStep
    \/ Raise
    \/ StartClose
    \/ CloseStep
    \/ \E e \in Experts : ReadStep(e)

\* The main thread runs on, the workers drain their queue, a read ends or
\* fails, and a failed pass is followed by close.  Nothing obliges the user to
\* start another pass, to raise in one or to leave.
Fairness ==
    /\ WF_vars(PassStep)
    /\ WF_vars(CloseStep)
    /\ WF_vars(pc = "failed" /\ StartClose)
    /\ \A e \in Experts : WF_vars(ReadStep(e))

Spec == Init /\ [][Next]_vars
FairSpec == Spec /\ Fairness

-----------------------------------------------------------------------------
(* Properties                                                               *)

Stats == [hits : Nat, misses : Nat, evictions : Nat]
Failures == {"none", "capacity", "read", "logits", "raised"}

\* Types of the variables.
TypeOK ==
    /\ pc \in {"idle", "route", "submit", "join", "eval", "failed", "closing", "closed"}
    /\ layer \in Layers /\ width \in {1, 2} /\ passes \in Nat /\ failure \in Failures
    /\ policy \in [Layers -> Rows]
    /\ mapping \in [Layers -> Rows]
    /\ content \in [Layers -> [Slots -> Experts \union {Garbage}]]
    /\ plan \in [route : SUBSET Experts, proposed : Rows,
                 missing : SUBSET Experts, evictions : Nat]
    /\ committed \in 0..5
    /\ reads \in [Experts -> Futures]
    /\ kernel \in [Layers -> Rows]
    /\ served \in [Layers -> [Experts -> Experts \union {Garbage, Unread}]]
    /\ wired \subseteq Layers
    /\ closed \subseteq Pools
    /\ stats \in [Layers -> Stats]
    /\ loads \in [Pools -> Nat]
    /\ asked \in [Layers -> Nat]

\* Every kernel gathered, for each routed expert, that expert's own weights:
\* never a row another read has taken over, never a partly read row
\* (finish, the lazy qmv graph over self.slots).
ServedIsRouted ==
    \A l \in Layers, e \in Experts : served[l][e] \in {e, Unread}

\* A kernel that is queued but not executed still finds its experts in their
\* rows: no refill overwrites a row before the GPU has read it
\* (prepare materialises the upstream work before it submits a read).
KernelRowsIntact ==
    \A l \in Layers, e \in Experts :
        kernel[l][e] # NoSlot => content[l][kernel[l][e]] = e

\* Between layers and between passes the native policy and the Python map name
\* the same residents.  They part only at the layer in work: from the native call
\* until the map is committed, when the plan holds what the map will become, or
\* for good once the call was made for a route the bank has no room for (prepare
\* moves the policy, _finish_refill moves _expert_to_slot).
PolicyAgreesWithMap ==
    /\ pc \in {"idle", "route", "eval"} => mapping = policy
    /\ \A l \in Layers :
        \/ mapping[l] = policy[l]
        \/ /\ l = layer
           /\ \/ plan.route # {} /\ committed < 2 /\ plan.proposed = policy[l]
              \/ failure = "capacity"

\* An expert the policy counts as resident has its bytes in its row, unless its
\* read is one of the outstanding plan that has not succeeded, or the policy was
\* left with a route that does not fit and the runtime goes down.  A later hit on
\* the row would otherwise compute with garbage.
ResidentsHoldTheirBytes ==
    \A l \in Layers : \A e \in Resident(policy[l]) :
        \/ content[l][policy[l][e]] = e
        \/ l = layer /\ e \in plan.missing /\ reads[e] # "done"
        \/ l = layer /\ failure = "capacity"

\* Misses of the first layers of the target.
MissesUpTo[l \in 0..NTarget] == IF l = 0 THEN 0 ELSE MissesUpTo[l - 1] + stats[l].misses

\* The layer whose updates have begun and not ended.
Torn(l) == l = layer /\ committed \in 1..4

\* Loads that are recorded and not yet counted as misses.
Uncounted(pool) ==
    IF PoolOf(layer) = pool /\ committed \in 1..3 THEN Cardinality(plan.missing) ELSE 0

\* Experts that are planned and not yet committed.
Unfinished(l) == IF l = layer /\ committed = 0 THEN Cardinality(plan.route) ELSE 0

\* The counters the statistics report agree with each other and with the bank
\* wherever the updates of _finish_refill are not under way: residents are misses
\* less evictions, hits and misses are the experts the layer was asked for, and a
\* pool recorded exactly the misses of its layers.  What an exception between two
\* of the updates leaves apart stays at that layer and its pool, by the experts of
\* its plan; no other way out of a pass leaves anything apart.
ExactAccounting ==
    /\ \A l \in Layers : ~Torn(l) =>
        /\ Cardinality(Resident(mapping[l])) = stats[l].misses - stats[l].evictions
        /\ stats[l].hits + stats[l].misses = asked[l] - Unfinished(l)
    /\ loads["mtp"] = stats[MTPLayer].misses + Uncounted("mtp")
    /\ loads["target"] = MissesUpTo[NTarget] + Uncounted("target")
    /\ Torn(layer) /\ pc # "join" => failure = "raised"

\* A bank is unwired under a read that still writes to it only when a failed read
\* or another exception cut the pass short: a normal end, a route that does not fit
\* and bad logits leave no read behind.  The pool is still open then, and the map
\* does not name the row that is being written
\* (TargetRuntime.close closes the layers before their pool).
UnwiredUnderReadOnlyAfterFailure ==
    layer \notin wired /\ InFlight # {} =>
        /\ failure \in {"read", "raised"}
        /\ PoolOf(layer) \notin closed
        /\ \A e \in InFlight : mapping[layer][e] = NoSlot

\* A pass that was started comes to rest: its logits are evaluated, or what it
\* raised ends in a closed runtime, also with reads queued or running when it
\* was raised.  A runtime that starts to close closes.
MainRests == (pc \notin {"idle", "closed"}) ~> (pc \in {"idle", "closed"})

\* The data plane implements the promise of ExpertService.
Service == INSTANCE ExpertService WITH
    demand <- [l \in Layers |-> Resident(kernel[l])],
    used <- served,
    up <- pc \notin {"failed", "closing", "closed"}

ImplementsService == Service!Spec

=============================================================================
