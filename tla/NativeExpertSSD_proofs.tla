---------------------- MODULE NativeExpertSSD_proofs ----------------------
(***************************************************************************)
(* Proofs about NativeExpertSSD, for every number of layers, experts, slots *)
(* and workers: the slot bank never serves the wrong weights.               *)
(***************************************************************************)
EXTENDS NativeExpertSSD, FiniteSetTheorems, WellFoundedInduction, TLAPS

-----------------------------------------------------------------------------
(* The inductive invariant                                                  *)

\* The plan is outstanding from prepare to finish, and for good after a failure.
Outstanding == plan.route # {}

\* The policy of the layer in work is whatever the native call left there.
Unknown == failure = "capacity"

Down == {"failed", "closing", "closed"}

PlanInv ==
    /\ pc \in {"idle", "route", "eval"} => ~Outstanding
    /\ pc \in {"submit", "join"} => Outstanding
    /\ Outstanding => plan.proposed = policy[layer]
    /\ plan.missing \subseteq plan.route
    /\ plan.route \subseteq Resident(plan.proposed)
    /\ \A e \in Experts : reads[e] # "none" => e \in plan.missing
    /\ Unknown => ~Outstanding /\ pc \in Down
    /\ committed > 0 => Outstanding /\ AllRead /\ pc # "submit"

PolicyInv == \A l \in Layers : OneExpertPerSlot(policy[l]) \/ (l = layer /\ Unknown)

\* A queued kernel gathers rows of residents, and there is none while a plan is
\* outstanding: prepare has executed them all.
KernelInv ==
    \A l \in Layers, e \in Experts :
        kernel[l][e] # NoSlot => ~Outstanding /\ ~Unknown /\ kernel[l][e] = policy[l][e]

IInv ==
    /\ TypeOK
    /\ PlanInv
    /\ PolicyInv
    /\ PolicyAgreesWithMap
    /\ ResidentsHoldTheirBytes
    /\ KernelInv
    /\ ServedIsRouted

-----------------------------------------------------------------------------
(* The proposed map of a plan is the native policy's new state.             *)

LEMMA RouteCachePlansType ==
    ASSUME NEW rows, NEW route, NEW planned \in RouteCachePlans(rows, route)
    PROVE  /\ planned \in Rows
           /\ route \subseteq Resident(planned)
           /\ \A e \in Resident(planned) \ Missing(rows, route) : planned[e] = rows[e]
           /\ OneExpertPerSlot(planned)
BY DEF RouteCachePlans

\* If map and policy agree on the layer, the map that prepare proposes is what
\* the policy has become (copy, pop the evicted, set the routed).
LEMMA ProposedIsPlanned ==
    ASSUME TypeOK, mapping[layer] = policy[layer],
           NEW route \in SUBSET Experts,
           NEW planned \in RouteCachePlans(policy[layer], route)
    PROVE  Proposed(route, planned) = planned
<1>1. planned \in Rows
  BY RouteCachePlansType
<1>2. ASSUME NEW e \in Experts
      PROVE  planned[e] = Proposed(route, planned)[e]
  <2>1. CASE e \in route
    BY <2>1 DEF Proposed
  <2>2. CASE e \notin route /\ planned[e] = NoSlot
    BY <2>2 DEF Proposed, Evicted, Resident
  <2>3. CASE e \notin route /\ planned[e] # NoSlot
    <3>1. e \in Resident(planned) \ Missing(policy[layer], route)
      BY <2>3 DEF Resident, Missing
    <3>2. planned[e] = policy[layer][e]
      BY <3>1, RouteCachePlansType
    <3> QED
      BY <2>3, <3>2 DEF Proposed, Evicted, Resident
  <2> QED
    BY <2>1, <2>2, <2>3
<1>3. Proposed(route, planned) = [e \in Experts |-> Proposed(route, planned)[e]]
  BY DEF Proposed
<1> QED
  BY <1>1, <1>2, <1>3 DEF Rows

-----------------------------------------------------------------------------
(* Initial states and the steps that leave the banks alone                  *)

LEMMA InitIInv == Init => IInv
<1> SUFFICES ASSUME Init PROVE IInv
  OBVIOUS
<1> USE DEF Init
<1>1. MTPLayer \in Layers /\ 1 \in Layers
  BY SizesAssumption DEF Layers, MTPLayer
<1>2. TypeOK
  BY <1>1 DEF TypeOK, Failures, Rows, NoRows, NoPlan, NoReads, Futures, Pools, Stats
<1>3. PlanInv
  BY DEF PlanInv, Outstanding, NoPlan, NoReads, Unknown
<1>4. PolicyInv
  BY DEF PolicyInv, OneExpertPerSlot, Resident, NoRows
<1>5. PolicyAgreesWithMap
  BY DEF PolicyAgreesWithMap
<1>6. ResidentsHoldTheirBytes
  BY DEF ResidentsHoldTheirBytes, Resident, NoRows
<1>7. KernelInv
  BY DEF KernelInv, NoRows
<1>8. ServedIsRouted
  BY DEF ServedIsRouted
<1> QED
  BY <1>2, <1>3, <1>4, <1>5, <1>6, <1>7, <1>8 DEF IInv

\* What materialising the queued kernels does: everything read is right.
LEMMA RunKernelsRight ==
    ASSUME TypeOK, ServedIsRouted, KernelRowsIntact, RunKernels
    PROVE  /\ served' \in [Layers -> [Experts -> Experts \union {Garbage, Unread}]]
           /\ \A l \in Layers, e \in Experts : served'[l][e] \in {e, Unread}
           /\ kernel' = [l \in Layers |-> NoRows]
           /\ kernel' \in [Layers -> Rows]
<1>1. kernel' = [l \in Layers |-> NoRows] /\ kernel' \in [Layers -> Rows]
  BY DEF RunKernels, NoRows, Rows
<1>2. ASSUME NEW l \in Layers
      PROVE  /\ served'[l] \in [Experts -> Experts \union {Garbage, Unread}]
             /\ \A e \in Experts : served'[l][e] \in {e, Unread}
  <2>1. CASE kernel[l] = NoRows
    <3>1. served'[l] = served[l]
      BY <2>1 DEF RunKernels
    <3> QED
      BY <3>1 DEF TypeOK, ServedIsRouted
  <2>2. CASE kernel[l] # NoRows
    <3>1. served'[l] = [e \in Experts |-> IF kernel[l][e] = NoSlot THEN Unread
                                          ELSE content[l][kernel[l][e]]]
      BY <2>2 DEF RunKernels
    <3> QED
      BY <3>1 DEF KernelRowsIntact
  <2> QED
    BY <2>1, <2>2
<1>3. served' = [l \in Layers |-> served'[l]]
  BY DEF RunKernels
<1> QED
  BY <1>1, <1>2, <1>3

\* While IInv holds the rows of a queued kernel hold the routed experts.
LEMMA IInvKernelRows == IInv => KernelRowsIntact
<1> SUFFICES ASSUME IInv, NEW l \in Layers, NEW e \in Experts, kernel[l][e] # NoSlot
             PROVE  content[l][kernel[l][e]] = e
  BY DEF KernelRowsIntact
<1>1. ~Outstanding /\ ~Unknown /\ kernel[l][e] = policy[l][e]
  BY DEF IInv, KernelInv
<1>2. e \in Resident(policy[l])
  BY <1>1 DEF Resident
<1>3. e \notin plan.missing
  BY <1>1 DEF IInv, PlanInv, Outstanding
<1> QED
  BY <1>1, <1>2, <1>3 DEF IInv, ResidentsHoldTheirBytes, Unknown

\* Steps that change only the control state of the main thread, to a place where
\* no plan is committed, or the shutdown state.
LEMMA QuietStep ==
    ASSUME IInv, UNCHANGED <<bank, gpu, content, plan, committed, reads>>,
           TypeOK', pc' \in {"idle", "route", "eval"} => ~Outstanding /\ pc \notin Down,
           pc' \notin {"submit", "join"},
           Unknown' <=> Unknown, Unknown => layer' = layer /\ pc' \in Down,
           layer' = layer \/ ~Outstanding
    PROVE  IInv'
<1> USE DEF IInv, bank, gpu, Outstanding
<1>1. PlanInv'
  BY DEF PlanInv, AllRead
<1>2. PolicyInv'
  BY DEF PolicyInv
<1>3. PolicyAgreesWithMap'
  <2>1. pc' \in {"idle", "route", "eval"} => mapping = policy
    <3>1. pc' \in {"idle", "route", "eval"} => ~Outstanding /\ ~Unknown
      BY DEF PlanInv
    <3>2. ~Outstanding /\ ~Unknown => \A l \in Layers : mapping[l] = policy[l]
      BY DEF PolicyAgreesWithMap, Unknown
    <3> QED
      BY <3>1, <3>2 DEF TypeOK
  <2> QED
    BY <2>1 DEF PolicyAgreesWithMap, Unknown
<1>4. ResidentsHoldTheirBytes'
  BY DEF ResidentsHoldTheirBytes, PlanInv, Unknown
<1>5. KernelInv'
  BY DEF KernelInv
<1>6. ServedIsRouted'
  BY DEF ServedIsRouted
<1> QED
  BY <1>1, <1>2, <1>3, <1>4, <1>5, <1>6

-----------------------------------------------------------------------------
(* The main thread                                                          *)

LEMMA StartPassStep ==
    ASSUME IInv, NEW l \in Layers, NEW w \in {1, 2}, StartPass(l, w)
    PROVE  IInv'
<1>1. TypeOK'
  BY DEF IInv, StartPass, TypeOK, bank, gpu
<1>2. ~Outstanding /\ ~Unknown /\ pc \notin Down
  BY DEF IInv, PlanInv, StartPass, Down
<1>3. (Unknown' <=> Unknown) /\ pc' = "route"
  BY DEF StartPass, Unknown
<1>4. UNCHANGED <<bank, gpu, content, plan, committed, reads>>
  BY DEF StartPass
<1> QED
  BY <1>1, <1>2, <1>3, <1>4, QuietStep

LEMMA ControlStep ==
    ASSUME IInv, FinishRaises \/ Raise \/ StartClose
    PROVE  IInv'
<1> USE DEF FinishRaises, Raise, Raised, StartClose
<1>1. TypeOK'
  BY DEF IInv, TypeOK, Failures, bank, gpu
<1>2. pc' \notin {"idle", "route", "submit", "join", "eval"} /\ layer' = layer /\ pc' \in Down
  BY DEF Down
<1>3. UNCHANGED <<bank, gpu, content, plan, committed, reads>>
  OBVIOUS
<1>4. Unknown' <=> Unknown
  BY DEF Unknown, IInv, PlanInv, Down
<1> QED
  BY <1>1, <1>2, <1>3, <1>4, QuietStep

LEMMA CloseIsQuiet ==
    ASSUME IInv, (\E l \in Layers : CloseLayer(l)) \/ (\E p \in Pools : ClosePool(p))
    PROVE  IInv'
<1>1. TypeOK'
  <2>1. CASE \E l \in Layers : CloseLayer(l)
    BY <2>1 DEF IInv, CloseLayer, TypeOK, main, bank, gpu
  <2>2. CASE \E p \in Pools : ClosePool(p)
    BY <2>2 DEF IInv, ClosePool, TypeOK, bank, gpu
  <2> QED
    BY <2>1, <2>2
<1>2. /\ pc' \notin {"idle", "route", "submit", "join", "eval"}
      /\ layer' = layer /\ failure' = failure /\ pc' \in Down
  BY DEF CloseLayer, ClosePool, main, Down
<1>3. UNCHANGED <<bank, gpu, content, plan, committed, reads>>
  BY DEF CloseLayer, ClosePool
<1>4. Unknown' <=> Unknown
  BY <1>2 DEF Unknown
<1> QED
  BY <1>1, <1>2, <1>3, <1>4, QuietStep

\* A step that only runs the queued kernels while no plan is outstanding.
LEMMA KernelsOnlyStep ==
    ASSUME IInv, RunKernels, UNCHANGED <<bank, content, plan, committed, reads, layer>>,
           width' = width, passes' = passes, UNCHANGED <<wired, closed>>,
           pc' \in {"idle", "failed"}, failure' \in Failures,
           ~Outstanding, ~Unknown, ~Unknown'
    PROVE  IInv'
<1> USE DEF IInv, bank, Outstanding
<1>1. /\ \A l \in Layers, e \in Experts : served'[l][e] \in {e, Unread}
      /\ served' \in [Layers -> [Experts -> Experts \union {Garbage, Unread}]]
      /\ kernel' = [l \in Layers |-> NoRows]
      /\ kernel' \in [Layers -> Rows]
  BY RunKernelsRight, IInvKernelRows
<1>2. TypeOK'
  BY <1>1 DEF TypeOK
<1>3. PlanInv'
  BY DEF PlanInv, AllRead
<1>4. PolicyInv'
  BY DEF PolicyInv
<1>5. PolicyAgreesWithMap'
  <2>1. \A l \in Layers : mapping[l] = policy[l]
    BY DEF PolicyAgreesWithMap, Unknown
  <2>2. mapping = policy
    BY <2>1 DEF TypeOK
  <2> QED
    BY <2>2 DEF PolicyAgreesWithMap
<1>6. ResidentsHoldTheirBytes'
  BY DEF ResidentsHoldTheirBytes, Unknown
<1>7. KernelInv'
  BY <1>1 DEF KernelInv, NoRows
<1>8. ServedIsRouted'
  BY <1>1 DEF ServedIsRouted
<1> QED
  BY <1>2, <1>3, <1>4, <1>5, <1>6, <1>7, <1>8

LEMMA EvalStep ==
    ASSUME IInv, Eval
    PROVE  IInv'
<1>1. ~Outstanding /\ ~Unknown
  BY DEF IInv, PlanInv, Eval, Down
<1>2. failure' \in Failures /\ ~Unknown'
  BY <1>1 DEF Eval, Failures, IInv, TypeOK, Unknown
<1> QED
  BY <1>1, <1>2, KernelsOnlyStep DEF Eval

\* The route that does not fit: the policy of the layer is unknown from now on,
\* and nothing of it is looked at again.
LEMMA PrepareRaisesStep ==
    ASSUME IInv, NEW route \in Routes(width), PrepareRaises(route)
    PROVE  IInv'
<1> USE DEF IInv
<1>1. PICK left \in Rows : policy' = [policy EXCEPT ![layer] = left]
  BY DEF PrepareRaises
<1>2. /\ pc' = "failed" /\ failure' = "capacity" /\ layer' = layer
      /\ UNCHANGED <<width, passes, mapping, stats, loads, asked, content, plan,
                     committed, reads, wired, closed>>
  BY DEF PrepareRaises
<1>3. /\ \A l \in Layers, e \in Experts : served'[l][e] \in {e, Unread}
      /\ served' \in [Layers -> [Experts -> Experts \union {Garbage, Unread}]]
      /\ kernel' = [l \in Layers |-> NoRows]
      /\ kernel' \in [Layers -> Rows]
  BY RunKernelsRight, IInvKernelRows DEF PrepareRaises
<1>4. /\ ~Outstanding /\ ~Unknown /\ Unknown' /\ pc' \in Down
      /\ \A l \in Layers : l # layer => policy'[l] = policy[l]
  BY <1>1, <1>2 DEF PlanInv, PrepareRaises, Unknown, Down, TypeOK
<1>5. TypeOK'
  <2>1. policy' \in [Layers -> Rows]
    BY <1>1 DEF TypeOK
  <2> QED
    BY <1>2, <1>3, <2>1 DEF TypeOK, Failures
<1>6. PlanInv'
  BY <1>2, <1>4 DEF PlanInv, Outstanding, AllRead
<1>7. PolicyInv'
  BY <1>2, <1>4 DEF PolicyInv
<1>8. PolicyAgreesWithMap'
  BY <1>2, <1>4 DEF PolicyAgreesWithMap, Outstanding, Unknown
<1>9. ResidentsHoldTheirBytes'
  <2> SUFFICES ASSUME NEW l \in Layers, l # layer, NEW e \in Resident(policy[l])
               PROVE  content[l][policy[l][e]] = e
    BY <1>2, <1>4 DEF ResidentsHoldTheirBytes, Resident
  <2> QED
    BY DEF ResidentsHoldTheirBytes
<1>10. KernelInv' /\ ServedIsRouted'
  BY <1>3 DEF KernelInv, NoRows, ServedIsRouted
<1> QED
  BY <1>5, <1>6, <1>7, <1>8, <1>9, <1>10

LEMMA RouteNotEmpty ==
    ASSUME NEW n \in {1, 2}, NEW route \in Routes(n)
    PROVE  route # {} /\ route \in SUBSET Experts
BY SizesAssumption, FS_EmptySet DEF Routes

\* Sets of experts are finite, so that their cardinalities are numbers.
LEMMA ExpertSetsFinite ==
    ASSUME NEW set \in SUBSET Experts
    PROVE  IsFiniteSet(set) /\ Cardinality(set) \in Nat
BY BankAssumption, FS_Subset, FS_CardinalityType

LEMMA PlanRouteStep ==
    ASSUME IInv, NEW route \in Routes(width),
           NEW planned \in RouteCachePlans(policy[layer], route),
           PlanRoute(route, planned)
    PROVE  IInv'
<1> USE DEF IInv
<1>1. route # {} /\ route \in SUBSET Experts
  BY RouteNotEmpty DEF TypeOK
<1>2. ~Outstanding /\ ~Unknown /\ committed = 0
  BY DEF PlanInv, PlanRoute, Down, TypeOK
<1>3. /\ planned \in Rows
      /\ route \subseteq Resident(planned)
      /\ \A e \in Resident(planned) \ Missing(policy[layer], route) :
            planned[e] = policy[layer][e]
      /\ OneExpertPerSlot(planned)
  BY RouteCachePlansType
<1>4. Proposed(route, planned) = planned
  <2>1. mapping[layer] = policy[layer]
    BY DEF PolicyAgreesWithMap, PlanRoute
  <2> QED
    BY <1>1, <2>1, ProposedIsPlanned
<1>5. /\ plan' = [route |-> route, proposed |-> planned,
                  missing |-> Missing(policy[layer], route),
                  evictions |-> Cardinality(Evicted(policy[layer], planned))]
      /\ reads' = reads /\ \A e \in Experts : reads[e] = "none"
  BY <1>2, <1>4 DEF PlanRoute, PlanInv, Outstanding
<1>6. /\ policy' = [policy EXCEPT ![layer] = planned]
      /\ asked' = [asked EXCEPT ![layer] = @ + Cardinality(route)]
      /\ pc' \in {"submit", "join"} /\ layer' = layer
      /\ UNCHANGED <<width, passes, failure, mapping, stats, loads, content,
                     committed, wired, closed>>
  BY DEF PlanRoute
<1>7. /\ \A l \in Layers, e \in Experts : served'[l][e] \in {e, Unread}
      /\ served' \in [Layers -> [Experts -> Experts \union {Garbage, Unread}]]
      /\ kernel' = [l \in Layers |-> NoRows]
      /\ kernel' \in [Layers -> Rows]
  BY RunKernelsRight, IInvKernelRows DEF PlanRoute
<1>8. TypeOK'
  <2>1. Cardinality(Evicted(policy[layer], planned)) \in Nat
    BY ExpertSetsFinite DEF Evicted, Resident
  <2>2. plan' \in [route : SUBSET Experts, proposed : Rows,
                   missing : SUBSET Experts, evictions : Nat]
    BY <1>1, <1>3, <1>5, <2>1 DEF Missing
  <2>3. reads' \in [Experts -> Futures]
    BY <1>5 DEF TypeOK
  <2>4. policy' \in [Layers -> Rows]
    BY <1>3, <1>6 DEF TypeOK
  <2>5. asked' \in [Layers -> Nat]
    BY <1>1, <1>6, ExpertSetsFinite DEF TypeOK
  <2> QED
    BY <1>6, <1>7, <2>2, <2>3, <2>4, <2>5 DEF TypeOK
<1>9. PlanInv'
  <2>1. plan'.proposed = policy'[layer]
    BY <1>5, <1>6 DEF TypeOK
  <2> QED
    BY <1>1, <1>2, <1>3, <1>5, <1>6, <2>1
       DEF PlanInv, Missing, Resident, Outstanding, Unknown
<1>10. PolicyInv'
  <2>1. ~Unknown'
    BY <1>2, <1>6 DEF Unknown
  <2> QED
    BY <1>2, <1>3, <1>6, <2>1 DEF PolicyInv, TypeOK, OneExpertPerSlot, Resident
<1>11. PolicyAgreesWithMap'
  <2>1. \A l \in Layers : l # layer => mapping[l] = policy[l]
    BY DEF PolicyAgreesWithMap
  <2>2. \A l \in Layers : policy'[l] = IF l = layer THEN planned ELSE policy[l]
    BY <1>6 DEF TypeOK
  <2> QED
    BY <1>1, <1>2, <1>5, <1>6, <2>1, <2>2 DEF PolicyAgreesWithMap
<1>12. ResidentsHoldTheirBytes'
  <2> SUFFICES ASSUME NEW l \in Layers, NEW e \in Resident(policy'[l])
               PROVE  \/ content[l][policy'[l][e]] = e
                      \/ l = layer /\ e \in plan'.missing /\ reads'[e] # "done"
    BY <1>6 DEF ResidentsHoldTheirBytes, Resident
  <2>1. e \in Experts
    BY DEF Resident
  <2>2. plan.missing = {} /\ failure # "capacity"
    BY <1>2 DEF PlanInv, Outstanding, Unknown
  <2>3. CASE l # layer
    BY <2>3, <2>2, <1>6 DEF ResidentsHoldTheirBytes, TypeOK
  <2>4. CASE l = layer /\ e \in Missing(policy[layer], route)
    BY <2>1, <2>4, <1>5
  <2>5. CASE l = layer /\ e \notin Missing(policy[layer], route)
    <3>1. policy'[l] = planned
      BY <2>5, <1>6 DEF TypeOK
    <3>2. planned[e] = policy[layer][e]
      BY <2>5, <3>1, <1>3
    <3>3. e \in Resident(policy[layer])
      BY <2>1, <3>1, <3>2 DEF Resident
    <3> QED
      BY <2>2, <2>5, <3>1, <3>2, <3>3 DEF ResidentsHoldTheirBytes
  <2> QED
    BY <2>3, <2>4, <2>5
<1>13. KernelInv'
  BY <1>7 DEF KernelInv, NoRows
<1>14. ServedIsRouted'
  BY <1>7 DEF ServedIsRouted
<1> QED
  BY <1>8, <1>9, <1>10, <1>11, <1>12, <1>13, <1>14

\* Submitting a read of a missing expert: it only gets a future.
LEMMA SubmitStep ==
    ASSUME IInv, NEW e \in Experts, SubmitRead(e)
    PROVE  IInv'
<1> USE DEF IInv, bank, gpu
<1>1. /\ reads' = [reads EXCEPT ![e] = "queued"] /\ e \in plan.missing /\ pc = "submit"
      /\ pc' \in {"submit", "join"}
      /\ UNCHANGED <<layer, width, passes, failure, bank, gpu, content, plan, committed,
                     wired, closed>>
  BY DEF SubmitRead, ToSubmit
<1>2. TypeOK'
  BY <1>1 DEF TypeOK, Futures
<1>3. Outstanding /\ committed = 0 /\ ~Unknown
  BY <1>1 DEF PlanInv, Down, TypeOK
<1>4. PlanInv'
  <2>1. \A f \in Experts : reads'[f] # "none" => f \in plan.missing
    BY <1>1 DEF PlanInv, TypeOK
  <2> QED
    BY <1>1, <1>3, <2>1 DEF PlanInv, Outstanding, Unknown
<1>5. PolicyInv' /\ ServedIsRouted' /\ KernelInv'
  BY <1>1 DEF PolicyInv, ServedIsRouted, KernelInv, Outstanding, Unknown
<1>6. PolicyAgreesWithMap'
  BY <1>1 DEF PolicyAgreesWithMap
<1>7. ResidentsHoldTheirBytes'
  <2>1. \A f \in Experts : f \in plan.missing /\ reads'[f] = "done" => reads[f] = "done"
    BY <1>1 DEF TypeOK
  <2> QED
    BY <1>1, <2>1 DEF ResidentsHoldTheirBytes, Resident
<1> QED
  BY <1>2, <1>4, <1>5, <1>6, <1>7

\* A plan misses only experts it routes, so that its counts are no less than zero.
LEMMA PlanCounts ==
    ASSUME IInv
    PROVE  /\ Cardinality(plan.route) \in Nat /\ Cardinality(plan.missing) \in Nat
           /\ Cardinality(plan.route) - Cardinality(plan.missing) \in Nat
<1>1. IsFiniteSet(plan.route) /\ plan.missing \subseteq plan.route
  BY ExpertSetsFinite DEF IInv, PlanInv, TypeOK
<1>2. Cardinality(plan.missing) <= Cardinality(plan.route)
  BY <1>1, FS_Subset
<1> QED
  BY <1>2, ExpertSetsFinite DEF IInv, TypeOK

\* What one update of _finish_refill does to the map and the counters.
LEMMA CommitEffect ==
    ASSUME IInv, CommitStep
    PROVE  /\ pc = "join" /\ committed' = committed + 1 /\ committed \in 0..4
           /\ UNCHANGED <<main, gpu, policy, asked, content, plan, reads, wired, closed>>
           /\ AllRead
           /\ mapping' = IF committed = 1 THEN [mapping EXCEPT ![layer] = plan.proposed]
                         ELSE mapping
           /\ committed = 2 => stats' = [stats EXCEPT ![layer]["hits"] =
                                  @ + (Cardinality(plan.route) - Cardinality(plan.missing))]
           /\ committed = 3 => stats' = [stats EXCEPT ![layer]["misses"] =
                                                            @ + Cardinality(plan.missing)]
           /\ committed = 4 => stats' = [stats EXCEPT ![layer]["evictions"] =
                                                            @ + plan.evictions]
           /\ committed < 2 => stats' = stats
           /\ loads' = IF committed = 0
                       THEN [loads EXCEPT ![PoolOf(layer)] = @ + Cardinality(plan.missing)]
                       ELSE loads
<1> USE DEF Commit
<1>0. committed \in Nat /\ (committed > 0 => AllRead)
  BY DEF IInv, TypeOK, PlanInv
<1>1. CASE RecordLoads
  BY <1>0, <1>1 DEF RecordLoads
<1>2. CASE CommitMap
  BY <1>0, <1>2 DEF CommitMap
<1>3. CASE CountHits
  BY <1>0, <1>3 DEF CountHits, Count
<1>4. CASE CountMisses
  BY <1>0, <1>4 DEF CountMisses, Count
<1>5. CASE CountEvictions
  BY <1>0, <1>5 DEF CountEvictions, Count
<1> QED
  BY <1>1, <1>2, <1>3, <1>4, <1>5 DEF CommitStep

LEMMA CommitKeeps ==
    ASSUME IInv, CommitStep
    PROVE  IInv'
<1> USE DEF IInv, main, gpu
<1>1. /\ pc = "join" /\ committed' = committed + 1 /\ committed \in 0..4
      /\ UNCHANGED <<main, gpu, policy, asked, content, plan, reads, wired, closed>>
      /\ AllRead
      /\ mapping' = IF committed = 1 THEN [mapping EXCEPT ![layer] = plan.proposed]
                    ELSE mapping
  BY CommitEffect
<1>2. Outstanding /\ ~Unknown /\ plan.proposed = policy[layer]
  BY <1>1 DEF PlanInv, Down
<1>3. TypeOK'
  <2>1. /\ Cardinality(plan.missing) \in Nat /\ plan.evictions \in Nat
        /\ Cardinality(plan.route) - Cardinality(plan.missing) \in Nat
    BY PlanCounts DEF TypeOK
  <2>2. stats' \in [Layers -> Stats]
    <3>1. stats[layer] \in Stats /\ layer \in Layers /\ stats \in [Layers -> Stats]
      BY DEF TypeOK
    <3>2. CASE committed < 2
      BY <3>1, <3>2, CommitEffect
    <3>3. CASE committed = 2
      BY <2>1, <3>1, <3>3, CommitEffect DEF Stats
    <3>4. CASE committed = 3
      BY <2>1, <3>1, <3>4, CommitEffect DEF Stats
    <3>5. CASE committed = 4
      BY <2>1, <3>1, <3>5, CommitEffect DEF Stats
    <3> QED
      BY <1>1, <3>2, <3>3, <3>4, <3>5
  <2>3. loads' \in [Pools -> Nat]
    BY <2>1, CommitEffect DEF TypeOK, PoolOf, Pools
  <2>4. mapping' \in [Layers -> Rows] /\ committed' \in 0..5
    BY <1>1 DEF TypeOK
  <2> QED
    BY <1>1, <2>2, <2>3, <2>4 DEF TypeOK
<1>4. PlanInv'
  <2>1. AllRead'
    BY <1>1 DEF AllRead
  <2> QED
    BY <1>1, <1>2, <2>1 DEF PlanInv, Outstanding, Unknown
<1>5. PolicyInv' /\ ServedIsRouted' /\ KernelInv'
  BY <1>1 DEF PolicyInv, ServedIsRouted, KernelInv, Outstanding, Unknown
<1>6. PolicyAgreesWithMap'
  <2>1. \A l \in Layers : l # layer => mapping'[l] = policy[l]
    BY <1>1 DEF PolicyAgreesWithMap, TypeOK
  <2>2. committed >= 1 => mapping'[layer] = policy[layer]
    <3>1. CASE committed = 1
      BY <1>1, <1>2, <3>1 DEF TypeOK
    <3>2. CASE committed > 1
      BY <1>1, <1>2, <3>2 DEF PolicyAgreesWithMap, Unknown, TypeOK
    <3> QED
      BY <3>1, <3>2, <1>1
  <2> QED
    BY <1>1, <1>2, <2>1, <2>2 DEF PolicyAgreesWithMap, Outstanding
<1>7. ResidentsHoldTheirBytes'
  BY <1>1 DEF ResidentsHoldTheirBytes
<1> QED
  BY <1>3, <1>4, <1>5, <1>6, <1>7

LEMMA FinishStep ==
    ASSUME IInv, Finish
    PROVE  IInv'
<1> USE DEF IInv
<1>1. pc' \in {"eval", "route"} /\ layer' \in Layers
  BY SizesAssumption DEF Finish, TypeOK, Layers
<1>2. /\ plan' = NoPlan /\ reads' = NoReads /\ committed' = 0
      /\ kernel' = [kernel EXCEPT ![layer] = Remapped]
      /\ UNCHANGED <<width, passes, failure, bank, served, content, wired, closed>>
  BY DEF Finish
<1>3. AllRead /\ Outstanding /\ plan.proposed = policy[layer] /\ ~Unknown
  BY DEF Finish, PlanInv, Down
<1>4. Remapped \in Rows /\ plan.proposed \in Rows
  BY DEF Remapped, TypeOK, Rows
<1>5. TypeOK'
  <2>1. plan' \in [route : SUBSET Experts, proposed : Rows,
                   missing : SUBSET Experts, evictions : Nat]
    BY <1>2 DEF NoPlan, NoRows, Rows
  <2>2. reads' \in [Experts -> Futures]
    BY <1>2 DEF NoReads, Futures
  <2>3. kernel' \in [Layers -> Rows]
    BY <1>2, <1>4 DEF TypeOK
  <2> QED
    BY <1>1, <1>2, <2>1, <2>2, <2>3 DEF TypeOK, bank
<1>6. PlanInv'
  BY <1>1, <1>2, <1>3 DEF PlanInv, Outstanding, NoPlan, NoReads, Unknown
<1>7. PolicyInv'
  BY <1>2, <1>3 DEF PolicyInv, bank, Unknown
<1>8. \A l \in Layers : mapping[l] = policy[l]
  BY <1>3 DEF PolicyAgreesWithMap, Unknown, Finish
<1>9. PolicyAgreesWithMap'
  <2>1. mapping = policy
    BY <1>8 DEF TypeOK
  <2> QED
    BY <1>2, <2>1 DEF PolicyAgreesWithMap, bank
<1>10. ResidentsHoldTheirBytes'
  <2> SUFFICES ASSUME NEW l \in Layers, NEW e \in Resident(policy[l])
               PROVE  content[l][policy[l][e]] = e
    BY <1>2 DEF ResidentsHoldTheirBytes, Resident, bank
  <2> QED
    BY <1>3 DEF ResidentsHoldTheirBytes, AllRead, Unknown
<1>11. KernelInv'
  <2> SUFFICES ASSUME NEW l \in Layers, NEW e \in Experts, kernel'[l][e] # NoSlot
               PROVE  kernel'[l][e] = policy[l][e]
    BY <1>2, <1>3 DEF KernelInv, Outstanding, NoPlan, bank, Unknown
  <2>1. kernel[l][e] = NoSlot
    BY <1>3 DEF KernelInv
  <2>2. l = layer /\ kernel'[l] = Remapped
    BY <1>2, <2>1 DEF TypeOK
  <2> QED
    BY <1>3, <2>2 DEF Remapped
<1>12. ServedIsRouted'
  BY <1>2 DEF ServedIsRouted
<1> QED
  BY <1>5, <1>6, <1>7, <1>9, <1>10, <1>11, <1>12

-----------------------------------------------------------------------------
(* The workers                                                              *)

\* A read writes the row that the policy gave its expert, no other expert of
\* the layer has that row, and no kernel is queued.
LEMMA ReadOwnsItsRow ==
    ASSUME IInv, NEW e \in Experts, reads[e] # "none"
    PROVE  /\ Outstanding
           /\ e \in plan.missing
           /\ plan.proposed = policy[layer]
           /\ plan.proposed[e] \in Slots
           /\ \A f \in Resident(policy[layer]) :
                  policy[layer][f] = plan.proposed[e] => f = e
           /\ \A l \in Layers, f \in Experts : kernel[l][f] = NoSlot
<1> USE DEF IInv
<1>1. e \in plan.missing /\ e \in plan.route /\ Outstanding
  BY DEF PlanInv, Outstanding
<1>2. plan.proposed = policy[layer]
  BY <1>1 DEF PlanInv
<1>3. e \in Resident(policy[layer])
  BY <1>1, <1>2 DEF PlanInv
<1>4. plan.proposed[e] \in Slots
  BY <1>2, <1>3 DEF Resident, TypeOK, Rows
<1>5. \A f \in Resident(policy[layer]) : policy[layer][f] = plan.proposed[e] => f = e
  <2>1. ~Unknown
    BY <1>1 DEF PlanInv
  <2> QED
    BY <1>2, <1>3, <2>1 DEF PolicyInv, OneExpertPerSlot, TypeOK
<1>6. \A l \in Layers, f \in Experts : kernel[l][f] = NoSlot
  BY <1>1 DEF KernelInv
<1> QED
  BY <1>1, <1>2, <1>4, <1>5, <1>6

\* A step of one read: it writes only its own row, and is done only when the
\* row holds its expert.
LEMMA ReadRowStep ==
    ASSUME IInv, NEW e \in Experts, reads[e] # "none",
           NEW state \in Futures \ {"none"}, NEW bytes \in Experts \union {Garbage},
           state = "done" => bytes = e,
           reads' = [reads EXCEPT ![e] = state],
           \/ Write(plan.proposed[e], bytes)
           \/ content' = content /\ state # "done",
           reads[e] # "done",
           UNCHANGED <<main, bank, gpu, plan, committed, wired, closed>>
    PROVE  IInv'
<1> USE DEF IInv, main, bank, gpu
<1>1. /\ Outstanding /\ e \in plan.missing
      /\ plan.proposed = policy[layer]
      /\ plan.proposed[e] \in Slots
      /\ \A f \in Resident(policy[layer]) :
             policy[layer][f] = plan.proposed[e] => f = e
      /\ \A l \in Layers, f \in Experts : kernel[l][f] = NoSlot
  BY ReadOwnsItsRow
<1>2. TypeOK'
  <2>1. reads' \in [Experts -> Futures]
    BY DEF TypeOK
  <2>2. content' \in [Layers -> [Slots -> Experts \union {Garbage}]]
    <3>1. CASE content' = content
      BY <3>1 DEF TypeOK
    <3>2. CASE content' = [content EXCEPT ![layer][plan.proposed[e]] = bytes]
      <4>1. layer \in Layers /\ content[layer] \in [Slots -> Experts \union {Garbage}]
        BY DEF TypeOK
      <4>2. [content[layer] EXCEPT ![plan.proposed[e]] = bytes]
                \in [Slots -> Experts \union {Garbage}]
        BY <4>1, <1>1
      <4> QED
        BY <3>2, <4>1, <4>2 DEF TypeOK
    <3> QED
      BY <3>1, <3>2 DEF Write
  <2> QED
    BY <2>1, <2>2 DEF TypeOK
<1>3. PlanInv'
  <2>1. committed = 0
    BY <1>1 DEF PlanInv, AllRead, TypeOK
  <2> QED
    BY <1>1, <2>1 DEF PlanInv, Outstanding, Unknown, TypeOK
<1>4. PolicyInv'
  BY DEF PolicyInv, Unknown
<1>5. PolicyAgreesWithMap'
  BY DEF PolicyAgreesWithMap
<1>6. ResidentsHoldTheirBytes'
  <2> SUFFICES ASSUME NEW l \in Layers, NEW f \in Resident(policy[l])
               PROVE  \/ content'[l][policy[l][f]] = f
                      \/ l = layer /\ f \in plan.missing /\ reads'[f] # "done"
                      \/ l = layer /\ failure = "capacity"
    BY DEF ResidentsHoldTheirBytes
  <2>1. f \in Experts /\ policy[l][f] \in Slots
    BY DEF Resident, TypeOK, Rows
  <2>2. CASE l = layer /\ f = e
    BY <1>1, <2>1, <2>2 DEF Write, TypeOK
  <2>3. CASE l # layer \/ f # e
    <3>1. content'[l][policy[l][f]] = content[l][policy[l][f]]
      BY <1>1, <2>1, <2>3 DEF Write, TypeOK
    <3>2. f # e => reads'[f] = reads[f]
      BY <2>1 DEF TypeOK
    <3> QED
      BY <2>3, <3>1, <3>2 DEF ResidentsHoldTheirBytes
  <2> QED
    BY <2>2, <2>3
<1>7. KernelInv'
  BY <1>1 DEF KernelInv
<1>8. ServedIsRouted'
  BY DEF ServedIsRouted
<1> QED
  BY <1>2, <1>3, <1>4, <1>5, <1>6, <1>7, <1>8

LEMMA WorkerStep ==
    ASSUME IInv, NEW e \in Experts, ReadStep(e)
    PROVE  IInv'
<1>1. CASE StartRead(e)
  BY <1>1, ReadRowStep, SentinelAssumption DEF StartRead, Futures
<1>2. CASE EndRead(e)
  BY <1>2, ReadRowStep DEF EndRead, Futures
<1>3. CASE FailRead(e)
  BY <1>3, ReadRowStep DEF FailRead, Futures
<1> QED
  BY <1>1, <1>2, <1>3 DEF ReadStep

-----------------------------------------------------------------------------
(* The theorems                                                             *)

LEMMA NextIInv == IInv /\ [Next]_vars => IInv'
<1> SUFFICES ASSUME IInv, [Next]_vars PROVE IInv'
  OBVIOUS
<1>1. CASE \E l \in Layers, w \in {1, 2} : StartPass(l, w)
  BY <1>1, StartPassStep
<1>2. CASE PassStep
  <2>1. CASE PlanStep
    BY <2>1, PlanRouteStep, PrepareRaisesStep DEF PlanStep
  <2>2. CASE \E e \in Experts : SubmitRead(e)
    BY <2>2, SubmitStep
  <2> QED
    BY <1>2, <2>1, <2>2, CommitKeeps, FinishStep, ControlStep, EvalStep DEF PassStep
<1>3. CASE Raise \/ StartClose
  BY <1>3, ControlStep
<1>4. CASE CloseStep
  BY <1>4, CloseIsQuiet DEF CloseStep
<1>5. CASE \E e \in Experts : ReadStep(e)
  BY <1>5, WorkerStep
<1>6. CASE UNCHANGED vars
  <2> USE <1>6 DEF vars, main, bank, gpu, IInv
  <2>1. TypeOK' /\ PlanInv' /\ PolicyInv'
    BY DEF TypeOK, PlanInv, PolicyInv, Outstanding, Unknown, AllRead
  <2>2. PolicyAgreesWithMap' /\ ResidentsHoldTheirBytes'
    BY DEF PolicyAgreesWithMap, ResidentsHoldTheirBytes
  <2>3. KernelInv' /\ ServedIsRouted'
    BY DEF KernelInv, ServedIsRouted, Outstanding, Unknown
  <2> QED
    BY <2>1, <2>2, <2>3
<1> QED
  BY <1>1, <1>2, <1>3, <1>4, <1>5, <1>6 DEF Next

\* The inductive invariant holds throughout: plan, policy, map, slots and
\* kernels stay in step for any number of layers, slots and workers.
THEOREM Invariance == Spec => []IInv
BY InitIInv, NextIInv, PTL DEF Spec

\* The variables keep their types; in particular the hit counters never go below
\* zero, because a plan misses only experts it routes.
THEOREM TypeCorrect == Spec => []TypeOK
<1>1. IInv => TypeOK
  BY DEF IInv
<1> QED
  BY <1>1, Invariance, PTL

\* Every executed kernel used, for each routed expert, that expert's weights.
THEOREM ServedCorrect == Spec => []ServedIsRouted
<1>1. IInv => ServedIsRouted
  BY DEF IInv
<1> QED
  BY <1>1, Invariance, PTL

\* No refill overwrites a row that a queued kernel has still to read.
THEOREM KernelsKeepTheirRows == Spec => []KernelRowsIntact
BY IInvKernelRows, Invariance, PTL

\* An expert the policy counts as resident has its bytes in its row, unless its
\* own read is still outstanding or has failed, or the policy was left with a
\* route its bank has no room for and the runtime goes down.
THEOREM ResidentsCorrect == Spec => []ResidentsHoldTheirBytes
<1>1. IInv => ResidentsHoldTheirBytes
  BY DEF IInv
<1> QED
  BY <1>1, Invariance, PTL

\* The Python map and the native policy agree between layers and between passes;
\* at the layer in work they differ by the outstanding plan until the map is
\* committed, and by anything after a route that does not fit.
THEOREM MapCorrect == Spec => []PolicyAgreesWithMap
<1>1. IInv => PolicyAgreesWithMap
  BY DEF IInv
<1> QED
  BY <1>1, Invariance, PTL

-----------------------------------------------------------------------------
(* Refinement of ExpertService                                              *)

Demand == [l \in Layers |-> Resident(kernel[l])]
Up == pc \notin {"failed", "closing", "closed"}

LEMMA NoRowsIsNoDemand ==
    ASSUME NEW rows \in Rows
    PROVE  rows = NoRows <=> Resident(rows) = {}
BY DEF Rows, NoRows, Resident

\* Running the kernels is the service's computation, whatever happens next.
LEMMA RunKernelsComputes ==
    ASSUME IInv, RunKernels, Up
    PROVE  Service!Compute
<1>1. kernel \in [Layers -> Rows] /\ KernelRowsIntact
  BY IInvKernelRows DEF IInv, TypeOK
<1>2. ASSUME NEW l \in Layers
      PROVE  served'[l] = IF Demand[l] = {} THEN served[l]
                          ELSE [e \in Experts |-> IF e \in Demand[l] THEN e ELSE Unread]
  <2>1. CASE kernel[l] = NoRows
    BY <1>1, <2>1, NoRowsIsNoDemand DEF RunKernels, Demand
  <2>2. CASE kernel[l] # NoRows
    <3>1. Demand[l] # {}
      BY <1>1, <2>2, NoRowsIsNoDemand DEF Demand
    <3>2. served'[l] = [e \in Experts |-> IF kernel[l][e] = NoSlot THEN Unread
                                          ELSE content[l][kernel[l][e]]]
      BY <2>2 DEF RunKernels
    <3>3. \A e \in Experts : IF kernel[l][e] = NoSlot THEN e \notin Demand[l]
                             ELSE e \in Demand[l] /\ content[l][kernel[l][e]] = e
      BY <1>1 DEF Demand, Resident, KernelRowsIntact
    <3> QED
      BY <3>1, <3>2, <3>3
  <2> QED
    BY <2>1, <2>2
<1>3. served' = [l \in Layers |->
                   IF Demand[l] = {} THEN served[l]
                   ELSE [e \in Experts |-> IF e \in Demand[l] THEN e ELSE Unread]]
  <2>1. served' = [l \in Layers |-> served'[l]]
    BY DEF RunKernels
  <2> QED
    BY <2>1, <1>2
<1>4. Demand' = [l \in Layers |-> {}]
  BY DEF RunKernels, Demand, Resident, NoRows
<1>5. Up' \in BOOLEAN
  BY DEF Up
<1> QED
  BY <1>3, <1>4, <1>5 DEF Service!Compute, Demand, Up

\* Queueing the kernel of a finished plan is the layer's next demand.
LEMMA FinishAsks ==
    ASSUME IInv, Finish
    PROVE  \E l \in Layers, route \in SUBSET Experts : Service!Ask(l, route)
<1> USE DEF IInv
<1>1. /\ layer \in Layers /\ plan.route \in SUBSET Experts
      /\ kernel \in [Layers -> Rows]
  BY DEF TypeOK
<1>2. plan.route # {} /\ plan.route \subseteq Resident(plan.proposed)
  BY DEF Finish, PlanInv, Outstanding
<1>3. \A l \in Layers : Resident(kernel[l]) = {}
  BY <1>2 DEF KernelInv, Outstanding, Resident
<1>4. Resident(Remapped) = plan.route
  BY <1>1, <1>2 DEF Remapped, Resident
<1>5. Demand' = [Demand EXCEPT ![layer] = plan.route]
  <2>1. kernel' = [kernel EXCEPT ![layer] = Remapped]
    BY DEF Finish
  <2>2. \A l \in Layers : Resident(kernel'[l]) =
                             IF l = layer THEN plan.route ELSE Resident(kernel[l])
    BY <1>1, <1>4, <2>1
  <2> QED
    BY <1>1, <2>2 DEF Demand
<1>6. Up /\ Up' /\ served' = served
  BY DEF Finish, Up
<1>7. Service!Ask(layer, plan.route)
  BY <1>1, <1>2, <1>3, <1>5, <1>6 DEF Service!Ask, Demand, Up
<1> QED
  BY <1>1, <1>7

LEMMA ServiceInit == Init => Service!Init
<1> SUFFICES ASSUME Init PROVE Service!Init
  OBVIOUS
<1>1. [l \in Layers |-> Resident(kernel[l])] = [l \in Layers |-> {}]
  BY DEF Init, Resident, NoRows
<1> QED
  BY <1>1 DEF Init, Service!Init

LEMMA ServiceStep == IInv /\ [Next]_vars => [Service!Next]_Service!vars
<1> SUFFICES ASSUME IInv, [Next]_vars PROVE [Service!Next]_Service!vars
  OBVIOUS
<1> USE DEF Service!Next, Service!vars, gpu
<1>1. CASE \E l \in Layers, w \in {1, 2} : StartPass(l, w)
  BY <1>1 DEF StartPass
<1>2. CASE PassStep
  <2>1. CASE Eval
    BY <2>1, RunKernelsComputes DEF Eval, Up
  <2>2. CASE Finish
    BY <2>2, FinishAsks
  <2>3. CASE FinishRaises
    BY <2>3 DEF FinishRaises, Raised, Service!Stop
  <2>4. ASSUME NEW route, NEW planned, PlanRoute(route, planned)
        PROVE  Service!Compute
    BY <2>4, RunKernelsComputes DEF PlanRoute, Up
  <2>5. ASSUME NEW route, PrepareRaises(route)
        PROVE  Service!Compute
    BY <2>5, RunKernelsComputes DEF PrepareRaises, Up
  <2>6. CASE \E e \in Experts : SubmitRead(e)
    BY <2>6 DEF SubmitRead
  <2>7. CASE CommitStep
    BY <2>7, CommitEffect DEF main
  <2> QED
    BY <1>2, <2>1, <2>2, <2>3, <2>4, <2>5, <2>6, <2>7 DEF PassStep, PlanStep
<1>3. CASE Raise
  BY <1>3 DEF Raise, Raised, Service!Stop
<1>4. CASE StartClose
  BY <1>4 DEF StartClose, MayClose, Service!Stop
<1>5. CASE CloseStep
  BY <1>5 DEF CloseStep, CloseLayer, ClosePool, main
<1>6. CASE \E e \in Experts : ReadStep(e)
  BY <1>6 DEF ReadStep, StartRead, EndRead, FailRead, main
<1>7. CASE UNCHANGED vars
  BY <1>7 DEF vars, main
<1> QED
  BY <1>1, <1>2, <1>3, <1>4, <1>5, <1>6, <1>7 DEF Next

\* The slot banks, with their workers, lazy kernels and failures, implement the
\* service that answers every demand with the weights of the routed experts.
THEOREM Refinement == Spec => ImplementsService
BY ServiceInit, ServiceStep, Invariance, PTL DEF Spec, ImplementsService, Service!Spec

-----------------------------------------------------------------------------
(* Counters, and the order of shutdown: two further invariants              *)

\* Banks and pools go down only in close, only an exception leaves reads behind, a
\* pool is shut down once its reads are over, and until the map is committed it
\* names none of the experts that are being read.
ShutdownInv ==
    /\ pc \notin {"closing", "closed"} => wired = Layers /\ closed = {}
    /\ pc \in Down /\ InFlight # {} => failure \in {"read", "raised"}
    /\ PoolOf(layer) \in closed => InFlight = {}
    /\ Outstanding /\ committed < 2 => \A e \in plan.missing : mapping[layer][e] = NoSlot

\* No read without an outstanding plan.
LEMMA NoPlanNoReads ==
    ASSUME IInv, ~Outstanding
    PROVE  InFlight = {}
BY DEF IInv, PlanInv, Outstanding, InFlight

\* A read is under way only before the commit begins.
LEMMA ReadsBeforeCommit ==
    ASSUME IInv, NEW e \in InFlight
    PROVE  Outstanding /\ committed = 0 /\ e \in plan.missing
<1>1. reads[e] \in {"queued", "running"} /\ e \in Experts
  BY DEF InFlight
<1>2. e \in plan.missing /\ Outstanding
  BY <1>1 DEF IInv, PlanInv, Outstanding
<1>3. ~AllRead
  BY <1>1, <1>2 DEF AllRead
<1> QED
  BY <1>2, <1>3 DEF IInv, PlanInv, TypeOK

\* Steps that change neither the plan nor the banks, and start no read.
LEMMA ShutdownKept ==
    ASSUME IInv, ShutdownInv, UNCHANGED <<mapping, plan, committed, wired, closed, layer>>,
           InFlight' \subseteq InFlight,
           pc \in {"closing", "closed"} => pc' \in {"closing", "closed"},
           pc' \in Down /\ InFlight' # {} => failure' \in {"read", "raised"}
    PROVE  ShutdownInv'
BY DEF ShutdownInv, Outstanding

LEMMA PlanRouteShutdown ==
    ASSUME IInv, ShutdownInv, NEW route \in Routes(width),
           NEW planned \in RouteCachePlans(policy[layer], route), PlanRoute(route, planned)
    PROVE  ShutdownInv'
<1>1. /\ plan'.missing = Missing(policy[layer], route) /\ layer' = layer
      /\ pc' \in {"submit", "join"} /\ pc = "route"
      /\ UNCHANGED <<mapping, committed, wired, closed, reads>>
  BY DEF PlanRoute
<1>2. mapping[layer] = policy[layer] /\ InFlight' = {}
  <2>1. InFlight = {}
    BY <1>1, NoPlanNoReads DEF IInv, PlanInv
  <2> QED
    BY <1>1, <2>1 DEF IInv, PolicyAgreesWithMap, InFlight
<1>3. \A e \in plan'.missing : mapping'[layer'][e] = NoSlot
  <2>1. route \in SUBSET Experts
    BY RouteNotEmpty DEF IInv, TypeOK
  <2> QED
    BY <1>1, <1>2, <2>1 DEF Missing, Resident
<1> QED
  BY <1>1, <1>2, <1>3 DEF ShutdownInv, Down

LEMMA ShutdownStep ==
    ASSUME IInv, ShutdownInv, [Next]_vars
    PROVE  ShutdownInv'
<1>1. CASE \E l \in Layers, w \in {1, 2} : StartPass(l, w)
  <2>1. ~Outstanding /\ InFlight' = {} /\ pc' = "route" /\ pc = "idle"
    BY <1>1, NoPlanNoReads DEF StartPass, IInv, PlanInv, InFlight
  <2> QED
    BY <1>1, <2>1 DEF StartPass, ShutdownInv, Outstanding, Down
<1>2. CASE PassStep
  <2>1. CASE Eval
    <3>1. InFlight' = {}
      BY <2>1, NoPlanNoReads DEF Eval, IInv, PlanInv, InFlight
    <3> QED
      BY <2>1, <3>1, ShutdownKept DEF Eval, bank
  <2>2. CASE Finish
    <3>1. InFlight' = {} /\ plan'.missing = {}
      BY <2>2 DEF Finish, InFlight, NoReads, NoPlan
    <3> QED
      BY <2>2, <3>1 DEF Finish, ShutdownInv, Down
  <2>3. CASE FinishRaises
    BY <2>3, ShutdownKept DEF FinishRaises, Raised, bank, InFlight
  <2>4. ASSUME NEW route \in Routes(width), NEW planned \in RouteCachePlans(policy[layer], route),
               PlanRoute(route, planned)
        PROVE  ShutdownInv'
    BY <2>4, PlanRouteShutdown
  <2>5. ASSUME NEW route, PrepareRaises(route)
        PROVE  ShutdownInv'
    <3>1. InFlight' = {}
      BY <2>5, NoPlanNoReads DEF PrepareRaises, IInv, PlanInv, InFlight
    <3> QED
      BY <2>5, <3>1, ShutdownKept DEF PrepareRaises
  <2>6. CASE \E e \in Experts : SubmitRead(e)
    BY <2>6 DEF SubmitRead, ShutdownInv, bank, Outstanding, Down
  <2>7. CASE CommitStep
    <3>1. /\ pc' = pc /\ pc = "join" /\ committed' = committed + 1 /\ committed \in 0..4
          /\ UNCHANGED <<layer, plan, reads, wired, closed>>
          /\ (committed = 0 => mapping' = mapping)
      BY <2>7, CommitEffect DEF main
    <3> QED
      BY <3>1 DEF ShutdownInv, Outstanding, InFlight, Down
  <2> QED
    BY <1>2, <2>1, <2>2, <2>3, <2>4, <2>5, <2>6, <2>7 DEF PassStep, PlanStep
<1>3. CASE Raise
  BY <1>3, ShutdownKept DEF Raise, Raised, bank, InFlight
<1>4. CASE StartClose
  <2>1. InFlight' = InFlight /\ (pc = "idle" => InFlight = {})
    BY <1>4, NoPlanNoReads DEF StartClose, InFlight, IInv, PlanInv
  <2>2. pc' \in Down /\ InFlight' # {} => failure' \in {"read", "raised"}
    BY <1>4, <2>1 DEF StartClose, MayClose, ShutdownInv, Down
  <2> QED
    BY <1>4, <2>1, <2>2, ShutdownKept DEF StartClose, MayClose, bank
<1>5. CASE CloseStep
  <2>1. CASE \E l \in Layers : CloseLayer(l)
    BY <2>1 DEF CloseLayer, main, bank, ShutdownInv, InFlight, Outstanding
  <2>2. CASE \E p \in Pools : ClosePool(p)
    <3>1. PICK p \in Pools : ClosePool(p)
      BY <2>2
    <3>2. InFlight' = InFlight /\ (PoolOf(layer)' \in closed' => InFlight = {})
      BY <3>1 DEF ClosePool, WorkersIdle, ShutdownInv, InFlight, PoolOf
    <3> QED
      BY <3>1, <3>2 DEF ClosePool, ShutdownInv, Outstanding, bank, Down
  <2> QED
    BY <1>5, <2>1, <2>2 DEF CloseStep
<1>6. CASE \E e \in Experts : ReadStep(e)
  <2>1. InFlight' \subseteq InFlight
    BY <1>6 DEF ReadStep, StartRead, EndRead, FailRead, InFlight, IInv, TypeOK
  <2>2. UNCHANGED <<main, bank, plan, committed, wired, closed>>
    BY <1>6 DEF ReadStep, StartRead, EndRead, FailRead
  <2> QED
    BY <2>1, <2>2, ShutdownKept DEF main, bank, ShutdownInv
<1>7. CASE UNCHANGED vars
  BY <1>7, ShutdownKept DEF vars, main, bank, ShutdownInv, InFlight
<1> QED
  BY <1>1, <1>2, <1>3, <1>4, <1>5, <1>6, <1>7 DEF Next

\* A bank is unwired under a running read only when a failed read or another
\* exception cut the pass short; its pool is then open, and the map does not name
\* the row that is written.
THEOREM ShutdownCorrect == Spec => []UnwiredUnderReadOnlyAfterFailure
<1>1. Init => ShutdownInv
  BY DEF Init, ShutdownInv, Outstanding, NoPlan, Down
<1>2. IInv /\ ShutdownInv => UnwiredUnderReadOnlyAfterFailure
  <2> SUFFICES ASSUME IInv, ShutdownInv, layer \notin wired, InFlight # {}
               PROVE  /\ failure \in {"read", "raised"}
                      /\ PoolOf(layer) \notin closed
                      /\ \A e \in InFlight : mapping[layer][e] = NoSlot
    BY DEF UnwiredUnderReadOnlyAfterFailure
  <2>1. pc \in Down
    BY DEF IInv, TypeOK, ShutdownInv, Down
  <2>2. \A e \in InFlight : mapping[layer][e] = NoSlot
    BY ReadsBeforeCommit DEF ShutdownInv
  <2> QED
    BY <2>1, <2>2 DEF ShutdownInv
<1> QED
  BY <1>1, <1>2, ShutdownStep, Invariance, PTL DEF Spec

\* A set of numbers that holds 0 and the successor of each of its numbers holds
\* them all: otherwise there is a least one it does not hold.
LEMMA SetInduction ==
    ASSUME NEW S \in SUBSET Nat, 0 \in S, \A n \in S : n + 1 \in S
    PROVE  S = Nat
<1> DEFINE R == {ss \in Nat \X Nat : ss[1] < ss[2]}
           T == Nat \ S
<1>1. IsWellFoundedOn(R, Nat)
  BY NatLessThanWellFounded DEF OpToRel
<1>2. ASSUME T # {} PROVE FALSE
  <2>1. T \subseteq Nat
    OBVIOUS
  <2> HIDE DEF R, T
  <2>2. PICK m \in T : \A k \in T : <<k, m>> \notin R
    BY <1>1, <1>2, <2>1, WFMin
  <2> USE DEF T
  <2>3. m \in Nat \ {0} /\ m - 1 \in Nat /\ m - 1 + 1 = m
    BY <2>2
  <2>4. m - 1 \notin S
    BY <2>2, <2>3
  <2>5. <<m - 1, m>> \in R
    BY <2>3 DEF R
  <2> QED
    BY <2>2, <2>3, <2>4, <2>5
<1> QED
  BY <1>2

\* f adds up the numbers of m, layer by layer.
AddsUpTo(f, m, k) == f = [l \in 0..k |-> IF l = 0 THEN 0 ELSE f[l - 1] + m[l]]
AddsUp(f, m) == AddsUpTo(f, m, NTarget)

\* Such sums exist.
LEMMA SumsExist ==
    ASSUME NEW m \in [1..NTarget -> Nat]
    PROVE  \E f : AddsUp(f, m)
<1> DEFINE S == {k \in Nat : k <= NTarget => \E f \in [0..k -> Nat] : AddsUpTo(f, m, k)}
<1>1. 0 \in S
  <2> DEFINE f == [l \in 0..0 |-> 0]
  <2>1. f \in [0..0 -> Nat] /\ AddsUpTo(f, m, 0)
    BY DEF AddsUpTo
  <2> QED
    BY <2>1
<1>2. ASSUME NEW k \in S PROVE k + 1 \in S
  <2> SUFFICES ASSUME k + 1 <= NTarget
               PROVE  \E g \in [0..(k + 1) -> Nat] : AddsUpTo(g, m, k + 1)
    OBVIOUS
  <2>1. PICK f \in [0..k -> Nat] : AddsUpTo(f, m, k)
    BY SizesAssumption
  <2> DEFINE g == [l \in 0..(k + 1) |-> IF l = k + 1 THEN f[k] + m[k + 1] ELSE f[l]]
  <2>2. k \in Nat /\ k + 1 \in 1..NTarget /\ m[k + 1] \in Nat /\ f[k] \in Nat
    BY SizesAssumption
  <2>3. g \in [0..(k + 1) -> Nat]
    BY <2>2
  <2>4. ASSUME NEW l \in 0..(k + 1)
        PROVE  g[l] = IF l = 0 THEN 0 ELSE g[l - 1] + m[l]
    <3>1. CASE l = k + 1
      BY <2>2, <3>1
    <3>2. CASE l # k + 1
      <4>1. l \in 0..k /\ g[l] = f[l]
        BY <2>2, <3>2
      <4>2. f[l] = IF l = 0 THEN 0 ELSE f[l - 1] + m[l]
        BY <2>1, <4>1 DEF AddsUpTo
      <4>3. l # 0 => g[l - 1] = f[l - 1]
        BY <2>2, <4>1
      <4> QED
        BY <4>1, <4>2, <4>3
    <3> QED
      BY <3>1, <3>2
  <2>5. AddsUpTo(g, m, k + 1)
    BY <2>4 DEF AddsUpTo
  <2> QED
    BY <2>3, <2>5
<1>3. S \in SUBSET Nat
  OBVIOUS
<1> HIDE DEF S
<1>4. S = Nat
  BY <1>1, <1>2, <1>3, SetInduction
<1>5. NTarget \in S
  BY <1>4, SizesAssumption
<1> QED
  BY <1>5, SizesAssumption DEF S, AddsUp

\* A sum is a number, and grows with one of its terms.
GrownAt(m, m2, j, d) == \A l \in 1..NTarget : m2[l] = m[l] + (IF l = j THEN d ELSE 0)
Apart(f, g, d) == g[NTarget] = f[NTarget] + d

LEMMA SumGrows ==
    ASSUME NEW m \in [1..NTarget -> Nat], NEW m2 \in [1..NTarget -> Nat],
           NEW j \in 1..NTarget, NEW d \in Nat, GrownAt(m, m2, j, d),
           NEW f, AddsUp(f, m), NEW g, AddsUp(g, m2)
    PROVE  Apart(f, g, d)
<1> USE DEF GrownAt, Apart
<1> DEFINE Extra(k) == IF k >= j THEN d ELSE 0
           S == {k \in Nat : k <= NTarget => f[k] \in Nat /\ g[k] = f[k] + Extra(k)}
<1>1. \A k \in 0..NTarget : /\ f[k] = IF k = 0 THEN 0 ELSE f[k - 1] + m[k]
                            /\ g[k] = IF k = 0 THEN 0 ELSE g[k - 1] + m2[k]
  BY DEF AddsUp, AddsUpTo
<1>2. 0 \in S
  BY <1>1, SizesAssumption
<1>3. ASSUME NEW k \in S PROVE k + 1 \in S
  <2> SUFFICES ASSUME k + 1 <= NTarget
               PROVE  f[k + 1] \in Nat /\ g[k + 1] = f[k + 1] + Extra(k + 1)
    OBVIOUS
  <2>1. k \in Nat /\ k + 1 \in 0..NTarget /\ k + 1 # 0 /\ k + 1 - 1 = k /\ k + 1 \in 1..NTarget
    BY SizesAssumption
  <2>2. f[k] \in Nat /\ g[k] = f[k] + Extra(k)
    BY <2>1, SizesAssumption
  <2>3. f[k + 1] = f[k] + m[k + 1] /\ g[k + 1] = g[k] + m2[k + 1]
    BY <1>1, <2>1
  <2>4. m[k + 1] \in Nat /\ m2[k + 1] = m[k + 1] + (IF k + 1 = j THEN d ELSE 0)
    BY <2>1
  <2> QED
    BY <2>1, <2>2, <2>3, <2>4
<1>4. S \in SUBSET Nat
  OBVIOUS
<1>5. S = Nat
  <2> HIDE DEF S
  <2> QED
    BY <1>2, <1>3, <1>4, SetInduction
<1> QED
  BY <1>5, SizesAssumption

\* MissesUpTo adds up the misses, before and after a step.
Misses == [l \in 1..NTarget |-> stats[l].misses]

LEMMA MissesAddUp == TypeOK => AddsUp(MissesUpTo, Misses) /\ Misses \in [1..NTarget -> Nat]
<1> SUFFICES ASSUME TypeOK
             PROVE  AddsUp(MissesUpTo, Misses) /\ Misses \in [1..NTarget -> Nat]
  OBVIOUS
<1>1. Misses \in [1..NTarget -> Nat]
  BY SizesAssumption DEF TypeOK, Misses, Stats, Layers
<1>2. PICK f : AddsUp(f, Misses)
  BY <1>1, SumsExist
<1>3. f = [l \in 0..NTarget |-> IF l = 0 THEN 0 ELSE f[l - 1] + stats[l].misses]
  <2>1. \A l \in 0..NTarget : l # 0 => Misses[l] = stats[l].misses
    BY SizesAssumption DEF Misses
  <2> QED
    BY <1>2, <2>1 DEF AddsUp, AddsUpTo
<1>4. MissesUpTo = [l \in 0..NTarget |-> IF l = 0 THEN 0 ELSE MissesUpTo[l - 1] + stats[l].misses]
  BY <1>3 DEF MissesUpTo
<1>5. AddsUp(MissesUpTo, Misses)
  <2>1. \A l \in 0..NTarget : l # 0 => Misses[l] = stats[l].misses
    BY SizesAssumption DEF Misses
  <2> HIDE DEF MissesUpTo
  <2> QED
    BY <1>4, <2>1 DEF AddsUp, AddsUpTo
<1> QED
  BY <1>1, <1>5

LEMMA MissesAddUpNext == TypeOK' => AddsUp(MissesUpTo', Misses') /\ Misses' \in [1..NTarget -> Nat]
<1> SUFFICES ASSUME TypeOK'
             PROVE  AddsUp(MissesUpTo', Misses') /\ Misses' \in [1..NTarget -> Nat]
  OBVIOUS
<1>1. Misses' \in [1..NTarget -> Nat]
  BY SizesAssumption DEF TypeOK, Misses, Stats, Layers
<1>2. PICK f : AddsUp(f, Misses')
  BY <1>1, SumsExist
<1>3. f = [l \in 0..NTarget |-> IF l = 0 THEN 0 ELSE f[l - 1] + stats'[l].misses]
  <2>1. \A l \in 0..NTarget : l # 0 => Misses'[l] = stats'[l].misses
    BY SizesAssumption DEF Misses
  <2> QED
    BY <1>2, <2>1 DEF AddsUp, AddsUpTo
<1>4. MissesUpTo' = [l \in 0..NTarget |-> IF l = 0 THEN 0 ELSE MissesUpTo'[l - 1] + stats'[l].misses]
  BY <1>3 DEF MissesUpTo
<1>5. AddsUp(MissesUpTo', Misses')
  <2>1. \A l \in 0..NTarget : l # 0 => Misses'[l] = stats'[l].misses
    BY SizesAssumption DEF Misses
  <2> HIDE DEF MissesUpTo
  <2> QED
    BY <1>4, <2>1 DEF AddsUp, AddsUpTo
<1> QED
  BY <1>1, <1>5

\* The sums are numbers.
LEMMA MissesInNat ==
    ASSUME TypeOK
    PROVE  MissesUpTo[NTarget] \in Int
<1> DEFINE S == {k \in Nat : k <= NTarget => MissesUpTo[k] \in Nat}
<1>1. Misses \in [1..NTarget -> Nat] /\ AddsUp(MissesUpTo, Misses)
  BY MissesAddUp
<1>2. \A k \in 0..NTarget : MissesUpTo[k] = IF k = 0 THEN 0 ELSE MissesUpTo[k - 1] + Misses[k]
  <2> HIDE DEF MissesUpTo
  <2> QED
    BY <1>1 DEF AddsUp, AddsUpTo
<1> HIDE DEF MissesUpTo
<1>3. 0 \in S
  BY <1>2, SizesAssumption
<1>4. ASSUME NEW k \in S PROVE k + 1 \in S
  <2>1. k + 1 <= NTarget => /\ k + 1 \in 0..NTarget /\ k + 1 # 0 /\ k + 1 - 1 = k
                            /\ Misses[k + 1] \in Nat /\ k <= NTarget
    BY <1>1, SizesAssumption
  <2> QED
    BY <1>2, <2>1
<1>5. S \in SUBSET Nat
  OBVIOUS
<1>6. S = Nat
  <2> HIDE DEF S
  <2> QED
    BY <1>3, <1>4, <1>5, SetInduction
<1> QED
  BY <1>6, SizesAssumption

\* What is counted so far of the outstanding plan, and what it will have done to
\* the number of residents.
PlanAccount ==
    /\ Cardinality(Resident(plan.proposed))
          = stats[layer].misses - stats[layer].evictions
            + (IF committed >= 4 THEN 0 ELSE Cardinality(plan.missing))
            - (IF committed = 5 THEN 0 ELSE plan.evictions)
    /\ stats[layer].hits + stats[layer].misses
          = asked[layer] - Cardinality(plan.route)
            + (IF committed >= 3 THEN Cardinality(plan.route) - Cardinality(plan.missing) ELSE 0)
            + (IF committed >= 4 THEN Cardinality(plan.missing) ELSE 0)

AccountInv ==
    /\ ExactAccounting
    /\ Outstanding => PlanAccount

\* Without a plan nothing is unfinished, uncounted or torn.
LEMMA NothingPlanned ==
    ASSUME IInv, ~Outstanding
    PROVE  /\ \A l \in Layers : ~Torn(l) /\ Unfinished(l) = 0
           /\ \A pool \in Pools : Uncounted(pool) = 0
<1>1. Cardinality(plan.route) = 0
  BY FS_EmptySet DEF Outstanding
<1>2. committed = 0
  BY DEF IInv, PlanInv, TypeOK
<1> QED
  BY <1>1, <1>2 DEF Torn, Unfinished, Uncounted

\* Steps that leave the counters and the plan alone, and raise in the middle of
\* the commit only as such.
LEMMA AccountKept ==
    ASSUME AccountInv, UNCHANGED <<mapping, stats, loads, asked, plan, committed, layer>>,
           Torn(layer) /\ pc' # "join" => failure' = "raised"
    PROVE  AccountInv'
<1>1. MissesUpTo' = MissesUpTo
  BY DEF MissesUpTo
<1>2. ExactAccounting'
  BY <1>1 DEF AccountInv, ExactAccounting, Torn, Unfinished, Uncounted
<1>3. PlanAccount => PlanAccount'
  BY DEF PlanAccount
<1> QED
  BY <1>2, <1>3 DEF AccountInv, Outstanding

\* A plan brings in the missing experts, and takes out the evicted ones.
LEMMA PlannedResidents ==
    ASSUME NEW rows \in Rows, NEW route \in SUBSET Experts,
           NEW planned \in RouteCachePlans(rows, route)
    PROVE  Cardinality(Resident(planned))
              = Cardinality(Resident(rows)) + Cardinality(Missing(rows, route))
                - Cardinality(Evicted(rows, planned))
<1> DEFINE old == Resident(rows)
           new == Resident(planned)
           missing == Missing(rows, route)
           evicted == Evicted(rows, planned)
<1>1. /\ planned \in Rows /\ route \subseteq new
      /\ \A e \in new \ missing : planned[e] = rows[e]
  BY RouteCachePlansType
<1>2. old \in SUBSET Experts /\ new \in SUBSET Experts /\ missing \in SUBSET Experts
      /\ evicted \in SUBSET Experts
  BY DEF Resident, Missing, Evicted
<1>3. \A e \in new \ missing : e \in old
  BY <1>1 DEF Resident
<1>4. new = (old \ evicted) \union missing /\ (old \ evicted) \cap missing = {}
      /\ evicted \subseteq old
  BY <1>1, <1>3 DEF Missing, Evicted
<1> HIDE DEF old, new, missing, evicted
<1>5. /\ IsFiniteSet(old) /\ IsFiniteSet(evicted) /\ IsFiniteSet(missing)
      /\ Cardinality(old) \in Nat /\ Cardinality(evicted) \in Nat /\ Cardinality(missing) \in Nat
  BY <1>2, ExpertSetsFinite
<1>6. /\ IsFiniteSet(old \ evicted)
      /\ Cardinality(old \ evicted) = Cardinality(old) - Cardinality(old \cap evicted)
  BY <1>5, FS_Difference
<1>7. old \cap evicted = evicted
  BY <1>4
<1>8. Cardinality((old \ evicted) \union missing)
        = Cardinality(old \ evicted) + Cardinality(missing)
          - Cardinality((old \ evicted) \cap missing)
  BY <1>5, <1>6, FS_Union
<1>9. Cardinality({}) = 0
  BY FS_EmptySet
<1>10. Cardinality(old \ evicted) = Cardinality(old) - Cardinality(evicted)
  BY <1>6, <1>7
<1>11. Cardinality(new) = Cardinality(old \ evicted) + Cardinality(missing) - 0
  BY <1>4, <1>8, <1>9
<1>12. Cardinality(new) = Cardinality(old) + Cardinality(missing) - Cardinality(evicted)
  BY <1>5, <1>10, <1>11
<1> QED
  BY <1>12 DEF old, new, missing, evicted

LEMMA PlanRouteAccount ==
    ASSUME IInv, AccountInv, NEW route \in Routes(width),
           NEW planned \in RouteCachePlans(policy[layer], route), PlanRoute(route, planned)
    PROVE  AccountInv'
<1>1. ~Outstanding /\ pc = "route"
  BY DEF IInv, PlanInv, PlanRoute
<1>2. route \in SUBSET Experts /\ route # {} /\ Cardinality(route) \in Nat /\ layer \in Layers
  BY RouteNotEmpty, ExpertSetsFinite DEF IInv, TypeOK
<1>3. mapping[layer] = policy[layer] /\ policy[layer] \in Rows
  BY <1>1 DEF IInv, PolicyAgreesWithMap, TypeOK
<1>4. Proposed(route, planned) = planned
  BY <1>2, <1>3, ProposedIsPlanned DEF IInv
<1>5. /\ plan'.proposed = planned /\ plan'.missing = Missing(policy[layer], route)
      /\ plan'.evictions = Cardinality(Evicted(policy[layer], planned)) /\ plan'.route = route
      /\ asked' = [asked EXCEPT ![layer] = @ + Cardinality(route)]
      /\ UNCHANGED <<mapping, stats, loads, layer, committed>>
  BY <1>4 DEF PlanRoute
<1>6. committed = 0 /\ \A l \in Layers : Unfinished(l) = 0
  BY <1>1, NothingPlanned DEF IInv, PlanInv, TypeOK
<1>7. \A l \in Layers : asked'[l] = IF l = layer THEN asked[l] + Cardinality(route) ELSE asked[l]
  BY <1>5 DEF IInv, TypeOK
<1>8. \A l \in Layers : Unfinished(l)' = IF l = layer THEN Cardinality(route) ELSE 0
  BY <1>5, <1>6 DEF Unfinished
<1>9. ASSUME NEW l \in Layers
      PROVE  /\ Cardinality(Resident(mapping'[l])) = stats'[l].misses - stats'[l].evictions
             /\ stats'[l].hits + stats'[l].misses = asked'[l] - Unfinished(l)'
  <2>1. /\ Cardinality(Resident(mapping[l])) = stats[l].misses - stats[l].evictions
        /\ stats[l].hits + stats[l].misses = asked[l] - Unfinished(l)
    BY <1>6 DEF AccountInv, ExactAccounting, Torn
  <2>2. asked[l] \in Nat /\ Unfinished(l) = 0
    BY <1>6 DEF IInv, TypeOK
  <2>3. asked'[l] - Unfinished(l)' = asked[l]
    BY <1>2, <1>7, <1>8, <2>2
  <2> QED
    BY <1>5, <2>1, <2>2, <2>3
<1>10. ExactAccounting'
  <2>1. MissesUpTo' = MissesUpTo
    BY <1>5 DEF MissesUpTo
  <2>2. Uncounted("mtp")' = Uncounted("mtp") /\ Uncounted("target")' = Uncounted("target")
    BY <1>5, <1>6 DEF Uncounted
  <2>3. ~Torn(layer)'
    BY <1>5, <1>6 DEF Torn
  <2> QED
    BY <1>5, <1>9, <2>1, <2>2, <2>3 DEF AccountInv, ExactAccounting
<1>11. PlanAccount'
  <2>1. Cardinality(Resident(planned))
          = Cardinality(Resident(policy[layer])) + Cardinality(Missing(policy[layer], route))
            - Cardinality(Evicted(policy[layer], planned))
    BY <1>2, <1>3, PlannedResidents
  <2>2. /\ Cardinality(Missing(policy[layer], route)) \in Nat
        /\ Cardinality(Evicted(policy[layer], planned)) \in Nat
    BY <1>2, ExpertSetsFinite DEF Missing, Evicted, Resident
  <2>3. (Cardinality(Resident(plan.proposed))
            = stats[layer].misses - stats[layer].evictions
              + Cardinality(plan.missing) - plan.evictions)'
    BY <1>2, <1>3, <1>5, <1>9, <2>1, <2>2
  <2>4. asked'[layer] \in Nat /\ Cardinality(plan'.route) = Unfinished(layer)'
    BY <1>2, <1>5, <1>7, <1>8 DEF IInv, TypeOK
  <2>5. (stats[layer].hits + stats[layer].misses = asked[layer] - Cardinality(plan.route))'
    BY <1>2, <1>5, <1>9, <2>4
  <2> QED
    BY <1>2, <1>5, <1>6, <1>7, <2>2, <2>3, <2>4, <2>5 DEF PlanAccount
<1> QED
  BY <1>10, <1>11 DEF AccountInv

\* Between two plans everything is counted, whatever the next layer is.
LEMMA AccountSettled ==
    ASSUME IInv, AccountInv, committed \in {0, 5}, committed = 0 => ~Outstanding,
           plan'.route = {}, committed' = 0, UNCHANGED <<mapping, stats, loads, asked>>
    PROVE  AccountInv'
<1>1. \A l \in Layers : ~Torn(l) /\ Unfinished(l) = 0
  BY NothingPlanned DEF Torn, Unfinished
<1>2. \A pool \in Pools : Uncounted(pool) = 0 /\ Uncounted(pool)' = 0
  BY DEF Uncounted
<1>3. Cardinality({}) = 0
  BY FS_EmptySet
<1>4. \A l \in Layers : Unfinished(l)' = 0
  BY <1>3 DEF Unfinished
<1>5. MissesUpTo' = MissesUpTo
  BY DEF MissesUpTo
<1>6. \A l \in Layers :
        /\ Cardinality(Resident(mapping'[l])) = stats'[l].misses - stats'[l].evictions
        /\ stats'[l].hits + stats'[l].misses = asked'[l] - Unfinished(l)'
  BY <1>1, <1>4 DEF AccountInv, ExactAccounting
<1>7. "mtp" \in Pools /\ "target" \in Pools
  BY DEF Pools
<1>8. /\ loads'["mtp"] = stats'[MTPLayer].misses + Uncounted("mtp")'
      /\ loads'["target"] = MissesUpTo'[NTarget] + Uncounted("target")'
  BY <1>2, <1>5, <1>7 DEF AccountInv, ExactAccounting
<1>9. ~Torn(layer)'
  BY DEF Torn
<1> QED
  BY <1>6, <1>8, <1>9 DEF AccountInv, ExactAccounting, Outstanding

\* The three counters of the layer after one update.
LEMMA CommitCounts ==
    ASSUME IInv, CommitStep
    PROVE  /\ stats'[layer].hits = IF committed = 2
                  THEN stats[layer].hits + (Cardinality(plan.route) - Cardinality(plan.missing))
                  ELSE stats[layer].hits
           /\ stats'[layer].misses = IF committed = 3
                  THEN stats[layer].misses + Cardinality(plan.missing)
                  ELSE stats[layer].misses
           /\ stats'[layer].evictions = IF committed = 4
                  THEN stats[layer].evictions + plan.evictions
                  ELSE stats[layer].evictions
           /\ \A l \in Layers : l # layer => stats'[l] = stats[l]
<1>1. stats[layer] \in Stats /\ layer \in Layers /\ stats \in [Layers -> Stats]
  BY DEF IInv, TypeOK
<1>2. committed \in 0..4
  BY CommitEffect
<1>3. CASE committed < 2
  BY <1>1, <1>3, CommitEffect
<1>4. CASE committed = 2
  BY <1>1, <1>4, CommitEffect DEF Stats
<1>5. CASE committed = 3
  BY <1>1, <1>5, CommitEffect DEF Stats
<1>6. CASE committed = 4
  BY <1>1, <1>6, CommitEffect DEF Stats
<1> QED
  BY <1>2, <1>3, <1>4, <1>5, <1>6

LEMMA CommitPlanAccount ==
    ASSUME IInv, PlanAccount, CommitStep
    PROVE  PlanAccount'
<1>1. /\ committed \in 0..4 /\ committed' = committed + 1
      /\ UNCHANGED <<layer, plan, asked>>
  BY CommitEffect DEF main
<1>2. PICK r \in Nat, m \in Nat, v \in Nat, a \in Nat :
          r = Cardinality(plan.route) /\ m = Cardinality(plan.missing)
          /\ v = plan.evictions /\ a = asked[layer]
  BY PlanCounts DEF IInv, TypeOK
<1>3. PICK h \in Nat, i \in Nat, e \in Nat :
          h = stats[layer].hits /\ i = stats[layer].misses /\ e = stats[layer].evictions
  BY DEF IInv, TypeOK, Stats
<1>4. /\ stats'[layer].hits = IF committed = 2 THEN h + (r - m) ELSE h
      /\ stats'[layer].misses = IF committed = 3 THEN i + m ELSE i
      /\ stats'[layer].evictions = IF committed = 4 THEN e + v ELSE e
  BY <1>2, <1>3, CommitCounts
<1>5. Cardinality(Resident(plan.proposed))
        = i - e + (IF committed >= 4 THEN 0 ELSE m) - (IF committed = 5 THEN 0 ELSE v)
  BY <1>2, <1>3 DEF PlanAccount
<1>6. h + i = a - r + (IF committed >= 3 THEN r - m ELSE 0) + (IF committed >= 4 THEN m ELSE 0)
  BY <1>2, <1>3 DEF PlanAccount
<1>7. (Cardinality(Resident(plan.proposed))
         = stats[layer].misses - stats[layer].evictions
           + (IF committed >= 4 THEN 0 ELSE m) - (IF committed = 5 THEN 0 ELSE v))'
  BY <1>1, <1>4, <1>5
<1>8. (stats[layer].hits + stats[layer].misses
         = a - r + (IF committed >= 3 THEN r - m ELSE 0) + (IF committed >= 4 THEN m ELSE 0))'
  BY <1>1, <1>4, <1>6
<1> QED
  BY <1>1, <1>2, <1>7, <1>8 DEF PlanAccount

\* The sum over the target's layers grows by the misses of the layer in work, if
\* that is one of the target's.
LEMMA MissesGrow ==
    ASSUME TypeOK, TypeOK', NEW d \in Nat,
           \A l \in Layers : stats'[l].misses = IF l = layer THEN stats[l].misses + d
                                                ELSE stats[l].misses
    PROVE  MissesUpTo'[NTarget] = IF layer = MTPLayer THEN MissesUpTo[NTarget]
                                  ELSE MissesUpTo[NTarget] + d
<1>1. CASE layer = MTPLayer
  <2>1. \A l \in 0..NTarget : l # 0 => stats'[l].misses = stats[l].misses
    BY <1>1, SizesAssumption DEF Layers, MTPLayer
  <2>2. \A f : [l \in 0..NTarget |-> IF l = 0 THEN 0 ELSE f[l - 1] + stats'[l].misses]
             = [l \in 0..NTarget |-> IF l = 0 THEN 0 ELSE f[l - 1] + stats[l].misses]
    BY <2>1
  <2>3. MissesUpTo' = MissesUpTo
    BY <2>2 DEF MissesUpTo
  <2> QED
    BY <1>1, <2>3
<1>2. CASE layer # MTPLayer
  <2>1. /\ AddsUp(MissesUpTo, Misses) /\ AddsUp(MissesUpTo', Misses')
        /\ Misses \in [1..NTarget -> Nat] /\ Misses' \in [1..NTarget -> Nat]
    BY MissesAddUp, MissesAddUpNext
  <2>2. layer \in 1..NTarget
    BY <1>2, SizesAssumption DEF Layers, MTPLayer, TypeOK
  <2>3. Misses' = [Misses EXCEPT ![layer] = Misses[layer] + d]
    <3>1. \A l \in 1..NTarget : stats'[l].misses = IF l = layer THEN stats[l].misses + d
                                                   ELSE stats[l].misses
      BY SizesAssumption DEF Layers
    <3> QED
      BY <2>2, <3>1 DEF Misses
  <2>4. PICK m \in [1..NTarget -> Nat], m2 \in [1..NTarget -> Nat], j \in 1..NTarget :
            m = Misses /\ m2 = Misses' /\ j = layer
    BY <2>1, <2>2
  <2>5. GrownAt(m, m2, j, d)
    BY <2>3, <2>4 DEF GrownAt
  <2>6. \A f, g : AddsUp(f, m) /\ AddsUp(g, m2) => Apart(f, g, d)
    <3>1. ASSUME NEW f, NEW g, AddsUp(f, m), AddsUp(g, m2)
          PROVE  Apart(f, g, d)
      BY <2>5, <3>1, SumGrows
    <3> QED
      BY <3>1
  <2>7. Apart(MissesUpTo, MissesUpTo', d)
    BY <2>1, <2>4, <2>6
  <2> QED
    BY <1>2, <2>7 DEF Apart
<1> QED
  BY <1>1, <1>2

LEMMA CommitAccount ==
    ASSUME IInv, AccountInv, CommitStep
    PROVE  AccountInv'
<1>1. /\ pc = "join" /\ committed' = committed + 1 /\ committed \in 0..4
      /\ UNCHANGED <<main, policy, asked, plan>>
      /\ mapping' = IF committed = 1 THEN [mapping EXCEPT ![layer] = plan.proposed] ELSE mapping
      /\ loads' = IF committed = 0
                  THEN [loads EXCEPT ![PoolOf(layer)] = @ + Cardinality(plan.missing)]
                  ELSE loads
  BY CommitEffect
<1>2. Outstanding /\ ~Unknown /\ layer \in Layers /\ TypeOK /\ TypeOK'
  BY <1>1, CommitKeeps DEF IInv, PlanInv, Down, TypeOK
<1>3. PlanAccount /\ PlanAccount'
  BY <1>2, CommitPlanAccount DEF AccountInv
<1>4. pc' = pc /\ layer' = layer
  BY <1>1 DEF main
<1>5. ASSUME NEW l \in Layers, ~Torn(l)'
      PROVE  /\ Cardinality(Resident(mapping'[l])) = stats'[l].misses - stats'[l].evictions
             /\ stats'[l].hits + stats'[l].misses = asked'[l] - Unfinished(l)'
  <2>1. CASE l # layer
    <3>1. stats'[l] = stats[l] /\ mapping'[l] = mapping[l] /\ asked'[l] = asked[l]
      BY <1>1, <1>2, <2>1, CommitCounts DEF TypeOK
    <3>2. ~Torn(l) /\ Unfinished(l)' = Unfinished(l)
      BY <1>4, <2>1 DEF Torn, Unfinished
    <3> QED
      BY <3>1, <3>2 DEF AccountInv, ExactAccounting
  <2>2. CASE l = layer
    <3>1. committed = 4
      BY <1>1, <1>4, <1>5, <2>2 DEF Torn
    <3>2. mapping'[l] = plan'.proposed
      BY <1>1, <1>2, <2>2, <3>1 DEF IInv, PlanInv, PolicyAgreesWithMap, Unknown
    <3>3. Unfinished(l)' = 0
      BY <1>1, <3>1 DEF Unfinished
    <3>4. /\ asked'[l] \in Nat /\ stats'[l].misses \in Nat /\ stats'[l].evictions \in Nat
          /\ Cardinality(plan'.route) \in Nat /\ Cardinality(plan'.missing) \in Nat
          /\ stats'[l].hits \in Nat
      BY <1>1, <1>2, PlanCounts DEF TypeOK, Stats
    <3>5. /\ Cardinality(Resident(plan'.proposed)) = stats'[l].misses - stats'[l].evictions
          /\ stats'[l].hits + stats'[l].misses = asked'[l]
      BY <1>1, <1>3, <1>4, <2>2, <3>1, <3>4 DEF PlanAccount
    <3> QED
      BY <3>2, <3>3, <3>4, <3>5
  <2> QED
    BY <2>1, <2>2
<1>6. PICK m \in Nat, d \in Nat, mtp \in Nat, target \in Nat :
          /\ m = Cardinality(plan.missing) /\ d = IF committed = 3 THEN m ELSE 0
          /\ mtp = loads["mtp"] /\ target = loads["target"]
  BY <1>2, PlanCounts DEF TypeOK, Pools
<1>7. \A l \in Layers : stats'[l].misses = IF l = layer THEN stats[l].misses + d
                                           ELSE stats[l].misses
  <2>1. stats[layer].misses \in Nat
    BY <1>2 DEF TypeOK, Stats
  <2> QED
    BY <1>2, <1>6, <2>1, CommitCounts
<1>8. MissesUpTo'[NTarget] = IF layer = MTPLayer THEN MissesUpTo[NTarget]
                             ELSE MissesUpTo[NTarget] + d
  BY <1>2, <1>7, MissesGrow
<1>9. /\ MTPLayer \in Layers /\ stats[MTPLayer].misses \in Nat /\ MissesUpTo[NTarget] \in Int
  <2>1. MTPLayer \in Layers
    BY SizesAssumption DEF MTPLayer, Layers
  <2>2. Uncounted("target") \in Nat
    BY <1>6 DEF Uncounted
  <2>3. MissesUpTo[NTarget] \in Int
    BY MissesInNat, <1>2
  <2> QED
    BY <1>2, <2>1, <2>3 DEF TypeOK, Stats
<1>10. /\ mtp = stats[MTPLayer].misses
                + (IF layer = MTPLayer /\ committed \in 1..3 THEN m ELSE 0)
       /\ target = MissesUpTo[NTarget]
                   + (IF layer # MTPLayer /\ committed \in 1..3 THEN m ELSE 0)
  BY <1>6 DEF AccountInv, ExactAccounting, Uncounted, PoolOf
<1>11. /\ loads'["mtp"] = mtp + (IF layer = MTPLayer /\ committed = 0 THEN m ELSE 0)
       /\ loads'["target"] = target + (IF layer # MTPLayer /\ committed = 0 THEN m ELSE 0)
  BY <1>1, <1>2, <1>6 DEF TypeOK, PoolOf, Pools
<1>12. /\ Uncounted("mtp")' = IF layer = MTPLayer /\ committed + 1 \in 1..3 THEN m ELSE 0
       /\ Uncounted("target")' = IF layer # MTPLayer /\ committed + 1 \in 1..3 THEN m ELSE 0
  BY <1>1, <1>4, <1>6 DEF Uncounted, PoolOf
<1>13. stats'[MTPLayer].misses = stats[MTPLayer].misses + (IF layer = MTPLayer THEN d ELSE 0)
  BY <1>7, <1>9
<1>14. loads'["mtp"] = stats'[MTPLayer].misses + Uncounted("mtp")'
  BY <1>1, <1>6, <1>9, <1>10, <1>11, <1>12, <1>13
<1>15. loads'["target"] = MissesUpTo'[NTarget] + Uncounted("target")'
  BY <1>1, <1>6, <1>8, <1>9, <1>10, <1>11, <1>12
<1>16. ExactAccounting'
  BY <1>1, <1>4, <1>5, <1>14, <1>15 DEF ExactAccounting
<1> QED
  BY <1>3, <1>16 DEF AccountInv

LEMMA AccountStep ==
    ASSUME IInv, AccountInv, [Next]_vars
    PROVE  AccountInv'
<1>1. CASE \E l \in Layers, w \in {1, 2} : StartPass(l, w)
  <2>1. ~Outstanding /\ committed = 0
    BY <1>1 DEF IInv, PlanInv, StartPass, TypeOK
  <2> QED
    BY <1>1, <2>1, AccountSettled DEF StartPass, bank, Outstanding
<1>2. CASE PassStep
  <2>1. CASE Eval
    <3>1. ~Torn(layer)
      BY <2>1, NothingPlanned DEF Eval, IInv, PlanInv, TypeOK
    <3> QED
      BY <2>1, <3>1, AccountKept DEF Eval, bank
  <2>2. CASE Finish
    BY <2>2, AccountSettled DEF Finish, NoPlan, bank
  <2>3. CASE FinishRaises
    <3>1. ~Torn(layer)
      BY <2>3 DEF FinishRaises, SomeReadFailed, Torn, IInv, PlanInv, AllRead
    <3> QED
      BY <2>3, <3>1, AccountKept DEF FinishRaises, Raised, bank
  <2>4. ASSUME NEW route \in Routes(width), NEW planned \in RouteCachePlans(policy[layer], route),
               PlanRoute(route, planned)
        PROVE  AccountInv'
    BY <2>4, PlanRouteAccount
  <2>5. ASSUME NEW route, PrepareRaises(route)
        PROVE  AccountInv'
    <3>1. ~Torn(layer)
      BY <2>5, NothingPlanned DEF PrepareRaises, IInv, PlanInv, TypeOK
    <3> QED
      BY <2>5, <3>1, AccountKept DEF PrepareRaises
  <2>6. CASE \E e \in Experts : SubmitRead(e)
    <3>1. ~Torn(layer)
      BY <2>6 DEF SubmitRead, Torn, IInv, PlanInv
    <3> QED
      BY <2>6, <3>1, AccountKept DEF SubmitRead, bank
  <2>7. CASE CommitStep
    BY <2>7, CommitAccount
  <2> QED
    BY <1>2, <2>1, <2>2, <2>3, <2>4, <2>5, <2>6, <2>7 DEF PassStep, PlanStep
<1>3. CASE Raise
  BY <1>3, AccountKept DEF Raise, Raised, bank
<1>4. CASE StartClose \/ CloseStep
  <2>1. /\ UNCHANGED <<bank, plan, committed, layer, failure>> /\ pc # "join"
    BY <1>4 DEF StartClose, MayClose, CloseStep, CloseLayer, ClosePool, main
  <2>2. Torn(layer) => failure = "raised"
    BY <2>1 DEF AccountInv, ExactAccounting
  <2> QED
    BY <2>1, <2>2, AccountKept DEF bank
<1>5. CASE (\E e \in Experts : ReadStep(e)) \/ UNCHANGED vars
  <2>1. UNCHANGED <<main, bank, plan, committed>>
    BY <1>5 DEF ReadStep, StartRead, EndRead, FailRead, vars
  <2>2. Torn(layer) /\ pc # "join" => failure = "raised"
    BY DEF AccountInv, ExactAccounting
  <2> QED
    BY <2>1, <2>2, AccountKept DEF main, bank
<1> QED
  BY <1>1, <1>2, <1>3, <1>4, <1>5 DEF Next

\* The statistics add up wherever no updates are under way: residents are misses
\* less evictions, hits and misses are the experts asked for in every layer, and
\* the loads of a pool are the misses of its layers; updates that an exception cut
\* short stay at one layer and its pool.
THEOREM AccountingCorrect == Spec => []ExactAccounting
<1>1. Init => AccountInv
  <2> SUFFICES ASSUME Init PROVE AccountInv
    OBVIOUS
  <2>1. TypeOK
    BY InitIInv DEF IInv
  <2>2. AddsUp(MissesUpTo, Misses) /\ Misses \in [1..NTarget -> Nat]
    BY <2>1, MissesAddUp
  <2>3. \A l \in 1..NTarget : Misses[l] = 0
    BY SizesAssumption DEF Init, Misses, Layers
  <2>4. MissesUpTo[NTarget] = 0
    <3> DEFINE S == {k \in Nat : k <= NTarget => MissesUpTo[k] = 0}
    <3>1. \A k \in 0..NTarget : MissesUpTo[k] = IF k = 0 THEN 0 ELSE MissesUpTo[k - 1] + Misses[k]
      <4> HIDE DEF MissesUpTo
      <4> QED
        BY <2>2 DEF AddsUp, AddsUpTo
    <3> HIDE DEF MissesUpTo
    <3>2. 0 \in S
      BY <3>1, SizesAssumption
    <3>3. ASSUME NEW k \in S PROVE k + 1 \in S
      <4>1. k + 1 <= NTarget => /\ k + 1 \in 0..NTarget /\ k + 1 # 0 /\ k + 1 - 1 = k
                                /\ Misses[k + 1] = 0 /\ k <= NTarget
        BY <2>3, SizesAssumption
      <4> QED
        BY <3>1, <4>1
    <3>4. S \in SUBSET Nat
      OBVIOUS
    <3>5. S = Nat
      <4> HIDE DEF S
      <4> QED
        BY <3>2, <3>3, <3>4, SetInduction
    <3> QED
      BY <3>5, SizesAssumption
  <2>5. \A l \in Layers : Resident(mapping[l]) = {} /\ asked[l] = 0
    BY DEF Init, Resident, NoRows
  <2>6. MTPLayer \in Layers
    BY SizesAssumption DEF MTPLayer, Layers
  <2>7. Cardinality({}) = 0
    BY FS_EmptySet
  <2>8. \A l \in Layers : stats[l].hits = 0 /\ stats[l].misses = 0 /\ stats[l].evictions = 0
    BY DEF Init
  <2>9. loads["mtp"] = 0 /\ loads["target"] = 0
    BY DEF Init, Pools
  <2>10. /\ \A l \in Layers : ~Torn(l) /\ Unfinished(l) = 0
         /\ ~Torn(layer) /\ Uncounted("mtp") = 0 /\ Uncounted("target") = 0
    BY <2>7 DEF Init, NoPlan, Torn, Unfinished, Uncounted
  <2>11. ExactAccounting
    <3>1. \A l \in Layers :
            /\ Cardinality(Resident(mapping[l])) = stats[l].misses - stats[l].evictions
            /\ stats[l].hits + stats[l].misses = asked[l] - Unfinished(l)
      BY <2>5, <2>7, <2>8, <2>10
    <3>2. /\ loads["mtp"] = stats[MTPLayer].misses + Uncounted("mtp")
          /\ loads["target"] = MissesUpTo[NTarget] + Uncounted("target")
      BY <2>4, <2>6, <2>8, <2>9, <2>10
    <3> QED
      BY <2>10, <3>1, <3>2 DEF ExactAccounting
  <2> QED
    BY <2>11 DEF Init, AccountInv, Outstanding, NoPlan
<1>2. AccountInv => ExactAccounting
  BY DEF AccountInv
<1> QED
  BY <1>1, <1>2, AccountStep, Invariance, PTL DEF Spec

=============================================================================
