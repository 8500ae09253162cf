-------------------------- MODULE RuntimeLifecycle --------------------------
(***************************************************************************)
(* TargetRuntime.load and close: the plan of a --memory budget, the pools,  *)
(* the resident weights and their conversion, the drafter, the slot banks,  *)
(* the last check of the memory in use, and what is released when a step    *)
(* raises or when the owner closes the runtime.                             *)
(*                                                                          *)
(* Memory is counted in an integer unit.  What MLX needs for a moment       *)
(* beyond the arrays that a step keeps (one packed module of a conversion,  *)
(* its allocator cache) is left out.                                        *)
(***************************************************************************)
EXTENDS Integers

CONSTANTS
    NTarget,        \* MoE layers of the target
    SlotBytes,      \* bytes of one slot of each of them
    NExperts,       \* routed experts of a layer
    TopK,           \* MINIMUM_EXPERT_CAPACITY
    SystemReserve,  \* SYSTEM_RESERVE_GIB
    RuntimeReserve, \* RUNTIME_RESERVE_GIB
    Auxiliary,      \* MTP_AUXILIARY_GIB
    Formats,        \* resident formats
    ResidentLoad,   \* resident weights as they are loaded, in BF16
    Resident,       \* resident weights of each format after the conversion
    MTPLoad,        \* the drafter's resident weights as they are loaded
    MTPResident,    \* the same after the conversion to MXFP4
    MTPBank,        \* the drafter's slots
    Others,         \* bound: bytes MLX may hold beyond those arrays when it is asked
    Budgets,        \* bound: values of --memory tried
    Machines        \* bound: sizes of physical memory tried

ASSUME MemoryAssumption ==
    /\ NTarget \in Nat \ {0}
    /\ SlotBytes \in [1..NTarget -> Nat \ {0}]
    /\ TopK \in Nat \ {0} /\ NExperts \in Nat /\ NExperts >= TopK
    /\ {SystemReserve, RuntimeReserve, Auxiliary, ResidentLoad, MTPLoad, MTPResident,
        MTPBank} \subseteq Nat
    /\ Resident \in [Formats -> Nat]
    /\ \A f \in Formats : Resident[f] <= ResidentLoad
    /\ MTPResident <= MTPLoad
    /\ Others \subseteq Nat /\ Budgets \subseteq Nat \ {0} /\ Machines \subseteq Nat

\* The reservation for the drafter holds its weights and its slots.
ASSUME AuxiliaryAssumption == MTPResident + MTPBank <= Auxiliary

TargetLayers == 1..NTarget
MTPLayer == NTarget + 1

VARIABLES
    pc,        \* the step of load to come, or how it ended
    request,   \* --memory, physical memory, resident format, drafter or not
    capacity,  \* slots per target layer
    banks,     \* layers that were constructed: "deferred", "active", "closed"
    pools,     \* "none", "open" or "closed"
    memory,    \* bytes of the arrays in use
    peak,      \* the most it has been
    other,     \* what MLX holds beyond them at the end of load
    failure    \* what the load failed of

vars == <<pc, request, capacity, banks, pools, memory, peak, other, failure>>

Layers == TargetLayers \union {MTPLayer}
Active == {l \in Layers : banks[l] = "active"}

Init ==
    /\ pc = "resolve"
    /\ request \in [budget : Budgets, machine : Machines, format : Formats, drafting : BOOLEAN]
    /\ capacity = 0
    /\ banks = [l \in Layers |-> "none"]
    /\ pools = [target |-> "none", mtp |-> "none"]
    /\ memory = 0 /\ peak = 0 /\ other = 0 /\ failure = "none"

-----------------------------------------------------------------------------
(* The memory plan                                                           *)

\* Bytes of one slot of each of the first layers, and of each of them all.
BankOf[l \in 0..NTarget] == IF l = 0 THEN 0 ELSE BankOf[l - 1] + SlotBytes[l]

Bank == BankOf[NTarget]

Effective ==
    IF request.budget < request.machine - SystemReserve THEN request.budget
    ELSE request.machine - SystemReserve

Reserved == RuntimeReserve + (IF request.drafting THEN Auxiliary ELSE 0)

\* Mutated: the drafter is not reserved for.
AvailableToTarget == Effective - Resident[request.format] - RuntimeReserve

Available == Effective - Resident[request.format] - Reserved

\* Mutated: a budget that is off by less than one slot of every layer is rounded up.
AffordableRoundedUp == (Available + Bank - 1) \div Bank

Affordable == Available \div Bank
Planned == Resident[request.format] + Reserved + capacity * Bank

\* resolve_runtime_profile
Resolve ==
    /\ pc = "resolve"
    /\ Affordable >= TopK
    /\ capacity' = IF Affordable < NExperts THEN Affordable ELSE NExperts
    /\ pc' = "pool"
    /\ UNCHANGED <<request, banks, pools, memory, peak, other, failure>>

\* ContractError: below routed top-k.
Refuse ==
    /\ pc = "resolve"
    /\ Affordable < TopK
    /\ pc' = "refused"
    /\ UNCHANGED <<request, capacity, banks, pools, memory, peak, other, failure>>

-----------------------------------------------------------------------------
(* The steps of load                                                         *)

Uses(bytes) ==
    /\ memory' = bytes
    /\ peak' = IF bytes > peak THEN bytes ELSE peak

Step(from, to) ==
    /\ pc = from /\ pc' = to
    /\ UNCHANGED <<request, capacity, other, failure>>

OpenPool ==
    /\ Step("pool", "model")
    /\ pools' = [pools EXCEPT !.target = "open"]
    /\ UNCHANGED <<banks, memory, peak>>

\* Every layer is constructed with its slots deferred.
BuildModel ==
    /\ Step("model", "resident")
    /\ banks' = [l \in Layers |-> IF l = MTPLayer THEN banks[l] ELSE "deferred"]
    /\ UNCHANGED <<pools, memory, peak>>

LoadResident ==
    /\ Step("resident", "quantize")
    /\ Uses(memory + ResidentLoad)
    /\ UNCHANGED <<banks, pools>>

\* quantize_resident_linears_mxfp, unless the format is BF16; the source arrays
\* go as they are replaced.
Quantize ==
    /\ Step("quantize", IF request.drafting THEN "mtppool" ELSE "activate")
    /\ Uses(memory - (ResidentLoad - Resident[request.format]))
    /\ UNCHANGED <<banks, pools>>

OpenMTPPool ==
    /\ Step("mtppool", "mtpmodel")
    /\ pools' = [pools EXCEPT !.mtp = "open"]
    /\ UNCHANGED <<banks, memory, peak>>

BuildMTP ==
    /\ Step("mtpmodel", "mtpresident")
    /\ banks' = [banks EXCEPT ![MTPLayer] = "deferred"]
    /\ UNCHANGED <<pools, memory, peak>>

LoadMTP ==
    /\ Step("mtpresident", "mtpquantize")
    /\ Uses(memory + MTPLoad)
    /\ UNCHANGED <<banks, pools>>

QuantizeMTP ==
    /\ Step("mtpquantize", "mtpactivate")
    /\ Uses(memory - (MTPLoad - MTPResident))
    /\ UNCHANGED <<banks, pools>>

ActivateMTP ==
    /\ Step("mtpactivate", "activate")
    /\ banks' = [banks EXCEPT ![MTPLayer] = "active"]
    /\ Uses(memory + MTPBank)
    /\ UNCHANGED pools

\* The next target layer allocates and wires its slots.
Activate(l) ==
    /\ pc = "activate"
    /\ banks[l] # "active" /\ \A k \in 1..(l - 1) : banks[k] = "active"
    /\ banks' = [banks EXCEPT ![l] = "active"]
    /\ Uses(memory + capacity * SlotBytes[l])
    /\ UNCHANGED <<pc, request, capacity, pools, other, failure>>

Loaded(more) ==
    /\ pc = "activate" /\ TargetLayers \subseteq Active
    /\ other' = more
    /\ UNCHANGED <<request, capacity, banks, pools, memory, peak>>

Ready(more) ==
    /\ Loaded(more)
    /\ memory + more <= Effective
    /\ pc' = "ready" /\ UNCHANGED failure

\* ContractError: active MLX memory exceeded --memory.
TooMuch(more) ==
    /\ Loaded(more)
    /\ memory + more > Effective
    /\ pc' = "cleanup" /\ failure' = "memory"

-----------------------------------------------------------------------------
(* Failure and close                                                         *)

\* An exception of any step under the try: a file that cannot be opened, an
\* inventory that changed, no memory, Ctrl-C.
Fail ==
    /\ pc \in {"model", "resident", "quantize", "mtppool", "mtpmodel", "mtpresident",
               "mtpquantize", "mtpactivate", "activate"}
    /\ pc' = "cleanup" /\ failure' = pc
    /\ UNCHANGED <<request, capacity, banks, pools, memory, peak, other>>

Shut(pool) == IF pools[pool] = "open" THEN "closed" ELSE pools[pool]

\* NativeExpertSSD.close of some layers: an active bank is unwired.
ClosedBanks(layers) ==
    [l \in Layers |-> IF l \in layers /\ banks[l] # "none" THEN "closed" ELSE banks[l]]

\* Mutated: only a failure after the activation closes the layers.
CleanupOfCheck ==
    /\ pc = "cleanup" /\ pc' = "raised"
    /\ banks' = IF failure = "memory" THEN ClosedBanks(TargetLayers) ELSE banks
    /\ pools' = [target |-> Shut("target"), mtp |-> Shut("mtp")]
    /\ UNCHANGED <<request, capacity, memory, peak, other, failure>>

\* except BaseException: the target's layers and both pools.
Cleanup ==
    /\ pc = "cleanup" /\ pc' = "raised"
    /\ banks' = ClosedBanks(TargetLayers)
    /\ pools' = [target |-> Shut("target"), mtp |-> Shut("mtp")]
    /\ UNCHANGED <<request, capacity, memory, peak, other, failure>>

\* TargetRuntime.close: the drafter's layer as well.
Close ==
    /\ pc = "ready" /\ pc' = "closed"
    /\ banks' = ClosedBanks(Layers)
    /\ pools' = [target |-> Shut("target"), mtp |-> Shut("mtp")]
    /\ UNCHANGED <<request, capacity, memory, peak, other, failure>>

Next ==
    \/ Resolve \/ Refuse
    \/ OpenPool \/ BuildModel \/ LoadResident \/ Quantize
    \/ OpenMTPPool \/ BuildMTP \/ LoadMTP \/ QuantizeMTP \/ ActivateMTP
    \/ \E l \in TargetLayers : Activate(l)
    \/ \E more \in Others : Ready(more) \/ TooMuch(more)
    \/ Fail \/ Cleanup \/ Close

Spec == Init /\ [][Next]_vars

-----------------------------------------------------------------------------
(* Properties                                                                *)

\* Types of the variables.
TypeOK ==
    /\ pc \in {"resolve", "refused", "pool", "model", "resident", "quantize", "mtppool",
               "mtpmodel", "mtpresident", "mtpquantize", "mtpactivate", "activate",
               "ready", "cleanup", "raised", "closed"}
    /\ request \in [budget : Budgets, machine : Machines, format : Formats,
                    drafting : BOOLEAN]
    /\ capacity \in 0..NExperts
    /\ banks \in [Layers -> {"none", "deferred", "active", "closed"}]
    /\ pools \in [{"target", "mtp"} -> {"none", "open", "closed"}]
    /\ memory \in Nat /\ peak \in Nat /\ other \in Others \union {0}

\* A load that raises leaves no pool open and no bank of the target wired,
\* whichever step failed.  (The drafter's bank stays wired when the failure comes
\* after its activation: load closes it nowhere.)
FailedLoadReleasesTarget ==
    pc \in {"raised", "closed"} =>
        /\ Active \subseteq {MTPLayer}
        /\ pc = "closed" => Active = {}
        /\ \A p \in DOMAIN pools : pools[p] # "open"

\* The plan is within the budget, and it is the largest one: one slot more per
\* layer would not be, unless every expert has its slot.
PlanIsLargest ==
    capacity > 0 =>
        /\ capacity >= TopK
        /\ Planned <= Effective
        /\ capacity < NExperts => Planned + Bank > Effective

\* The arrays of a loaded runtime are what the plan foresaw or less: the check of
\* the memory in use fails only when MLX holds more than the reserve beyond them.
CheckFailsBeyondReserve == failure = "memory" => other > RuntimeReserve

\* README.md:95: --memory is a hard total MLX runtime ceiling.  Loading the BF16
\* weights of a format that is smaller after its conversion breaks it.
NeverOverCeiling == peak <= Effective

=============================================================================
