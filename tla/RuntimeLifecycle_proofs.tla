---------------------- MODULE RuntimeLifecycle_proofs ----------------------
(***************************************************************************)
(* Proofs about RuntimeLifecycle, for any sizes, budgets and layers: the    *)
(* plan is the largest one the budget allows, the arrays of a loaded        *)
(* runtime keep to it, and a load that raises releases the target.          *)
(***************************************************************************)
EXTENDS RuntimeLifecycle, WellFoundedInduction, TLAPS

-----------------------------------------------------------------------------
(* The inductive invariant                                                  *)

Bytes == Resident[request.format]

\* Weights and slots of the drafter.
Drafter == IF request.drafting THEN MTPResident + MTPBank ELSE 0

\* The first k target layers have their slots.
ActiveUpTo(k) ==
    /\ \A l \in TargetLayers : banks[l] = "active" <=> l <= k
    /\ memory = Bytes + Drafter + capacity * BankOf[k]

\* The plan, once it is made.
PlanInv ==
    /\ pc \in {"resolve", "refused"} => capacity = 0
    /\ pc \notin {"resolve", "refused"} =>
            /\ capacity >= TopK
            /\ capacity * Bank <= Available
            /\ capacity < NExperts => Available < (capacity + 1) * Bank

\* The arrays in use at every step of load.
MemoryInv ==
    /\ pc \in {"resolve", "refused", "pool", "model", "resident"} => memory = 0
    /\ pc = "quantize" => memory = ResidentLoad
    /\ pc \in {"mtppool", "mtpmodel", "mtpresident"} => memory = Bytes
    /\ pc = "mtpquantize" => memory = Bytes + MTPLoad
    /\ pc = "mtpactivate" => memory = Bytes + MTPResident
    /\ pc = "activate" => \E k \in 0..NTarget : ActiveUpTo(k)

DraftingInv ==
    pc \in {"mtppool", "mtpmodel", "mtpresident", "mtpquantize", "mtpactivate"}
        => request.drafting

BanksInv ==
    pc \in {"resolve", "refused", "pool", "model", "resident", "quantize", "mtppool", "mtpmodel",
            "mtpresident", "mtpquantize", "mtpactivate"}
        => \A l \in TargetLayers : banks[l] # "active"

\* What the check that failed has seen.
FailureInv == failure = "memory" =>
    /\ pc \in {"cleanup", "raised"}
    /\ memory = Bytes + Drafter + capacity * Bank
    /\ memory + other > Effective

IInv ==
    /\ TypeOK
    /\ PlanInv
    /\ MemoryInv
    /\ DraftingInv
    /\ BanksInv
    /\ FailureInv
    /\ FailedLoadReleasesTarget

-----------------------------------------------------------------------------
(* Induction and sums                                                       *)

\* A set of numbers that holds 0 and the successor of each of its numbers holds
\* them all: otherwise there is a least one it does not hold.
LEMMA SetInduction ==
    ASSUME NEW S \in SUBSET Nat, 0 \in S, \A n \in S : n + 1 \in S
    PROVE  S = Nat
<1> DEFINE R == {ss \in Nat \X Nat : ss[1] < ss[2]}
           T == Nat \ S
<1>1. IsWellFoundedOn(R, Nat)
  BY NatLessThanWellFounded DEF OpToRel
<1>2. ASSUME T # {} PROVE FALSE
  <2>1. T \subseteq Nat
    OBVIOUS
  <2> HIDE DEF R, T
  <2>2. PICK m \in T : \A k \in T : <<k, m>> \notin R
    BY <1>1, <1>2, <2>1, WFMin
  <2> USE DEF T
  <2>3. m \in Nat \ {0} /\ m - 1 \in Nat /\ m - 1 + 1 = m
    BY <2>2
  <2>4. m - 1 \notin S
    BY <2>2, <2>3
  <2>5. <<m - 1, m>> \in R
    BY <2>3 DEF R
  <2> QED
    BY <2>2, <2>3, <2>4, <2>5
<1> QED
  BY <1>2


\* f is the definition of BankOf, for the first k layers.
SumsUpTo(f, k) == f = [n \in 0..k |-> IF n = 0 THEN 0 ELSE f[n - 1] + SlotBytes[n]]

\* Such an f exists.
LEMMA SumsExist == \A k \in Nat : k <= NTarget => \E f \in [0..k -> Nat] : SumsUpTo(f, k)
<1> DEFINE S == {k \in Nat : k <= NTarget => \E f \in [0..k -> Nat] : SumsUpTo(f, k)}
<1>1. 0 \in S
  <2>1. SumsUpTo([n \in 0..0 |-> 0], 0) /\ [n \in 0..0 |-> 0] \in [0..0 -> Nat]
    BY DEF SumsUpTo
  <2> QED
    BY <2>1
<1>2. ASSUME NEW k \in S PROVE k + 1 \in S
  <2> SUFFICES ASSUME k + 1 <= NTarget PROVE \E g \in [0..(k + 1) -> Nat] : SumsUpTo(g, k + 1)
    OBVIOUS
  <2>1. PICK f \in [0..k -> Nat] : SumsUpTo(f, k)
    BY MemoryAssumption
  <2> DEFINE g == [n \in 0..(k + 1) |-> IF n = k + 1 THEN f[k] + SlotBytes[k + 1] ELSE f[n]]
  <2>2. k \in Nat /\ k + 1 \in 1..NTarget /\ SlotBytes[k + 1] \in Nat /\ f[k] \in Nat
    BY MemoryAssumption
  <2>3. g \in [0..(k + 1) -> Nat]
    BY <2>2
  <2>4. ASSUME NEW n \in 0..(k + 1)
        PROVE  g[n] = IF n = 0 THEN 0 ELSE g[n - 1] + SlotBytes[n]
    <3>1. CASE n = k + 1
      BY <2>2, <3>1
    <3>2. CASE n # k + 1
      <4>1. n \in 0..k /\ g[n] = f[n]
        BY <2>2, <3>2
      <4>2. f[n] = IF n = 0 THEN 0 ELSE f[n - 1] + SlotBytes[n]
        BY <2>1, <4>1 DEF SumsUpTo
      <4>3. n # 0 => g[n - 1] = f[n - 1]
        BY <2>2, <4>1
      <4> QED
        BY <4>1, <4>2, <4>3
    <3> QED
      BY <3>1, <3>2
  <2>5. SumsUpTo(g, k + 1)
    BY <2>4 DEF SumsUpTo
  <2> QED
    BY <2>3, <2>5
<1>3. S \in SUBSET Nat
  OBVIOUS
<1> HIDE DEF S
<1>4. S = Nat
  BY <1>1, <1>2, <1>3, SetInduction
<1> QED
  BY <1>4 DEF S


\* BankOf is well defined, and a sum of bytes.
LEMMA BankIsSum == 
   /\ BankOf[0] = 0
   /\ \A k \in 1..NTarget : BankOf[k] = BankOf[k - 1] + SlotBytes[k]
   /\ \A k \in 0..NTarget : BankOf[k] \in Nat
<1>1. \E f \in [0..NTarget -> Nat] : SumsUpTo(f, NTarget)
  <2>1. NTarget \in Nat /\ NTarget <= NTarget
    BY MemoryAssumption
  <2> QED
    BY <2>1, SumsExist
<1>2. SumsUpTo(BankOf, NTarget)
  BY <1>1 DEF BankOf, SumsUpTo
<1>3. \A k \in 0..NTarget : BankOf[k] = IF k = 0 THEN 0 ELSE BankOf[k - 1] + SlotBytes[k]
  <2> HIDE DEF BankOf
  <2> QED
    BY <1>2 DEF SumsUpTo
<1> HIDE DEF BankOf
<1> DEFINE S == {k \in Nat : k <= NTarget => BankOf[k] \in Nat}
<1>4. 0 \in S
  BY <1>3, MemoryAssumption
<1>5. ASSUME NEW k \in S PROVE k + 1 \in S
  <2> SUFFICES ASSUME k + 1 <= NTarget PROVE BankOf[k + 1] \in Nat
    OBVIOUS
  <2>1. k \in Nat /\ k + 1 \in 0..NTarget /\ k + 1 # 0 /\ k + 1 - 1 = k /\ SlotBytes[k + 1] \in Nat
    BY MemoryAssumption
  <2>2. BankOf[k] \in Nat
    <3>1. k <= NTarget
      BY MemoryAssumption
    <3> QED
      BY <3>1
  <2>3. BankOf[k + 1] = BankOf[k] + SlotBytes[k + 1]
    BY <1>3, <2>1
  <2> QED
    BY ONLY <2>1, <2>2, <2>3
<1>6. S \in SUBSET Nat
  OBVIOUS
<1>7. S = Nat
  <2> HIDE DEF S
  <2> QED
    BY <1>4, <1>5, <1>6, SetInduction
<1>8. \A k \in 0..NTarget : BankOf[k] \in Nat
  BY <1>7, MemoryAssumption
<1>9. BankOf[0] = 0
  BY <1>3, MemoryAssumption
<1>10. \A k \in 1..NTarget : BankOf[k] = BankOf[k - 1] + SlotBytes[k]
  BY <1>3, MemoryAssumption
<1> QED
  BY <1>8, <1>9, <1>10



\* Division rounds down.
LEMMA DivFacts ==
    ASSUME NEW a \in Int, NEW b \in Nat \ {0}
    PROVE  /\ a \div b \in Int
           /\ (a \div b) * b <= a
           /\ a < (a \div b) * b + b
OBVIOUS

\* The slots of all layers take some bytes.
LEMMA BankIsPositive == Bank \in Nat \ {0}
<1>1. NTarget \in 1..NTarget /\ NTarget - 1 \in 0..NTarget /\ SlotBytes[NTarget] \in Nat \ {0}
  BY MemoryAssumption
<1>2. BankOf[NTarget] = BankOf[NTarget - 1] + SlotBytes[NTarget] /\ BankOf[NTarget - 1] \in Nat
  BY <1>1, BankIsSum
<1> QED
  BY <1>1, <1>2 DEF Bank

\* The sizes that a request stands for.
LEMMA Sizes ==
    ASSUME TypeOK
    PROVE  /\ Bytes \in Nat /\ Bytes <= ResidentLoad /\ ResidentLoad \in Nat
           /\ MTPResident \in Nat /\ MTPLoad \in Nat /\ MTPBank \in Nat /\ MTPResident <= MTPLoad
           /\ Effective \in Int /\ Reserved \in Nat /\ RuntimeReserve \in Nat
           /\ Drafter \in Nat /\ Drafter + RuntimeReserve <= Reserved
           /\ Available = Effective - Bytes - Reserved /\ Available \in Int
           /\ request.drafting \in BOOLEAN
           /\ capacity \in Nat /\ TopK \in Nat \ {0} /\ NExperts \in Nat /\ NExperts >= TopK
<1>1. request.budget \in Nat /\ request.machine \in Nat /\ request.drafting \in BOOLEAN
      /\ request.format \in Formats
  BY MemoryAssumption DEF TypeOK
<1>2. Bytes \in Nat /\ Bytes <= ResidentLoad
  BY <1>1, MemoryAssumption DEF Bytes
<1>3. Effective \in Int
  BY <1>1, MemoryAssumption DEF Effective
<1>4. /\ RuntimeReserve \in Nat /\ Auxiliary \in Nat /\ MTPResident \in Nat /\ MTPLoad \in Nat
      /\ MTPBank \in Nat /\ ResidentLoad \in Nat /\ MTPResident <= MTPLoad
      /\ MTPResident + MTPBank <= Auxiliary
  BY MemoryAssumption, AuxiliaryAssumption
<1>5. Reserved \in Nat /\ Drafter \in Nat /\ Drafter + RuntimeReserve <= Reserved
  <2>1. CASE request.drafting
    BY <1>4, <2>1 DEF Reserved, Drafter
  <2>2. CASE ~request.drafting
    BY <1>4, <2>2 DEF Reserved, Drafter
  <2> QED
    BY <2>1, <2>2
<1>6. Available = Effective - Bytes - Reserved /\ Available \in Int
  BY <1>2, <1>3, <1>5 DEF Available, Bytes
<1>7. capacity \in Nat /\ TopK \in Nat \ {0} /\ NExperts \in Nat /\ NExperts >= TopK
  BY MemoryAssumption DEF TypeOK
<1> QED
  BY <1>1, <1>2, <1>3, <1>4, <1>5, <1>6, <1>7

-----------------------------------------------------------------------------
(* Steps of the invariant                                                   *)

LEMMA InitIInv == Init => IInv
<1> SUFFICES ASSUME Init PROVE IInv
  OBVIOUS
<1> USE DEF Init
<1>1. TypeOK
  BY MemoryAssumption DEF TypeOK
<1>2. PlanInv /\ MemoryInv /\ DraftingInv
  BY DEF PlanInv, MemoryInv, DraftingInv
<1>3. BanksInv
  BY DEF BanksInv, Layers
<1>4. FailureInv /\ FailedLoadReleasesTarget
  BY DEF FailureInv, FailedLoadReleasesTarget
<1> QED
  BY <1>1, <1>2, <1>3, <1>4 DEF IInv

\* While no bank, no array and no check changes.
LEMMA PlanStands ==
    ASSUME IInv, UNCHANGED <<request, capacity>>,
           pc \in {"resolve", "refused"} <=> pc' \in {"resolve", "refused"}
    PROVE  PlanInv'
BY DEF IInv, PlanInv, Available, Effective, Reserved

\* The largest number of slots per layer that the rest of the budget pays for.
LEMMA ResolveStep == ASSUME IInv, Resolve PROVE IInv'
<1> USE DEF Resolve
<1>1. /\ Available \in Int /\ TopK \in Nat \ {0} /\ NExperts \in Nat /\ NExperts >= TopK
      /\ Bank \in Nat \ {0}
  BY Sizes, BankIsPositive DEF IInv
<1>2. /\ Affordable \in Int /\ Affordable * Bank <= Available
      /\ Available < (Affordable + 1) * Bank
  <2>1. /\ Available \div Bank \in Int /\ (Available \div Bank) * Bank <= Available
        /\ Available < (Available \div Bank) * Bank + Bank
    BY <1>1, DivFacts
  <2> QED
    BY <1>1, <2>1 DEF Affordable
<1>3. capacity' \in 0..NExperts /\ capacity' >= TopK
  BY <1>1, <1>2
<1>4. capacity' * Bank <= Available
  <2>1. CASE Affordable < NExperts
    BY <1>2, <2>1
  <2>2. CASE ~(Affordable < NExperts)
    <3>1. NExperts <= Affordable /\ capacity' = NExperts
      BY <1>1, <1>2, <2>2
    <3>2. NExperts * Bank <= Affordable * Bank
      BY <1>1, <1>2, <3>1
    <3>3. NExperts * Bank \in Int /\ Affordable * Bank \in Int
      BY <1>1, <1>2
    <3> QED
      BY <1>1, <1>2, <3>1, <3>2, <3>3
  <2> QED
    BY <2>1, <2>2
<1>5. capacity' < NExperts => Available < (capacity' + 1) * Bank
  BY <1>1, <1>2
<1>6. TypeOK'
  BY <1>3 DEF IInv, TypeOK
<1>7. Available' = Available
  BY DEF Available, Effective, Reserved
<1>8. PlanInv'
  BY <1>3, <1>4, <1>5, <1>7 DEF PlanInv
<1>9. MemoryInv' /\ DraftingInv' /\ BanksInv' /\ FailureInv' /\ FailedLoadReleasesTarget'
  BY DEF IInv, MemoryInv, DraftingInv, BanksInv, FailureInv, FailedLoadReleasesTarget
<1> QED
  BY <1>6, <1>8, <1>9 DEF IInv

LEMMA RefuseStep == ASSUME IInv, Refuse PROVE IInv'
<1> USE DEF Refuse
<1>1. TypeOK' /\ PlanInv'
  BY DEF IInv, TypeOK, PlanInv
<1>2. MemoryInv' /\ DraftingInv' /\ BanksInv' /\ FailureInv' /\ FailedLoadReleasesTarget'
  BY DEF IInv, MemoryInv, DraftingInv, BanksInv, FailureInv, FailedLoadReleasesTarget
<1> QED
  BY <1>1, <1>2 DEF IInv

\* A step of load that leaves request, capacity and failure alone.
LEMMA StepKeeps ==
    ASSUME IInv, NEW from, NEW to, Step(from, to),
           from \notin {"resolve", "refused", "cleanup", "raised", "closed"},
           to \notin {"resolve", "refused", "cleanup", "raised", "closed"}
    PROVE  PlanInv' /\ FailureInv' /\ FailedLoadReleasesTarget'
<1>1. PlanInv'
  BY PlanStands DEF Step
<1>2. FailureInv' /\ FailedLoadReleasesTarget'
  BY DEF Step, IInv, FailureInv, FailedLoadReleasesTarget
<1> QED
  BY <1>1, <1>2

LEMMA OpenPoolStep == ASSUME IInv, OpenPool PROVE IInv'
<1> USE DEF OpenPool
<1>1. PlanInv' /\ FailureInv' /\ FailedLoadReleasesTarget'
  BY StepKeeps
<1> USE DEF Step
<1>2. TypeOK'
  BY DEF IInv, TypeOK
<1>3. MemoryInv' /\ DraftingInv' /\ BanksInv'
  BY DEF IInv, MemoryInv, DraftingInv, BanksInv
<1> QED
  BY <1>1, <1>2, <1>3 DEF IInv

LEMMA BuildModelStep == ASSUME IInv, BuildModel PROVE IInv'
<1> USE DEF BuildModel
<1>1. PlanInv' /\ FailureInv' /\ FailedLoadReleasesTarget'
  BY StepKeeps
<1> USE DEF Step
<1>2. TypeOK'
  BY DEF IInv, TypeOK
<1>3. MemoryInv' /\ DraftingInv'
  BY DEF IInv, MemoryInv, DraftingInv
<1>4. BanksInv'
  BY MemoryAssumption DEF BanksInv, Layers, TargetLayers, MTPLayer
<1> QED
  BY <1>1, <1>2, <1>3, <1>4 DEF IInv

\* What a step of the arrays leaves in use has a type when it is a number.
LEMMA UsesTyped ==
    ASSUME IInv, NEW bytes \in Nat, Uses(bytes), NEW from, NEW to, Step(from, to),
           UNCHANGED pools, banks' \in [Layers -> {"none", "deferred", "active", "closed"}],
           to \in {"resolve", "refused", "pool", "model", "resident", "quantize", "mtppool",
               "mtpmodel", "mtpresident", "mtpquantize", "mtpactivate", "activate",
               "ready", "cleanup", "raised", "closed"}
    PROVE  TypeOK' /\ Bytes' = Bytes /\ Drafter' = Drafter
<1>1. memory' \in Nat /\ peak' \in Nat
  BY DEF Uses, IInv, TypeOK
<1> QED
  BY <1>1 DEF Step, IInv, TypeOK, Bytes, Drafter

LEMMA LoadResidentStep == ASSUME IInv, LoadResident PROVE IInv'
<1> USE DEF LoadResident
<1>1. PlanInv' /\ FailureInv' /\ FailedLoadReleasesTarget'
  BY StepKeeps
<1>2. memory + ResidentLoad \in Nat /\ memory = 0 /\ ResidentLoad \in Nat
  BY Sizes DEF Step, IInv, MemoryInv, TypeOK
<1>3. TypeOK'
  BY <1>2, UsesTyped DEF IInv, TypeOK
<1>4. MemoryInv'
  BY <1>2 DEF MemoryInv, Uses, Step
<1>5. DraftingInv' /\ BanksInv'
  BY DEF IInv, DraftingInv, BanksInv, Step
<1> QED
  BY <1>1, <1>3, <1>4, <1>5 DEF IInv

\* No target layer has its slots after the step.
LEMMA NoneActive ==
    ASSUME TypeOK', \A l \in TargetLayers : banks'[l] # "active", memory' = Bytes' + Drafter',
           Bytes' \in Nat, Drafter' \in Nat
    PROVE  ActiveUpTo(0)'
<1>1. BankOf[0] = 0 /\ capacity' \in Nat
  BY BankIsSum, MemoryAssumption DEF TypeOK
<1>2. memory' = Bytes' + Drafter' + capacity' * BankOf[0]
  BY <1>1
<1>3. \A l \in TargetLayers : ~(l <= 0)
  BY DEF TargetLayers
<1> QED
  BY <1>2, <1>3 DEF ActiveUpTo

LEMMA QuantizeStep == ASSUME IInv, Quantize PROVE IInv'
<1> USE DEF Quantize
<1> DEFINE to == IF request.drafting THEN "mtppool" ELSE "activate"
<1>1. PlanInv' /\ FailureInv' /\ FailedLoadReleasesTarget'
  BY StepKeeps
<1>2. /\ memory - (ResidentLoad - Resident[request.format]) \in Nat
      /\ memory - (ResidentLoad - Resident[request.format]) = Bytes
  BY Sizes DEF Step, IInv, MemoryInv, Bytes
<1>3. TypeOK' /\ Bytes' = Bytes /\ Drafter' = Drafter
  BY <1>2, UsesTyped DEF IInv, TypeOK
<1>4. memory' = Bytes' /\ pc' = to /\ UNCHANGED <<request, banks>> /\ pc = "quantize"
  BY <1>2, <1>3 DEF Uses, Step
<1>5. \A l \in TargetLayers : banks'[l] # "active"
  BY <1>4 DEF IInv, BanksInv
<1>6. DraftingInv' /\ BanksInv'
  BY <1>4, <1>5 DEF DraftingInv, BanksInv
<1>7. MemoryInv'
  <2>1. CASE request.drafting
    BY <1>4, <2>1 DEF MemoryInv
  <2>2. CASE ~request.drafting
    <3>1. Drafter' = 0 /\ Bytes' \in Nat
      BY <1>3, <2>2, Sizes DEF Drafter, IInv
    <3>2. ActiveUpTo(0)'
      BY <1>3, <1>4, <1>5, <3>1, NoneActive
    <3> QED
      BY <1>4, <2>2, <3>2, MemoryAssumption DEF MemoryInv
  <2> QED
    BY <2>1, <2>2
<1> QED
  BY <1>1, <1>3, <1>6, <1>7 DEF IInv

LEMMA OpenMTPPoolStep == ASSUME IInv, OpenMTPPool PROVE IInv'
<1> USE DEF OpenMTPPool
<1>1. PlanInv' /\ FailureInv' /\ FailedLoadReleasesTarget'
  BY StepKeeps
<1> USE DEF Step
<1>2. TypeOK'
  BY DEF IInv, TypeOK
<1>3. MemoryInv' /\ DraftingInv' /\ BanksInv'
  BY DEF IInv, MemoryInv, DraftingInv, BanksInv, Bytes
<1> QED
  BY <1>1, <1>2, <1>3 DEF IInv

LEMMA BuildMTPStep == ASSUME IInv, BuildMTP PROVE IInv'
<1> USE DEF BuildMTP
<1>1. PlanInv' /\ FailureInv' /\ FailedLoadReleasesTarget'
  BY StepKeeps
<1> USE DEF Step
<1>2. TypeOK'
  BY DEF IInv, TypeOK
<1>3. MemoryInv' /\ DraftingInv'
  BY DEF IInv, MemoryInv, DraftingInv, Bytes
<1>4. BanksInv'
  BY MemoryAssumption DEF IInv, TypeOK, BanksInv, Layers, TargetLayers, MTPLayer
<1> QED
  BY <1>1, <1>2, <1>3, <1>4 DEF IInv

LEMMA LoadMTPStep == ASSUME IInv, LoadMTP PROVE IInv'
<1> USE DEF LoadMTP
<1>1. PlanInv' /\ FailureInv' /\ FailedLoadReleasesTarget'
  BY StepKeeps
<1>2. memory + MTPLoad \in Nat /\ memory = Bytes
  BY Sizes DEF Step, IInv, MemoryInv, TypeOK
<1>3. TypeOK' /\ Bytes' = Bytes
  BY <1>2, UsesTyped DEF IInv, TypeOK
<1>4. MemoryInv'
  BY <1>2, <1>3 DEF MemoryInv, Uses, Step
<1>5. DraftingInv' /\ BanksInv'
  BY DEF IInv, DraftingInv, BanksInv, Step
<1> QED
  BY <1>1, <1>3, <1>4, <1>5 DEF IInv

LEMMA QuantizeMTPStep == ASSUME IInv, QuantizeMTP PROVE IInv'
<1> USE DEF QuantizeMTP
<1>1. PlanInv' /\ FailureInv' /\ FailedLoadReleasesTarget'
  BY StepKeeps
<1>2. /\ memory - (MTPLoad - MTPResident) \in Nat
      /\ memory - (MTPLoad - MTPResident) = Bytes + MTPResident
  BY Sizes DEF Step, IInv, MemoryInv, TypeOK
<1>3. TypeOK' /\ Bytes' = Bytes
  BY <1>2, UsesTyped DEF IInv, TypeOK
<1>4. MemoryInv'
  BY <1>2, <1>3 DEF MemoryInv, Uses, Step
<1>5. DraftingInv' /\ BanksInv'
  BY DEF IInv, DraftingInv, BanksInv, Step
<1> QED
  BY <1>1, <1>3, <1>4, <1>5 DEF IInv

LEMMA ActivateMTPStep == ASSUME IInv, ActivateMTP PROVE IInv'
<1> USE DEF ActivateMTP
<1>1. PlanInv' /\ FailureInv' /\ FailedLoadReleasesTarget'
  BY StepKeeps
<1>2. memory + MTPBank \in Nat /\ memory + MTPBank = Bytes + Drafter /\ request.drafting
  BY Sizes DEF Step, IInv, MemoryInv, TypeOK, DraftingInv, Drafter
<1>3. TypeOK' /\ Bytes' = Bytes /\ Drafter' = Drafter
  BY <1>2, UsesTyped DEF IInv, TypeOK
<1>4. memory' = Bytes' + Drafter' /\ pc' = "activate" /\ Bytes' \in Nat /\ Drafter' \in Nat
  BY <1>2, <1>3, Sizes DEF Uses, Step, IInv
<1>5. \A l \in TargetLayers : banks'[l] # "active"
  BY MemoryAssumption DEF IInv, TypeOK, BanksInv, Layers, TargetLayers, MTPLayer, Step
<1>6. ActiveUpTo(0)'
  BY <1>3, <1>4, <1>5, NoneActive
<1>7. MemoryInv' /\ DraftingInv' /\ BanksInv'
  BY <1>4, <1>6, MemoryAssumption DEF MemoryInv, DraftingInv, BanksInv
<1> QED
  BY <1>1, <1>3, <1>7 DEF IInv

\* The layers get their slots in order, each adding its share of the bank.
LEMMA ActivateStep == ASSUME IInv, NEW l \in TargetLayers, Activate(l) PROVE IInv'
<1> USE DEF Activate
<1>1. PICK k \in 0..NTarget : ActiveUpTo(k)
  BY DEF IInv, MemoryInv
<1>2. k \in Nat /\ l \in 1..NTarget /\ NTarget \in Nat /\ l \in Layers
  BY <1>1, MemoryAssumption DEF TargetLayers, Layers
<1>3. l = k + 1
  <2>1. ~(l <= k)
    BY <1>1 DEF ActiveUpTo
  <2>2. ASSUME l > k + 1 PROVE FALSE
    <3>1. k + 1 \in 1..(l - 1) /\ k + 1 \in TargetLayers /\ ~(k + 1 <= k)
      BY <1>2, <2>2 DEF TargetLayers
    <3> QED
      BY <1>1, <3>1 DEF ActiveUpTo
  <2> QED
    BY <1>2, <2>1, <2>2
<1>4. SlotBytes[l] \in Nat /\ BankOf[l] = BankOf[k] + SlotBytes[l] /\ BankOf[k] \in Nat
  BY <1>2, <1>3, BankIsSum, MemoryAssumption
<1>5. /\ capacity \in Nat /\ memory \in Nat /\ Bytes \in Nat /\ Drafter \in Nat
      /\ memory = Bytes + Drafter + capacity * BankOf[k]
  BY <1>1, Sizes DEF IInv, TypeOK, ActiveUpTo
<1>6. memory' \in Nat /\ memory' = Bytes + Drafter + capacity * BankOf[l]
  BY <1>4, <1>5 DEF Uses
<1>7. peak' \in Nat
  BY <1>6 DEF Uses, IInv, TypeOK
<1>8. TypeOK'
  BY <1>6, <1>7 DEF IInv, TypeOK
<1>9. \A m \in TargetLayers : banks'[m] = "active" <=> m <= l
  BY <1>1, <1>2, <1>3 DEF ActiveUpTo, IInv, TypeOK, TargetLayers, Layers
<1>10. Bytes' = Bytes /\ Drafter' = Drafter
  BY DEF Bytes, Drafter
<1>11. ActiveUpTo(l)'
  BY <1>6, <1>9, <1>10 DEF ActiveUpTo
<1>12. MemoryInv'
  BY <1>2, <1>11 DEF MemoryInv
<1>13. PlanInv' /\ FailureInv' /\ FailedLoadReleasesTarget'
  BY PlanStands DEF IInv, FailureInv, FailedLoadReleasesTarget
<1>14. DraftingInv' /\ BanksInv'
  BY DEF DraftingInv, BanksInv
<1> QED
  BY <1>8, <1>12, <1>13, <1>14 DEF IInv

\* At the end of load all slots are there, and no others.
LEMMA AllActive ==
    ASSUME IInv, NEW more, Loaded(more)
    PROVE  memory = Bytes + Drafter + capacity * Bank
<1>1. PICK k \in 0..NTarget : ActiveUpTo(k)
  BY DEF IInv, MemoryInv, Loaded
<1>2. NTarget \in TargetLayers /\ NTarget \in Nat
  BY MemoryAssumption DEF TargetLayers
<1>3. NTarget <= k
  BY <1>1, <1>2 DEF ActiveUpTo, Loaded, Active
<1>4. k = NTarget
  BY <1>1, <1>2, <1>3
<1> QED
  BY <1>1, <1>4 DEF ActiveUpTo, Bank

LEMMA ReadyStep == ASSUME IInv, NEW more \in Others, Ready(more) PROVE IInv'
<1> USE DEF Ready, Loaded
<1>1. TypeOK'
  BY DEF IInv, TypeOK
<1>2. PlanInv'
  BY PlanStands
<1>3. MemoryInv' /\ DraftingInv' /\ BanksInv' /\ FailureInv' /\ FailedLoadReleasesTarget'
  BY DEF IInv, MemoryInv, DraftingInv, BanksInv, FailureInv, FailedLoadReleasesTarget
<1> QED
  BY <1>1, <1>2, <1>3 DEF IInv

LEMMA TooMuchStep == ASSUME IInv, NEW more \in Others, TooMuch(more) PROVE IInv'
<1> USE DEF TooMuch
<1>1. memory = Bytes + Drafter + capacity * Bank
  BY AllActive
<1> USE DEF Loaded
<1>2. TypeOK'
  BY DEF IInv, TypeOK
<1>3. PlanInv'
  BY PlanStands
<1>4. MemoryInv' /\ DraftingInv' /\ BanksInv' /\ FailedLoadReleasesTarget'
  BY DEF MemoryInv, DraftingInv, BanksInv, FailedLoadReleasesTarget
<1>5. FailureInv'
  BY <1>1 DEF FailureInv, Bytes, Drafter, Effective
<1> QED
  BY <1>2, <1>3, <1>4, <1>5 DEF IInv

LEMMA FailStep == ASSUME IInv, Fail PROVE IInv'
<1> USE DEF Fail
<1>1. TypeOK'
  BY DEF IInv, TypeOK
<1>2. PlanInv'
  BY PlanStands
<1>3. MemoryInv' /\ DraftingInv' /\ BanksInv' /\ FailureInv' /\ FailedLoadReleasesTarget'
  BY DEF MemoryInv, DraftingInv, BanksInv, FailureInv, FailedLoadReleasesTarget
<1> QED
  BY <1>1, <1>2, <1>3 DEF IInv

\* After closing some layers, none of them is active.
LEMMA ClosedAreInactive ==
    ASSUME TypeOK, NEW layers \in SUBSET Layers
    PROVE  /\ ClosedBanks(layers) \in [Layers -> {"none", "deferred", "active", "closed"}]
           /\ \A l \in layers : ClosedBanks(layers)[l] # "active"
BY DEF TypeOK, ClosedBanks

LEMMA ShutPools ==
    ASSUME TypeOK, pools' = [target |-> Shut("target"), mtp |-> Shut("mtp")]
    PROVE  /\ pools' \in [{"target", "mtp"} -> {"none", "open", "closed"}]
           /\ \A p \in DOMAIN pools' : pools'[p] # "open"
<1>1. Shut("target") \in {"none", "closed"} /\ Shut("mtp") \in {"none", "closed"}
  BY DEF TypeOK, Shut
<1>2. DOMAIN pools' = {"target", "mtp"}
  OBVIOUS
<1>3. pools'["target"] = Shut("target") /\ pools'["mtp"] = Shut("mtp")
  OBVIOUS
<1>4. pools' = [p \in {"target", "mtp"} |-> pools'[p]]
  OBVIOUS
<1> QED
  BY <1>1, <1>2, <1>3, <1>4

LEMMA CleanupStep == ASSUME IInv, Cleanup PROVE IInv'
<1> USE DEF Cleanup
<1>1. TargetLayers \in SUBSET Layers /\ Layers \ TargetLayers \subseteq {MTPLayer}
  BY DEF Layers
<1>2. /\ banks' \in [Layers -> {"none", "deferred", "active", "closed"}]
      /\ \A l \in TargetLayers : banks'[l] # "active"
      /\ pools' \in [{"target", "mtp"} -> {"none", "open", "closed"}]
      /\ \A p \in DOMAIN pools' : pools'[p] # "open"
  BY <1>1, ClosedAreInactive, ShutPools DEF IInv
<1>3. TypeOK'
  BY <1>2 DEF IInv, TypeOK
<1>4. PlanInv'
  BY PlanStands
<1>5. MemoryInv' /\ DraftingInv' /\ BanksInv'
  BY DEF MemoryInv, DraftingInv, BanksInv
<1>6. FailureInv'
  BY DEF IInv, FailureInv, Bytes, Drafter, Effective
<1>7. FailedLoadReleasesTarget'
  BY <1>1, <1>2 DEF FailedLoadReleasesTarget, Active
<1> QED
  BY <1>3, <1>4, <1>5, <1>6, <1>7 DEF IInv

LEMMA CloseStep == ASSUME IInv, Close PROVE IInv'
<1> USE DEF Close
<1>1. /\ banks' \in [Layers -> {"none", "deferred", "active", "closed"}]
      /\ \A l \in Layers : banks'[l] # "active"
      /\ pools' \in [{"target", "mtp"} -> {"none", "open", "closed"}]
      /\ \A p \in DOMAIN pools' : pools'[p] # "open"
  BY ClosedAreInactive, ShutPools DEF IInv
<1>2. TypeOK'
  BY <1>1 DEF IInv, TypeOK
<1>3. PlanInv'
  BY PlanStands
<1>4. MemoryInv' /\ DraftingInv' /\ BanksInv' /\ FailureInv'
  BY DEF IInv, MemoryInv, DraftingInv, BanksInv, FailureInv
<1>5. FailedLoadReleasesTarget'
  BY <1>1 DEF FailedLoadReleasesTarget, Active
<1> QED
  BY <1>2, <1>3, <1>4, <1>5 DEF IInv

LEMMA StutterStep == ASSUME IInv, UNCHANGED vars PROVE IInv'
<1> USE DEF vars
<1>1. TypeOK' /\ PlanInv'
  BY PlanStands DEF IInv, TypeOK
<1>2. MemoryInv'
  BY DEF IInv, MemoryInv, ActiveUpTo, Bytes, Drafter
<1>3. DraftingInv' /\ BanksInv' /\ FailureInv' /\ FailedLoadReleasesTarget'
  BY DEF IInv, DraftingInv, BanksInv, FailureInv, FailedLoadReleasesTarget, Active,
     Bytes, Drafter, Effective
<1> QED
  BY <1>1, <1>2, <1>3 DEF IInv

-----------------------------------------------------------------------------
(* Theorems                                                                 *)

LEMMA NextIInv == IInv /\ [Next]_vars => IInv'
<1> SUFFICES ASSUME IInv, [Next]_vars PROVE IInv'
  OBVIOUS
<1>1. CASE Resolve \/ Refuse
  BY <1>1, ResolveStep, RefuseStep
<1>2. CASE OpenPool \/ BuildModel \/ LoadResident \/ Quantize
  BY <1>2, OpenPoolStep, BuildModelStep, LoadResidentStep, QuantizeStep
<1>3. CASE OpenMTPPool \/ BuildMTP \/ LoadMTP \/ QuantizeMTP \/ ActivateMTP
  BY <1>3, OpenMTPPoolStep, BuildMTPStep, LoadMTPStep, QuantizeMTPStep, ActivateMTPStep
<1>4. ASSUME NEW l \in TargetLayers, Activate(l) PROVE IInv'
  BY <1>4, ActivateStep
<1>5. ASSUME NEW more \in Others, Ready(more) \/ TooMuch(more) PROVE IInv'
  BY <1>5, ReadyStep, TooMuchStep
<1>6. CASE Fail \/ Cleanup \/ Close
  BY <1>6, FailStep, CleanupStep, CloseStep
<1>7. CASE UNCHANGED vars
  BY <1>7, StutterStep
<1> QED
  BY <1>1, <1>2, <1>3, <1>4, <1>5, <1>6, <1>7 DEF Next

\* The inductive invariant: the plan, and the arrays in use at every step of load.
THEOREM Invariance == Spec => []IInv
BY InitIInv, NextIInv, PTL DEF Spec

\* The variables keep their types; in particular no conversion frees more than
\* was loaded.
THEOREM TypeCorrect == Spec => []TypeOK
<1>1. IInv => TypeOK
  BY DEF IInv
<1> QED
  BY <1>1, Invariance, PTL

\* A load that raises leaves no pool open and no bank of the target wired.
THEOREM ReleaseCorrect == Spec => []FailedLoadReleasesTarget
<1>1. IInv => FailedLoadReleasesTarget
  BY DEF IInv
<1> QED
  BY <1>1, Invariance, PTL

\* The plan is within the budget, and no slot per layer could be added.
THEOREM PlanCorrect == Spec => []PlanIsLargest
<1>1. IInv => PlanIsLargest
  <2> SUFFICES ASSUME IInv, capacity > 0 PROVE PlanIsLargest
    BY DEF PlanIsLargest
  <2>1. /\ capacity \in Nat /\ Bytes \in Nat /\ Effective \in Int /\ Reserved \in Nat
        /\ Available = Effective - Bytes - Reserved /\ Available \in Int
    BY Sizes DEF IInv
  <2>2. /\ capacity >= TopK /\ capacity * Bank <= Available
        /\ capacity < NExperts => Available < (capacity + 1) * Bank
    BY DEF IInv, PlanInv
  <2>3. Bank \in Nat /\ capacity * Bank \in Nat /\ (capacity + 1) * Bank = capacity * Bank + Bank
    BY <2>1, BankIsPositive
  <2>4. Planned = Bytes + Reserved + capacity * Bank
    BY DEF Planned, Bytes
  <2> QED
    BY <2>1, <2>2, <2>3, <2>4 DEF PlanIsLargest
<1> QED
  BY <1>1, Invariance, PTL

\* The arrays of a loaded runtime keep to the plan: only what MLX holds beyond
\* them, and more than the reserve, makes the check of the memory in use fail.
THEOREM CheckCorrect == Spec => []CheckFailsBeyondReserve
<1>1. IInv => CheckFailsBeyondReserve
  <2> SUFFICES ASSUME IInv, failure = "memory" PROVE other > RuntimeReserve
    BY DEF CheckFailsBeyondReserve
  <2>1. /\ capacity \in Nat /\ Bytes \in Nat /\ Effective \in Int /\ Reserved \in Nat
        /\ Available = Effective - Bytes - Reserved
        /\ Drafter \in Nat /\ RuntimeReserve \in Nat /\ Drafter + RuntimeReserve <= Reserved
    BY Sizes DEF IInv
  <2>2. Bank \in Nat /\ capacity * Bank \in Nat
    BY <2>1, BankIsPositive
  <2>3. /\ memory = Bytes + Drafter + capacity * Bank /\ memory + other > Effective
        /\ capacity * Bank <= Available
    BY DEF IInv, FailureInv, PlanInv
  <2>4. other \in Nat
    BY MemoryAssumption DEF IInv, TypeOK
  <2> QED
    BY <2>1, <2>2, <2>3, <2>4
<1> QED
  BY <1>1, Invariance, PTL

=============================================================================
